-------------------------- MODULE SSHBridge_proofs --------------------------
(* Proofs about SSHBridge: types, the names of file mappings, and that it   *)
(* implements SSHService.                                                   *)
EXTENDS SSHBridge, FiniteSetTheorems, TLAPS

\* A request is in hand.
Asking == {"lock", "find", "map", "wait", "reply"}
Early == {"none", "queued", "shake"}

\* Where a connection is before its handler runs.
ConnInv(c) ==
    /\ pc[c] = "none" <=> client[c] = "none"
    /\ pc[c] # "none" => via[c] \in Connectors
    /\ pc[c] \in {"none", "queued"} => round[c] = 0
    /\ pc[c] = "shake" => shaking[via[c]] = c /\ round[c] < Rounds[via[c]]

\* Who is in a backlog is there once, and whom a loop shakes hands with is its own.
LoopInv(k) ==
    /\ \A i \in 1..Len(backlog[k]) :
          LET c == backlog[k][i] IN
          /\ pc[c] = "queued" /\ via[c] = k
          /\ \A j \in 1..Len(backlog[k]) : backlog[k][j] = c => i = j
    /\ shaking[k] # NoOne => pc[shaking[k]] = "shake" /\ via[shaking[k]] = k

\* A request behind i items is the one behind the i-th before; a client says
\* nothing else before its handshake is over, and only requests after it until
\* it falls silent.
InboxInv(c) ==
    /\ \A i \in 1..Len(inbox[c]) : inbox[c][i] = "request" => taken[c] + i <= asked[c]
    /\ taken[c] <= asked[c]
    /\ client[c] = "none" => inbox[c] = << >>
    /\ client[c] = "open" =>
          \/ round[c] < Rounds[via[c]] /\ Len(inbox[c]) <= 1
          \/ round[c] = Rounds[via[c]] /\ taken[c] + Len(inbox[c]) <= asked[c]

\* What was answered is what was taken, but for the request in hand.
CountInv(c) ==
    /\ pc[c] \in Early => taken[c] = 0
    /\ pc[c] \in Asking => Len(replies[c]) + 1 = taken[c]
    /\ pc[c] \in Early \cup {"read"} => Len(replies[c]) = taken[c]
    /\ pc[c] = "reply" => resp[c] \in Reply /\ resp[c].of = <<c, taken[c]>>

\* Names are given out once, and their mappings belong to those who wait.
NameInv ==
    /\ NamesApart
    /\ \A c \in Conns : name[c] <= mapCounter /\ (name[c] # 0 <=> pc[c] \in {"map", "wait"})
    /\ \A m \in maps : \E c \in Conns :
             pc[c] = "wait" /\ m = [name |-> name[c], of |-> <<c, taken[c]>>]

BridgeInv ==
    /\ TypeOK
    /\ \A c \in Conns : ConnInv(c) /\ InboxInv(c) /\ CountInv(c)
    /\ \A k \in Connectors : LoopInv(k)
    /\ NameInv

-----------------------------------------------------------------------------
(* What the steps do, connection by connection.                             *)

LEMMA RoundsIn == \A k \in Connectors : Rounds[k] \in 0..2
  BY ConnectorsAssumption DEF Rounds, Kinds

LEMMA TailIs ==
  ASSUME NEW S, NEW s \in Seq(S), s # << >>
  PROVE  /\ Head(s) \in S /\ Tail(s) \in Seq(S) /\ Len(s) \in Nat \ {0}
         /\ Head(s) = s[1] /\ Len(Tail(s)) = Len(s) - 1
         /\ \A i \in 1..Len(Tail(s)) : i + 1 \in 1..Len(s) /\ Tail(s)[i] = s[i + 1]
  OBVIOUS

LEMMA AppendIs ==
  ASSUME NEW S, NEW s \in Seq(S), NEW e \in S
  PROVE  /\ Append(s, e) \in Seq(S) /\ Len(Append(s, e)) = Len(s) + 1
         /\ \A i \in 1..Len(s) : Append(s, e)[i] = s[i]
         /\ Append(s, e)[Len(s) + 1] = e
  OBVIOUS

\* A goroutine of serveSSH, and Pageant, move their own connection.
LEMMA HandlerMoves ==
  ASSUME TypeOK, NEW d \in Conns, Handler(d) \/ Pageant(d)
  PROVE  /\ UNCHANGED <<locked, listening, backlog, shaking, round, via, client, asked>>
         /\ pc[d] \in Asking \cup {"read"} /\ pc'[d] \in Asking \cup {"read", "done"}
         /\ pc' \in [Conns -> PCs]
         /\ \A c \in Conns \ {d} :
               /\ pc'[c] = pc[c] /\ taken'[c] = taken[c] /\ name'[c] = name[c]
               /\ resp'[c] = resp[c] /\ inbox'[c] = inbox[c] /\ replies'[c] = replies[c]
<1> USE DEF TypeOK, PCs, Goto, Put, loopVars, connVars, mapVars, peerVars, Asking
<1>1. CASE ReadRequest(d) BY <1>1 DEF ReadRequest, Reads, ReadFails
<1>2. CASE CheckLock(d) BY <1>2 DEF CheckLock, Failure
<1>3. CASE FindPageant(d) BY <1>3 DEF FindPageant, TakeName, Failure
<1>4. CASE MapRequest(d) BY <1>4 DEF MapRequest, Failure
<1>5. CASE WriteReply(d) BY <1>5 DEF WriteReply
<1>6. CASE SendFails(d) BY <1>6 DEF SendFails, Failure
<1>7. CASE PageantAnswers(d) BY <1>7 DEF PageantAnswers
<1> QED BY <1>1, <1>2, <1>3, <1>4, <1>5, <1>6, <1>7 DEF Handler, Pageant

\* A handshake goes on, or is over.
LEMMA ShakeMoves ==
  ASSUME TypeOK, NEW k \in Connectors, NEW d \in Conns, ConnInv(d), LoopInv(k),
         Shake(k, d) \/ ShakeFails(k, d)
  PROVE  /\ UNCHANGED <<locked, listening, backlog, taken, name, resp, mapVars, via, client,
                        asked, replies>>
         /\ shaking[k] = d /\ pc[d] = "shake" /\ via[d] = k /\ round[d] < Rounds[k]
         /\ \/ pc'[d] = "read" /\ shaking'[k] = NoOne
            \/ pc'[d] = "shake" /\ shaking'[k] = d /\ round'[d] < Rounds[k]
         /\ round' \in [Conns -> 0..2] /\ pc' \in [Conns -> PCs]
         /\ shaking' \in [Connectors -> Conns \cup {NoOne}]
         /\ \A c \in Conns \ {d} : pc'[c] = pc[c] /\ round'[c] = round[c] /\ inbox'[c] = inbox[c]
         /\ \A l \in Connectors \ {k} : shaking'[l] = shaking[l]
<1>1. shaking[k] = d /\ d # NoOne
  BY ConnsAssumption DEF Shake, ShakeFails
<1>2. pc[d] = "shake" /\ via[d] = k /\ round[d] < Rounds[k]
  BY <1>1 DEF ConnInv, LoopInv
<1>3. round[d] \in 0..2 /\ Rounds[k] \in 0..2
  BY RoundsIn DEF TypeOK
<1>4. round[d] + 1 \in 0..2 /\ (round[d] + 1 # Rounds[k] => round[d] + 1 < Rounds[k])
  BY <1>2, <1>3
<1> USE DEF TypeOK, PCs, Goto, Put, mapVars
<1>5. CASE Shake(k, d)
  <2>1. round' = [round EXCEPT ![d] = round[d] + 1] /\ round' \in [Conns -> 0..2]
    BY <1>4, <1>5 DEF Shake
  <2>2. CASE round[d] + 1 = Rounds[k]
    <3>1. Goto(d, "read") /\ shaking' = Put(shaking, k, NoOne)
      BY <1>5, <2>2 DEF Shake, GoOn, Spawn
    <3>2. /\ UNCHANGED <<locked, listening, backlog, taken, name, resp, mapVars, via, client,
                         asked, replies>>
          /\ \A c \in Conns \ {d} : inbox'[c] = inbox[c]
      BY <1>5 DEF Shake, Reads
    <3>3. pc' \in [Conns -> PCs] /\ shaking' \in [Connectors -> Conns \cup {NoOne}]
      BY <3>1
    <3>4. \A c \in Conns \ {d} : pc'[c] = pc[c] /\ round'[c] = round[c]
      BY <2>1, <3>1
    <3>5. /\ pc'[d] = "read" /\ shaking'[k] = NoOne
          /\ \A l \in Connectors \ {k} : shaking'[l] = shaking[l]
      BY <3>1
    <3> QED BY <1>1, <1>2, <2>1, <3>2, <3>3, <3>4, <3>5
  <2>3. CASE round[d] + 1 # Rounds[k]
    BY <1>1, <1>2, <1>4, <1>5, <2>1, <2>3 DEF Shake, Reads, GoOn
  <2> QED BY <2>2, <2>3
<1>6. CASE ShakeFails(k, d)
  BY <1>1, <1>2, <1>6 DEF ShakeFails, Spawn, Reads
<1> QED BY <1>5, <1>6

\* The oldest in the backlog goes to its handler or to its handshake.
LEMMA AcceptMoves ==
  ASSUME TypeOK, NEW k \in Connectors, LoopInv(k), Accept(k)
  PROVE  /\ UNCHANGED <<locked, listening, round, taken, name, resp, mapVars, peerVars>>
         /\ backlog[k] # << >> /\ backlog'[k] = Tail(backlog[k])
         /\ backlog' \in [Connectors -> Seq(Conns)]
         /\ shaking' \in [Connectors -> Conns \cup {NoOne}]
         /\ \A l \in Connectors \ {k} : shaking'[l] = shaking[l] /\ backlog'[l] = backlog[l]
         /\ shaking[k] = NoOne /\ pc' \in [Conns -> PCs]
         /\ LET d == Head(backlog[k]) IN
            /\ d \in Conns /\ pc[d] = "queued" /\ via[d] = k
            /\ \/ Rounds[k] = 0 /\ pc'[d] = "read" /\ shaking'[k] = NoOne
               \/ Rounds[k] # 0 /\ pc'[d] = "shake" /\ shaking'[k] = d
            /\ \A c \in Conns \ {d} : pc'[c] = pc[c]
<1> DEFINE d == Head(backlog[k])
<1>1. backlog[k] \in Seq(Conns) /\ backlog[k] # << >>
  BY DEF TypeOK, Accept
<1>2. d \in Conns /\ Tail(backlog[k]) \in Seq(Conns)
         /\ d = backlog[k][1] /\ 1 \in 1..Len(backlog[k])
  BY <1>1, TailIs
<1>3. pc[d] = "queued" /\ via[d] = k
  BY <1>2 DEF LoopInv
<1>4. pc' = [pc EXCEPT ![d] = IF Rounds[k] = 0 THEN "read" ELSE "shake"]
  BY DEF Accept, Goto
<1>5. shaking' = IF Rounds[k] = 0 THEN shaking ELSE [shaking EXCEPT ![k] = d]
  BY DEF Accept, Put
<1>6. backlog' = [backlog EXCEPT ![k] = Tail(backlog[k])] /\ shaking[k] = NoOne
  BY DEF Accept, Put
<1>7. UNCHANGED <<locked, listening, round, taken, name, resp, mapVars, peerVars>>
  BY DEF Accept
<1> HIDE DEF d
<1> QED BY <1>1, <1>2, <1>3, <1>4, <1>5, <1>6, <1>7 DEF TypeOK, PCs, d

\* A client that has connected speaks or goes.
LEMMA ClientMoves ==
  ASSUME TypeOK, NEW d \in Conns, ClientGreets(d) \/ ClientAsks(d) \/ ClientCloses(d)
  PROVE  /\ UNCHANGED <<locked, loopVars, connVars, mapVars, via, replies>>
         /\ client[d] \in {"open", "mute"} /\ client'[d] \in {"open", "mute", "closed"}
         /\ client' \in [Conns -> {"none", "open", "mute", "closed"}]
         /\ \A c \in Conns \ {d} :
               client'[c] = client[c] /\ inbox'[c] = inbox[c] /\ asked'[c] = asked[c]
<1> USE DEF TypeOK, Put
<1>1. CASE ClientGreets(d) BY <1>1 DEF ClientGreets, Says, Talking
<1>2. CASE ClientAsks(d) BY <1>2 DEF ClientAsks, Says, Talking
<1>3. CASE ClientCloses(d) BY <1>3 DEF ClientCloses
<1> QED BY <1>1, <1>2, <1>3

LEMMA ConnectMoves ==
  ASSUME TypeOK, NEW d \in Conns, NEW k \in Connectors, Connect(d, k)
  PROVE  /\ UNCHANGED <<locked, listening, shaking, round, taken, name, resp, mapVars,
                        inbox, asked, replies>>
         /\ client[d] = "none" /\ client'[d] = "open" /\ pc'[d] = "queued" /\ via'[d] = k
         /\ backlog'[k] = Append(backlog[k], d)
         /\ pc' \in [Conns -> PCs] /\ via' \in [Conns -> Connectors \cup {NoOne}]
         /\ client' \in [Conns -> {"none", "open", "mute", "closed"}]
         /\ backlog' \in [Connectors -> Seq(Conns)]
         /\ \A c \in Conns \ {d} : pc'[c] = pc[c] /\ via'[c] = via[c] /\ client'[c] = client[c]
         /\ \A l \in Connectors \ {k} : backlog'[l] = backlog[l]
<1>1. Append(backlog[k], d) \in Seq(Conns)
  BY DEF TypeOK
<1> QED BY <1>1 DEF TypeOK, PCs, Connect, Goto, Put

LEMMA CloseMoves ==
  ASSUME TypeOK, NEW k \in Connectors, CloseListener(k)
  PROVE  /\ UNCHANGED <<locked, shaking, round, taken, name, resp, mapVars, peerVars>>
         /\ backlog'[k] = << >> /\ backlog' \in [Connectors -> Seq(Conns)]
         /\ pc' \in [Conns -> PCs] /\ listening' \in [Connectors -> BOOLEAN]
         /\ \A c \in Conns : pc'[c] = IF pc[c] = "queued" /\ via[c] = k THEN "done" ELSE pc[c]
         /\ \A l \in Connectors \ {k} : backlog'[l] = backlog[l]
  BY DEF TypeOK, PCs, CloseListener, Put

-----------------------------------------------------------------------------
(* The invariant, part by part.                                             *)

LEMMA ConnStep ==
  ASSUME BridgeInv, Next, NEW c \in Conns
  PROVE  ConnInv(c)'
<1>0. TypeOK /\ ConnInv(c) /\ (\A d \in Conns : ConnInv(d)) /\ (\A k \in Connectors : LoopInv(k))
  BY DEF BridgeInv
<1>1. ASSUME NEW d \in Conns, Handler(d) \/ Pageant(d) PROVE ConnInv(c)'
  BY <1>0, <1>1, HandlerMoves DEF ConnInv, Asking
<1>2. ASSUME NEW k \in Connectors, NEW d \in Conns, Shake(k, d) \/ ShakeFails(k, d)
      PROVE  ConnInv(c)'
  <2>1. CASE c = d
    BY <1>0, <1>2, <2>1, ShakeMoves DEF ConnInv
  <2>2. CASE c # d
    <3>1. pc[c] = "shake" => via[c] # k
      BY <1>0, <1>2, <2>2, ShakeMoves DEF ConnInv
    <3> QED BY <1>0, <1>2, <2>2, <3>1, ShakeMoves DEF ConnInv
  <2> QED BY <2>1, <2>2
<1>3. ASSUME NEW k \in Connectors, Accept(k) PROVE ConnInv(c)'
  <2> DEFINE d == Head(backlog[k])
  <2>1. CASE c = d
    <3>1. round[c] = 0 /\ pc[c] = "queued" /\ via[c] = k /\ client[c] # "none"
      BY <1>0, <1>3, <2>1, AcceptMoves DEF ConnInv
    <3>2. Rounds[k] # 0 => 0 < Rounds[k]
      BY RoundsIn
    <3> QED BY <1>0, <1>3, <2>1, <3>1, <3>2, AcceptMoves DEF ConnInv, peerVars
  <2>2. CASE c # d
    <3>1. pc[c] = "shake" => via[c] # k
      BY <1>0, <1>3, AcceptMoves, ConnsAssumption DEF ConnInv
    <3> QED BY <1>0, <1>3, <2>2, <3>1, AcceptMoves DEF ConnInv, peerVars
  <2> QED BY <2>1, <2>2
<1>4. ASSUME NEW k \in Connectors, CloseListener(k) PROVE ConnInv(c)'
  BY <1>0, <1>4, CloseMoves DEF ConnInv, peerVars
<1>5. ASSUME NEW d \in Conns, NEW k \in Connectors, Connect(d, k) PROVE ConnInv(c)'
  BY <1>0, <1>5, ConnectMoves DEF ConnInv
<1>6. ASSUME NEW d \in Conns, ClientGreets(d) \/ ClientAsks(d) \/ ClientCloses(d)
      PROVE  ConnInv(c)'
  BY <1>0, <1>6, ClientMoves DEF ConnInv, connVars, loopVars
<1>7. CASE SessionChange
  BY <1>0, <1>7 DEF SessionChange, ConnInv, connVars, loopVars, peerVars
<1> QED BY <1>1, <1>2, <1>3, <1>4, <1>5, <1>6, <1>7 DEF Next, Loop, Outside

LEMMA LoopStep ==
  ASSUME BridgeInv, Next, NEW l \in Connectors
  PROVE  LoopInv(l)'
<1>0. /\ TypeOK /\ LoopInv(l)
      /\ (\A d \in Conns : ConnInv(d)) /\ (\A k \in Connectors : LoopInv(k))
  BY DEF BridgeInv
<1>00. /\ backlog[l] \in Seq(Conns) /\ shaking[l] \in Conns \cup {NoOne}
       /\ \A i \in 1..Len(backlog[l]) : backlog[l][i] \in Conns
  BY <1>0 DEF TypeOK
<1>1. ASSUME NEW d \in Conns, Handler(d) \/ Pageant(d) PROVE LoopInv(l)'
  BY <1>0, <1>00, <1>1, HandlerMoves DEF LoopInv, Asking
<1>2. ASSUME NEW k \in Connectors, NEW d \in Conns, Shake(k, d) \/ ShakeFails(k, d)
      PROVE  LoopInv(l)'
  <2>1. \A i \in 1..Len(backlog[l]) : backlog[l][i] # d
    BY <1>0, <1>2, ShakeMoves DEF LoopInv
  <2>2. l # k => shaking[l] # d
    BY <1>0, <1>2, ShakeMoves, ConnsAssumption DEF LoopInv
  <2> QED BY <1>0, <1>00, <1>2, <2>1, <2>2, ShakeMoves DEF LoopInv
<1>3. ASSUME NEW k \in Connectors, Accept(k) PROVE LoopInv(l)'
  <2> DEFINE d == Head(backlog[k])
  <2>1. pc[d] = "queued" /\ d \in Conns /\ via[d] = k /\ \A c \in Conns \ {d} : pc'[c] = pc[c]
    BY <1>0, <1>3, AcceptMoves
  <2>2. via' = via
    BY <1>0, <1>3, AcceptMoves DEF peerVars
  <2>3. CASE l = k
    <3>1. /\ d = backlog[l][1] /\ Len(Tail(backlog[l])) = Len(backlog[l]) - 1
          /\ \A i \in 1..Len(Tail(backlog[l])) :
                i + 1 \in 1..Len(backlog[l]) /\ Tail(backlog[l])[i] = backlog[l][i + 1]
          /\ 1 \in 1..Len(backlog[l]) /\ backlog'[l] = Tail(backlog[l])
      BY <1>0, <1>00, <1>3, <2>3, AcceptMoves, TailIs
    <3>2. ASSUME NEW i \in 1..Len(backlog'[l])
          PROVE  /\ pc'[backlog'[l][i]] = "queued" /\ via'[backlog'[l][i]] = l
                 /\ \A j \in 1..Len(backlog'[l]) : backlog'[l][j] = backlog'[l][i] => i = j
      <4>1. i + 1 \in 1..Len(backlog[l]) /\ backlog'[l][i] = backlog[l][i + 1] /\ i + 1 # 1
        BY <3>1
      <4>2. backlog[l][i + 1] # d /\ backlog[l][i + 1] \in Conns
        BY <1>0, <1>00, <3>1, <4>1 DEF LoopInv
      <4>3. ASSUME NEW j \in 1..Len(backlog'[l]), backlog'[l][j] = backlog'[l][i] PROVE i = j
        <5>1. j + 1 \in 1..Len(backlog[l]) /\ backlog[l][j + 1] = backlog[l][i + 1]
          BY <3>1, <4>1, <4>3
        <5>2. i + 1 = j + 1
          BY <1>0, <4>1, <5>1 DEF LoopInv
        <5> QED BY <5>2
      <4> QED BY <1>0, <2>1, <2>2, <4>1, <4>2, <4>3 DEF LoopInv
    <3>3. shaking'[l] # NoOne => pc'[shaking'[l]] = "shake" /\ via'[shaking'[l]] = l
      BY <1>0, <1>3, <2>1, <2>2, <2>3, AcceptMoves
    <3> QED BY <3>2, <3>3 DEF LoopInv
  <2>4. CASE l # k
    <3>1. \A i \in 1..Len(backlog[l]) : backlog[l][i] # d
      BY <1>0, <2>1, <2>4 DEF LoopInv
    <3>2. shaking[l] # d
      BY <1>0, <2>1, ConnsAssumption DEF LoopInv
    <3>3. backlog'[l] = backlog[l] /\ shaking'[l] = shaking[l]
      BY <1>0, <1>3, <2>4, AcceptMoves
    <3> HIDE DEF d
    <3> QED BY <1>0, <1>00, <2>1, <2>2, <3>1, <3>2, <3>3 DEF LoopInv
  <2> QED BY <2>3, <2>4
<1>4. ASSUME NEW k \in Connectors, CloseListener(k) PROVE LoopInv(l)'
  <2>1. /\ shaking' = shaking /\ via' = via /\ (l # k => backlog'[l] = backlog[l])
        /\ l = k => backlog'[l] = << >>
        /\ \A c \in Conns : pc'[c] = IF pc[c] = "queued" /\ via[c] = k THEN "done" ELSE pc[c]
    BY <1>0, <1>4, CloseMoves DEF peerVars
  <2> QED BY <1>0, <1>00, <2>1 DEF LoopInv
<1>5. ASSUME NEW d \in Conns, NEW k \in Connectors, Connect(d, k) PROVE LoopInv(l)'
  <2>1. pc[d] = "none" /\ pc'[d] = "queued" /\ via'[d] = k
        /\ \A c \in Conns \ {d} : pc'[c] = pc[c] /\ via'[c] = via[c]
    BY <1>0, <1>5, ConnectMoves DEF ConnInv
  <2>2. shaking' = shaking /\ (l # k => backlog'[l] = backlog[l])
        /\ (l = k => backlog'[l] = Append(backlog[l], d))
    BY <1>0, <1>5, ConnectMoves
  <2>3. \A i \in 1..Len(backlog[l]) : backlog[l][i] # d
    BY <1>0, <2>1 DEF LoopInv
  <2>4. shaking'[l] # NoOne => pc'[shaking'[l]] = "shake" /\ via'[shaking'[l]] = l
    BY <1>0, <1>00, <2>1, <2>2 DEF LoopInv
  <2>5. CASE l # k
    BY <1>0, <1>00, <2>1, <2>2, <2>3, <2>4, <2>5 DEF LoopInv
  <2>6. CASE l = k
    <3>1. /\ Len(backlog'[l]) = Len(backlog[l]) + 1 /\ Len(backlog[l]) \in Nat
          /\ \A i \in 1..Len(backlog[l]) : backlog'[l][i] = backlog[l][i]
          /\ backlog'[l][Len(backlog[l]) + 1] = d
      BY <1>00, <2>2, <2>6, AppendIs
    <3>2. ASSUME NEW i \in 1..Len(backlog'[l])
          PROVE  /\ pc'[backlog'[l][i]] = "queued" /\ via'[backlog'[l][i]] = l
                 /\ \A j \in 1..Len(backlog'[l]) : backlog'[l][j] = backlog'[l][i] => i = j
      <4>1. \A j \in 1..Len(backlog'[l]) : j \in 1..Len(backlog[l]) \/ j = Len(backlog[l]) + 1
        BY <3>1
      <4>2. CASE i \in 1..Len(backlog[l])
        BY <1>0, <1>00, <2>1, <2>3, <3>1, <4>1, <4>2 DEF LoopInv
      <4>3. CASE i = Len(backlog[l]) + 1
        BY <2>1, <2>3, <2>6, <3>1, <4>1, <4>3
      <4> QED BY <4>1, <4>2, <4>3
    <3> QED BY <2>4, <3>2 DEF LoopInv
  <2> QED BY <2>5, <2>6
<1>6. ASSUME NEW d \in Conns, ClientGreets(d) \/ ClientAsks(d) \/ ClientCloses(d)
      PROVE  LoopInv(l)'
  BY <1>0, <1>6, ClientMoves DEF LoopInv, connVars, loopVars
<1>7. CASE SessionChange
  BY <1>0, <1>7 DEF SessionChange, LoopInv, connVars, loopVars, peerVars
<1> QED BY <1>1, <1>2, <1>3, <1>4, <1>5, <1>6, <1>7 DEF Next, Loop, Outside

\* An item was read, a request or another.
LEMMA InboxTail ==
  ASSUME TypeOK, NEW c \in Conns, InboxInv(c), inbox[c] # << >>, inbox'[c] = Tail(inbox[c]),
         asked' = asked,
         taken'[c] = taken[c] \/ (taken'[c] = taken[c] + 1 /\ Head(inbox[c]) = "request")
  PROVE  /\ \A i \in 1..Len(inbox'[c]) :
               inbox'[c][i] = "request" => taken'[c] + i <= asked'[c]
         /\ taken'[c] <= asked'[c]
         /\ Len(inbox'[c]) = Len(inbox[c]) - 1 /\ Len(inbox[c]) \in Nat
<1>1. inbox[c] \in Seq(Items) /\ taken[c] \in Nat /\ asked[c] \in Nat
  BY DEF TypeOK
<1>2. /\ Head(inbox[c]) = inbox[c][1] /\ 1 \in 1..Len(inbox[c]) /\ Len(inbox[c]) \in Nat
      /\ Len(inbox'[c]) = Len(inbox[c]) - 1
      /\ \A i \in 1..Len(inbox'[c]) : i + 1 \in 1..Len(inbox[c]) /\ inbox'[c][i] = inbox[c][i + 1]
  BY <1>1, TailIs
<1>3. taken'[c] <= asked[c] /\ taken'[c] \in {taken[c], taken[c] + 1}
  BY <1>1, <1>2 DEF InboxInv
<1>4. ASSUME NEW i \in 1..Len(inbox'[c]), inbox'[c][i] = "request"
      PROVE  taken'[c] + i <= asked[c]
  <2>1. taken[c] + (i + 1) <= asked[c]
    BY <1>2, <1>4 DEF InboxInv
  <2> QED BY <1>1, <1>2, <1>3, <2>1
<1> QED BY <1>2, <1>3, <1>4

LEMMA AtMostOne ==
  ASSUME NEW n \in Nat \ {0}, n <= 1
  PROVE  n - 1 = 0
  OBVIOUS

LEMMA LastTail ==
  ASSUME NEW S, NEW s \in Seq(S), s # << >>, Len(s) <= 1
  PROVE  Len(Tail(s)) = 0
<1>1. Len(s) \in Nat \ {0} /\ Len(Tail(s)) = Len(s) - 1
  BY TailIs
<1>2. Len(s) - 1 = 0
  BY <1>1, AtMostOne, Zenon
<1> QED BY <1>1, <1>2

LEMMA ConcatIs ==
  ASSUME NEW S, NEW s \in Seq(S), NEW t \in Seq(S)
  PROVE  /\ s \o t \in Seq(S) /\ Len(s \o t) = Len(s) + Len(t)
         /\ Len(s) \in Nat /\ Len(t) \in Nat
         /\ \A i \in 1..Len(s) : (s \o t)[i] = s[i]
         /\ \A i \in 1..Len(t) : (s \o t)[Len(s) + i] = t[i]
  OBVIOUS

LEMMA GreetingIs ==
  ASSUME NEW t \in {<<"hello">>, <<"bad">>, <<"bad", "part">>, <<"bad", "oversize">>}
  PROVE  /\ << >> \o t \in Seq(Items)
         /\ \A i \in 1..Len(<< >> \o t) : (<< >> \o t)[i] # "request"
         /\ t = <<"hello">> => Len(<< >> \o t) = 1
<1>1. t \in Seq(Items) /\ Len(t) \in Nat /\ (t = <<"hello">> => Len(t) = 1)
      /\ \A i \in 1..Len(t) : t[i] # "request"
  <2>1. CASE t = <<"hello">>
    BY <2>1 DEF Items
  <2>4. CASE t = <<"bad">>
    BY <2>4 DEF Items
  <2>2. CASE t = <<"bad", "part">>
    BY <2>2 DEF Items
  <2>3. CASE t = <<"bad", "oversize">>
    BY <2>3 DEF Items
  <2> QED BY <2>1, <2>2, <2>3, <2>4
<1>2. /\ Len(<< >> \o t) = Len(t) /\ << >> \o t \in Seq(Items)
      /\ \A i \in 1..Len(t) : (<< >> \o t)[i] = t[i]
  <2>1. << >> \in Seq(Items) /\ Len(<< >>) = 0
    OBVIOUS
  <2>2. \A i \in 1..Len(t) : (<< >> \o t)[0 + i] = t[i] /\ 0 + i = i
    BY <1>1, <2>1, ConcatIs
  <2> QED BY <1>1, <2>1, <2>2, ConcatIs
<1> QED BY <1>1, <1>2

LEMMA InboxStep ==
  ASSUME BridgeInv, Next, NEW c \in Conns
  PROVE  InboxInv(c)'
<1>0. TypeOK /\ InboxInv(c) /\ ConnInv(c) /\ \A k \in Connectors : LoopInv(k)
  BY DEF BridgeInv
<1>00. /\ inbox[c] \in Seq(Items) /\ taken[c] \in Nat /\ asked[c] \in Nat
       /\ round[c] \in Nat /\ Len(inbox[c]) \in Nat
  BY <1>0 DEF TypeOK
<1>1. ASSUME NEW d \in Conns, Handler(d) \/ Pageant(d) PROVE InboxInv(c)'
  <2>1. UNCHANGED <<client, via, round, asked>>
        /\ (c # d => inbox'[c] = inbox[c] /\ taken'[c] = taken[c])
    BY <1>0, <1>1, HandlerMoves
  <2>2. CASE c # d \/ ~ReadRequest(d)
    <3>1. inbox'[c] = inbox[c] /\ taken'[c] = taken[c]
      BY <1>1, <2>1, <2>2 DEF Handler, Pageant, CheckLock, FindPageant, MapRequest, WriteReply,
                            SendFails, PageantAnswers, peerVars
    <3> QED BY <1>0, <2>1, <3>1 DEF InboxInv
  <2>3. CASE c = d /\ ReadRequest(d)
    <3>1. \/ inbox' = inbox /\ taken' = taken
          \/ /\ inbox[c] # << >> /\ inbox'[c] = Tail(inbox[c])
             /\ taken'[c] = taken[c] \/ (taken'[c] = taken[c] + 1 /\ Head(inbox[c]) = "request")
      BY <1>0, <2>3 DEF ReadRequest, Reads, Put, TypeOK
    <3>2. CASE inbox' = inbox /\ taken' = taken
      BY <1>0, <2>1, <3>2 DEF InboxInv
    <3>3. CASE inbox[c] # << >> /\ inbox'[c] = Tail(inbox[c])
               /\ (taken'[c] = taken[c] \/ (taken'[c] = taken[c] + 1 /\ Head(inbox[c]) = "request"))
      <4>1. taken'[c] + Len(inbox'[c]) <= taken[c] + Len(inbox[c])
            /\ Len(inbox'[c]) <= Len(inbox[c])
        BY <1>0, <1>00, <2>1, <3>3, InboxTail
      <4>2. client[c] # "none"
        BY <1>0, <3>3 DEF InboxInv
      <4>3. /\ \A i \in 1..Len(inbox'[c]) :
                  inbox'[c][i] = "request" => taken'[c] + i <= asked'[c]
            /\ taken'[c] <= asked'[c]
        BY <1>0, <2>1, <3>3, InboxTail
      <4>4. client[c] = "open" =>
              \/ round[c] < Rounds[via[c]] /\ Len(inbox'[c]) <= 1
              \/ round[c] = Rounds[via[c]] /\ taken'[c] + Len(inbox'[c]) <= asked[c]
        <5>1. Len(inbox'[c]) \in Nat /\ taken'[c] \in Nat
          BY <1>0, <1>00, <2>1, <3>3, InboxTail, TailIs
        <5> QED BY <1>0, <1>00, <4>1, <5>1 DEF InboxInv
      <4> QED BY <2>1, <4>2, <4>3, <4>4 DEF InboxInv
    <3> QED BY <3>1, <3>2, <3>3
  <2> QED BY <2>2, <2>3
<1>2. ASSUME NEW k \in Connectors, NEW d \in Conns, Shake(k, d) \/ ShakeFails(k, d)
      PROVE  InboxInv(c)'
  <2>0. ConnInv(d) /\ LoopInv(k)
    BY DEF BridgeInv
  <2>1. UNCHANGED <<client, via, asked, taken>> /\ shaking[k] = d /\ via[d] = k
        /\ round[d] < Rounds[k] /\ (c # d => inbox'[c] = inbox[c] /\ round'[c] = round[c])
    BY <1>0, <1>2, <2>0, ShakeMoves
  <2>2. CASE c # d
    BY <1>0, <2>1, <2>2 DEF InboxInv
  <2>3. CASE c = d
    <3>1. round'[c] = round[c] \/ (round'[c] = round[c] + 1 /\ inbox[c] # << >>
                                   /\ inbox'[c] = Tail(inbox[c]))
      BY <1>0, <1>2, <2>3 DEF Shake, ShakeFails, Reads, Put, TypeOK
    <3>2. inbox'[c] = inbox[c] \/ (inbox[c] # << >> /\ inbox'[c] = Tail(inbox[c]))
      BY <1>0, <1>2, <2>3 DEF Shake, ShakeFails, Reads, Put, TypeOK
    <3>3. CASE inbox'[c] = inbox[c]
      <4>1. round'[c] = round[c]
        <5>1. inbox[c] # << >> => Len(Tail(inbox[c])) # Len(inbox[c])
          BY <1>00, TailIs
        <5> QED BY <3>1, <3>3, <5>1
      <4> QED BY <1>0, <2>1, <3>3, <4>1 DEF InboxInv
    <3>4. CASE inbox[c] # << >> /\ inbox'[c] = Tail(inbox[c])
      <4>1. /\ \A i \in 1..Len(inbox'[c]) :
                  inbox'[c][i] = "request" => taken'[c] + i <= asked'[c]
            /\ taken'[c] <= asked'[c] /\ Len(inbox'[c]) = Len(inbox[c]) - 1
        BY <1>0, <2>1, <3>4, InboxTail
      <4>2. client[c] # "none"
        BY <1>0, <3>4 DEF InboxInv
      <4>3. client[c] = "open" => Len(inbox'[c]) = 0
        <5>1. client[c] = "open" => Len(inbox[c]) <= 1
          BY <1>0, <1>00, <2>1, <2>3, RoundsIn DEF InboxInv
        <5> QED BY <1>00, <3>4, <5>1, LastTail
      <4>4. round'[c] < Rounds[k] \/ round'[c] = Rounds[k]
        BY <1>00, <2>1, <2>3, <3>1, RoundsIn
      <4>5. taken'[c] + 0 <= asked'[c]
        BY <1>00, <2>1, <4>1
      <4>6. client'[c] = "open" =>
              \/ round'[c] < Rounds[via'[c]] /\ Len(inbox'[c]) <= 1
              \/ round'[c] = Rounds[via'[c]] /\ taken'[c] + Len(inbox'[c]) <= asked'[c]
        BY <2>1, <2>3, <4>3, <4>4, <4>5
      <4> QED BY <2>1, <4>1, <4>2, <4>6 DEF InboxInv
    <3> QED BY <3>2, <3>3, <3>4
  <2> QED BY <2>2, <2>3
<1>3. ASSUME NEW k \in Connectors, Accept(k) \/ CloseListener(k) PROVE InboxInv(c)'
  BY <1>0, <1>3 DEF Accept, CloseListener, InboxInv, peerVars
<1>4. ASSUME NEW d \in Conns, NEW k \in Connectors, Connect(d, k) PROVE InboxInv(c)'
  <2>1. UNCHANGED <<round, taken, inbox, asked>>
           /\ (c # d => client'[c] = client[c] /\ via'[c] = via[c])
        /\ (c = d => client[c] = "none" /\ via'[c] = k)
    BY <1>0, <1>4, ConnectMoves
  <2>2. c = d => inbox[c] = << >> /\ round[c] = 0 /\ taken[c] + 0 <= asked[c]
    BY <1>0, <1>00, <2>1 DEF InboxInv, ConnInv
  <2>3. Rounds[k] = 0 \/ 0 < Rounds[k]
    BY RoundsIn
  <2>4. CASE c # d
    BY <1>0, <2>1, <2>4 DEF InboxInv
  <2>5. CASE c = d
    <3>1. Len(inbox[c]) = 0
      BY <2>2, <2>5
    <3> QED BY <1>0, <1>00, <2>1, <2>2, <2>3, <2>5, <3>1 DEF InboxInv
  <2> QED BY <2>4, <2>5
<1>5. ASSUME NEW d \in Conns, ClientGreets(d) \/ ClientAsks(d) \/ ClientCloses(d)
      PROVE  InboxInv(c)'
  <2>1. UNCHANGED <<round, taken, via>>
        /\ (c # d => client'[c] = client[c] /\ inbox'[c] = inbox[c] /\ asked'[c] = asked[c])
        /\ client'[d] # "none"
    BY <1>0, <1>5, ClientMoves DEF connVars
  <2>2. CASE c # d
    BY <1>0, <2>1, <2>2 DEF InboxInv
  <2>3. CASE c = d /\ ClientCloses(d)
    BY <1>0, <2>1, <2>3 DEF ClientCloses, InboxInv, Put, TypeOK
  <2>4. CASE c = d /\ ClientGreets(d)
    <3>1. /\ asked' = asked /\ client[c] = "open" /\ round[c] < Rounds[via[c]]
          /\ \/ inbox'[c] = << >> \o <<"hello">>
             \/ client'[c] = "mute"
                      /\ \E items \in {<<"bad">>, <<"bad", "part">>, <<"bad", "oversize">>} :
                                          inbox'[c] = << >> \o items
      BY <1>0, <2>4 DEF ClientGreets, Talking, Says, Put, TypeOK
    <3>2. \A i \in 1..Len(inbox'[c]) : inbox'[c][i] # "request"
      BY <3>1, GreetingIs
    <3>3. client'[c] = "open" => Len(inbox'[c]) <= 1
      BY <3>1, GreetingIs
    <3> QED BY <1>0, <2>1, <2>4, <3>1, <3>2, <3>3 DEF InboxInv
  <2>5. CASE c = d /\ ClientAsks(d)
    <3>1. /\ client[c] = "open" /\ round[c] = Rounds[via[c]]
          /\ \E item \in {"request", "part", "oversize"} :
                /\ inbox'[c] = inbox[c] \o <<item>>
                /\ IF item = "request" THEN asked'[c] = asked[c] + 1
                                       ELSE asked'[c] = asked[c] /\ client'[c] = "mute"
      BY <1>0, <2>5 DEF ClientAsks, Talking, Says, Put, TypeOK
    <3>2. taken[c] + Len(inbox[c]) <= asked[c]
      BY <1>0, <1>00, <3>1 DEF InboxInv
    <3>3. PICK item \in {"request", "part", "oversize"} :
                /\ inbox'[c] = inbox[c] \o <<item>>
                /\ IF item = "request" THEN asked'[c] = asked[c] + 1
                                       ELSE asked'[c] = asked[c] /\ client'[c] = "mute"
      BY <3>1
    <3>4. /\ Len(inbox'[c]) = Len(inbox[c]) + 1
          /\ \A i \in 1..Len(inbox[c]) : inbox'[c][i] = inbox[c][i]
          /\ inbox'[c][Len(inbox[c]) + 1] = item
      <4>1. <<item>> \in Seq(Items) /\ Len(<<item>>) = 1 /\ <<item>>[1] = item /\ 1 \in 1..1
        BY DEF Items
      <4> QED BY <1>00, <3>3, <4>1, ConcatIs
    <3>5. ASSUME NEW i \in 1..Len(inbox'[c]), inbox'[c][i] = "request"
          PROVE  taken[c] + i <= asked'[c]
      <4>1. i \in 1..Len(inbox[c]) \/ i = Len(inbox[c]) + 1
        BY <1>00, <3>4
      <4>2. CASE i \in 1..Len(inbox[c])
        <5>1. taken[c] + i <= asked[c]
          BY <1>0, <3>4, <3>5, <4>2 DEF InboxInv
        <5> QED BY <1>00, <3>3, <5>1
      <4>3. CASE i = Len(inbox[c]) + 1
        BY <1>00, <3>2, <3>3, <3>4, <3>5, <4>3
      <4> QED BY <4>1, <4>2, <4>3
    <3>6. taken[c] <= asked'[c]
      BY <1>0, <1>00, <3>3 DEF InboxInv
    <3>7. client'[c] = "open" => taken[c] + Len(inbox'[c]) <= asked'[c]
      BY <1>00, <3>2, <3>3, <3>4
    <3> QED BY <2>1, <2>5, <3>1, <3>5, <3>6, <3>7 DEF InboxInv
  <2> QED BY <1>5, <2>2, <2>3, <2>4, <2>5
<1>6. CASE SessionChange
  BY <1>0, <1>6 DEF SessionChange, InboxInv, connVars, peerVars
<1> QED BY <1>1, <1>2, <1>3, <1>4, <1>5, <1>6 DEF Next, Loop, Outside

LEMMA InHand ==
  ASSUME TypeOK, NEW c \in Conns, CountInv(c), pc[c] \in Asking
  PROVE  <<c, taken[c]>> \in Requests
<1>1. taken[c] \in 0..MaxRequests /\ replies[c] \in Seq(Reply) /\ Len(replies[c]) \in Nat
  BY DEF TypeOK
<1>2. taken[c] # 0
  BY <1>1 DEF CountInv
<1> QED BY <1>1, <1>2, BoundsAssumption DEF Requests

LEMMA CountStep ==
  ASSUME BridgeInv, Next, NEW c \in Conns
  PROVE  CountInv(c)'
<1>0. TypeOK /\ CountInv(c) /\ InboxInv(c) /\ NameInv
  BY DEF BridgeInv
<1>00. taken[c] \in Nat /\ asked[c] \in Nat /\ replies[c] \in Seq(Reply) /\ Len(replies[c]) \in Nat
  BY <1>0 DEF TypeOK
<1>01. pc[c] \in Asking => <<c, taken[c]>> \in Requests
  BY <1>0, InHand
<1>1. ASSUME NEW d \in Conns, Handler(d) \/ Pageant(d), c # d PROVE CountInv(c)'
  BY <1>0, <1>1, HandlerMoves DEF CountInv
<1>2. CASE ReadRequest(c)
  <2>1. /\ pc[c] = "read" /\ replies' = replies
        /\ pc'[c] = "done" \/ (pc'[c] = "lock" /\ taken'[c] = taken[c] + 1)
    BY <1>0, <1>2 DEF ReadRequest, Goto, Put, TypeOK
  <2> QED BY <1>0, <1>00, <2>1 DEF CountInv, Asking, Early
<1>3. CASE CheckLock(c) \/ FindPageant(c) \/ MapRequest(c) \/ SendFails(c)
  <2>1. /\ pc[c] \in Asking /\ pc'[c] \in Asking /\ taken' = taken /\ replies' = replies
        /\ pc'[c] = "reply" => resp'[c] = [by |-> "agent", of |-> <<c, taken[c]>>]
    BY <1>0, <1>3 DEF CheckLock, FindPageant, MapRequest, SendFails, Failure, Goto, Put,
       TypeOK, Asking, peerVars
  <2> QED BY <1>0, <1>01, <2>1 DEF CountInv, Asking, Early, Reply
<1>4. CASE PageantAnswers(c)
  <2>1. PICK m \in maps : m.name = name[c] /\ resp' = Put(resp, c, [by |-> "pageant", of |-> m.of])
    BY <1>4 DEF PageantAnswers
  <2>2. m.of = <<c, taken[c]>>
    <3>1. PICK e \in Conns : m = [name |-> name[e], of |-> <<e, taken[e]>>] /\ pc[e] = "wait"
      BY <1>0 DEF NameInv
    <3>2. name[e] # 0 /\ name[e] = name[c]
      BY <1>0, <2>1, <3>1 DEF NameInv
    <3>3. e = c
      BY <1>0, <3>2 DEF NameInv, NamesApart
    <3> QED BY <3>1, <3>3
  <2>3. /\ pc[c] \in Asking /\ pc'[c] = "reply" /\ taken' = taken /\ replies' = replies
        /\ resp'[c] = [by |-> "pageant", of |-> <<c, taken[c]>>]
    BY <1>0, <1>4, <2>1, <2>2 DEF PageantAnswers, Goto, Put, TypeOK, Asking, peerVars
  <2> QED BY <1>0, <1>01, <2>3 DEF CountInv, Asking, Early, Reply
<1>5. CASE WriteReply(c)
  <2>1. /\ pc[c] = "reply" /\ taken' = taken
        /\ \/ pc'[c] = "read" /\ replies'[c] = Append(replies[c], resp[c])
           \/ pc'[c] = "done"
    BY <1>0, <1>5 DEF WriteReply, Goto, Put, TypeOK
  <2>2. Len(Append(replies[c], resp[c])) = Len(replies[c]) + 1
    BY <1>0, <1>00, <2>1, AppendIs DEF CountInv
  <2> QED BY <1>0, <2>1, <2>2 DEF CountInv, Asking, Early
<1>6. ASSUME NEW k \in Connectors, NEW d \in Conns, Shake(k, d) \/ ShakeFails(k, d)
      PROVE  CountInv(c)'
  <2>1. ConnInv(d) /\ LoopInv(k)
    BY DEF BridgeInv
  <2> QED BY <1>0, <1>6, <2>1, ShakeMoves DEF CountInv, Asking, Early
<1>7. ASSUME NEW k \in Connectors, Accept(k) PROVE CountInv(c)'
  <2>1. LoopInv(k)
    BY DEF BridgeInv
  <2> QED BY <1>0, <1>7, <2>1, AcceptMoves DEF CountInv, Asking, Early, peerVars
<1>8. ASSUME NEW k \in Connectors, CloseListener(k) PROVE CountInv(c)'
  BY <1>0, <1>8, CloseMoves DEF CountInv, Asking, Early, peerVars
<1>9. ASSUME NEW d \in Conns, NEW k \in Connectors, Connect(d, k) PROVE CountInv(c)'
  <2>1. ConnInv(d)
    BY DEF BridgeInv
  <2> QED BY <1>0, <1>9, <2>1, ConnectMoves DEF CountInv, ConnInv, Asking, Early
<1>10. ASSUME NEW d \in Conns, ClientGreets(d) \/ ClientAsks(d) \/ ClientCloses(d)
       PROVE  CountInv(c)'
  BY <1>0, <1>10, ClientMoves DEF CountInv, connVars
<1>11. CASE SessionChange
  BY <1>0, <1>11 DEF SessionChange, CountInv, connVars, peerVars
<1> QED BY <1>1, <1>2, <1>3, <1>4, <1>5, <1>6, <1>7, <1>8, <1>9, <1>10, <1>11
        DEF Next, Loop, Handler, Pageant, Outside

\* Nobody's request is in hand, so the names and mappings are as before.
LEMMA NamesSame ==
  ASSUME NameInv, UNCHANGED <<name, mapVars, taken>>,
         \A c \in Conns : pc'[c] \in {"map", "wait"} \/ pc[c] \in {"map", "wait"} => pc'[c] = pc[c]
  PROVE  NameInv'
  BY DEF NameInv, NamesApart, mapVars

LEMMA NameStep ==
  ASSUME BridgeInv, Next
  PROVE  NameInv'
<1>0. TypeOK /\ NameInv
  BY DEF BridgeInv
<1>00. /\ name \in [Conns -> Nat] /\ mapCounter \in Nat
       /\ \A c \in Conns : name[c] <= mapCounter
       /\ \A c \in Conns : name[c] # 0 <=> pc[c] \in {"map", "wait"}
       /\ \A c, d \in Conns : name[c] # 0 /\ name[c] = name[d] => c = d
  BY <1>0 DEF TypeOK, NameInv, NamesApart
<1>1. ASSUME NEW d \in Conns, CheckLock(d) \/ WriteReply(d) PROVE NameInv'
  BY <1>0, <1>1, NamesSame DEF CheckLock, WriteReply, Failure, Goto, TypeOK
<1>2. ASSUME NEW d \in Conns, ReadRequest(d) PROVE NameInv'
  <2>1. /\ UNCHANGED <<name, mapVars>> /\ pc[d] = "read" /\ pc'[d] \in {"lock", "done"}
        /\ \A c \in Conns \ {d} : pc'[c] = pc[c] /\ taken'[c] = taken[c]
    BY <1>0, <1>2 DEF ReadRequest, Goto, Put, TypeOK
  <2> QED BY <1>0, <2>1 DEF NameInv, NamesApart, mapVars
<1>3. ASSUME NEW d \in Conns, FindPageant(d) PROVE NameInv'
  <2>1. CASE UNCHANGED <<name, mapCounter>> /\ Failure(d)
    BY <1>0, <1>3, <2>1, NamesSame DEF FindPageant, Failure, Goto, TypeOK, mapVars
  <2>2. CASE Goto(d, "map") /\ TakeName(d)
    <3>1. /\ mapCounter' = mapCounter + 1 /\ name'[d] = mapCounter + 1 /\ pc[d] = "find"
          /\ pc'[d] = "map" /\ taken' = taken /\ maps' = maps
          /\ \A c \in Conns \ {d} : pc'[c] = pc[c] /\ name'[c] = name[c]
      BY <1>0, <1>3, <2>2 DEF FindPageant, TakeName, Goto, Put, TypeOK
    <3>2. \A c \in Conns \ {d} : name[c] \in Nat /\ name[c] < mapCounter + 1
      BY <1>00
    <3>3. \A c \in Conns : name'[c] <= mapCounter' /\ (name'[c] # 0 <=> pc'[c] \in {"map", "wait"})
      BY <1>00, <3>1, <3>2
    <3>4. NamesApart'
      BY <1>00, <3>1, <3>2 DEF NamesApart
    <3> QED BY <1>0, <3>1, <3>3, <3>4 DEF NameInv
  <2> QED BY <1>3, <2>1, <2>2 DEF FindPageant
<1>4. ASSUME NEW d \in Conns, MapRequest(d) PROVE NameInv'
  <2>1. /\ pc[d] = "map" /\ UNCHANGED <<mapCounter, taken>>
        /\ \A c \in Conns \ {d} : pc'[c] = pc[c] /\ name'[c] = name[c]
        /\ \/ /\ pc'[d] = "wait" /\ name' = name
              /\ maps' = maps \cup {[name |-> name[d], of |-> <<d, taken[d]>>]}
           \/ pc'[d] = "reply" /\ name'[d] = 0 /\ maps' = maps
    BY <1>0, <1>4 DEF MapRequest, Failure, Goto, Put, TypeOK
  <2>2. NamesApart'
           /\ \A c \in Conns : name'[c] <= mapCounter' /\ (name'[c] # 0 <=> pc'[c] \in {"map", "wait"})
    BY <1>00, <2>1 DEF NamesApart
  <2>3. \A m \in maps : \E c \in Conns \ {d} :
              pc[c] = "wait" /\ m = [name |-> name[c], of |-> <<c, taken[c]>>]
    BY <1>0, <2>1 DEF NameInv
  <2> QED BY <2>1, <2>2, <2>3 DEF NameInv
<1>5. ASSUME NEW d \in Conns, Pageant(d) PROVE NameInv'
  <2>1. /\ pc[d] = "wait" /\ UNCHANGED <<mapCounter, taken>>
        /\ pc'[d] = "reply" /\ name'[d] = 0
        /\ \A c \in Conns \ {d} : pc'[c] = pc[c] /\ name'[c] = name[c]
    BY <1>0, <1>5 DEF Pageant, SendFails, PageantAnswers, Failure, Goto, Put, TypeOK
  <2>2. \A m \in maps' : m \in maps /\ m # [name |-> name[d], of |-> <<d, taken[d]>>]
    <3>1. CASE SendFails(d)
      BY <3>1 DEF SendFails
    <3>2. CASE PageantAnswers(d)
      <4>1. PICK m \in maps : m.name = name[d] /\ maps' = maps \ {m}
        BY <3>2 DEF PageantAnswers
      <4>2. m = [name |-> name[d], of |-> <<d, taken[d]>>]
        <5>1. PICK e \in Conns : pc[e] = "wait" /\ m = [name |-> name[e], of |-> <<e, taken[e]>>]
          BY <1>0 DEF NameInv
        <5> QED BY <1>00, <4>1, <5>1
      <4> QED BY <4>1, <4>2
    <3> QED BY <1>5, <3>1, <3>2 DEF Pageant
  <2>3. NamesApart'
           /\ \A c \in Conns : name'[c] <= mapCounter' /\ (name'[c] # 0 <=> pc'[c] \in {"map", "wait"})
    BY <1>00, <2>1 DEF NamesApart
  <2>4. \A m \in maps' : \E c \in Conns \ {d} :
              pc[c] = "wait" /\ m = [name |-> name[c], of |-> <<c, taken[c]>>]
    BY <1>0, <2>2 DEF NameInv
  <2> QED BY <2>1, <2>3, <2>4 DEF NameInv
<1>6. ASSUME NEW k \in Connectors, NEW d \in Conns, Shake(k, d) \/ ShakeFails(k, d) PROVE NameInv'
  <2>1. ConnInv(d) /\ LoopInv(k)
    BY DEF BridgeInv
  <2> QED BY <1>0, <1>6, <2>1, ShakeMoves, NamesSame
<1>7. ASSUME NEW k \in Connectors, Accept(k) PROVE NameInv'
  <2>1. LoopInv(k)
    BY DEF BridgeInv
  <2> QED BY <1>0, <1>7, <2>1, AcceptMoves, NamesSame
<1>8. ASSUME NEW k \in Connectors, CloseListener(k) PROVE NameInv'
  BY <1>0, <1>8, CloseMoves, NamesSame
<1>9. ASSUME NEW d \in Conns, NEW k \in Connectors, Connect(d, k) PROVE NameInv'
  <2>1. ConnInv(d)
    BY DEF BridgeInv
  <2> QED BY <1>0, <1>9, <2>1, ConnectMoves, NamesSame DEF ConnInv
<1>10. ASSUME NEW d \in Conns, ClientGreets(d) \/ ClientAsks(d) \/ ClientCloses(d) PROVE NameInv'
  BY <1>0, <1>10, ClientMoves, NamesSame DEF connVars
<1>11. CASE SessionChange
  BY <1>0, <1>11, NamesSame DEF SessionChange, connVars
<1> QED BY <1>1, <1>2, <1>3, <1>4, <1>5, <1>6, <1>7, <1>8, <1>9, <1>10, <1>11
        DEF Next, Loop, Handler, Outside

\* The requests ever sent are not more than MaxRequests.
LEMMA AskedBound ==
  ASSUME TypeOK, NEW d \in Conns,
         Cardinality({r \in Requests : r[2] <= asked[r[1]]}) < MaxRequests
  PROVE  asked[d] + 1 \in 0..MaxRequests
<1> DEFINE S == {r \in Requests : r[2] <= asked[r[1]]}
           T == {<<d, n>> : n \in 1..asked[d]}
           f == [n \in 1..asked[d] |-> <<d, n>>]
<1>1. asked[d] \in 0..MaxRequests /\ MaxRequests \in Nat
  BY BoundsAssumption DEF TypeOK
<1>2. IsFiniteSet(Requests)
  <2>1. IsFiniteSet(Conns)
    BY ConnsAssumption
  <2>2. IsFiniteSet(1..MaxRequests)
    BY <1>1, FS_Interval
  <2> QED BY <2>1, <2>2, FS_Product DEF Requests
<1>3. IsFiniteSet(S) /\ Cardinality(S) \in Nat
  BY <1>2, FS_Subset, FS_CardinalityType
<1>4. T \in SUBSET S
  BY <1>1 DEF Requests
<1>5. IsFiniteSet(T) /\ Cardinality(T) <= Cardinality(S)
  BY <1>3, <1>4, FS_Subset
<1>6. Cardinality(T) = asked[d]
  <2>1. f \in Bijection(1..asked[d], T)
    <3>1. f \in [1..asked[d] -> T]
      OBVIOUS
    <3>2. \A m, n \in 1..asked[d] : f[m] = f[n] => m = n
      OBVIOUS
    <3>3. \A t \in T : \E n \in 1..asked[d] : f[n] = t
      OBVIOUS
    <3> QED BY <3>1, <3>2, <3>3 DEF Bijection, Injection, Surjection, IsInjective
  <2>2. ExistsBijection(1..asked[d], T)
    BY <2>1 DEF ExistsBijection
  <2> QED BY <1>1, <2>2, FS_CountingElements
<1>7. asked[d] < MaxRequests
  BY <1>1, <1>3, <1>5, <1>6
<1> QED BY <1>1, <1>7

LEMMA TypeStep ==
  ASSUME BridgeInv, Next
  PROVE  TypeOK'
<1>0. TypeOK /\ NameInv
  BY DEF BridgeInv
<1> USE DEF TypeOK, Put
<1>1. ASSUME NEW d \in Conns, Handler(d) \/ Pageant(d) PROVE TypeOK'
  <2>0. /\ UNCHANGED <<locked, listening, backlog, shaking, round, via, client, asked>>
        /\ pc' \in [Conns -> PCs]
    BY <1>0, <1>1, HandlerMoves
  <2>1. CASE ReadRequest(d)
    <3>1. inbox[d] \in Seq(Items) /\ taken[d] \in 0..MaxRequests
      BY <1>0
    <3>2. inbox[d] # << >> => Tail(inbox[d]) \in Seq(Items)
      BY <3>1, TailIs
    <3>3. inbox' \in [Conns -> Seq(Items)]
      BY <1>0, <2>1, <3>2 DEF ReadRequest, Reads
    <3>4. inbox[d] # << >> /\ Head(inbox[d]) = "request" => taken[d] + 1 \in 0..MaxRequests
      <4>1. SUFFICES ASSUME inbox[d] # << >>, Head(inbox[d]) = "request"
                     PROVE  taken[d] + 1 \in 0..MaxRequests
        OBVIOUS
      <4>2. inbox[d][1] = "request" /\ 1 \in 1..Len(inbox[d])
        BY <3>1, <4>1, TailIs
      <4>3. taken[d] + 1 <= asked[d] /\ asked[d] \in 0..MaxRequests
        BY <1>0, <4>2 DEF BridgeInv, InboxInv
      <4> QED BY <3>1, <4>3, BoundsAssumption
    <3>5. taken' \in [Conns -> 0..MaxRequests]
      BY <1>0, <2>1, <3>4 DEF ReadRequest, Reads
    <3> QED BY <1>0, <2>0, <2>1, <3>3, <3>5 DEF ReadRequest, mapVars
  <2>2. CASE CheckLock(d) \/ FindPageant(d) \/ MapRequest(d) \/ SendFails(d)
    <3>1. pc[d] \in Asking
      BY <1>1, <2>2 DEF CheckLock, FindPageant, MapRequest, SendFails, Asking
    <3>2. <<d, taken[d]>> \in Requests
      BY <1>0, <3>1, InHand DEF BridgeInv
    <3>3. resp' \in [Conns -> Reply \cup {NoOne}] /\ UNCHANGED <<crashed, taken, inbox, replies>>
      <4>1. [by |-> "agent", of |-> <<d, taken[d]>>] \in Reply
        BY <3>2 DEF Reply
      <4>2. /\ UNCHANGED <<crashed, taken, peerVars>>
            /\ resp' = resp \/ resp' = [resp EXCEPT ![d] = [by |-> "agent", of |-> <<d, taken[d]>>]]
        BY <2>2 DEF CheckLock, FindPageant, MapRequest, SendFails, Failure
      <4> QED BY <1>0, <4>1, <4>2 DEF peerVars
    <3>4. mapCounter' \in Nat /\ name' \in [Conns -> Nat]
      <4>1. mapCounter' \in {mapCounter, mapCounter + 1}
        BY <2>2 DEF CheckLock, FindPageant, TakeName, MapRequest, SendFails, mapVars
      <4>2. name' = name \/ \E n \in {0, mapCounter + 1} : name' = [name EXCEPT ![d] = n]
        BY <2>2 DEF CheckLock, FindPageant, TakeName, MapRequest, SendFails, mapVars
      <4>3. mapCounter \in Nat /\ mapCounter + 1 \in Nat /\ name \in [Conns -> Nat]
        BY <1>0
      <4> HIDE DEF TypeOK
      <4>4. name' \in [Conns -> Nat]
        BY <4>2, <4>3
      <4> QED BY <4>1, <4>3, <4>4
    <3>5. maps' \in SUBSET [name : Names, of : Requests]
      <4>1. CASE MapRequest(d)
        <5>1. name[d] \in Names
          BY <1>0, <4>1 DEF MapRequest, NameInv, Names
        <5>2. [name |-> name[d], of |-> <<d, taken[d]>>] \in [name : Names, of : Requests]
          BY <3>2, <5>1
        <5>3. maps' = maps \/ maps' = maps \cup {[name |-> name[d], of |-> <<d, taken[d]>>]}
          BY <4>1 DEF MapRequest
        <5>4. maps \in SUBSET [name : Names, of : Requests]
          BY <1>0
        <5> HIDE DEF TypeOK
        <5> QED BY <5>2, <5>3, <5>4, Zenon
      <4>2. CASE CheckLock(d) \/ FindPageant(d) \/ SendFails(d)
        BY <1>0, <4>2 DEF CheckLock, FindPageant, SendFails, mapVars
      <4> QED BY <2>2, <4>1, <4>2
    <3> QED BY <1>0, <2>0, <3>3, <3>4, <3>5
  <2>3. CASE PageantAnswers(d)
    <3>1. PICK m \in maps : maps' = maps \ {m}
             /\ resp' = [resp EXCEPT ![d] = [by |-> "pageant", of |-> m.of]]
      BY <2>3 DEF PageantAnswers
    <3>2. m.of \in Requests
      BY <1>0
    <3>3. resp' \in [Conns -> Reply \cup {NoOne}] /\ maps' \in SUBSET [name : Names, of : Requests]
      BY <1>0, <3>1, <3>2 DEF Reply
    <3> QED BY <1>0, <2>0, <2>3, <3>3 DEF PageantAnswers, peerVars
  <2>4. CASE WriteReply(d)
    <3>1. resp[d] \in Reply /\ replies[d] \in Seq(Reply)
      BY <1>0, <2>4 DEF WriteReply, BridgeInv, CountInv
    <3>2. Append(replies[d], resp[d]) \in Seq(Reply)
      BY <3>1, AppendIs
    <3> QED BY <1>0, <2>0, <2>4, <3>2 DEF WriteReply, mapVars
  <2> QED BY <1>1, <2>1, <2>2, <2>3, <2>4 DEF Handler, Pageant
<1>2. ASSUME NEW k \in Connectors, NEW d \in Conns, Shake(k, d) \/ ShakeFails(k, d) PROVE TypeOK'
  <2>1. ConnInv(d) /\ LoopInv(k)
    BY DEF BridgeInv
  <2>2. inbox[d] # << >> => Tail(inbox[d]) \in Seq(Items)
    BY <1>0, TailIs
  <2>3. inbox' \in [Conns -> Seq(Items)] /\ crashed' = crashed
    BY <1>0, <1>2, <2>2 DEF Shake, ShakeFails, Reads
  <2>4. /\ UNCHANGED <<locked, listening, backlog, taken, name, resp, mapVars, via, client, asked,
                       replies>>
        /\ round' \in [Conns -> 0..2] /\ pc' \in [Conns -> PCs]
        /\ shaking' \in [Connectors -> Conns \cup {NoOne}]
    BY <1>0, <1>2, <2>1, ShakeMoves
  <2> QED BY <1>0, <2>3, <2>4 DEF mapVars
<1>3. ASSUME NEW k \in Connectors, Accept(k) PROVE TypeOK'
  <2>1. LoopInv(k)
    BY DEF BridgeInv
  <2> QED BY <1>0, <1>3, <2>1, AcceptMoves DEF Accept, mapVars, peerVars
<1>4. ASSUME NEW k \in Connectors, CloseListener(k) PROVE TypeOK'
  BY <1>0, <1>4, CloseMoves DEF CloseListener, mapVars, peerVars
<1>5. ASSUME NEW d \in Conns, NEW k \in Connectors, Connect(d, k) PROVE TypeOK'
  BY <1>0, <1>5, ConnectMoves DEF Connect, mapVars
<1>6. ASSUME NEW d \in Conns, ClientGreets(d) \/ ClientAsks(d) \/ ClientCloses(d) PROVE TypeOK'
  <2>0. /\ UNCHANGED <<locked, crashed, loopVars, connVars, mapVars, via, replies>>
        /\ client' \in [Conns -> {"none", "open", "mute", "closed"}]
    BY <1>0, <1>6, ClientMoves DEF ClientGreets, ClientAsks, ClientCloses
  <2>1. CASE ClientGreets(d)
    <3>1. \A t \in {<<"hello">>, <<"bad">>, <<"bad", "part">>, <<"bad", "oversize">>} :
              << >> \o t \in Seq(Items)
      BY GreetingIs
    <3>2. inbox' \in [Conns -> Seq(Items)] /\ asked' = asked
      <4>1. PICK t \in {<<"hello">>, <<"bad">>, <<"bad", "part">>, <<"bad", "oversize">>} :
                inbox[d] = << >> /\ inbox' = [inbox EXCEPT ![d] = inbox[d] \o t]
        BY <2>1 DEF ClientGreets, Says
      <4>2. inbox[d] \o t \in Seq(Items)
        BY <3>1, <4>1
      <4> QED BY <1>0, <2>1, <4>1, <4>2 DEF ClientGreets
    <3> QED BY <1>0, <2>0, <3>2 DEF loopVars, connVars, mapVars
  <2>2. CASE ClientAsks(d)
    <3>1. \A item \in {"request", "part", "oversize"} : inbox[d] \o <<item>> \in Seq(Items)
      BY <1>0, ConcatIs DEF Items
    <3>2. asked[d] + 1 \in 0..MaxRequests
      BY <1>0, <2>2, AskedBound DEF ClientAsks
    <3>3. inbox' \in [Conns -> Seq(Items)] /\ asked' \in [Conns -> 0..MaxRequests]
      <4>1. PICK item \in {"request", "part", "oversize"} :
                inbox' = [inbox EXCEPT ![d] = inbox[d] \o <<item>>]
        BY <2>2 DEF ClientAsks, Says
      <4>2. inbox' \in [Conns -> Seq(Items)]
        BY <1>0, <3>1, <4>1
      <4>3. asked' = asked \/ asked' = [asked EXCEPT ![d] = asked[d] + 1]
        BY <2>2 DEF ClientAsks
      <4> QED BY <1>0, <3>2, <4>2, <4>3
    <3> QED BY <1>0, <2>0, <3>3 DEF loopVars, connVars, mapVars
  <2>3. CASE ClientCloses(d)
    BY <1>0, <2>0, <2>3 DEF ClientCloses, loopVars, connVars, mapVars
  <2> QED BY <1>6, <2>1, <2>2, <2>3
<1>7. CASE SessionChange
  BY <1>0, <1>7 DEF SessionChange, loopVars, connVars, mapVars, peerVars
<1> QED BY <1>1, <1>2, <1>3, <1>4, <1>5, <1>6, <1>7 DEF Next, Loop, Outside

LEMMA BridgeInit ==
  ASSUME Init
  PROVE  BridgeInv
<1>1. /\ << >> \in Seq(Conns) /\ << >> \in Seq(Items) /\ << >> \in Seq(Reply) /\ Len(<< >>) = 0
      /\ MaxRequests \in Nat /\ 0 \in 0..2 /\ 0 \in 0..MaxRequests
  BY BoundsAssumption
<1>2. TypeOK
  <2>1. /\ locked \in BOOLEAN /\ crashed \in BOOLEAN
        /\ listening \in [Connectors -> BOOLEAN]
        /\ pc \in [Conns -> PCs]
        /\ client \in [Conns -> {"none", "open", "mute", "closed"}]
        /\ maps \in SUBSET [name : Names, of : Requests]
    BY DEF Init, PCs
  <2>2. /\ backlog \in [Connectors -> Seq(Conns)]
        /\ inbox \in [Conns -> Seq(Items)]
        /\ replies \in [Conns -> Seq(Reply)]
    BY <1>1 DEF Init
  <2>3. /\ shaking \in [Connectors -> Conns \cup {NoOne}]
        /\ resp \in [Conns -> Reply \cup {NoOne}]
        /\ via \in [Conns -> Connectors \cup {NoOne}]
    BY DEF Init
  <2>4. /\ round \in [Conns -> 0..2] /\ name \in [Conns -> Nat] /\ mapCounter \in Nat
        /\ taken \in [Conns -> 0..MaxRequests] /\ asked \in [Conns -> 0..MaxRequests]
    BY <1>1 DEF Init
  <2> QED BY <2>1, <2>2, <2>3, <2>4 DEF TypeOK
<1>3. ASSUME NEW c \in Conns PROVE ConnInv(c) /\ InboxInv(c) /\ CountInv(c)
  BY <1>1 DEF Init, ConnInv, InboxInv, CountInv, Asking, Early
<1>4. ASSUME NEW k \in Connectors PROVE LoopInv(k)
  BY <1>1 DEF Init, LoopInv
<1>5. NameInv
  BY DEF Init, NameInv, NamesApart
<1> QED BY <1>2, <1>3, <1>4, <1>5 DEF BridgeInv

LEMMA BridgeStep ==
  ASSUME BridgeInv, [Next]_vars
  PROVE  BridgeInv'
<1>1. CASE Next
  BY <1>1, TypeStep, ConnStep, LoopStep, InboxStep, CountStep, NameStep DEF BridgeInv
<1>2. CASE UNCHANGED vars
  <2>1. UNCHANGED <<locked, crashed, listening, backlog, shaking, pc, round, taken, name, resp,
                    mapCounter, maps, via, client, inbox, asked, replies>>
    BY <1>2 DEF vars, loopVars, connVars, mapVars, peerVars
  <2>2. TypeOK' /\ NameInv'
    BY <2>1 DEF BridgeInv, TypeOK, NameInv, NamesApart
  <2>3. ASSUME NEW c \in Conns PROVE (ConnInv(c) /\ InboxInv(c) /\ CountInv(c))'
    BY <2>1 DEF BridgeInv, ConnInv, InboxInv, CountInv, Asking, Early
  <2>4. ASSUME NEW k \in Connectors PROVE LoopInv(k)'
    BY <2>1 DEF BridgeInv, LoopInv
  <2> QED BY <2>2, <2>3, <2>4 DEF BridgeInv
<1> QED BY <1>1, <1>2

\* BridgeInv is an invariant.
THEOREM BridgeAlways == Spec => []BridgeInv
<1>1. Init => BridgeInv
  BY BridgeInit
<1>2. BridgeInv /\ [Next]_vars => BridgeInv'
  BY BridgeStep
<1> QED BY <1>1, <1>2, PTL DEF Spec

\* The state of the connectors has its types; in particular the bound on requests
\* is kept and every mapping holds a request that was made.
THEOREM SSHTypeCorrect == Spec => []TypeOK
<1>1. BridgeInv => TypeOK
  BY DEF BridgeInv
<1> QED BY <1>1, BridgeAlways, PTL

\* Requests in flight on several connections use different file mappings
\* (connector.go:518, 541-566), however many connections there are.
THEOREM NamesApartCorrect == Spec => []NamesApart
<1>1. BridgeInv => NamesApart
  BY DEF BridgeInv, NameInv
<1> QED BY <1>1, BridgeAlways, PTL

-----------------------------------------------------------------------------
(* SSHBridge implements SSHService: every step is one of its steps, or none. *)

\* A request of c may go to Pageant, or Pageant's answer to it is in hand.
MayAsk(c) == \/ pc[c] \in {"find", "map", "wait"}
             \/ pc[c] = "reply" /\ resp[c].by = "pageant"
Admitted == [c \in Conns |-> \/ pc[c] \in {"find", "map", "wait"}
                             \/ pc[c] = "reply" /\ resp[c].by = "pageant"]

LEMMA AdmittedIs ==
  ASSUME NEW d \in Conns, \A c \in Conns \ {d} : MayAsk(c)' <=> MayAsk(c)
  PROVE  /\ MayAsk(d)' => Admitted' = [Admitted EXCEPT ![d] = TRUE]
         /\ ~MayAsk(d)' => Admitted' = [Admitted EXCEPT ![d] = FALSE]
         /\ (MayAsk(d)' <=> MayAsk(d)) => Admitted' = Admitted
  BY DEF MayAsk, Admitted

\* What the state of SSHService is where nothing that it sees happens.
LEMMA Unseen ==
  ASSUME UNCHANGED <<locked, asked, replies>>, Admitted' = Admitted
  PROVE  UNCHANGED Service!serviceVars
  BY DEF Service!serviceVars, Admitted, Barred

LEMMA Dropped ==
  ASSUME NEW d \in Conns, UNCHANGED <<locked, asked, replies>>, ~MayAsk(d)',
         \A c \in Conns \ {d} : pc'[c] = pc[c] /\ resp'[c] = resp[c]
  PROVE  Service!Next
<1>1. Admitted' = [Admitted EXCEPT ![d] = FALSE]
  BY AdmittedIs DEF MayAsk
<1>2. Service!Drop(d)
  BY <1>1 DEF Service!Drop, Admitted, Barred
<1> QED BY <1>2 DEF Service!Next

LEMMA ServiceInit ==
  ASSUME Init
  PROVE  Service!Init
  BY DEF Init, Service!Init, Barred

LEMMA ServiceStep ==
  ASSUME BridgeInv, Next
  PROVE  [Service!Next]_Service!serviceVars
<1>0. TypeOK /\ NameInv /\ \A c \in Conns : ConnInv(c) /\ InboxInv(c) /\ CountInv(c)
  BY DEF BridgeInv
<1>1. ASSUME NEW d \in Conns, Handler(d) \/ Pageant(d)
      PROVE  [Service!Next]_Service!serviceVars
  <2>0. /\ UNCHANGED <<locked, asked>>
        /\ \A c \in Conns \ {d} : pc'[c] = pc[c] /\ resp'[c] = resp[c]
    BY <1>0, <1>1, HandlerMoves
  <2>1. \A c \in Conns \ {d} : MayAsk(c)' <=> MayAsk(c)
    BY <2>0 DEF MayAsk
  <2> USE DEF Goto, Put, TypeOK
  <2>2. CASE ReadRequest(d)
    <3>1. ~MayAsk(d)' /\ replies' = replies
      BY <1>0, <2>2 DEF ReadRequest, MayAsk
    <3> QED BY <2>0, <3>1, Dropped
  <2>3. ASSUME Failure(d), replies' = replies PROVE [Service!Next]_Service!serviceVars
    <3>1. ~MayAsk(d)'
      BY <1>0, <2>3 DEF Failure, MayAsk
    <3> QED BY <2>0, <2>3, <3>1, Dropped
  <2>4. CASE CheckLock(d) /\ ~Failure(d)
    <3>1. pc[d] = "lock" /\ pc'[d] = "find" /\ ~Barred /\ replies' = replies
      BY <1>0, <2>4 DEF CheckLock, peerVars
    <3>2. Admitted' = [Admitted EXCEPT ![d] = TRUE]
      BY <2>1, <3>1, AdmittedIs DEF MayAsk
    <3>3. Len(replies[d]) < asked[d]
      <4>1. Len(replies[d]) + 1 = taken[d] /\ taken[d] <= asked[d]
        BY <1>0, <3>1 DEF CountInv, InboxInv, Asking
      <4>2. Len(replies[d]) \in Nat /\ asked[d] \in Nat /\ taken[d] \in Nat
        BY <1>0
      <4> QED BY <4>1, <4>2
    <3>4. Service!Admit(d)
      BY <2>0, <3>1, <3>2, <3>3 DEF Service!Admit, Admitted, Barred
    <3> QED BY <3>4 DEF Service!Next
  <2>5. CASE (FindPageant(d) \/ MapRequest(d)) /\ ~Failure(d)
    <3>1. (MayAsk(d)' <=> MayAsk(d)) /\ replies' = replies
      BY <1>0, <2>5 DEF FindPageant, MapRequest, MayAsk, peerVars
    <3> QED BY <2>0, <2>1, <3>1, AdmittedIs, Unseen
  <2>6. CASE PageantAnswers(d)
    <3>1. (MayAsk(d)' <=> MayAsk(d)) /\ replies' = replies
      BY <1>0, <2>6 DEF PageantAnswers, MayAsk, peerVars
    <3> QED BY <2>0, <2>1, <3>1, AdmittedIs, Unseen
  <2>7. CASE WriteReply(d)
    <3>1. ~MayAsk(d)' /\ pc[d] = "reply"
      BY <1>0, <2>7 DEF WriteReply, MayAsk
    <3>2. CASE replies' = replies
      BY <2>0, <3>1, <3>2, Dropped
    <3>3. CASE replies' = [replies EXCEPT ![d] = Append(replies[d], resp[d])]
      <4>1. Admitted' = [Admitted EXCEPT ![d] = FALSE]
        BY <2>1, <3>1, AdmittedIs
      <4>2. /\ resp[d] \in Reply /\ resp[d].of = <<d, taken[d]>>
            /\ Len(replies[d]) + 1 = taken[d] /\ taken[d] <= asked[d]
        BY <1>0, <3>1 DEF CountInv, InboxInv, Asking
      <4>3. resp[d] = [by |-> resp[d].by, of |-> <<d, Len(replies[d]) + 1>>]
            /\ resp[d].by \in {"pageant", "agent"}
        BY <4>2 DEF Reply
      <4>4. resp[d].by = "pageant" => Admitted[d]
        BY <3>1 DEF Admitted
      <4>5. Service!Reply(d)
        BY <2>0, <3>3, <4>1, <4>2, <4>3, <4>4 DEF Service!Reply, Admitted, Barred
      <4> QED BY <4>5 DEF Service!Next
    <3> QED BY <2>7, <3>2, <3>3 DEF WriteReply
  <2>8. CheckLock(d) \/ FindPageant(d) \/ MapRequest(d) \/ SendFails(d) => replies' = replies
    BY DEF CheckLock, FindPageant, MapRequest, SendFails, peerVars
  <2> QED BY <1>1, <2>2, <2>3, <2>4, <2>5, <2>6, <2>7, <2>8 DEF Handler, Pageant, SendFails
<1>2. ASSUME NEW k \in Connectors, NEW d \in Conns, Shake(k, d) \/ ShakeFails(k, d)
      PROVE  [Service!Next]_Service!serviceVars
  <2>1. LoopInv(k)
    BY DEF BridgeInv
  <2> QED BY <1>0, <1>2, <2>1, ShakeMoves, Dropped DEF MayAsk
<1>3. ASSUME NEW k \in Connectors, Accept(k) PROVE [Service!Next]_Service!serviceVars
  <2>1. LoopInv(k)
    BY DEF BridgeInv
  <2>2. PICK d \in Conns : /\ pc'[d] \in {"read", "shake"}
                           /\ \A c \in Conns \ {d} : pc'[c] = pc[c]
    BY <1>0, <1>3, <2>1, AcceptMoves
  <2> QED BY <1>3, <2>2, Dropped DEF Accept, peerVars, MayAsk
<1>4. ASSUME NEW k \in Connectors, CloseListener(k) PROVE UNCHANGED Service!serviceVars
  <2>1. \A c \in Conns : MayAsk(c)' <=> MayAsk(c)
    BY <1>0, <1>4, CloseMoves DEF MayAsk
  <2>2. Admitted' = Admitted
    BY <2>1 DEF MayAsk, Admitted
  <2> QED BY <1>4, <2>2, Unseen DEF CloseListener, peerVars
<1>5. ASSUME NEW d \in Conns, NEW k \in Connectors, Connect(d, k)
      PROVE  [Service!Next]_Service!serviceVars
  BY <1>0, <1>5, ConnectMoves, Dropped DEF MayAsk
<1>6. ASSUME NEW d \in Conns, ClientGreets(d) \/ ClientCloses(d)
      PROVE  UNCHANGED Service!serviceVars
  BY <1>6, Unseen DEF ClientGreets, ClientCloses, connVars, Admitted
<1>7. ASSUME NEW d \in Conns, ClientAsks(d) PROVE [Service!Next]_Service!serviceVars
  <2>1. UNCHANGED <<locked, replies>> /\ Admitted' = Admitted
    BY <1>7 DEF ClientAsks, connVars, Admitted
  <2>2. asked' = asked \/ asked' = [asked EXCEPT ![d] = asked[d] + 1]
    BY <1>7 DEF ClientAsks, Put
  <2>3. CASE asked' = asked
    BY <2>1, <2>3, Unseen
  <2>4. CASE asked' = [asked EXCEPT ![d] = asked[d] + 1]
    <3>1. Service!Ask(d)
      BY <2>1, <2>4 DEF Service!Ask, Admitted, Barred
    <3> QED BY <3>1 DEF Service!Next
  <2> QED BY <2>2, <2>3, <2>4
<1>8. CASE SessionChange
  <2>1. Service!Lock
    BY <1>8 DEF SessionChange, Service!Lock, Barred, connVars, peerVars
  <2> QED BY <2>1 DEF Service!Next
<1> QED BY <1>1, <1>2, <1>3, <1>4, <1>5, <1>6, <1>7, <1>8 DEF Next, Loop, Outside

\* On every connection the requests are answered in their order, each by Pageant's
\* answer to it or by a failure, and Pageant is not asked by a session that was
\* locked from the request to its answer (connector.go:571-629).
THEOREM ServiceCorrect == Spec => ServiceSpec
<1>1. Init => Service!Init
  BY ServiceInit
<1>2. BridgeInv /\ [Next]_vars => [Service!Next]_Service!serviceVars
  <2>1. UNCHANGED vars => UNCHANGED Service!serviceVars
    BY Unseen DEF vars, connVars, peerVars, Admitted
  <2> QED BY <2>1, ServiceStep
<1> QED BY <1>1, <1>2, BridgeAlways, PTL DEF Spec, ServiceSpec, Service!Spec
====
