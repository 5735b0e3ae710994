------------------------------ MODULE SoRelay ------------------------------
(***************************************************************************)
(* sorelay.exe (src/cmd/sorelay/main.go): one connection, copied from      *)
(* standard input to a socket and from the socket to standard output, in a *)
(* process that ends as soon as either copy does.                          *)
(*                                                                         *)
(* A direction is named after where it reads.  The programs at both ends   *)
(* send chunks numbered 1, 2, 3, ...; a source ends with its writer or     *)
(* fails, a sink may stall, take chunks again, or break for good.  What    *)
(* has been written to a sink reaches its reader though the process ends.  *)
(***************************************************************************)
EXTENDS Integers, Sequences

CONSTANTS MaxSent,    \* bound: chunks sent in one direction
          MaxStalls   \* bound: stalls of the sinks

SoRelayBounds == MaxSent \in Nat /\ MaxStalls \in Nat

VARIABLES
    conn,    \* "dialing", "open" or "closed": the connection
    hand,    \* hand[d]: the chunk io.Copy has read and not written, or 0
    done,    \* done[d]: io.Copy of d has returned: "no", "eof" or "error"
    exit,    \* the exit status; Running while there is none
    source,  \* source[d]: "open", "ended" or "failed"
    sink,    \* sink[d]: "open", "stalled" or "broken"
    sent,    \* sent[d]: chunks that have been sent in d
    taken,   \* taken[d]: chunks read from the source of d
    got,     \* got[d]: the chunks written to the sink of d
    stalls   \* what the bound counts

ends == <<source, sink, sent, stalls>>
vars == <<conn, hand, done, exit, ends, taken, got>>

Dirs == {"stdin", "socket"}
Running == 9

\* The values each part of the state ranges over.
TypeOK ==
    /\ conn \in {"dialing", "open", "closed"}
    /\ hand \in [Dirs -> 0..MaxSent]
    /\ done \in [Dirs -> {"no", "eof", "error"}]
    /\ exit \in {0, 1, Running}
    /\ source \in [Dirs -> {"open", "ended", "failed"}]
    /\ sink \in [Dirs -> {"open", "stalled", "broken"}]
    /\ sent \in [Dirs -> 0..MaxSent] /\ taken \in [Dirs -> 0..MaxSent]
    /\ got \in [Dirs -> Seq(1..MaxSent)]
    /\ stalls \in 0..MaxStalls

Init ==
    /\ conn = "dialing" /\ exit = Running
    /\ hand = [d \in Dirs |-> 0] /\ done = [d \in Dirs |-> "no"]
    /\ source = [d \in Dirs |-> "open"] /\ sink = [d \in Dirs |-> "open"]
    /\ sent = [d \in Dirs |-> 0] /\ taken = [d \in Dirs |-> 0]
    /\ got = [d \in Dirs |-> << >>]
    /\ stalls = 0

Put(f, d, v) == [f EXCEPT ![d] = v]

-----------------------------------------------------------------------------
(* main.                                                                   *)

Dial == conn = "dialing" /\ exit = Running /\ conn' = "open" /\ UNCHANGED <<hand, done, exit, ends, taken, got>>

DialFails == conn = "dialing" /\ exit = Running /\ exit' = 1 /\ UNCHANGED <<conn, hand, done, ends, taken, got>>

Copies(d) == conn = "open" /\ exit = Running /\ done[d] = "no"

Read(d) ==
    /\ Copies(d) /\ hand[d] = 0 /\ taken[d] < sent[d]
    /\ taken' = Put(taken, d, taken[d] + 1) /\ hand' = Put(hand, d, taken[d] + 1)
    /\ UNCHANGED <<conn, done, exit, ends, got>>

Write_Loses(d) ==
    /\ Copies(d) /\ hand[d] # 0 /\ sink[d] \in {"open", "stalled"}
    /\ hand' = Put(hand, d, 0)
    /\ got' = IF sink[d] = "open" THEN Put(got, d, Append(got[d], hand[d])) ELSE got
    /\ UNCHANGED <<conn, done, exit, ends, taken>>

\* A stalled sink blocks the write.
Write(d) ==
    /\ Copies(d) /\ hand[d] # 0 /\ sink[d] = "open"
    /\ hand' = Put(hand, d, 0) /\ got' = Put(got, d, Append(got[d], hand[d]))
    /\ UNCHANGED <<conn, done, exit, ends, taken>>

Returns(d, how) == done' = Put(done, d, how) /\ UNCHANGED <<conn, hand, exit, ends, taken, got>>

SourceEnds_Early(d) ==
    /\ Copies(d) /\ source[d] = "ended"
    /\ Returns(d, "eof")

\* End of file, once everything before it has been read.
SourceEnds(d) ==
    /\ Copies(d) /\ hand[d] = 0 /\ taken[d] = sent[d] /\ source[d] = "ended"
    /\ Returns(d, "eof")

\* An error of either end; IsNetClosing takes some of them for an end of file.
CopyFails(d) ==
    /\ Copies(d)
    /\ source[d] = "failed" \/ (hand[d] # 0 /\ sink[d] = "broken")
    /\ Returns(d, "error")

Exit_StdinOnly ==
    /\ exit = Running /\ done["stdin"] # "no"
    /\ exit' \in IF done["stdin"] = "error" THEN {0, 1} ELSE {0}
    /\ conn' = "closed"
    /\ UNCHANGED <<hand, done, ends, taken, got>>

\* The copy of standard input calls os.Exit, with 1 for an error; the other one
\* returns from main.  The rest of the process ends where it stands.
Exit ==
    /\ exit = Running /\ \E d \in Dirs : done[d] # "no"
    /\ exit' \in IF done["stdin"] = "error" THEN {0, 1} ELSE {0}
    /\ conn' = "closed"
    /\ UNCHANGED <<hand, done, ends, taken, got>>

-----------------------------------------------------------------------------
(* The programs at both ends.                                              *)

PeerSends(d) ==
    /\ source[d] = "open" /\ sent[d] < MaxSent
    /\ sent' = Put(sent, d, sent[d] + 1)
    /\ UNCHANGED <<conn, hand, done, exit, source, sink, stalls, taken, got>>

PeerEnds(d) ==
    /\ source[d] = "open"
    /\ \E how \in {"ended", "failed"} : source' = Put(source, d, how)
    /\ UNCHANGED <<conn, hand, done, exit, sink, sent, stalls, taken, got>>

PeerReads(d) ==
    /\ sink[d] # "broken"
    /\ \/ /\ sink[d] = "stalled" /\ sink' = Put(sink, d, "open")
          /\ UNCHANGED stalls
       \/ /\ stalls < MaxStalls /\ stalls' = stalls + 1
          /\ \E to \in {"stalled", "broken"} : sink' = Put(sink, d, to)
    /\ UNCHANGED <<conn, hand, done, exit, source, sent, taken, got>>

-----------------------------------------------------------------------------
Copy(d) == Read(d) \/ Write(d) \/ SourceEnds(d) \/ CopyFails(d)

Main == Dial \/ DialFails \/ Exit

Peers == \E d \in Dirs : PeerSends(d) \/ PeerEnds(d) \/ PeerReads(d)

Next == Main \/ (\E d \in Dirs : Copy(d)) \/ Peers

Spec == Init /\ [][Next]_vars

\* The goroutines run; nobody has to send, or to read.
FairSpec == Spec /\ WF_vars(Main) /\ \A d \in Dirs : WF_vars(Copy(d))

-----------------------------------------------------------------------------
(* Properties.                                                             *)

\* Both directions are pipes: nothing is lost, repeated or reordered in the
\* middle, and nothing arrives after the process has ended.
Pipe == INSTANCE StreamPipe WITH Pipes <- Dirs,
            broken <- [d \in Dirs |-> exit # Running \/ done[d] # "no"]
BothPipes == Pipe!Spec

\* The process ends by itself only with one direction at an end, and one that is
\* at the end of its file has been written in full.  The other may be cut at any
\* chunk, which the status does not tell.
OneWhole ==
    /\ \A d \in Dirs : done[d] = "eof" => Len(got[d]) = sent[d]
    /\ exit = 0 => \E d \in Dirs : done[d] # "no"

\* What is on the way, and what has arrived when it ends.
WholeRight == TypeOK /\ OneWhole

\* Either end can end the process: once a source is at its end, and the sink of
\* that direction takes what is left, the process ends, though the other
\* direction may be silent or stalled for ever.
ProcessEnds ==
    \A d \in Dirs :
        <>[](source[d] # "open" /\ sink[d] # "stalled") => <>(exit # Running)
=============================================================================
