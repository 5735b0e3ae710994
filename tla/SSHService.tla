----------------------------- MODULE SSHService -----------------------------
(***************************************************************************)
(* What the SSH connectors promise: on each connection the requests are    *)
(* answered one after the other, each by Pageant's answer to that request  *)
(* or by a failure, and Pageant is asked only if the session was not       *)
(* locked at some moment between the request and its answer.  SSHBridge    *)
(* implements this module.                                                 *)
(***************************************************************************)
EXTENDS Integers, Sequences

CONSTANT Conns

VARIABLES locked,    \* the user session is locked and that matters
          asked,     \* asked[c]: how many requests the client of c has sent
          admitted,  \* admitted[c]: its next request may go to Pageant
          replies    \* replies[c]: what the client was answered

serviceVars == <<locked, asked, admitted, replies>>

Init == /\ locked = FALSE
        /\ asked = [c \in Conns |-> 0]
        /\ admitted = [c \in Conns |-> FALSE]
        /\ replies = [c \in Conns |-> << >>]

Lock == locked' \in BOOLEAN /\ UNCHANGED <<asked, admitted, replies>>

Ask(c) == /\ asked' = [asked EXCEPT ![c] = @ + 1]
          /\ UNCHANGED <<locked, admitted, replies>>

Admit(c) == /\ ~locked /\ Len(replies[c]) < asked[c]
            /\ admitted' = [admitted EXCEPT ![c] = TRUE]
            /\ UNCHANGED <<locked, asked, replies>>

Reply(c) ==
    LET n == Len(replies[c]) + 1 IN
    /\ n <= asked[c]
    /\ \E by \in {"pageant", "agent"} :
          /\ by = "pageant" => admitted[c]
          /\ replies' = [replies EXCEPT ![c] = Append(@, [by |-> by, of |-> <<c, n>>])]
    /\ admitted' = [admitted EXCEPT ![c] = FALSE]
    /\ UNCHANGED <<locked, asked>>

Drop(c) == /\ admitted' = [admitted EXCEPT ![c] = FALSE]
           /\ UNCHANGED <<locked, asked, replies>>

Next == Lock \/ \E c \in Conns : Ask(c) \/ Admit(c) \/ Reply(c) \/ Drop(c)

Spec == Init /\ [][Next]_serviceVars
=============================================================================
