----------------------------- MODULE StreamPipe -----------------------------
(***************************************************************************)
(* What a relayed conversation promises to its two ends: each direction is *)
(* a pipe.  Chunks enter it numbered 1, 2, 3, ... and leave it in that     *)
(* order, none skipped and none twice, until the pipe breaks; after that   *)
(* nothing leaves it.  AssuanRelay implements this module, with a pipe for *)
(* each of its copiers, when no deadline is set.                           *)
(***************************************************************************)
EXTENDS Integers, Sequences

CONSTANT Pipes

VARIABLES sent,     \* sent[p]: how many chunks have entered p
          got,      \* got[p]: the chunks that have left p
          broken    \* broken[p]: p delivers nothing any more

pipeVars == <<sent, got, broken>>

Init == /\ sent = [p \in Pipes |-> 0]
        /\ got = [p \in Pipes |-> << >>]
        /\ broken = [p \in Pipes |-> FALSE]

Send(p) == /\ sent' = [sent EXCEPT ![p] = @ + 1]
           /\ UNCHANGED <<got, broken>>

Deliver(p) == /\ ~broken[p]
              /\ Len(got[p]) < sent[p]
              /\ got' = [got EXCEPT ![p] = Append(@, Len(@) + 1)]
              /\ UNCHANGED <<sent, broken>>

\* Any set of pipes may break at once: the death of the process breaks all.
Break(P) == /\ broken' = [p \in Pipes |-> broken[p] \/ p \in P]
            /\ UNCHANGED <<sent, got>>

Next == \/ \E p \in Pipes : Send(p) \/ Deliver(p)
        \/ \E P \in SUBSET Pipes : Break(P)

Spec == Init /\ [][Next]_pipeVars
=============================================================================
