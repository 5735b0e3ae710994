--------------------------- MODULE CommandChannel ---------------------------
(***************************************************************************)
(* What an Assuan session promises to its caller: a procedure call.  One   *)
(* command at a time is sent, it is answered once, and the call returns    *)
(* that answer, or an error when the session is over.  A loose session has *)
(* lost step and promises nothing any more.  AssuanSession implements this *)
(* module.                                                                 *)
(***************************************************************************)
EXTENDS Integers, Sequences

VARIABLES called,    \* how many calls were made
          answers,   \* the answers given, each naming its command
          results,   \* what the calls returned
          loose      \* the session has lost step

chanVars == <<called, answers, results, loose>>

Lost == [status |-> "io", of |-> 0, data |-> {}]

Init == called = 0 /\ answers = << >> /\ results = << >> /\ loose = FALSE

Call == /\ called = Len(results)
        /\ called' = called + 1
        /\ UNCHANGED <<answers, results, loose>>

\* None after a call that was lost.
Answer == /\ Len(answers) + 1 = called
          /\ \E s \in {"OK", "ERR"}, d \in SUBSET {called} :
                answers' = Append(answers, [status |-> s, of |-> called, data |-> d])
          /\ UNCHANGED <<called, results, loose>>

Return == /\ Len(results) < Len(answers)
          /\ results' = Append(results, answers[Len(results) + 1])
          /\ UNCHANGED <<called, answers, loose>>

\* An answer that was given is not lost.
Lose == /\ Len(results) < called /\ Len(answers) <= Len(results)
        /\ results' = Append(results, Lost)
        /\ UNCHANGED <<called, answers, loose>>

Next == \/ ~loose /\ (Call \/ Answer \/ Return \/ Lose)
        \/ loose'

Spec == Init /\ [][Next]_chanVars
=============================================================================
