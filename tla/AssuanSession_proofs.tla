------------------------ MODULE AssuanSession_proofs ------------------------
(* Proofs about AssuanSession: its types, that a call never completes the   *)
(* answer of one command with data of another, and that it implements       *)
(* CommandChannel.                                                          *)
EXTENDS AssuanSession, TLAPS

Statuses == {"OK", "ERR"}
CommandWords == {"NOP", "HELP", "OPTION", "CMD", "NOSUCH"}

\* Behind the data of a command is its status, or the stream ended there.
Whole(stream, ended) ==
    \A i \in 1..Len(stream) : stream[i].word = "D" =>
        \/ /\ i + 1 \in 1..Len(stream)
           /\ stream[i + 1].word \in Statuses /\ stream[i + 1].of = stream[i].of
        \/ i = Len(stream) /\ ended

\* What was read of an answer is all but its status.
Partial(stream, ended, data) ==
    \/ data = {}
    \/ stream # << >> /\ Head(stream).word \in Statuses /\ data = {Head(stream).of}
    \/ stream = << >> /\ ended

MixInv ==
    /\ Whole(toClient, spc = "end")
    /\ cpc \in Busy => Partial(toClient, spc = "end", rdata)
    /\ Unmixed

Between == cpc \in {"init", "idle"}
NoStatus(stream) == \A i \in 1..Len(stream) : stream[i].word \notin Statuses

\* Where an exchange stands.  The server has ended before it answered:
Over == spc = "end" /\ Len(answers) < called
        /\ NoStatus(toClient)

\* the command is on its way;
Sent == /\ spc = "read" /\ toClient = << >> /\ Len(answers) + 1 = called /\ rdata = {}
        /\ \E word \in CommandWords : toServer = <<Ln(word, called)>>

\* its handler runs, and may have inquired;
Handled == /\ spc \in {"ask", "wait"} /\ cur = called /\ Len(answers) + 1 = called /\ rdata = {}
           /\ spc = "ask" => toClient = << >> /\ toServer = << >>
           /\ spc = "wait" =>
                 \/ toClient = <<Ln("INQUIRE", called)>> /\ toServer = << >>
                 \/ /\ toClient = << >>
                    /\ toServer \in {<< >>, <<Ln("END", called)>>, <<Ln("D", called), Ln("END", called)>>}

\* it has been answered.
Answered ==
    /\ spc \in {"read", "end"} /\ Len(answers) = called
    /\ toServer = << >>
    /\ LET a == answers[called] IN
       /\ a.of = called /\ a.status \in Statuses
       /\ \/ toClient = <<Ln(a.status, called)>> /\ (a.status = "OK" => rdata = a.data)
             /\ (a.status = "ERR" => a.data = {})
          \/ toClient = <<Ln("D", called), Ln(a.status, called)>> /\ rdata = {}
             /\ a.data = (IF a.status = "OK" THEN {called} ELSE {})

\* One exchange at a time, until the session is loose.
TurnInv ==
    /\ cpc = "init" => /\ called = 0 /\ toServer = << >>
                       /\ \/ spc \in {"greet", "end"} /\ toClient = << >>
                          \/ spc \in {"read", "end"} /\ toClient = <<Ln("OK", 0)>>
    /\ spc = "greet" => cpc = "init"
    /\ Between => Len(results) = called
    /\ cpc \in Busy => Len(results) + 1 = called
    /\ Len(answers) <= called
    /\ cpc = "idle" => \/ spc = "read" /\ toServer = << >> /\ toClient = << >> /\ Len(answers) = called
                       \/ spc = "end" /\ NoStatus(toClient)
    /\ cpc \in Busy => Over \/ Sent \/ Handled \/ Answered
    /\ cpc = "closed" => \/ spc = "read" /\ toServer \in {<< >>, <<Ln("BYE", 0)>>}
                         \/ spc = "end"

SessionInv == TypeOK /\ MixInv /\ (~loose => TurnInv)

-----------------------------------------------------------------------------
(* Sequences.                                                               *)

LEMMA TailIs ==
  ASSUME NEW S, NEW s \in Seq(S), s # << >>
  PROVE  /\ Head(s) \in S /\ Tail(s) \in Seq(S) /\ Len(s) \in Nat \ {0}
         /\ Head(s) = s[1] /\ Len(Tail(s)) = Len(s) - 1
         /\ \A i \in 1..Len(Tail(s)) : i + 1 \in 1..Len(s) /\ Tail(s)[i] = s[i + 1]
  OBVIOUS

LEMMA AppendIs ==
  ASSUME NEW S, NEW s \in Seq(S), NEW e \in S
  PROVE  /\ Append(s, e) \in Seq(S) /\ Len(Append(s, e)) = Len(s) + 1 /\ Len(s) \in Nat
         /\ \A i \in 1..Len(s) : Append(s, e)[i] = s[i]
         /\ Append(s, e)[Len(s) + 1] = e
  OBVIOUS

LEMMA AppendHead ==
  ASSUME NEW S, NEW s \in Seq(S), NEW e \in S
  PROVE  /\ Append(s, e) # << >>
         /\ Head(Append(s, e)) = IF s = << >> THEN e ELSE Head(s)
<1>1. Append(s, e) \in Seq(S) /\ Len(Append(s, e)) = Len(s) + 1 /\ Len(s) \in Nat
  OBVIOUS
<1>2. Head(Append(s, e)) = Append(s, e)[1] /\ Append(s, e) # << >>
  BY <1>1
<1>3. CASE s = << >>
  BY <1>2, <1>3
<1>4. CASE s # << >>
  <2>1. 1 \in 1..Len(s) /\ Head(s) = s[1]
    BY <1>4, TailIs
  <2> QED BY <1>2, <1>4, <2>1, AppendIs
<1> QED BY <1>3, <1>4

LEMMA OneIs ==
  ASSUME NEW x
  PROVE  /\ Append(<< >>, x) = <<x>> /\ <<x>> # << >> /\ Len(<<x>>) = 1 /\ Len(<< >>) = 0
         /\ Head(<<x>>) = x /\ Tail(<<x>>) = << >> /\ <<x>>[1] = x
  OBVIOUS

LEMMA SameSeq ==
  ASSUME NEW S, NEW s \in Seq(S), NEW t \in Seq(S), Len(s) = Len(t),
         \A i \in 1..Len(s) : s[i] = t[i]
  PROVE  s = t
  OBVIOUS

LEMMA TwoIs ==
  ASSUME NEW x, NEW y
  PROVE  /\ Append(<<x>>, y) = <<x, y>> /\ <<x, y>> # << >> /\ Len(<<x, y>>) = 2
         /\ Head(<<x, y>>) = x /\ Tail(<<x, y>>) = <<y>>
         /\ <<x, y>>[1] = x /\ <<x, y>>[2] = y
<1>1. /\ <<x, y>> # << >> /\ Len(<<x, y>>) = 2 /\ Head(<<x, y>>) = x /\ Tail(<<x, y>>) = <<y>>
      /\ <<x, y>>[1] = x /\ <<x, y>>[2] = y
  OBVIOUS
<1>2. <<x>> \in Seq({x, y}) /\ Len(<<x>>) = 1 /\ <<x>>[1] = x /\ <<x, y>> \in Seq({x, y})
  OBVIOUS
<1>3. /\ Append(<<x>>, y) \in Seq({x, y}) /\ Len(Append(<<x>>, y)) = 1 + 1
      /\ \A i \in 1..1 : Append(<<x>>, y)[i] = <<x>>[i]
      /\ Append(<<x>>, y)[1 + 1] = y
  BY <1>2, AppendIs
<1>4. \A i \in 1..Len(Append(<<x>>, y)) : Append(<<x>>, y)[i] = <<x, y>>[i]
  BY <1>1, <1>2, <1>3
<1>5. Append(<<x>>, y) = <<x, y>>
  <2>1. Len(Append(<<x>>, y)) = Len(<<x, y>>)
    BY <1>1, <1>3
  <2> QED BY <1>2, <1>3, <1>4, <2>1, SameSeq, Zenon
<1> QED BY <1>1, <1>5

LEMMA LnIs ==
  ASSUME NEW word, NEW n
  PROVE  Ln(word, n).word = word /\ Ln(word, n).of = n
  BY DEF Ln

LEMMA LineIs ==
  ASSUME NEW n \in Calls
  PROVE  /\ \A word \in Verbs : Ln(word, n) \in Line(Verbs)
         /\ \A word \in Replies : Ln(word, n) \in Line(Replies)
  BY DEF Ln, Line

LEMMA ResIs ==
  ASSUME NEW n \in Calls, NEW data \in SUBSET Calls
  PROVE  \A status \in {"OK", "ERR", "io", "gaveUp"} :
            /\ Res(status, n, data) \in Result
            /\ Res(status, n, data).of = n /\ Res(status, n, data).data = data
            /\ Res(status, n, data).status = status
  BY DEF Res, Result

\* The next line each way.
LEMMA NextLines ==
  ASSUME TypeOK
  PROVE  /\ toServer # << >> =>
                /\ Tail(toServer) \in Seq(Line(Verbs))
                /\ Head(toServer).word \in Verbs /\ Head(toServer).of \in Calls
         /\ toClient # << >> =>
                /\ Tail(toClient) \in Seq(Line(Replies))
                /\ Head(toClient).word \in Replies /\ Head(toClient).of \in Calls
<1>1. toServer \in Seq(Line(Verbs)) /\ toClient \in Seq(Line(Replies))
  BY DEF TypeOK
<1>2. toServer # << >> => Tail(toServer) \in Seq(Line(Verbs)) /\ Head(toServer) \in Line(Verbs)
  BY <1>1, TailIs
<1>3. toClient # << >> => Tail(toClient) \in Seq(Line(Replies)) /\ Head(toClient) \in Line(Replies)
  BY <1>1, TailIs
<1> QED BY <1>2, <1>3 DEF Line

-----------------------------------------------------------------------------
(* Types.                                                                   *)

\* The server answers.
LEMMA AnswersType ==
  ASSUME TypeOK, NEW n \in Calls, NEW word \in Statuses, NEW data \in SUBSET {n},
         NEW stream \in Seq(Line(Replies)), Answers(stream, word, n, data)
  PROVE  toClient' \in Seq(Line(Replies)) /\ answers' \in Seq(Result)
<1>1. data \in SUBSET Calls
  OBVIOUS
<1>2. Ln(word, n) \in Line(Replies) /\ Res(word, n, data) \in Result
  BY <1>1, LineIs, ResIs DEF Statuses, Replies
<1>3. Append(stream, Ln(word, n)) \in Seq(Line(Replies))
  BY <1>2, AppendIs
<1>4. Append(answers, Res(word, n, data)) \in Seq(Result)
  BY <1>2, AppendIs DEF TypeOK
<1> QED BY <1>3, <1>4 DEF Answers, TypeOK

LEMMA ReturnsType ==
  ASSUME TypeOK, NEW status \in {"OK", "ERR", "io", "gaveUp"}, NEW n \in Calls,
         NEW data \in SUBSET Calls, Returns(Res(status, n, data))
  PROVE  results' \in Seq(Result) /\ cpc' = "idle"
<1>1. Res(status, n, data) \in Result
  BY ResIs
<1> QED BY <1>1, AppendIs DEF TypeOK, Returns

LEMMA CallerType ==
  ASSUME TypeOK, Caller
  PROVE  TypeOK'
<1>1. ASSUME NEW kind \in Busy, NEW word \in CommandWords, Call(kind, word) PROVE TypeOK'
  <2>1. called + 1 \in Calls
    BY <1>1, SessionBounds DEF TypeOK, Call, Calls
  <2>2. Append(toServer, Ln(word, called + 1)) \in Seq(Line(Verbs))
    BY <2>1, LineIs, AppendIs DEF TypeOK, CommandWords, Verbs
  <2> QED BY <1>1, <2>1, <2>2 DEF TypeOK, Call, Busy, serverVars
<1>2. CASE Close
  <2>1. 0 \in Calls
    BY SessionBounds DEF Calls
  <2>2. Append(toServer, Ln("BYE", 0)) \in Seq(Line(Verbs))
    BY <2>1, LineIs, AppendIs DEF TypeOK, Verbs
  <2> QED BY <1>2, <2>2 DEF TypeOK, Close, Busy, serverVars
<1> QED BY <1>1, <1>2 DEF Caller, CommandWords, Busy

LEMMA ClientType ==
  ASSUME TypeOK, Client
  PROVE  TypeOK'
<1>0. 0 \in Calls /\ {} \in SUBSET Calls
  BY SessionBounds DEF Calls
<1>1. CASE ClientInit
  BY <1>1, NextLines DEF ClientInit, TypeOK, serverVars
<1>2. CASE TakeStatus
  <2>1. Head(toClient).word \in {"OK", "ERR"} /\ Head(toClient).of \in Calls
        /\ Tail(toClient) \in Seq(Line(Replies))
    BY <1>2, NextLines DEF TakeStatus
  <2>2. PICK data \in SUBSET Calls : Returns(Res(Head(toClient).word, Head(toClient).of, data))
    BY <1>2 DEF TakeStatus, TypeOK
  <2>3. results' \in Seq(Result) /\ cpc' = "idle"
    BY <2>1, <2>2, ReturnsType
  <2> QED BY <1>2, <2>1, <2>3 DEF TakeStatus, TypeOK, serverVars
<1>3. CASE TakeData
  <2>1. Head(toClient).of \in Calls
    BY <1>3, NextLines DEF TakeData
  <2> QED BY <1>3, <2>1, NextLines DEF TakeData, TypeOK, serverVars
<1>4. CASE DataMalformed \/ SessionLost \/ GiveUp
  <2>1. results' \in Seq(Result) /\ cpc' = "idle"
    BY <1>0, <1>4, ReturnsType DEF DataMalformed, SessionLost, GiveUp
  <2>2. toClient' \in Seq(Line(Replies)) /\ toServer' \in Seq(Line(Verbs))
    <3>1. WriteLine(toServer, "CAN") \in Seq(Line(Verbs)) /\ WriteData(toServer) \in Seq(Line(Verbs))
      BY LineIs, AppendIs DEF WriteLine, WriteData, TypeOK, Verbs
    <3> QED BY <1>4, <3>1, NextLines DEF DataMalformed, SessionLost, GiveUp, TypeOK
  <2> QED BY <1>4, <2>1, <2>2 DEF DataMalformed, SessionLost, GiveUp, TypeOK, serverVars
<1>5. CASE IgnoreInquire
  BY <1>5, NextLines DEF IgnoreInquire, TypeOK, clientVars, serverVars
<1>6. CASE AnswerInquire
  <2>1. WriteData(toServer) \in Seq(Line(Verbs)) /\ toServer \in Seq(Line(Verbs))
    BY LineIs, AppendIs DEF WriteData, TypeOK, Verbs
  <2>2. \A stream \in {toServer, WriteData(toServer)} : WriteLine(stream, "END") \in Seq(Line(Verbs))
    BY <2>1, LineIs, AppendIs DEF WriteLine, TypeOK, Verbs
  <2> QED BY <1>6, <2>2, NextLines DEF AnswerInquire, TypeOK, clientVars, serverVars
<1> QED BY <1>1, <1>2, <1>3, <1>4, <1>5, <1>6 DEF Client

LEMMA ServerType ==
  ASSUME TypeOK, Server \/ ServerEnds
  PROVE  TypeOK'
<1>0. toServer # << >> => /\ Tail(toServer) \in Seq(Line(Verbs)) /\ Head(toServer).of \in Calls
  BY NextLines
<1>1. ASSUME NEW word \in Statuses, Says(word, Head(toServer).of), toServer # << >>
      PROVE  toClient' \in Seq(Line(Replies)) /\ answers' \in Seq(Result)
  <2>1. toClient \in Seq(Line(Replies)) /\ {} \in SUBSET {Head(toServer).of}
    BY DEF TypeOK
  <2> QED BY <1>0, <1>1, <2>1, AnswersType DEF Says
<1>2. CASE Nop \/ Help \/ Unknown \/ Option
  <2>1. toClient' \in Seq(Line(Replies)) /\ answers' \in Seq(Result)
    BY <1>1, <1>2 DEF Nop, Help, Unknown, Option, Reads, Statuses
  <2> QED BY <1>0, <1>2, <2>1 DEF Nop, Help, Unknown, Option, Reads, TypeOK, clientVars,
     serverVars
<1>3. CASE OptionRefused
  <2>1. SaysBoth(Head(toServer).of) /\ Head(toServer).of \in Calls /\ toServer # << >>
    BY <1>0, <1>3 DEF OptionRefused, Reads
  <2>2. /\ \A word \in Statuses : Ln(word, Head(toServer).of) \in Line(Replies)
        /\ \A word \in Statuses : Res(word, Head(toServer).of, {}) \in Result
    BY <2>1, LineIs, ResIs DEF Statuses, Replies
  <2>3. /\ Append(toClient, Ln("ERR", Head(toServer).of)) \in Seq(Line(Replies))
        /\ Append(answers, Res("ERR", Head(toServer).of, {})) \in Seq(Result)
    BY <2>2, AppendIs DEF TypeOK, Statuses
  <2>4. toClient' \in Seq(Line(Replies)) /\ answers' \in Seq(Result)
    BY <2>1, <2>2, <2>3, AppendIs DEF SaysBoth, Statuses
  <2> QED BY <1>0, <1>3, <2>4 DEF OptionRefused, Reads, TypeOK, clientVars, serverVars
<1>4. CASE Greet
  <2>1. Append(toClient, Ln("OK", 0)) \in Seq(Line(Replies))
    BY SessionBounds, LineIs, AppendIs DEF TypeOK, Replies, Calls
  <2> QED BY <1>4, <2>1 DEF Greet, TypeOK, clientVars
<1>5. CASE Command \/ OptionFails
  BY <1>0, <1>5 DEF Command, OptionFails, Reads, TypeOK, clientVars
<1>6. CASE Ask
  <2>1. Append(toClient, Ln("INQUIRE", cur)) \in Seq(Line(Replies))
    BY LineIs, AppendIs DEF TypeOK, Replies
  <2>2. left - 1 \in 0..MaxInquire
    BY <1>6, SessionBounds DEF Ask, TypeOK
  <2> QED BY <1>6, <2>1, <2>2 DEF Ask, TypeOK, clientVars
<1>7. CASE ReadData
  BY <1>0, <1>7 DEF ReadData, TypeOK, clientVars
<1>8. Append(toClient, Ln("D", cur)) \in Seq(Line(Replies)) /\ toClient \in Seq(Line(Replies))
  BY LineIs, AppendIs DEF TypeOK, Replies
<1>9. ASSUME NEW word \in Statuses, NEW data \in SUBSET {cur}, NEW stream \in Seq(Line(Replies)),
             Answers(stream, word, cur, data)
      PROVE  toClient' \in Seq(Line(Replies)) /\ answers' \in Seq(Result)
  BY <1>9, AnswersType DEF TypeOK
<1>10. CASE HandlerReturns
  <2>1. toClient' \in Seq(Line(Replies)) /\ answers' \in Seq(Result)
    <3>1. CASE UNCHANGED answers /\ toClient' \in {toClient, Append(toClient, Ln("D", cur))}
      BY <1>8, <3>1 DEF TypeOK
    <3>2. ASSUME NEW word \in Statuses, Says(word, cur)
          PROVE  toClient' \in Seq(Line(Replies)) /\ answers' \in Seq(Result)
      BY <1>8, <1>9, <3>2 DEF Says
    <3>3. CASE Answers(Append(toClient, Ln("D", cur)), "OK", cur, {cur})
      BY <1>8, <1>9, <3>3 DEF Statuses
    <3>4. CASE Answers(Append(toClient, Ln("D", cur)), "ERR", cur, {})
      BY <1>8, <1>9, <3>4 DEF Statuses
    <3> QED BY <1>10, <3>1, <3>2, <3>3, <3>4 DEF HandlerReturns, Statuses
  <2> QED BY <1>10, <2>1 DEF HandlerReturns, TypeOK, clientVars
<1>11. CASE InquireFails
  <2>1. toClient' \in Seq(Line(Replies)) /\ answers' \in Seq(Result)
    <3>1. CASE Says("ERR", cur)
      BY <1>8, <1>9, <3>1 DEF Says, Statuses
    <3>2. CASE UNCHANGED <<toClient, answers>>
      BY <3>2 DEF TypeOK
    <3> QED BY <1>11, <3>1, <3>2 DEF InquireFails
  <2>2. 0 \in 0..MaxInquire
    BY SessionBounds
  <2> QED BY <1>0, <1>11, <2>1, <2>2 DEF InquireFails, TypeOK, clientVars
<1>12. CASE ServerEnds
  BY <1>12 DEF ServerEnds, TypeOK, clientVars
<1> QED BY <1>2, <1>3, <1>4, <1>5, <1>6, <1>7, <1>10, <1>11, <1>12 DEF Server

LEMMA TypeStep ==
  ASSUME TypeOK, Next
  PROVE  TypeOK'
  BY CallerType, ClientType, ServerType DEF Next

-----------------------------------------------------------------------------
(* The data of a command and its status.                                    *)

LEMMA LessOne ==
  ASSUME NEW i \in Nat, NEW n \in Nat, i + 1 = n
  PROVE  i = n - 1
  OBVIOUS

LEMMA WholeTail ==
  ASSUME NEW s \in Seq(Line(Replies)), s # << >>, NEW ended, Whole(s, ended)
  PROVE  Whole(Tail(s), ended)
<1>1. /\ Len(s) \in Nat \ {0} /\ Len(Tail(s)) = Len(s) - 1
      /\ \A i \in 1..Len(Tail(s)) : i + 1 \in 1..Len(s) /\ Tail(s)[i] = s[i + 1]
  BY TailIs
<1>2. ASSUME NEW i \in 1..Len(Tail(s)), Tail(s)[i].word = "D"
      PROVE  \/ /\ i + 1 \in 1..Len(Tail(s))
                /\ Tail(s)[i + 1].word \in Statuses /\ Tail(s)[i + 1].of = Tail(s)[i].of
             \/ i = Len(Tail(s)) /\ ended
  <2>1. \/ /\ (i + 1) + 1 \in 1..Len(s)
           /\ s[(i + 1) + 1].word \in Statuses /\ s[(i + 1) + 1].of = s[i + 1].of
        \/ i + 1 = Len(s) /\ ended
    BY <1>1, <1>2 DEF Whole
  <2>2. (i + 1) + 1 \in 1..Len(s) => i + 1 \in 1..Len(Tail(s))
    BY <1>1
  <2>3. i + 1 = Len(s) => i = Len(Tail(s))
    <3>1. i \in Nat /\ Len(s) \in Nat /\ Len(Tail(s)) = Len(s) - 1
      BY <1>1
    <3> QED BY <3>1, LessOne
  <2> QED BY <1>1, <2>1, <2>2, <2>3
<1> QED BY <1>2 DEF Whole

LEMMA WholeAppend ==
  ASSUME NEW s \in Seq(Line(Replies)), NEW m \in Line(Replies), NEW ended, Whole(s, FALSE),
         m.word # "D" \/ ended
  PROVE  Whole(Append(s, m), ended)
<1>1. /\ Len(Append(s, m)) = Len(s) + 1 /\ Len(s) \in Nat
      /\ \A i \in 1..Len(s) : Append(s, m)[i] = s[i]
      /\ Append(s, m)[Len(s) + 1] = m
  BY AppendIs
<1>2. \A i \in 1..Len(s) : i \in 1..(Len(s) + 1)
  BY <1>1
<1>3. ASSUME NEW i \in 1..Len(s), s[i].word = "D"
      PROVE  i + 1 \in 1..Len(s) /\ s[i + 1].word \in Statuses /\ s[i + 1].of = s[i].of
  BY <1>3 DEF Whole
<1>4. \A i \in 1..(Len(s) + 1) : i \in 1..Len(s) \/ i = Len(s) + 1
  BY <1>1
<1> QED BY <1>1, <1>2, <1>3, <1>4 DEF Whole

LEMMA WholeData ==
  ASSUME NEW s \in Seq(Line(Replies)), NEW n \in Calls, NEW word \in Statuses, NEW ended,
         Whole(s, FALSE)
  PROVE  Whole(Append(Append(s, Ln("D", n)), Ln(word, n)), ended)
<1> DEFINE t == Append(s, Ln("D", n))
<1>1. /\ Ln("D", n) \in Line(Replies) /\ Ln(word, n) \in Line(Replies) /\ word # "D"
      /\ Ln("D", n).word = "D" /\ Ln("D", n).of = n /\ Ln(word, n).word = word /\ Ln(word, n).of = n
  BY LineIs, LnIs DEF Statuses, Replies
<1>2. /\ t \in Seq(Line(Replies)) /\ Len(t) = Len(s) + 1 /\ Len(s) \in Nat
      /\ \A i \in 1..Len(s) : t[i] = s[i]
      /\ t[Len(s) + 1] = Ln("D", n)
  BY <1>1, AppendIs
<1> HIDE DEF t
<1>3. /\ Len(Append(t, Ln(word, n))) = Len(t) + 1
      /\ \A i \in 1..Len(t) : Append(t, Ln(word, n))[i] = t[i]
      /\ Append(t, Ln(word, n))[Len(t) + 1] = Ln(word, n)
  BY <1>1, <1>2, AppendIs
<1>4. ASSUME NEW i \in 1..(Len(s) + 2), Append(t, Ln(word, n))[i].word = "D"
      PROVE  /\ i + 1 \in 1..(Len(s) + 2)
             /\ Append(t, Ln(word, n))[i + 1].word \in Statuses
             /\ Append(t, Ln(word, n))[i + 1].of = Append(t, Ln(word, n))[i].of
  <2>1. CASE i \in 1..Len(s)
    <3>1. i \in 1..Len(t) /\ Append(t, Ln(word, n))[i] = s[i]
      BY <1>2, <1>3, <2>1
    <3>2. i + 1 \in 1..Len(s) /\ s[i + 1].word \in Statuses /\ s[i + 1].of = s[i].of
      BY <1>4, <2>1, <3>1 DEF Whole
    <3>3. i + 1 \in 1..Len(t) /\ Append(t, Ln(word, n))[i + 1] = s[i + 1]
      BY <1>2, <1>3, <3>2
    <3> QED BY <1>2, <3>1, <3>2, <3>3
  <2>2. CASE i = Len(s) + 1
    <3>1. i = Len(t) /\ i \in 1..Len(t) /\ Append(t, Ln(word, n))[i] = Ln("D", n)
      BY <1>2, <1>3, <2>2
    <3>2. Append(t, Ln(word, n))[i + 1] = Ln(word, n) /\ i + 1 \in 1..(Len(s) + 2)
      BY <1>2, <1>3, <2>2, <3>1
    <3> QED BY <1>1, <3>1, <3>2
  <2>3. CASE i = Len(s) + 2
    <3>1. Append(t, Ln(word, n))[i] = Ln(word, n)
      BY <1>2, <1>3, <2>3
    <3> QED BY <1>1, <1>4, <3>1
  <2> QED BY <1>2, <2>1, <2>2, <2>3
<1>5. Len(Append(t, Ln(word, n))) = Len(s) + 2
  BY <1>2, <1>3
<1> QED BY <1>4, <1>5 DEF Whole, t

LEMMA MixStep ==
  ASSUME TypeOK, MixInv, Next
  PROVE  MixInv'
<1>0. /\ toClient \in Seq(Line(Replies)) /\ Whole(toClient, spc = "end") /\ Unmixed
      /\ cpc \in Busy => Partial(toClient, spc = "end", rdata)
      /\ results \in Seq(Result) /\ Len(results) \in Nat
  BY DEF TypeOK, MixInv
<1>1. toClient # << >> => Whole(Tail(toClient), spc = "end") /\ Tail(toClient) \in Seq(Line(Replies))
  BY <1>0, WholeTail, TailIs
\* What a call returns.
<1>2. ASSUME NEW r \in Result, r.data \subseteq {r.of}, results' = Append(results, r)
      PROVE  Unmixed'
  <2>1. /\ Len(results') = Len(results) + 1
        /\ \A n \in 1..Len(results) : results'[n] = results[n]
        /\ results'[Len(results) + 1] = r
    BY <1>0, <1>2, AppendIs
  <2>2. \A n \in 1..(Len(results) + 1) : n \in 1..Len(results) \/ n = Len(results) + 1
    BY <1>0
  <2> QED BY <1>0, <1>2, <2>1, <2>2 DEF Unmixed
<1>3. results' = results => Unmixed'
  BY <1>0 DEF Unmixed
<1>4. 0 \in Calls /\ {} \in SUBSET Calls /\ {} \subseteq {0}
  BY SessionBounds DEF Calls
\* What the server adds to its stream is not read before.
<1>5. ASSUME NEW m \in Line(Replies), cpc \in Busy, toClient' = Append(toClient, m),
             spc # "end", rdata' = rdata, cpc' = cpc
      PROVE  Partial(toClient', spc' = "end", rdata')
  BY <1>0, <1>5, AppendHead DEF Partial
<1>6. CASE Caller
  <2>1. toClient' = toClient /\ spc' = spc /\ results' = results
    BY <1>6 DEF Caller, Call, Close, serverVars
  <2>2. rdata' = {} \/ cpc' = "closed"
    BY <1>6 DEF Caller, Call, Close
  <2> QED BY <1>0, <1>3, <2>1, <2>2 DEF MixInv, Partial, Busy
<1>7. CASE ClientInit
  <2>1. cpc' \notin Busy /\ results' = results /\ spc' = spc /\ (toClient' = toClient \/ (toClient # << >> /\ toClient' = Tail(toClient)))
    BY <1>7 DEF ClientInit, Busy, serverVars
  <2> QED BY <1>0, <1>1, <1>3, <2>1 DEF MixInv
<1>8. CASE TakeStatus
  <2>1. /\ cpc \in Busy /\ toClient # << >> /\ toClient' = Tail(toClient) /\ spc' = spc
        /\ cpc' = "idle" /\ Head(toClient).word \in Statuses
        /\ results' = Append(results, Res(Head(toClient).word, Head(toClient).of,
                                IF Head(toClient).word = "OK" THEN rdata ELSE {}))
    BY <1>8 DEF TakeStatus, Returns, serverVars, Statuses
  <2>2. rdata \in {{}, {Head(toClient).of}}
    BY <1>0, <2>1 DEF Partial
  <2>3. Head(toClient).of \in Calls
    BY <2>1, NextLines
  <2>4. PICK data \in {{}, {Head(toClient).of}} :
            results' = Append(results, Res(Head(toClient).word, Head(toClient).of, data))
    BY <2>1, <2>2
  <2>5. /\ Res(Head(toClient).word, Head(toClient).of, data) \in Result
        /\ Res(Head(toClient).word, Head(toClient).of, data).of = Head(toClient).of
        /\ Res(Head(toClient).word, Head(toClient).of, data).data = data
    <3>1. data \in SUBSET Calls
      BY <2>3
    <3> QED BY <2>1, <2>3, <3>1, ResIs DEF Statuses
  <2>6. Unmixed'
    BY <1>2, <2>4, <2>5
  <2> QED BY <1>1, <2>1, <2>6 DEF MixInv, Busy
<1>9. CASE TakeData
  <2>1. /\ cpc \in Busy /\ toClient # << >> /\ toClient' = Tail(toClient) /\ spc' = spc
        /\ Head(toClient).word = "D" /\ rdata' = rdata \cup {Head(toClient).of} /\ results' = results
    BY <1>9 DEF TakeData, serverVars
  <2>2. rdata = {}
    BY <1>0, <2>1 DEF Partial, Statuses
  <2>3. \/ /\ Tail(toClient) # << >> /\ Head(Tail(toClient)).word \in Statuses
           /\ Head(Tail(toClient)).of = Head(toClient).of
        \/ Tail(toClient) = << >> /\ spc = "end"
    <3>1. /\ Len(toClient) \in Nat \ {0} /\ Len(Tail(toClient)) = Len(toClient) - 1
          /\ toClient[1] = Head(toClient)
          /\ \A i \in 1..Len(Tail(toClient)) : Tail(toClient)[i] = toClient[i + 1]
      BY <1>0, <2>1, TailIs
    <3>2. \/ /\ 1 + 1 \in 1..Len(toClient)
             /\ toClient[1 + 1].word \in Statuses /\ toClient[1 + 1].of = toClient[1].of
          \/ 1 = Len(toClient) /\ spc = "end"
      <4>1. 1 \in 1..Len(toClient) /\ toClient[1].word = "D"
        BY <2>1, <3>1
      <4> QED BY <1>0, <4>1 DEF Whole
    <3>3. 1 + 1 \in 1..Len(toClient) => 1 \in 1..Len(Tail(toClient))
      BY <3>1
    <3>4. Tail(toClient) # << >> => Head(Tail(toClient)) = Tail(toClient)[1]
      BY <1>1, <2>1, TailIs
    <3>5. 1 = Len(toClient) => Tail(toClient) = << >>
      BY <1>0, <1>1, <2>1, <3>1
    <3>6. 1 \in 1..Len(Tail(toClient)) => Tail(toClient) # << >>
      <4>1. Len(<< >>) = 0 /\ 1 \notin 1..0
        OBVIOUS
      <4> QED BY <4>1
    <3> QED BY <3>1, <3>2, <3>3, <3>4, <3>5, <3>6
  <2>4. Partial(toClient', spc' = "end", rdata')
    BY <2>1, <2>2, <2>3 DEF Partial
  <2> QED BY <1>1, <1>3, <2>1, <2>4 DEF MixInv
<1>10. CASE DataMalformed \/ GiveUp \/ SessionLost
  <2>1. /\ cpc' = "idle" /\ spc' = spc
        /\ toClient' = toClient \/ (toClient # << >> /\ toClient' = Tail(toClient))
        /\ \E status \in {"gaveUp", "io"} : results' = Append(results, Res(status, 0, {}))
    BY <1>10 DEF DataMalformed, GiveUp, SessionLost, Returns, serverVars
  <2>2. Unmixed'
    BY <1>2, <1>4, <2>1, ResIs
  <2> QED BY <1>0, <1>1, <2>1, <2>2 DEF MixInv, Busy
<1>11. CASE IgnoreInquire \/ AnswerInquire
  <2>1. /\ cpc \in Busy /\ toClient # << >> /\ toClient' = Tail(toClient) /\ spc' = spc
        /\ Head(toClient).word = "INQUIRE" /\ rdata' = rdata /\ results' = results
    BY <1>11 DEF IgnoreInquire, AnswerInquire, Busy, serverVars, clientVars
  <2>2. rdata = {}
    BY <1>0, <2>1 DEF Partial, Statuses
  <2> QED BY <1>1, <1>3, <2>1, <2>2 DEF MixInv, Partial
<1>12. CASE Server \/ ServerEnds
  <2>0. cpc' = cpc /\ rdata' = rdata /\ results' = results /\ spc # "end"
    BY <1>12 DEF Server, ServerEnds, Greet, Nop, Help, Unknown, Option, OptionRefused,
         OptionFails, Command, Ask, ReadData, HandlerReturns, InquireFails, Reads, clientVars
  <2>1. Whole(toClient, FALSE) /\ Whole(toClient, TRUE)
    BY <1>0, <2>0 DEF Whole
  <2>2. CASE toClient' = toClient
    <3>1. Whole(toClient', spc' = "end")
      BY <2>1, <2>2 DEF Whole
    <3> QED BY <1>0, <1>3, <2>0, <2>2, <3>1 DEF MixInv, Partial
  <2>3. ASSUME NEW m \in Line(Replies), toClient' = Append(toClient, m),
               m.word # "D" \/ spc' = "end"
        PROVE  MixInv'
    <3>1. Whole(toClient', spc' = "end")
      BY <1>0, <2>1, <2>3, WholeAppend
    <3> QED BY <1>3, <1>5, <2>0, <2>3, <3>1 DEF MixInv
  <2>4. ASSUME NEW n \in Calls, NEW first \in {"D", "ERR"}, NEW word \in Statuses,
               toClient' = Append(Append(toClient, Ln(first, n)), Ln(word, n))
        PROVE  MixInv'
    <3>1. /\ Ln(first, n) \in Line(Replies) /\ Ln(word, n) \in Line(Replies)
          /\ Ln(first, n).word = first /\ Ln(word, n).word = word /\ word # "D"
      BY LineIs, LnIs DEF Statuses, Replies
    <3>2. Append(toClient, Ln(first, n)) \in Seq(Line(Replies)) /\ Append(toClient, Ln(first, n)) # << >>
          /\ Head(Append(toClient, Ln(first, n))) = IF toClient = << >> THEN Ln(first, n) ELSE Head(toClient)
      BY <1>0, <3>1, AppendIs, AppendHead
    <3>3. /\ toClient' # << >>
          /\ Head(toClient') = IF toClient = << >> THEN Ln(first, n) ELSE Head(toClient)
      BY <2>4, <3>1, <3>2, AppendHead
    <3>4. Whole(toClient', spc' = "end")
      <4>1. CASE first = "D"
        BY <1>0, <2>1, <2>4, <4>1, WholeData
      <4>2. CASE first = "ERR"
        <5>1. Whole(Append(toClient, Ln(first, n)), FALSE)
          BY <1>0, <2>1, <3>1, <4>2, WholeAppend
        <5> QED BY <2>4, <3>1, <3>2, <5>1, WholeAppend
      <4> QED BY <4>1, <4>2
    <3>5. cpc \in Busy => Partial(toClient', spc' = "end", rdata')
      BY <1>0, <2>0, <3>3 DEF Partial
    <3> QED BY <1>3, <2>0, <3>4, <3>5 DEF MixInv
  <2>5. \/ toClient' = toClient
        \/ \E m \in Line(Replies) :
              toClient' = Append(toClient, m) /\ (m.word # "D" \/ spc' = "end")
        \/ \E n \in Calls, first \in {"D", "ERR"}, word \in Statuses :
              toClient' = Append(Append(toClient, Ln(first, n)), Ln(word, n))
    <3>1. cur \in Calls /\ (toServer # << >> => Head(toServer).of \in Calls)
      BY NextLines DEF TypeOK
    <3>2. ASSUME NEW n \in Calls, NEW word \in {"OK", "ERR", "INQUIRE"},
                 toClient' = Append(toClient, Ln(word, n))
          PROVE  \E m \in Line(Replies) :
                    toClient' = Append(toClient, m) /\ (m.word # "D" \/ spc' = "end")
      BY <3>2, LineIs, LnIs DEF Replies
    <3>3. CASE Nop \/ Help \/ Unknown \/ Option
      BY <3>1, <3>2, <3>3 DEF Nop, Help, Unknown, Option, Says, Answers, Reads
    <3>4. CASE OptionRefused
      BY <3>1, <3>4 DEF OptionRefused, SaysBoth, Reads, Statuses
    <3>5. CASE Greet \/ Ask
      BY <1>4, <3>1, <3>2, <3>5 DEF Greet, Ask
    <3>6. CASE OptionFails \/ Command \/ ReadData \/ ServerEnds
      BY <3>6 DEF OptionFails, Command, ReadData, ServerEnds
    <3>7. CASE InquireFails
      BY <3>1, <3>2, <3>7 DEF InquireFails, Says, Answers
    <3>8. CASE HandlerReturns
      <4>1. Ln("D", cur) \in Line(Replies)
        BY <3>1, LineIs DEF Replies
      <4> QED BY <3>1, <3>2, <3>8, <4>1 DEF HandlerReturns, Says, Answers, Statuses
    <3> QED BY <1>12, <3>3, <3>4, <3>5, <3>6, <3>7, <3>8 DEF Server
  <2> QED BY <2>2, <2>3, <2>4, <2>5
<1> QED BY <1>6, <1>7, <1>8, <1>9, <1>10, <1>11, <1>12 DEF Next, Client

-----------------------------------------------------------------------------
(* The exchange of a command and its answer.                                *)

LEMMA NoStatusIs ==
  ASSUME NEW s \in Seq(Line(Replies)), NoStatus(s)
  PROVE  /\ s # << >> => NoStatus(Tail(s)) /\ Head(s).word \notin Statuses
         /\ \A m \in Line(Replies) : m.word \notin Statuses => NoStatus(Append(s, m))
<1>1. s # << >> => NoStatus(Tail(s)) /\ Head(s).word \notin Statuses
  <2>1. SUFFICES ASSUME s # << >> PROVE NoStatus(Tail(s)) /\ Head(s).word \notin Statuses
    OBVIOUS
  <2>2. /\ Len(s) \in Nat \ {0} /\ Head(s) = s[1]
        /\ \A i \in 1..Len(Tail(s)) : i + 1 \in 1..Len(s) /\ Tail(s)[i] = s[i + 1]
    BY <2>1, TailIs
  <2>3. 1 \in 1..Len(s)
    BY <2>2
  <2> QED BY <2>2, <2>3 DEF NoStatus
<1>2. ASSUME NEW m \in Line(Replies), m.word \notin Statuses PROVE NoStatus(Append(s, m))
  <2>1. /\ Len(Append(s, m)) = Len(s) + 1 /\ Len(s) \in Nat
        /\ \A i \in 1..Len(s) : Append(s, m)[i] = s[i]
        /\ Append(s, m)[Len(s) + 1] = m
    BY AppendIs
  <2>2. \A i \in 1..(Len(s) + 1) : i \in 1..Len(s) \/ i = Len(s) + 1
    BY <2>1
  <2> QED BY <1>2, <2>1, <2>2 DEF NoStatus
<1> QED BY <1>1, <1>2

\* A step of a call in progress, and of a session without one.
LEMMA TurnBusy ==
  ASSUME cpc' \in Busy, Len(results') + 1 = called', Len(answers') <= called', spc' # "greet",
         Over' \/ Sent' \/ Handled' \/ Answered'
  PROVE  TurnInv'
  BY DEF TurnInv, Busy, Between

LEMMA TurnIdle ==
  ASSUME cpc' = "idle", Len(results') = called', Len(answers') <= called', NoStatus(toClient'),
         \/ spc' = "read" /\ toServer' = << >> /\ toClient' = << >> /\ Len(answers') = called'
         \/ spc' = "end"
  PROVE  TurnInv'
  BY DEF TurnInv, Busy, Between

LEMMA TurnClosed ==
  ASSUME cpc' = "closed", Len(answers') <= called',
         spc' = "end" \/ (spc' = "read" /\ toServer' \in {<< >>, <<Ln("BYE", 0)>>})
  PROVE  TurnInv'
  BY DEF TurnInv, Busy, Between

LEMMA Numbers ==
  ASSUME TypeOK
  PROVE  /\ called \in Nat /\ Len(answers) \in Nat /\ Len(results) \in Nat
         /\ toClient \in Seq(Line(Replies)) /\ NoStatus(<< >>)
         /\ answers \in Seq(Result) /\ results \in Seq(Result)
<1>1. /\ called \in Nat
      /\ answers \in Seq(Result) /\ results \in Seq(Result) /\ toClient \in Seq(Line(Replies))
  BY SessionBounds DEF TypeOK, Calls
<1>2. Len(answers) \in Nat /\ Len(results) \in Nat
  BY <1>1
<1>3. NoStatus(<< >>)
  BY DEF NoStatus
<1> QED BY <1>1, <1>2, <1>3

LEMMA CallerTurn ==
  ASSUME TypeOK, TurnInv, Caller
  PROVE  TurnInv'
<1>0. cpc = "idle" /\ Len(results) = called /\ Len(answers) <= called
  BY DEF TurnInv, Between, Caller, Call, Close
<1>1. ASSUME NEW kind \in Busy, NEW word \in CommandWords, Call(kind, word) PROVE TurnInv'
  <2>1. /\ cpc' \in Busy /\ called' = called + 1 /\ rdata' = {} /\ spc' = spc
        /\ toServer' = Append(toServer, Ln(word, called')) /\ toClient' = toClient
        /\ answers' = answers /\ results' = results
    BY <1>1 DEF Call, serverVars
  <2>2. Len(results') + 1 = called' /\ Len(answers') <= called' /\ Len(answers') < called'
    BY <1>0, <2>1, Numbers
  <2>3. CASE spc = "read" /\ toServer = << >> /\ toClient = << >> /\ Len(answers) = called
    <3>1. Sent'
      BY <2>1, <2>3, OneIs DEF Sent
    <3> QED BY <2>1, <2>2, <2>3, <3>1, TurnBusy
  <2>4. CASE spc = "end" /\ NoStatus(toClient)
    <3>1. Over'
      BY <2>1, <2>2, <2>4 DEF Over
    <3> QED BY <2>1, <2>2, <2>4, <3>1, TurnBusy
  <2> QED BY <1>0, <2>3, <2>4 DEF TurnInv
<1>2. CASE Close
  <2>1. cpc' = "closed" /\ spc' = spc /\ toServer' = Append(toServer, Ln("BYE", 0))
        /\ called' = called /\ answers' = answers
    BY <1>2 DEF Close, serverVars
  <2>2. spc = "end" \/ (spc = "read" /\ toServer = << >>)
    BY <1>0 DEF TurnInv
  <2> QED BY <1>0, <2>1, <2>2, OneIs, TurnClosed
<1> QED BY <1>1, <1>2 DEF Caller, CommandWords, Busy

LEMMA ClientTurn ==
  ASSUME TypeOK, TurnInv, Client, ~loose'
  PROVE  TurnInv'
<1>0. called \in Nat /\ Len(answers) \in Nat /\ Len(results) \in Nat /\ Len(answers) <= called
  BY Numbers DEF TurnInv
<1>1. CASE ClientInit
  <2>1. called = 0 /\ Len(results) = called /\ Len(answers) = called /\ toServer = << >>
    BY <1>0, <1>1 DEF ClientInit, TurnInv, Between
  <2>2. UNCHANGED <<called, results, answers, toServer, spc>>
    BY <1>1 DEF ClientInit, serverVars
  <2>3. CASE toClient = << >>
    BY <1>0, <1>1, <2>2, <2>3, TurnClosed DEF ClientInit
  <2>4. CASE toClient # << >>
    <3>1. toClient = <<Ln("OK", 0)>> /\ spc \in {"read", "end"}
      BY <1>1, <2>4 DEF ClientInit, TurnInv
    <3>2. cpc' = "idle" /\ toClient' = << >>
      BY <1>1, <2>4, <3>1, OneIs DEF ClientInit
    <3> QED BY <1>0, <2>1, <2>2, <3>1, <3>2, Numbers, TurnIdle
  <2> QED BY <2>3, <2>4
<1>2. ASSUME cpc \in Busy PROVE Len(results) + 1 = called /\ (Over \/ Sent \/ Handled \/ Answered)
  BY <1>2 DEF TurnInv
<1>3. Over /\ toClient # << >> => NoStatus(Tail(toClient)) /\ Head(toClient).word \notin Statuses
  BY Numbers, NoStatusIs DEF Over
<1>4. Sent => toClient = << >>
  BY DEF Sent
<1>5. ASSUME Handled, toClient # << >>
      PROVE  Head(toClient).word = "INQUIRE" /\ Tail(toClient) = << >> /\ spc = "wait" /\ toServer = << >>
  <2>1. spc = "wait" /\ toClient = <<Ln("INQUIRE", called)>> /\ toServer = << >>
    BY <1>5 DEF Handled
  <2>2. Head(toClient) = Ln("INQUIRE", called) /\ Tail(toClient) = << >>
    BY <2>1, OneIs
  <2> QED BY <2>1, <2>2, LnIs
<1>6. ASSUME Answered
      PROVE  \/ /\ toClient = <<Ln(answers[called].status, called)>> /\ Tail(toClient) = << >>
                /\ Head(toClient).word \in Statuses
             \/ /\ toClient = <<Ln("D", called), Ln(answers[called].status, called)>>
                /\ Tail(toClient) = <<Ln(answers[called].status, called)>>
                /\ Head(toClient).word = "D" /\ Head(toClient).of = called
  <2>1. CASE toClient = <<Ln(answers[called].status, called)>>
    <3>1. Head(toClient) = Ln(answers[called].status, called) /\ Tail(toClient) = << >>
      BY <2>1, OneIs
    <3>2. answers[called].status \in Statuses
      BY <1>6 DEF Answered
    <3> QED BY <2>1, <3>1, <3>2, LnIs
  <2>2. CASE toClient = <<Ln("D", called), Ln(answers[called].status, called)>>
    <3>1. Head(toClient) = Ln("D", called) /\ Tail(toClient) = <<Ln(answers[called].status, called)>>
      BY <2>2, TwoIs
    <3> QED BY <2>2, <3>1, LnIs
  <2> QED BY <1>6, <2>1, <2>2 DEF Answered
<1>7. CASE TakeStatus
  <2>1. cpc \in Busy /\ toClient # << >> /\ Head(toClient).word \in Statuses
    BY <1>7 DEF TakeStatus, Statuses
  <2>2. Answered /\ Tail(toClient) = << >> /\ Len(results) + 1 = called
    BY <1>2, <1>3, <1>4, <1>5, <1>6, <2>1 DEF Statuses
  <2>3. /\ cpc' = "idle" /\ toClient' = << >> /\ UNCHANGED <<called, spc, toServer, answers>>
        /\ \E r : results' = Append(results, r)
    BY <1>7, <2>2 DEF TakeStatus, Returns, serverVars
  <2>4. Len(results') = called' /\ spc' \in {"read", "end"} /\ Len(answers') = called' /\ toServer' = << >>
    BY <1>0, <2>2, <2>3, Numbers DEF Answered
  <2> QED BY <1>0, <2>3, <2>4, Numbers, TurnIdle
<1>8. CASE TakeData
  <2>1. cpc \in Busy /\ toClient # << >> /\ Head(toClient).word = "D" /\ toClient' = Tail(toClient)
        /\ rdata' = rdata \cup {Head(toClient).of}
        /\ UNCHANGED <<cpc, called, results, spc, cur, left, toServer, answers>>
    BY <1>8 DEF TakeData, serverVars
  <2>2. CASE Over
    <3>1. Over'
      BY <1>3, <2>1, <2>2 DEF Over
    <3> QED BY <1>0, <1>2, <2>1, <2>2, <3>1, TurnBusy DEF Over
  <2>3. CASE Answered
    <3>1. Answered'
      BY <1>6, <2>1, <2>3, OneIs, TwoIs, LnIs DEF Answered, Statuses
    <3> QED BY <1>0, <1>2, <2>1, <2>3, <3>1, TurnBusy DEF Answered
  <2> QED BY <1>2, <1>4, <1>5, <2>1, <2>2, <2>3
<1>9. CASE DataMalformed \/ GiveUp
  BY <1>9 DEF DataMalformed, GiveUp
<1>10. CASE IgnoreInquire \/ AnswerInquire
  <2>1. cpc \in Busy /\ toClient # << >> /\ Head(toClient).word = "INQUIRE" /\ toClient' = Tail(toClient)
        /\ UNCHANGED <<cpc, called, results, rdata, spc, cur, left, answers>>
    BY <1>10 DEF IgnoreInquire, AnswerInquire, clientVars, serverVars, Busy
  <2>2. CASE Over
    <3>1. Over'
      BY <1>3, <2>1, <2>2 DEF Over
    <3> QED BY <1>0, <1>2, <2>1, <2>2, <3>1, TurnBusy DEF Over
  <2>3. CASE Handled
    <3>1. Tail(toClient) = << >> /\ spc = "wait" /\ toServer = << >>
      BY <1>5, <2>1, <2>3
    <3>2. toServer' \in {<< >>, <<Ln("END", called)>>, <<Ln("D", called), Ln("END", called)>>}
      BY <1>10, <3>1, OneIs, TwoIs DEF IgnoreInquire, AnswerInquire, WriteLine, WriteData
    <3>3. Handled'
      BY <2>1, <2>3, <3>1, <3>2 DEF Handled
    <3> QED BY <1>0, <1>2, <2>1, <3>1, <3>3, TurnBusy
  <2> QED BY <1>2, <1>4, <1>6, <2>1, <2>2, <2>3 DEF Statuses
<1>11. CASE SessionLost
  <2>1. /\ cpc \in Busy /\ cpc' = "idle" /\ spc' = "end" /\ toClient' = << >>
        /\ UNCHANGED <<called, answers>> /\ \E r : results' = Append(results, r)
    BY <1>11 DEF SessionLost, Returns, serverVars
  <2>2. Len(results') = called'
    BY <1>0, <1>2, <2>1, Numbers
  <2> QED BY <1>0, <2>1, <2>2, Numbers, TurnIdle
<1> QED BY <1>1, <1>7, <1>8, <1>9, <1>10, <1>11 DEF Client

\* Where the server stands while the session keeps step.
LEMMA ServerAt ==
  ASSUME TypeOK, TurnInv, spc # "end"
  PROVE  /\ spc = "greet" => cpc = "init" /\ toClient = << >> /\ toServer = << >>
         /\ spc = "read" =>
               \/ toServer = << >>
               \/ cpc = "closed" /\ toServer = <<Ln("BYE", 0)>>
               \/ cpc \in Busy /\ Sent
         /\ spc \in {"ask", "wait"} => cpc \in Busy /\ Handled
<1>1. cpc \in {"init", "idle", "closed"} \cup Busy
  BY DEF TypeOK
<1>2. CASE cpc \notin Busy
  BY <1>1, <1>2 DEF TurnInv
<1>3. CASE cpc \in Busy
  BY <1>3 DEF TurnInv, Over, Sent, Handled, Answered, Busy
<1> QED BY <1>2, <1>3

LEMMA ServerTurn ==
  ASSUME TypeOK, TurnInv, Server \/ ServerEnds, ~loose'
  PROVE  TurnInv'
<1>0. /\ called \in Nat /\ Len(answers) \in Nat /\ Len(results) \in Nat /\ Len(answers) <= called
      /\ answers \in Seq(Result)
      /\ cpc \in Busy => Len(results) + 1 = called /\ (Over \/ Sent \/ Handled \/ Answered)
  BY Numbers DEF TurnInv
<1>00. cpc' = cpc /\ called' = called /\ rdata' = rdata /\ results' = results /\ spc # "end"
  BY DEF Server, ServerEnds, Greet, Nop, Help, Unknown, Option, OptionRefused,
     OptionFails, Command, Ask, ReadData, HandlerReturns, InquireFails, Reads, clientVars
<1>01. ASSUME cpc \in Busy, Answered' \/ Handled' \/ Over' PROVE TurnInv'
  <2>1. Len(answers') <= called' /\ spc' # "greet"
    BY <1>0, <1>00, <1>01 DEF Answered, Handled, Over
  <2> QED BY <1>0, <1>00, <1>01, <2>1, TurnBusy
\* The server answers a command without more ado.
<1>1. ASSUME NEW words, Reads(words), NEW word \in Statuses, Says(word, Head(toServer).of),
             spc' = spc
      PROVE  TurnInv'
  <2>1. spc = "read" /\ toServer # << >> /\ toServer' = Tail(toServer)
    BY <1>1 DEF Reads
  <2>2. CASE cpc = "closed" /\ toServer = <<Ln("BYE", 0)>>
    <3>1. toServer' = << >> /\ answers' = answers
      BY <1>1, <2>1, <2>2, OneIs, LnIs DEF Says, Answers
    <3> QED BY <1>0, <1>00, <1>1, <2>1, <2>2, <3>1, TurnClosed
  <2>3. CASE cpc \in Busy /\ Sent
    <3>1. Head(toServer).of = called /\ toServer' = << >> /\ toClient = << >> /\ rdata = {}
          /\ Len(answers) + 1 = called
      BY <2>1, <2>3, OneIs, LnIs DEF Sent
    <3>2. called # 0 /\ called \in Calls
      BY <1>0, <3>1 DEF TypeOK
    <3>3. /\ Res(word, called, {}) \in Result /\ Res(word, called, {}).of = called
          /\ Res(word, called, {}).status = word /\ Res(word, called, {}).data = {}
      BY <3>2, ResIs DEF Statuses
    <3>4. toClient' = <<Ln(word, called)>> /\ answers' = Append(answers, Res(word, called, {}))
      BY <1>1, <3>1, <3>2, OneIs DEF Says, Answers
    <3>5. Len(answers') = called /\ answers'[called] = Res(word, called, {})
      BY <1>0, <3>1, <3>3, <3>4, AppendIs
    <3>6. Answered'
      BY <1>00, <1>1, <2>1, <3>1, <3>3, <3>4, <3>5 DEF Answered
    <3> QED BY <1>01, <2>3, <3>6
  <2> QED BY <2>1, <2>2, <2>3, ServerAt
<1>2. CASE Nop \/ Help \/ Unknown \/ Option
  BY <1>1, <1>2 DEF Nop, Help, Unknown, Option, Statuses, serverVars
<1>3. CASE OptionRefused
  BY <1>3 DEF OptionRefused
<1>4. CASE Greet
  <2>1. cpc = "init" /\ spc' = "read" /\ toClient' = <<Ln("OK", 0)>> /\ toServer' = toServer /\ answers' = answers
    BY <1>4, ServerAt, OneIs DEF Greet
  <2> QED BY <1>00, <2>1 DEF TurnInv, Busy, Between
<1>5. CASE OptionFails
  <2>1. spc = "read" /\ toServer # << >> /\ spc' = "end" /\ toClient' = toClient /\ answers' = answers
    BY <1>5 DEF OptionFails, Reads
  <2>2. CASE cpc = "closed"
    BY <1>0, <1>00, <2>1, <2>2, TurnClosed
  <2>3. CASE cpc \in Busy /\ Sent
    <3>1. Over'
      BY <1>0, <1>00, <2>1, <2>3, Numbers DEF Sent, Over
    <3> QED BY <1>01, <2>3, <3>1
  <2> QED BY <2>1, <2>2, <2>3, ServerAt
<1>6. CASE Command
  <2>1. spc = "read" /\ toServer # << >> /\ toServer' = Tail(toServer) /\ Head(toServer).word = "CMD"
        /\ spc' = "ask" /\ cur' = Head(toServer).of /\ toClient' = toClient /\ answers' = answers
    BY <1>6 DEF Command, Reads
  <2>2. cpc \in Busy /\ Sent
    BY <2>1, ServerAt, OneIs, LnIs
  <2>3. Handled'
    BY <1>00, <2>1, <2>2, OneIs, LnIs DEF Sent, Handled
  <2> QED BY <1>01, <2>2, <2>3
<1>7. CASE Ask
  <2>1. cpc \in Busy /\ Handled /\ toClient = << >> /\ toServer = << >>
    BY <1>7, ServerAt DEF Ask, Handled
  <2>2. toClient' = <<Ln("INQUIRE", called)>> /\ UNCHANGED <<toServer, answers, cur>> /\ spc' = "wait"
    BY <1>7, <2>1, OneIs DEF Ask, Handled
  <2>3. Handled'
    BY <1>00, <2>1, <2>2 DEF Handled
  <2> QED BY <1>01, <2>1, <2>3
<1>8. CASE ReadData \/ InquireFails
  <2>1. cpc \in Busy /\ Handled /\ spc = "wait" /\ toServer # << >> /\ toServer' = Tail(toServer)
    BY <1>8, ServerAt DEF ReadData, InquireFails
  <2>2. toClient = << >> /\ toServer \in {<<Ln("END", called)>>, <<Ln("D", called), Ln("END", called)>>}
    BY <2>1 DEF Handled
  <2>3. CASE toServer = <<Ln("END", called)>>
    <3>1. Head(toServer).word = "END" /\ toServer' = << >>
      BY <2>1, <2>3, OneIs, LnIs
    <3>2. spc' = "ask" /\ UNCHANGED <<cur, toClient, answers>>
      BY <1>8, <3>1 DEF ReadData, InquireFails
    <3>3. Handled'
      BY <1>00, <2>1, <2>2, <3>1, <3>2 DEF Handled
    <3> QED BY <1>01, <2>1, <3>3
  <2>4. CASE toServer = <<Ln("D", called), Ln("END", called)>>
    <3>1. Head(toServer).word = "D" /\ toServer' = <<Ln("END", called)>>
      BY <2>1, <2>4, TwoIs, LnIs
    <3>2. spc' = "wait" /\ UNCHANGED <<cur, toClient, answers>>
      BY <1>8, <3>1 DEF ReadData, InquireFails
    <3>3. Handled'
      BY <1>00, <2>1, <2>2, <3>1, <3>2 DEF Handled
    <3> QED BY <1>01, <2>1, <3>3
  <2> QED BY <2>2, <2>3, <2>4
<1>9. CASE HandlerReturns
  <2>1. cpc \in Busy /\ Handled /\ toClient = << >> /\ toServer = << >> /\ cur = called
        /\ Len(answers) + 1 = called /\ rdata = {} /\ toServer' = toServer
    BY <1>9, ServerAt DEF HandlerReturns, Handled
  <2>2. called # 0 /\ called \in Calls
    BY <1>0, <2>1 DEF TypeOK
  <2>3. ASSUME NEW word \in Statuses, NEW data \in SUBSET {called}, spc' = "read",
               answers' = Append(answers, Res(word, called, data)),
               \/ toClient' = <<Ln(word, called)>> /\ data = {}
               \/ /\ toClient' = <<Ln("D", called), Ln(word, called)>>
                  /\ data = (IF word = "OK" THEN {called} ELSE {})
        PROVE  TurnInv'
    <3>1. data \in SUBSET Calls
      BY <2>2
    <3>2. /\ Res(word, called, data) \in Result /\ Res(word, called, data).of = called
          /\ Res(word, called, data).status = word /\ Res(word, called, data).data = data
      BY <2>2, <3>1, ResIs DEF Statuses
    <3>3. Len(answers') = called /\ answers'[called] = Res(word, called, data)
      BY <1>0, <2>1, <2>3, <3>2, AppendIs
    <3>4. Answered'
      BY <1>00, <2>1, <2>3, <3>2, <3>3 DEF Answered
    <3> QED BY <1>01, <2>1, <3>4
  <2>4. CASE spc' = "end" /\ answers' = answers /\ toClient' \in {toClient, Append(toClient, Ln("D", cur))}
    <3>1. Ln("D", cur) \in Line(Replies) /\ Ln("D", cur).word \notin Statuses
      BY <2>1, <2>2, LineIs, LnIs DEF Replies, Statuses
    <3>2. NoStatus(toClient')
      BY <2>1, <2>4, <3>1, Numbers, NoStatusIs
    <3>3. Over'
      BY <1>0, <1>00, <2>1, <2>4, <3>2 DEF Over
    <3> QED BY <1>01, <2>1, <3>3
  <2>5. CASE spc' = "read" /\ \E word \in {"OK", "ERR"} : Says(word, cur)
    BY <2>1, <2>2, <2>3, <2>5, OneIs DEF Says, Answers, Statuses
  <2>6. CASE spc' = "read" /\ Answers(Append(toClient, Ln("D", cur)), "OK", cur, {cur})
    <3>1. /\ Append(toClient, Ln("D", cur)) = <<Ln("D", called)>>
          /\ Append(<<Ln("D", called)>>, Ln("OK", called)) = <<Ln("D", called), Ln("OK", called)>>
      BY <2>1, OneIs, TwoIs
    <3>2. toClient' = <<Ln("D", called), Ln("OK", called)>>
          /\ answers' = Append(answers, Res("OK", called, {called}))
      BY <2>1, <2>2, <2>6, <3>1 DEF Answers
    <3> QED BY <2>3, <2>6, <3>2 DEF Statuses
  <2>7. CASE spc' = "read" /\ Answers(Append(toClient, Ln("D", cur)), "ERR", cur, {})
    <3>1. /\ Append(toClient, Ln("D", cur)) = <<Ln("D", called)>>
          /\ Append(<<Ln("D", called)>>, Ln("ERR", called)) = <<Ln("D", called), Ln("ERR", called)>>
      BY <2>1, OneIs, TwoIs
    <3>2. toClient' = <<Ln("D", called), Ln("ERR", called)>>
          /\ answers' = Append(answers, Res("ERR", called, {}))
      BY <2>1, <2>2, <2>7, <3>1 DEF Answers
    <3> QED BY <2>3, <2>7, <3>2 DEF Statuses
  <2> QED BY <1>9, <2>4, <2>5, <2>6, <2>7 DEF HandlerReturns
<1>10. CASE ServerEnds
  <2>1. spc' = "end" /\ UNCHANGED <<cur, toServer, toClient, answers>>
    BY <1>10 DEF ServerEnds
  <2>2. CASE cpc \in Busy
    <3>1. CASE Sent
      <4>1. Over'
        BY <1>0, <1>00, <2>1, <3>1, Numbers DEF Sent, Over
      <4> QED BY <1>01, <2>2, <4>1
    <3>2. CASE Handled
      <4>1. toClient = << >> \/ toClient = <<Ln("INQUIRE", called)>>
        BY <3>2 DEF Handled
      <4>2. NoStatus(toClient)
        BY <4>1, OneIs, LnIs, Numbers DEF NoStatus, Statuses
      <4>3. Over'
        BY <1>0, <1>00, <2>1, <3>2, <4>2 DEF Handled, Over
      <4> QED BY <1>01, <2>2, <4>3
    <3>3. CASE Answered
      <4>1. Answered'
        BY <1>00, <2>1, <3>3 DEF Answered
      <4> QED BY <1>01, <2>2, <4>1
    <3> QED BY <1>0, <1>00, <2>2, <3>1, <3>2, <3>3 DEF Over
  <2>3. CASE cpc = "init"
    BY <1>00, <2>1, <2>3 DEF TurnInv, Busy, Between
  <2>4. CASE cpc = "idle"
    <3>1. Len(results) = called /\ NoStatus(toClient)
      BY <2>4, Numbers DEF TurnInv, Between
    <3> QED BY <1>0, <1>00, <2>1, <2>4, <3>1, TurnIdle
  <2>5. CASE cpc = "closed"
    BY <1>0, <1>00, <2>1, <2>5, TurnClosed
  <2> QED BY <2>2, <2>3, <2>4, <2>5 DEF TypeOK
<1> QED BY <1>2, <1>3, <1>4, <1>5, <1>6, <1>7, <1>8, <1>9, <1>10 DEF Server

LEMMA SessionInit ==
  ASSUME Init
  PROVE  SessionInv
<1>1. /\ << >> \in Seq(Result) /\ << >> \in Seq(Line(Verbs)) /\ << >> \in Seq(Line(Replies))
      /\ Len(<< >>) = 0
  OBVIOUS
<1>2. TypeOK
  <2>1. 0 \in Calls /\ 0 \in 0..MaxInquire /\ {} \in SUBSET Calls
    BY SessionBounds DEF Calls
  <2>2. cpc \in {"init", "idle", "closed"} \cup Busy
    BY DEF Init
  <2>3. spc \in {"greet", "read", "ask", "wait", "end"} /\ loose \in BOOLEAN
    BY DEF Init
  <2>4. called \in Calls /\ rdata \in SUBSET Calls /\ cur \in Calls /\ left \in 0..MaxInquire
    BY <2>1 DEF Init
  <2>5. results \in Seq(Result) /\ answers \in Seq(Result)
        /\ toServer \in Seq(Line(Verbs)) /\ toClient \in Seq(Line(Replies))
    BY <1>1 DEF Init
  <2> QED BY <2>2, <2>3, <2>4, <2>5 DEF TypeOK
<1>3. MixInv
  BY <1>1 DEF Init, MixInv, Whole, Unmixed, Busy
<1>4. TurnInv
  BY <1>1 DEF Init, TurnInv, Busy, Between
<1> QED BY <1>2, <1>3, <1>4 DEF SessionInv

LEMMA StaysLoose ==
  ASSUME Next, loose, loose \in BOOLEAN
  PROVE  loose'
  BY DEF Next, Caller, Call, Close, Client, ClientInit, TakeStatus, TakeData, DataMalformed,
     IgnoreInquire, AnswerInquire, GiveUp, SessionLost, Server, ServerEnds, Greet, Nop, Help,
     Unknown, Option, OptionRefused, OptionFails, Command, Ask, ReadData, HandlerReturns,
     InquireFails

LEMMA SessionStep ==
  ASSUME SessionInv, [Next]_vars
  PROVE  SessionInv'
<1>1. CASE Next
  <2>1. TypeOK' /\ MixInv'
    BY <1>1, TypeStep, MixStep DEF SessionInv
  <2>2. ASSUME ~loose' PROVE TurnInv'
    <3>1. TypeOK /\ TurnInv
      BY <1>1, <2>2, StaysLoose DEF SessionInv, TypeOK
    <3> QED BY <1>1, <2>2, <3>1, CallerTurn, ClientTurn, ServerTurn DEF Next
  <2> QED BY <2>1, <2>2 DEF SessionInv
<1>2. CASE UNCHANGED vars
  BY <1>2 DEF SessionInv, TypeOK, MixInv, Whole, Partial, Unmixed, TurnInv, Between, Over, Sent,
     Handled, Answered, NoStatus, vars, clientVars, serverVars
<1> QED BY <1>1, <1>2

\* SessionInv is an invariant: it keeps the three parts above at every step.
THEOREM SessionAlways == Spec => []SessionInv
  BY SessionInit, SessionStep, PTL DEF Spec

\* The state of both ends has its types.
THEOREM SessionTypeCorrect == Spec => []TypeOK
<1>1. SessionInv => TypeOK
  BY DEF SessionInv
<1> QED BY <1>1, SessionAlways, PTL

\* The data a call returns is of the command whose status it returns, whatever has
\* gone wrong on the session before (session.go:154-173, 185-246), for every number
\* of calls.
THEOREM UnmixedCorrect == Spec => []Unmixed
<1>1. SessionInv => Unmixed
  BY DEF SessionInv, MixInv
<1> QED BY <1>1, SessionAlways, PTL

-----------------------------------------------------------------------------
(* AssuanSession implements CommandChannel.                                 *)

LEMMA ChannelInit ==
  ASSUME Init
  PROVE  Channel!Init
  BY DEF Init, Channel!Init

LEMMA ChannelLoose ==
  ASSUME loose'
  PROVE  Channel!Next
  BY DEF Channel!Next

LEMMA ChannelCaller ==
  ASSUME SessionInv, Caller
  PROVE  [Channel!Next]_Channel!chanVars
<1>1. ASSUME NEW kind \in Busy, NEW word \in CommandWords, Call(kind, word), ~loose
      PROVE  Channel!Next
  <2>1. called = Len(results)
    BY <1>1 DEF SessionInv, TurnInv, Between, Call
  <2>2. Channel!Call
    BY <1>1, <2>1 DEF Call, Channel!Call
  <2> QED BY <1>1, <2>2 DEF Channel!Next
<1>2. CASE Close
  BY <1>2 DEF Close, Channel!chanVars
<1>3. CASE loose
  BY <1>3, ChannelLoose DEF Caller, Call, Close, SessionInv, TypeOK
<1> QED BY <1>1, <1>2, <1>3 DEF Caller, CommandWords, Busy

LEMMA ChannelClient ==
  ASSUME SessionInv, Client, ~loose'
  PROVE  [Channel!Next]_Channel!chanVars
<1>0. TypeOK /\ TurnInv /\ ~loose
  BY StaysLoose DEF SessionInv, Next, TypeOK
<1>1. CASE ClientInit \/ TakeData \/ IgnoreInquire \/ AnswerInquire
  BY <1>1 DEF ClientInit, TakeData, IgnoreInquire, AnswerInquire, clientVars, Channel!chanVars
<1>2. CASE DataMalformed \/ GiveUp
  BY <1>2 DEF DataMalformed, GiveUp
<1>3. ASSUME cpc \in Busy
      PROVE  Len(results) + 1 = called /\ (Over \/ Sent \/ Handled \/ Answered)
  BY <1>0, <1>3 DEF TurnInv
<1>4. CASE TakeStatus
  <2>1. cpc \in Busy /\ toClient # << >> /\ Head(toClient).word \in Statuses
    BY <1>4 DEF TakeStatus, Statuses
  <2>2. Over => Head(toClient).word \notin Statuses
    BY <1>0, <2>1, Numbers, NoStatusIs DEF Over
  <2>3. Handled => Head(toClient).word \notin Statuses
    <3>1. SUFFICES ASSUME Handled PROVE Head(toClient).word \notin Statuses
      OBVIOUS
    <3>2. Head(toClient) = Ln("INQUIRE", called)
      BY <2>1, <3>1, OneIs DEF Handled
    <3> QED BY <3>2, LnIs DEF Statuses
  <2>4. Answered /\ Len(results) + 1 = called
    BY <1>3, <2>1, <2>2, <2>3 DEF Sent
  <2> DEFINE a == answers[called]
  <2>5. a \in Result /\ Len(answers) = called /\ called \in Nat
    <3>1. Len(answers) = called /\ called \in Nat /\ answers \in Seq(Result) /\ Len(results) \in Nat
      BY <1>0, <2>4, Numbers DEF Answered
    <3>2. called \in 1..Len(answers)
      BY <2>4, <3>1
    <3> QED BY <3>1, <3>2
  <2>6. toClient = <<Ln(a.status, called)>> /\ a.status \in Statuses /\ a.of = called
        /\ (a.status = "OK" => rdata = a.data) /\ (a.status = "ERR" => a.data = {})
    <3>1. toClient # <<Ln("D", called), Ln(a.status, called)>>
      <4>1. SUFFICES ASSUME toClient = <<Ln("D", called), Ln(a.status, called)>> PROVE FALSE
        OBVIOUS
      <4>2. Head(toClient) = Ln("D", called)
        BY <4>1, TwoIs
      <4> QED BY <2>1, <4>2, LnIs DEF Statuses
    <3> QED BY <2>4, <3>1 DEF Answered
  <2>7. Head(toClient) = Ln(a.status, called) /\ Head(toClient).word = a.status /\ Head(toClient).of = called
    BY <2>6, OneIs, LnIs
  <2>8. results' = Append(results, Res(a.status, called, IF a.status = "OK" THEN rdata ELSE {}))
    BY <1>4, <2>7 DEF TakeStatus, Returns
  <2>9. Res(a.status, called, IF a.status = "OK" THEN rdata ELSE {}) = a
    <3>1. (IF a.status = "OK" THEN rdata ELSE {}) = a.data
      BY <2>6 DEF Statuses
    <3>2. a = [status |-> a.status, of |-> a.of, data |-> a.data]
      BY <2>5 DEF Result
    <3> QED BY <2>6, <3>1, <3>2 DEF Res
  <2>10. Len(results) < Len(answers) /\ called = Len(results) + 1
    BY <1>0, <2>4, <2>5, Numbers
  <2>11. Channel!Return
    BY <1>4, <2>8, <2>9, <2>10 DEF TakeStatus, Channel!Return
  <2> QED BY <1>0, <2>11 DEF Channel!Next
<1>5. CASE SessionLost
  <2>1. cpc \in Busy /\ toClient = << >> /\ spc = "end"
    BY <1>5 DEF SessionLost
  <2>2. Over /\ Len(results) + 1 = called
    BY <1>3, <2>1, OneIs, TwoIs DEF Sent, Handled, Answered
  <2>3. Len(results) < called /\ Len(answers) <= Len(results)
    BY <1>0, <2>2, Numbers DEF Over
  <2>4. Channel!Lose
    BY <1>5, <2>3 DEF SessionLost, Returns, Res, Channel!Lose, Channel!Lost
  <2> QED BY <1>0, <2>4 DEF Channel!Next
<1> QED BY <1>1, <1>2, <1>4, <1>5 DEF Client

LEMMA ChannelServer ==
  ASSUME SessionInv, Server \/ ServerEnds, ~loose'
  PROVE  [Channel!Next]_Channel!chanVars
<1>0. TypeOK /\ TurnInv /\ ~loose
  BY StaysLoose DEF SessionInv, Next, TypeOK
<1>1. called' = called /\ results' = results /\ loose' = loose
  BY <1>0 DEF Server, ServerEnds, Greet, Nop, Help, Unknown, Option, OptionRefused, TypeOK,
     OptionFails, Command, Ask, ReadData, HandlerReturns, InquireFails, Reads, clientVars
<1>2. ASSUME answers' = answers PROVE UNCHANGED Channel!chanVars
  BY <1>1, <1>2 DEF Channel!chanVars
<1>3. ASSUME Len(answers) + 1 = called, NEW word \in Statuses, NEW data \in SUBSET {called},
             answers' = Append(answers, Res(word, called, data))
      PROVE  Channel!Next
  <2>1. Channel!Answer
    BY <1>1, <1>3 DEF Channel!Answer, Res, Statuses
  <2> QED BY <1>0, <2>1 DEF Channel!Next
<1>4. CASE Greet \/ Command \/ OptionFails \/ Ask \/ ReadData \/ ServerEnds
  BY <1>2, <1>4 DEF Greet, Command, OptionFails, Ask, ReadData, ServerEnds
<1>5. CASE Nop \/ Help \/ Unknown \/ Option
  <2>1. spc = "read" /\ toServer # << >>
    BY <1>5 DEF Nop, Help, Unknown, Option, Reads
  <2>2. PICK word \in Statuses : Says(word, Head(toServer).of)
    BY <1>5 DEF Nop, Help, Unknown, Option, Statuses
  <2>3. CASE toServer = <<Ln("BYE", 0)>>
    <3>1. Head(toServer).of = 0
      BY <2>3, OneIs, LnIs
    <3> QED BY <1>2, <2>2, <3>1 DEF Says, Answers
  <2>4. CASE Sent
    <3>1. Head(toServer).of = called /\ Len(answers) + 1 = called
      BY <2>4, OneIs, LnIs DEF Sent
    <3>2. called # 0
      BY <1>0, <3>1, Numbers
    <3>3. answers' = Append(answers, Res(word, called, {}))
      BY <2>2, <3>1, <3>2 DEF Says, Answers
    <3> QED BY <1>3, <3>1, <3>3
  <2> QED BY <1>0, <2>1, <2>3, <2>4, ServerAt
<1>6. CASE OptionRefused
  BY <1>6 DEF OptionRefused
<1>7. CASE HandlerReturns
  <2>1. cur = called /\ Len(answers) + 1 = called
    BY <1>0, <1>7, ServerAt DEF HandlerReturns, Handled
  <2>2. called # 0
    BY <1>0, <2>1, Numbers
  <2>3. \/ answers' = answers
        \/ \E word \in Statuses, data \in SUBSET {called} :
              answers' = Append(answers, Res(word, called, data))
    BY <1>7, <2>1, <2>2 DEF HandlerReturns, Says, Answers, Statuses
  <2> QED BY <1>2, <1>3, <2>1, <2>3
<1>8. CASE InquireFails
  <2>1. cpc \in Busy /\ Handled /\ spc = "wait" /\ toServer # << >> /\ Head(toServer).word # "END"
    BY <1>0, <1>8, ServerAt DEF InquireFails
  <2>2. Head(toServer).word # "D"
    BY <1>8 DEF InquireFails
  <2>3. toServer = <<Ln("END", called)>> \/ toServer = <<Ln("D", called), Ln("END", called)>>
    BY <2>1 DEF Handled
  <2>4. Head(toServer).word \in {"D", "END"}
    BY <2>3, OneIs, TwoIs, LnIs
  <2> QED BY <2>1, <2>2, <2>4
<1> QED BY <1>4, <1>5, <1>6, <1>7, <1>8 DEF Server

\* Until a call gives up half way or an option is refused, the session is a
\* procedure call: a command is answered once and its call returns that answer
\* with its data, or an error once the session is over (session.go:148-247,
\* server.go:82-148).
THEOREM ChannelCorrect == Spec => ChannelSpec
<1>1. Init => Channel!Init
  BY ChannelInit
<1>2. SessionInv /\ [Next]_vars => [Channel!Next]_Channel!chanVars
  <2>1. UNCHANGED vars => UNCHANGED Channel!chanVars
    BY DEF vars, clientVars, Channel!chanVars
  <2>2. SessionInv /\ Next => [Channel!Next]_Channel!chanVars
    BY ChannelLoose, ChannelCaller, ChannelClient, ChannelServer DEF Next
  <2> QED BY <2>1, <2>2
<1> QED BY <1>1, <1>2, SessionAlways, PTL DEF Spec, ChannelSpec, Channel!Spec
=============================================================================
