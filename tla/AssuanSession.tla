--------------------------- MODULE AssuanSession ---------------------------
(***************************************************************************)
(* A session of the Assuan library: a client (src/assuan/client/session.go)*)
(* and a server (src/assuan/server) at the two ends of a pair of byte      *)
(* streams.  The client's caller makes one call at a time and may use the  *)
(* session for as long as it likes, whatever its earlier calls returned.   *)
(*                                                                         *)
(* A line is its command word and, for the properties, the number of the   *)
(* call that it is part of; parameters, comments and status lines, which   *)
(* both ends skip, are left out.  What a command handler does is up to the *)
(* protocol: it may inquire, send data, and return nil, a *common.Error or *)
(* another error.  The caller answers an inquiry with data, with a value   *)
(* that cannot be sent, or not at all.  A D line may be one that does not  *)
(* unescape: WriteData may cut an escape in two, and ReadData unescapes    *)
(* what ReadLine has unescaped before.                                     *)
(***************************************************************************)
EXTENDS Integers, Sequences

CONSTANTS MaxCalls,     \* bound: calls made on the session
          MaxInquire    \* bound: keywords one command inquires

ASSUME SessionBounds == MaxCalls \in Nat /\ MaxInquire \in Nat

VARIABLES
    cpc,       \* where the client stands
    called,    \* calls made so far: the number of the call in progress
    rdata,     \* the commands whose data the call in progress has read
    results,   \* what each call returned
    spc,       \* where the server stands
    cur,       \* the call whose command the server handles
    left,      \* keywords the handler has still to inquire
    toServer,  \* the stream of the client, as lines
    toClient   \* the stream of the server

\* History variables: only the properties read them.
VARIABLES
    answers,   \* the statuses the server has sent
    loose      \* a call or an inquiry gave up half way, or an option was refused

clientVars == <<cpc, called, rdata, results>>
serverVars == <<spc, cur, left>>
vars == <<clientVars, serverVars, toServer, toClient, answers, loose>>

\* The calls; 0 is what no call has sent.
Calls == 0..MaxCalls
Verbs == {"NOP", "HELP", "OPTION", "CMD", "NOSUCH", "BYE", "D", "END", "CAN"}
Replies == {"OK", "ERR", "D", "INQUIRE"}
Busy == {"simple", "transact"}

Line(words) == [word : words, of : Calls]
Result == [status : {"OK", "ERR", "io", "gaveUp"}, of : Calls, data : SUBSET Calls]

\* The values each part of the state ranges over.
TypeOK ==
    /\ cpc \in {"init", "idle", "closed"} \cup Busy
    /\ called \in Calls /\ rdata \in SUBSET Calls
    /\ results \in Seq(Result)
    /\ spc \in {"greet", "read", "ask", "wait", "end"}
    /\ cur \in Calls /\ left \in 0..MaxInquire
    /\ toServer \in Seq(Line(Verbs)) /\ toClient \in Seq(Line(Replies))
    /\ answers \in Seq(Result) /\ loose \in BOOLEAN

Init ==
    /\ cpc = "init" /\ called = 0 /\ rdata = {} /\ results = << >>
    /\ spc = "greet" /\ cur = 0 /\ left = 0
    /\ toServer = << >> /\ toClient = << >>
    /\ answers = << >> /\ loose = FALSE

Ln(word, of) == [word |-> word, of |-> of]
Res(status, of, data) == [status |-> status, of |-> of, data |-> data]

-----------------------------------------------------------------------------
(* The client.                                                             *)

\* Init takes the first line of the server for its greeting.
ClientInit ==
    /\ cpc = "init"
    /\ \/ /\ toClient # << >>
          /\ toClient' = Tail(toClient)
          /\ cpc' = "idle"
       \/ /\ toClient = << >> /\ spc = "end"
          /\ cpc' = "closed"
          /\ UNCHANGED toClient
    /\ UNCHANGED <<called, rdata, results, serverVars, toServer, answers, loose>>

Call_KeepsData(kind, word) ==
    /\ cpc = "idle" /\ called < MaxCalls
    /\ cpc' = kind
    /\ called' = called + 1
    /\ toServer' = Append(toServer, Ln(word, called + 1))
    /\ UNCHANGED <<rdata, results, serverVars, toClient, answers, loose>>

\* SimpleCmd, with Reset and Option, and Transact: the command line.
Call(kind, word) ==
    /\ cpc = "idle" /\ called < MaxCalls
    /\ cpc' = kind
    /\ called' = called + 1 /\ rdata' = {}
    /\ toServer' = Append(toServer, Ln(word, called + 1))
    /\ UNCHANGED <<results, serverVars, toClient, answers, loose>>

\* The call in progress returns r.
Returns(r) == cpc' = "idle" /\ results' = Append(results, r)

TakeStatus ==
    /\ cpc \in Busy
    /\ toClient # << >> /\ Head(toClient).word \in {"OK", "ERR"}
    /\ LET m == Head(toClient) IN
          Returns(Res(m.word, m.of, IF m.word = "OK" THEN rdata ELSE {}))
    /\ toClient' = Tail(toClient)
    /\ UNCHANGED <<called, rdata, serverVars, toServer, answers, loose>>

TakeData ==
    /\ cpc \in Busy
    /\ toClient # << >> /\ Head(toClient).word = "D"
    /\ rdata' = rdata \cup {Head(toClient).of}
    /\ toClient' = Tail(toClient)
    /\ UNCHANGED <<cpc, called, results, serverVars, toServer, answers, loose>>

\* A D line that does not unescape: ReadLine fails and so does the call, though
\* its status is still to come.
DataMalformed ==
    /\ cpc \in Busy
    /\ toClient # << >> /\ Head(toClient).word = "D"
    /\ toClient' = Tail(toClient)
    /\ Returns(Res("gaveUp", 0, {}))
    /\ loose' = TRUE
    /\ UNCHANGED <<called, rdata, serverVars, toServer, answers>>

\* SimpleCmd has no use for an INQUIRE and waits for the next line.
IgnoreInquire ==
    /\ cpc = "simple"
    /\ toClient # << >> /\ Head(toClient).word = "INQUIRE"
    /\ toClient' = Tail(toClient)
    /\ UNCHANGED <<clientVars, serverVars, toServer, answers, loose>>

\* WriteData and WriteLine: the data of the call in progress, and another line.
WriteData(stream) == Append(stream, Ln("D", called))
WriteLine(stream, word) == Append(stream, Ln(word, called))

AnswerInquire_NoEnd ==
    /\ cpc = "transact"
    /\ toClient # << >> /\ Head(toClient).word = "INQUIRE"
    /\ toClient' = Tail(toClient)
    /\ toServer' = WriteData(toServer)
    /\ UNCHANGED <<clientVars, serverVars, answers, loose>>

\* Transact sends the data, none for an empty value, and END.
AnswerInquire ==
    /\ cpc = "transact"
    /\ toClient # << >> /\ Head(toClient).word = "INQUIRE"
    /\ toClient' = Tail(toClient)
    /\ \E stream \in {toServer, WriteData(toServer)} : toServer' = WriteLine(stream, "END")
    /\ UNCHANGED <<clientVars, serverVars, answers, loose>>

\* Or it returns an error at once: after CAN, if the caller has nothing under
\* this keyword; after part of the data or none, if what it has fails to
\* marshal or to read or is of another type.  Nobody reads the status.
GiveUp ==
    /\ cpc = "transact"
    /\ toClient # << >> /\ Head(toClient).word = "INQUIRE"
    /\ toClient' = Tail(toClient)
    /\ toServer' \in {WriteLine(toServer, "CAN"), toServer, WriteData(toServer)}
    /\ Returns(Res("gaveUp", 0, {}))
    /\ loose' = TRUE
    /\ UNCHANGED <<called, rdata, serverVars, answers>>

\* End of file.
SessionLost ==
    /\ cpc \in Busy /\ toClient = << >> /\ spc = "end"
    /\ Returns(Res("io", 0, {}))
    /\ UNCHANGED <<called, rdata, serverVars, toServer, toClient, answers, loose>>

\* Close sends BYE and does not wait for its answer; Pipe.Close does nothing.
Close ==
    /\ cpc = "idle"
    /\ cpc' = "closed"
    /\ toServer' = Append(toServer, Ln("BYE", 0))
    /\ UNCHANGED <<called, rdata, results, serverVars, toClient, answers, loose>>

-----------------------------------------------------------------------------
(* The server.                                                             *)

\* Serve: the greeting.
Greet ==
    /\ spc = "greet"
    /\ spc' = "read"
    /\ toClient' = Append(toClient, Ln("OK", 0))
    /\ UNCHANGED <<clientVars, cur, left, toServer, answers, loose>>

\* ReadLine returns a line with one of the words.
Reads(words) ==
    /\ spc = "read"
    /\ toServer # << >> /\ Head(toServer).word \in words
    /\ toServer' = Tail(toServer)

\* handleCmd answers the command of call n, after the lines of stream; n = 0 for
\* BYE, which no call sends.
Answers(stream, word, n, data) ==
    /\ toClient' = Append(stream, Ln(word, n))
    /\ answers' = IF n = 0 THEN answers ELSE Append(answers, Res(word, n, data))

Says(word, n) == Answers(toClient, word, n, {})

Nop ==
    /\ Reads({"NOP", "BYE"})
    /\ Says("OK", Head(toServer).of)
    /\ UNCHANGED <<clientVars, serverVars, loose>>

\* Both the error and the status of success.
SaysBoth(n) ==
    /\ toClient' = Append(Append(toClient, Ln("ERR", n)), Ln("OK", n))
    /\ answers' = Append(Append(answers, Res("ERR", n, {})), Res("OK", n, {}))

Help_FallsThrough ==
    /\ Reads({"HELP"})
    /\ Says("OK", Head(toServer).of) \/ SaysBoth(Head(toServer).of)
    /\ UNCHANGED <<clientVars, serverVars, loose>>

Help ==
    /\ Reads({"HELP"})
    /\ \E word \in {"OK", "ERR"} : Says(word, Head(toServer).of)
    /\ UNCHANGED <<clientVars, serverVars, loose>>

\* A word nobody handles; so are the lines of an inquiry that is over.
Unknown ==
    /\ Reads({"NOSUCH", "D", "END", "CAN"})
    /\ Says("ERR", Head(toServer).of)
    /\ UNCHANGED <<clientVars, serverVars, loose>>

\* No options, a malformed one, or one that is set.
Option ==
    /\ Reads({"OPTION"})
    /\ \E word \in {"OK", "ERR"} : Says(word, Head(toServer).of)
    /\ UNCHANGED <<clientVars, serverVars, loose>>

\* SetOption returns a *common.Error: optionCmd writes it and goes on to OK.
OptionRefused ==
    /\ Reads({"OPTION"})
    /\ SaysBoth(Head(toServer).of)
    /\ loose' = TRUE
    /\ UNCHANGED <<clientVars, serverVars>>

\* SetOption returns another error, which ends the session.
OptionFails ==
    /\ Reads({"OPTION"})
    /\ spc' = "end"
    /\ UNCHANGED <<clientVars, cur, left, toClient, answers, loose>>

\* RESET and the commands of the protocol: handleCmd calls the handler.
Command ==
    /\ Reads({"CMD"})
    /\ cur' = Head(toServer).of
    /\ left' \in 0..MaxInquire
    /\ spc' = "ask"
    /\ UNCHANGED <<clientVars, toClient, answers, loose>>

Ask_OffByOne ==
    /\ spc = "ask" /\ left >= 0
    /\ left' = left - 1
    /\ spc' = "wait"
    /\ toClient' = Append(toClient, Ln("INQUIRE", cur))
    /\ UNCHANGED <<clientVars, cur, toServer, answers, loose>>

\* Inquire: the next keyword.
Ask ==
    /\ spc = "ask" /\ left > 0
    /\ left' = left - 1
    /\ spc' = "wait"
    /\ toClient' = Append(toClient, Ln("INQUIRE", cur))
    /\ UNCHANGED <<clientVars, cur, toServer, answers, loose>>

\* ReadData: D lines up to END.
ReadData ==
    /\ spc = "wait"
    /\ toServer # << >> /\ Head(toServer).word \in {"D", "END"}
    /\ spc' = IF Head(toServer).word = "END" THEN "ask" ELSE "wait"
    /\ toServer' = Tail(toServer)
    /\ UNCHANGED <<clientVars, cur, left, toClient, answers, loose>>

\* The handler has its data and returns: nil, after data of its own or without,
\* a *common.Error, or another error, which ends the session.
HandlerReturns ==
    /\ spc = "ask" /\ left = 0
    /\ \/ /\ \/ \E word \in {"OK", "ERR"} : Says(word, cur)
             \/ Answers(Append(toClient, Ln("D", cur)), "OK", cur, {cur})
             \/ Answers(Append(toClient, Ln("D", cur)), "ERR", cur, {})
          /\ spc' = "read"
       \/ /\ toClient' \in {toClient, Append(toClient, Ln("D", cur))}
          /\ spc' = "end" /\ UNCHANGED answers
    /\ UNCHANGED <<clientVars, cur, left, toServer, loose>>

\* CAN, any other word in the place of data, or data that does not unescape.
\* The error of ReadData is a value that errors.As does not take for a
\* *common.Error: Inquire writes nothing, the handler passes the error on,
\* which ends the session, or a *common.Error of its own.
InquireFails ==
    /\ spc = "wait"
    /\ toServer # << >> /\ Head(toServer).word # "END"
    /\ toServer' = Tail(toServer)
    /\ left' = 0
    /\ loose' = (loose \/ Head(toServer).word = "D")
    /\ \/ Says("ERR", cur) /\ spc' = "read"
       \/ spc' = "end" /\ UNCHANGED <<toClient, answers>>
    /\ UNCHANGED <<clientVars, cur>>

\* End of file, or the death of the program that serves.
ServerEnds ==
    /\ spc # "end"
    /\ spc' = "end"
    /\ UNCHANGED <<clientVars, cur, left, toServer, toClient, answers, loose>>

-----------------------------------------------------------------------------
Caller ==
    \/ \E word \in {"NOP", "HELP", "OPTION", "CMD", "NOSUCH"} : Call("simple", word)
    \/ Call("transact", "CMD")
    \/ Close

Client ==
    \/ ClientInit \/ TakeStatus \/ TakeData \/ DataMalformed \/ IgnoreInquire
    \/ AnswerInquire \/ GiveUp \/ SessionLost

Server ==
    \/ Greet \/ Nop \/ Help \/ Unknown
    \/ Option \/ OptionRefused \/ OptionFails
    \/ Command \/ Ask \/ ReadData \/ HandlerReturns \/ InquireFails

Next == Caller \/ Client \/ Server \/ ServerEnds

Spec == Init /\ [][Next]_vars

\* Both ends read what is there, and handlers return.  Nobody has to make a call.
FairSpec == Spec /\ WF_vars(Client) /\ WF_vars(Server)

-----------------------------------------------------------------------------
(* Properties.                                                             *)

\* Until a call or an inquiry gives up half way or an option is refused, the
\* session is a procedure call: each command is answered once and its call
\* returns that answer with the data of that command, or the session is over
\* (session.go:148-174, 179-247; server.go:82-148).
Channel == INSTANCE CommandChannel
ChannelSpec == Channel!Spec

\* A command is answered once: no status follows the status of the same command
\* (server.go:198-234).
AnsweredOnce ==
    \A m, n \in 1..Len(answers) : m # n => answers[m].of # answers[n].of

\* Whatever has happened before, the status and the data a call returns are of
\* one and the same command: a call never completes the answer of one command
\* with a piece of another (session.go:154-173, 185-246).
Unmixed == \A n \in 1..Len(results) : results[n].data \subseteq {results[n].of}

\* A SimpleCmd sent a command that inquires: it ignores the INQUIRE, and the
\* server waits for data nobody sends.
Mute == cpc = "simple" /\ spc = "wait" /\ toClient = << >> /\ toServer = << >>

\* Every call returns, on a session that has lost step too, unless it is a
\* SimpleCmd of a command that inquires.
CallsReturn == cpc \in Busy ~> cpc = "idle" \/ Mute
=============================================================================
