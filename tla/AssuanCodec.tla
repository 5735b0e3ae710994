---------------------------- MODULE AssuanCodec ----------------------------
(***************************************************************************)
(* What a text becomes between the two ends of an Assuan session: the      *)
(* escapes, the limit on lines and the cutting of data into lines          *)
(* (src/assuan/common/io.go, escape.go, error.go), by the ways the library *)
(* has to send one.  AssuanSession, where a line is a word, has the order  *)
(* of the commands; this module has the contents.                          *)
(*                                                                         *)
(* A text is a sequence of characters: line feed, carriage return and back *)
(* slash go by the names LF, CR and BS, and "?" stands for every byte that *)
(* occurs in no text but in one that is unescaped twice.  The two ends     *)
(* share only the line in between, so one of them may as well run ahead.   *)
(***************************************************************************)
EXTENDS Integers, Sequences, FiniteSets, SequencesExt

CONSTANTS Alphabet,    \* the characters of the texts
          MaxText,     \* bound: the length of a text
          MaxLineLen,  \* the longest line, with its line feed
          Ways,        \* the ways texts are sent
          MaxCalls     \* bound: texts sent on one session

Special == {"%", "LF", "CR", "BS"}
HexDigits == {"0", "2", "5", "A", "C", "D"}

CodecAssumption ==
    /\ Alphabet \subseteq Special \cup HexDigits \cup {"x", ":"}
    /\ Ways \subseteq {"params", "answer", "inquire", "stream", "error"}
    /\ MaxText \in Nat /\ MaxLineLen \in Nat /\ MaxLineLen > 3 /\ MaxCalls \in Nat

VARIABLES
    way,     \* the way the text in hand is sent
    text,    \* the text in hand
    rest,    \* what of it is still to be sent; escaped for WriteData
    sender,  \* "idle" or "sending"
    wire,    \* the lines in between
    got,     \* what the receiver has made of them
    state,   \* the receiver: "reading", "done", "failed", "deaf"; "refused" by the sender
    calls    \* texts sent so far

\* History variables: only the properties read them.
VARIABLES
    lapsed,  \* a text before this one was not received
    cutOff   \* the Reader has returned its last bytes together with io.EOF

vars == <<way, text, rest, sender, wire, got, state, calls, lapsed, cutOff>>

Texts == BoundedSeq(Alphabet, MaxText)
Commands == {"C", "D", "END", "OK", "ERR"}
Chars == Alphabet \cup Special \cup HexDigits \cup {"?"}

\* The values each part of the state ranges over.
TypeOK ==
    /\ way \in Ways \cup {"none"} /\ text \in Seq(Alphabet) /\ Len(text) <= MaxText /\ rest \in Seq(Chars)
    /\ sender \in {"idle", "sending"}
    /\ wire \in Seq([cmd : Commands, params : Seq(Chars)])
    /\ got \in Seq(Chars)
    /\ state \in {"reading", "done", "failed", "deaf", "refused"}
    /\ calls \in 0..MaxCalls
    /\ lapsed \in BOOLEAN /\ cutOff \in BOOLEAN

Init ==
    /\ way = "none" /\ text = << >> /\ rest = << >> /\ sender = "idle"
    /\ wire = << >> /\ got = << >> /\ state = "done"
    /\ calls = 0 /\ lapsed = FALSE /\ cutOff = FALSE

-----------------------------------------------------------------------------
(* escape.go and error.go.                                                 *)

Code(c) ==
    CASE c = "CR" -> <<"%", "0", "D">> [] c = "LF" -> <<"%", "0", "A">>
      [] c = "%" -> <<"%", "2", "5">> [] c = "BS" -> <<"%", "5", "C">>
      [] OTHER -> <<c>>

EscapeParameters(s) == FlattenSeq([n \in DOMAIN s |-> Code(s[n])])

\* The byte with these hexadecimal digits.
Byte(h, l) ==
    IF \E c \in Special : Code(c) = <<"%", h, l>>
    THEN CHOOSE c \in Special : Code(c) = <<"%", h, l>>
    ELSE "?"

Malformed == [ok |-> FALSE, text |-> << >>]
Before(c, r) == [r EXCEPT !.text = <<c>> \o @]

\* url.PathUnescape: any escaped byte, and an error for "%" without two digits.
UnescapeParameters(s) ==
    LET from[n \in 1..Len(s) + 1] ==
            IF n > Len(s) THEN [ok |-> TRUE, text |-> << >>]
            ELSE IF s[n] # "%" THEN Before(s[n], from[n + 1])
            ELSE IF n + 2 <= Len(s) /\ {s[n + 1], s[n + 2]} \subseteq HexDigits
                 THEN Before(Byte(s[n + 1], s[n + 2]), from[n + 3])
            ELSE Malformed
    IN IF from[1].ok THEN from[1] ELSE Malformed

\* DecodeErrCmd takes words only for the description of an error.
DecodeErrCmd(s) ==
    IF s # << >> /\ ToSet(s) \cap (Special \cup {":", "?"}) = {} THEN [ok |-> TRUE, text |-> s]
    ELSE Malformed

-----------------------------------------------------------------------------
(* io.go: writing.                                                         *)

Line(cmd, params) == [cmd |-> cmd, params |-> params]
Width(cmd) == IF cmd \in {"C", "D"} THEN 1 ELSE IF cmd = "OK" THEN 2 ELSE 3
\* The length of a line with its space and line feed.
LineLen(l) == Width(l.cmd) + 1 + (IF l.params = << >> THEN 0 ELSE 1 + Len(l.params))
Fits(l) == LineLen(l) <= MaxLineLen
ChunkLen == MaxLineLen - 3

\* The ways whose lines go to the client.
ToClient == {"answer", "error"}

\* The next text: on a session that has failed only a client asks for more, and
\* then what is left of the answer it gave up comes first; the lines that go the
\* other way are as before, and left out from then on.
Begin(w, s) ==
    /\ state = "done" \/ (state = "failed" /\ way = "answer")
    /\ state = "failed" \/ lapsed => w \in ToClient
    /\ way' = w /\ text' = s
    /\ rest' = IF w \in {"answer", "inquire"} THEN EscapeParameters(s) ELSE s
    /\ sender' = "sending" /\ got' = << >> /\ state' = "reading"
    /\ calls' = calls + 1 /\ cutOff' = FALSE
    /\ lapsed' = (lapsed \/ state = "failed")
    /\ UNCHANGED wire

\* WriteLine and WriteError: the limit is tested before the text is escaped.
WriteLine(cmd) ==
    /\ sender = "sending" /\ way = (IF cmd = "C" THEN "params" ELSE "error")
    /\ sender' = "idle" /\ rest' = << >>
    /\ IF Width(cmd) + Len(text) + 2 > MaxLineLen
       THEN state' = "refused" /\ UNCHANGED wire
       ELSE wire' = Append(wire, Line(cmd, EscapeParameters(text))) /\ UNCHANGED state
    /\ UNCHANGED <<way, text, got, calls, lapsed, cutOff>>

First(n) == SubSeq(rest, 1, n)
Beyond(n) == SubSeq(rest, n + 1, Len(rest))
Least(a, b) == IF a <= b THEN a ELSE b

WriteData_Escapes ==
    /\ sender = "sending" /\ way \in {"answer", "inquire"} /\ rest # << >>
    /\ LET n == Least(ChunkLen, Len(rest)) IN
          /\ wire' = Append(wire, Line("D", EscapeParameters(First(n))))
          /\ rest' = Beyond(n)
    /\ UNCHANGED <<way, text, sender, got, state, calls, lapsed, cutOff>>

WriteData_Overlong ==
    /\ sender = "sending" /\ way \in {"answer", "inquire"} /\ rest # << >>
    /\ LET n == Least(ChunkLen + 1, Len(rest)) IN
          /\ wire' = Append(wire, Line("D", First(n)))
          /\ rest' = Beyond(n)
    /\ UNCHANGED <<way, text, sender, got, state, calls, lapsed, cutOff>>

\* WriteData: the escaped text is cut every ChunkLen characters.
WriteData ==
    /\ sender = "sending" /\ way \in {"answer", "inquire"} /\ rest # << >>
    /\ LET n == Least(ChunkLen, Len(rest)) IN
          /\ wire' = Append(wire, Line("D", First(n)))
          /\ rest' = Beyond(n)
    /\ UNCHANGED <<way, text, sender, got, state, calls, lapsed, cutOff>>

\* WriteDataReader: what the Reader has, as much as it likes, escaped piece by piece.
WriteDataReader ==
    /\ sender = "sending" /\ way = "stream"
    /\ \E n \in 1..Least(ChunkLen, Len(rest)) :
          /\ wire' = Append(wire, Line("D", EscapeParameters(First(n))))
          /\ rest' = Beyond(n)
    /\ UNCHANGED <<way, text, sender, got, state, calls, lapsed, cutOff>>

\* The last bytes come with io.EOF, as they may: nobody looks at them.
ReaderEnds ==
    /\ sender = "sending" /\ way = "stream" /\ Len(rest) \in 1..ChunkLen
    /\ rest' = << >> /\ cutOff' = TRUE
    /\ UNCHANGED <<way, text, sender, wire, got, state, calls, lapsed>>

\* OK of the server, END of the client.
Finish ==
    /\ sender = "sending" /\ way \in {"answer", "inquire", "stream"} /\ rest = << >>
    /\ sender' = "idle"
    /\ wire' = Append(wire, Line(IF way = "answer" THEN "OK" ELSE "END", << >>))
    /\ UNCHANGED <<way, text, rest, got, state, calls, lapsed, cutOff>>

-----------------------------------------------------------------------------
(* io.go: reading.                                                         *)

\* ReadLine takes a line off the wire and unescapes its parameters.
Reads(cmds) ==
    /\ state = "reading" /\ wire # << >>
    /\ Fits(Head(wire)) /\ Head(wire).cmd \in cmds
    /\ wire' = Tail(wire)
    /\ UNCHANGED <<way, text, rest, sender, calls, lapsed, cutOff>>
Params == UnescapeParameters(Head(wire).params)

\* The scanner gives up on the stream for good.
TooLong ==
    /\ state = "reading" /\ wire # << >> /\ ~Fits(Head(wire))
    /\ state' = "deaf"
    /\ UNCHANGED <<way, text, rest, sender, wire, got, calls, lapsed, cutOff>>

Take(r, next) ==
    /\ state' = IF r.ok THEN next ELSE "failed"
    /\ got' = IF r.ok THEN got \o r.text ELSE got

TakeData_Lenient ==
    /\ Reads({"D"}) /\ way \in ToClient
    /\ got' = got \o (IF Params.ok THEN Params.text ELSE Head(wire).params)
    /\ UNCHANGED state

\* SimpleCmd and Transact: ReadLine has unescaped the data.
TakeData == Reads({"D"}) /\ way \in ToClient /\ Take(Params, "reading")

\* ReadData unescapes what ReadLine has unescaped.
ReadData ==
    /\ Reads({"D"}) /\ way \in {"inquire", "stream"}
    /\ Take(IF Params.ok THEN UnescapeParameters(Params.text) ELSE Malformed, "reading")

TakeLine == Reads({"C"}) /\ Take(Params, "done")

TakeError == Reads({"ERR"}) /\ Take(IF Params.ok THEN DecodeErrCmd(Params.text) ELSE Malformed, "done")

TakeEnd == Reads({"OK", "END"}) /\ state' = "done" /\ UNCHANGED got

-----------------------------------------------------------------------------
Call ==
    /\ sender = "idle" /\ calls < MaxCalls
    /\ \E w \in Ways : \E s \in Texts : Begin(w, s)

Sender == WriteLine("C") \/ WriteLine("ERR") \/ WriteData \/ WriteDataReader \/ ReaderEnds \/ Finish

Receiver == TooLong \/ TakeData \/ ReadData \/ TakeLine \/ TakeError \/ TakeEnd

Next == Call \/ Sender \/ Receiver

Spec == Init /\ [][Next]_vars

-----------------------------------------------------------------------------
(* Properties.                                                             *)

Received == state = "done" /\ calls > 0

\* A text arrives as it was sent or the receiver has an error, for every text
\* (EscapeParameters, WriteData, ReadLine, SimpleCmd).  It does so up to the
\* first error on the session, for a Reader that returns io.EOF alone, and for
\* an inquiry whose data holds no percent sign.
RightOrRefused ==
    (Received /\ ~lapsed /\ ~cutOff /\ (way \in {"inquire", "stream"} => "%" \notin ToSet(text)))
        => got = text

\* The characters whose escape a line of WriteData ends in the middle of.
CutIn(s) ==
    {n \in DOMAIN s :
        LET before == Len(EscapeParameters(SubSeq(s, 1, n - 1)))
        IN before \div ChunkLen # (before + Len(Code(s[n])) - 1) \div ChunkLen}

\* An answer fails for one reason only: WriteData has cut an escape in two.  It
\* is not lost otherwise, however many lines it fills and wherever they end
\* (io.go:142-155), and such an answer is never taken for another text.
FailsWhenCut ==
    (way = "answer" /\ ~lapsed) =>
        /\ state = "failed" => CutIn(text) # {}
        /\ state = "done" => CutIn(text) = {}

\* No line of WriteData is longer than a peer accepts, on a session that has
\* failed neither.
DataFits ==
    way # "stream" => \A n \in DOMAIN wire : wire[n].cmd = "D" => Fits(wire[n])

\* What becomes of a text is right: all of this together.
TextRight == TypeOK /\ RightOrRefused /\ FailsWhenCut /\ DataFits
=============================================================================
