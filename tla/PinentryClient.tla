--------------------------- MODULE PinentryClient ---------------------------
(***************************************************************************)
(* The client of a pinentry (src/pinentry/client.go): the settings it      *)
(* remembers beside those of the pinentry, and the exchange of GETPIN with *)
(* a quality bar, for which it reads the lines itself.                     *)
(*                                                                         *)
(* The pinentry may be that of this repository (src/pinentry/server.go) or *)
(* another, which asks for the quality of what is typed, as getPINWithQual *)
(* Bar expects it, while a quality bar is set, and knows no use of it once *)
(* GETPIN is over.  A PIN is the lines it is sent in: none if it is empty, *)
(* one, or more if it is long.                                             *)
(***************************************************************************)
EXTENDS Integers, Sequences

CONSTANTS Order,      \* the settings, in the order of Apply; the quality bar is last
          Values,      \* what they may be set to
          Default,    \* what they are at first
          PinLines,   \* the numbers of lines a PIN is sent in
          MaxCommands, \* bound: commands sent on the session
          MaxInquire   \* bound: inquiries of one GETPIN

ClientAssumption ==
    /\ Order \in Seq(STRING) /\ Len(Order) > 0 /\ Default \in Values
    /\ PinLines \subseteq Nat /\ MaxCommands \in Nat /\ MaxInquire \in Nat

VARIABLES
    cpc,        \* the client: "idle", "simple", "bar" or "ok", about to take the OK
    job,        \* what SimpleCmd was called for
    todo,       \* the settings Apply has still to send
    current,    \* c.current
    qualityBar, \* c.qualityBar
    pin,        \* the lines the last GetPIN has returned or is about to
    sent,       \* commands sent so far
    spc,        \* the pinentry: "read", "pin" or "quality", which it waits for
    settings,   \* its settings
    bar,        \* it has a quality bar
    asked,      \* inquiries of this GETPIN
    toServer, toClient

\* History variables: only the properties read them.
VARIABLES
    pinOf,      \* the lines of the PIN that was last entered
    unset,      \* the settings that were reset and not set since
    shifted     \* the client has taken something else for an OK

clientVars == <<cpc, job, todo, current, qualityBar, pin, sent>>
serverVars == <<spc, settings, bar, asked>>
vars == <<clientVars, serverVars, toServer, toClient, pinOf, unset, shifted>>

Fields == {Order[n] : n \in DOMAIN Order}
QualityBar == Order[Len(Order)]
None == [op |-> "none", field |-> QualityBar, text |-> Default]
Job == [op : {"none", "set", "pin", "show", "reset"}, field : Fields, text : Values]
Command == Job \cup {[None EXCEPT !.op = w] : w \in {"quality", "end"}}
Reply == [word : {"OK", "ERR", "D", "INQUIRE"}, part : Nat]

\* The values each part of the state ranges over.
TypeOK ==
    /\ cpc \in {"idle", "simple", "bar", "ok"} /\ job \in Job
    /\ todo \in Seq(Job)
    /\ current \in [Fields -> Values] /\ settings \in [Fields -> Values]
    /\ qualityBar \in BOOLEAN /\ bar \in BOOLEAN
    /\ pin \in Seq(Nat) /\ pinOf \in Seq(Nat)
    /\ sent \in 0..MaxCommands /\ asked \in 0..MaxInquire
    /\ spc \in {"read", "pin", "quality"}
    /\ toServer \in Seq(Command) /\ toClient \in Seq(Reply)
    /\ unset \subseteq Fields /\ shifted \in BOOLEAN

Init ==
    /\ cpc = "idle" /\ job = None /\ todo = << >>
    /\ current = [f \in Fields |-> Default] /\ settings = current
    /\ qualityBar = FALSE /\ bar = FALSE
    /\ pin = << >> /\ sent = 0
    /\ spc = "read" /\ asked = 0
    /\ toServer = << >> /\ toClient = << >>
    /\ pinOf = << >> /\ unset = {} /\ shifted = FALSE

-----------------------------------------------------------------------------
(* The client.                                                             *)

Do(op) == [None EXCEPT !.op = op]
SetJob(f, t) == [op |-> "set", field |-> f, text |-> t]

\* SimpleCmd sends the command j; Apply has rest left to do.
Send(j, rest) ==
    /\ sent < MaxCommands
    /\ sent' = sent + 1
    /\ toServer' = Append(toServer, j)
    /\ cpc' = "simple" /\ job' = j /\ todo' = rest
    /\ UNCHANGED <<current, qualityBar, serverVars, toClient, pinOf, unset, shifted>>

Call(j) == cpc = "idle" /\ todo = << >> /\ Send(j, << >>) /\ UNCHANGED pin

Set(f, t) == Call(SetJob(f, t))
Confirm == Call(Do("show"))      \* and Message
Reset == Call(Do("reset"))

\* Apply sets everything, the quality bar too, up to the first error.
Apply(s) ==
    /\ cpc = "idle" /\ todo = << >>
    /\ LET jobs == [n \in DOMAIN Order |-> SetJob(Order[n], s[Order[n]])]
       IN Send(Head(jobs), Tail(jobs))
    /\ UNCHANGED pin
ApplyGoesOn == cpc = "idle" /\ todo # << >> /\ Send(Head(todo), Tail(todo)) /\ UNCHANGED pin

GetPIN == ~qualityBar /\ cpc = "idle" /\ todo = << >> /\ Send(Do("pin"), << >>) /\ pin' = << >>

\* WriteLine refuses a text that is too long: nothing is sent, and Apply stops.
Refused ==
    /\ cpc = "idle" /\ todo # << >>
    /\ todo' = << >>
    /\ UNCHANGED <<cpc, job, current, qualityBar, pin, sent, serverVars, toServer, toClient,
                   pinOf, unset, shifted>>

GetPINWithQualBar ==
    /\ cpc = "idle" /\ todo = << >> /\ qualityBar /\ sent < MaxCommands
    /\ sent' = sent + 1
    /\ toServer' = Append(toServer, Do("pin"))
    /\ cpc' = "bar" /\ job' = Do("pin") /\ pin' = << >>
    /\ UNCHANGED <<todo, current, qualityBar, serverVars, toClient, pinOf, unset, shifted>>

Reads(at, words) ==
    /\ cpc \in at
    /\ toClient # << >> /\ Head(toClient).word \in words
    /\ toClient' = Tail(toClient)
    /\ UNCHANGED <<sent, serverVars, pinOf>>

\* SimpleCmd returns; a setter then stores what it has set.
TakeOK ==
    /\ Reads({"simple"}, {"OK"})
    /\ cpc' = "idle"
    /\ current' = IF job.op = "set" THEN [current EXCEPT ![job.field] = job.text] ELSE current
    /\ qualityBar' = (qualityBar \/ (job.op = "set" /\ job.field = QualityBar))
    /\ unset' = IF job.op = "set" THEN unset \ {job.field}
                ELSE IF job.op = "reset" THEN Fields ELSE unset
    /\ UNCHANGED <<job, todo, pin, toServer, shifted>>

TakeErr_Stores ==
    /\ Reads({"simple"}, {"ERR"})
    /\ cpc' = "idle" /\ todo' = << >>
    /\ current' = IF job.op = "set" THEN [current EXCEPT ![job.field] = job.text] ELSE current
    /\ UNCHANGED <<job, qualityBar, pin, toServer, unset, shifted>>

TakeErr ==
    /\ Reads({"simple"}, {"ERR"})
    /\ cpc' = "idle" /\ todo' = << >> /\ pin' = << >>
    /\ UNCHANGED <<job, current, qualityBar, toServer, unset, shifted>>

TakeData_Last ==
    /\ Reads({"simple"}, {"D"})
    /\ pin' = <<Head(toClient).part>>
    /\ UNCHANGED <<cpc, job, todo, current, qualityBar, toServer, unset, shifted>>

TakeData ==
    /\ Reads({"simple"}, {"D"})
    /\ pin' = Append(pin, Head(toClient).part)
    /\ UNCHANGED <<cpc, job, todo, current, qualityBar, toServer, unset, shifted>>

\* SimpleCmd has no answer to an inquiry.
IgnoreInquire ==
    /\ Reads({"simple"}, {"INQUIRE"})
    /\ UNCHANGED <<cpc, job, todo, current, qualityBar, pin, toServer, unset, shifted>>

\* The first line of data is the PIN.
BarData ==
    /\ Reads({"bar"}, {"D"})
    /\ cpc' = "ok" /\ pin' = <<Head(toClient).part>>
    /\ UNCHANGED <<job, todo, current, qualityBar, toServer, unset, shifted>>

\* And the next line is its OK, whatever it says.
BarOK ==
    /\ Reads({"ok"}, {"OK", "ERR", "D", "INQUIRE"})
    /\ cpc' = "idle" /\ qualityBar' = FALSE
    /\ shifted' = (shifted \/ Head(toClient).word # "OK")
    /\ UNCHANGED <<job, todo, current, pin, toServer, unset>>

BarInquire_NoEnd ==
    /\ Reads({"bar"}, {"INQUIRE"})
    /\ toServer' = toServer \o <<Do("quality")>>
    /\ UNCHANGED <<cpc, job, todo, current, qualityBar, pin, unset, shifted>>

\* The quality of what has been typed, or 0 without a callback.
BarInquire ==
    /\ Reads({"bar"}, {"INQUIRE"})
    /\ toServer' = toServer \o <<Do("quality"), Do("end")>>
    /\ UNCHANGED <<cpc, job, todo, current, qualityBar, pin, unset, shifted>>

BarErr ==
    /\ Reads({"bar"}, {"ERR"})
    /\ cpc' = "idle" /\ qualityBar' = FALSE
    /\ UNCHANGED <<job, todo, current, pin, toServer, unset, shifted>>

\* An OK is passed over: the loop waits for data.
BarSkips ==
    /\ Reads({"bar"}, {"OK"})
    /\ UNCHANGED <<cpc, job, todo, current, qualityBar, pin, toServer, unset, shifted>>

-----------------------------------------------------------------------------
(* The pinentry.                                                           *)

Status(word) == <<[word |-> word, part |-> 0]>>
Says(word) == toClient' = toClient \o Status(word)
Receives(ops) ==
    /\ toServer # << >> /\ Head(toServer).op \in ops
    /\ toServer' = Tail(toServer)
    /\ UNCHANGED <<clientVars, unset, shifted>>

\* The setters of server.go; another pinentry may not know the command.
OnSet ==
    /\ spc = "read" /\ Receives({"set"})
    /\ \/ /\ Says("OK")
          /\ settings' = [settings EXCEPT ![Head(toServer).field] = Head(toServer).text]
          /\ bar' = (bar \/ Head(toServer).field = QualityBar)
       \/ Says("ERR") /\ UNCHANGED <<settings, bar>>
    /\ UNCHANGED <<spc, asked, pinOf>>

OnShow ==
    /\ spc = "read" /\ Receives({"show"})
    /\ Says("OK") \/ Says("ERR")
    /\ UNCHANGED <<serverVars, pinOf>>

OnReset ==
    /\ spc = "read" /\ Receives({"reset"})
    /\ Says("OK")
    /\ settings' = [f \in Fields |-> Default] /\ bar' = FALSE
    /\ UNCHANGED <<spc, asked, pinOf>>

OnGetPIN ==
    /\ spc = "read" /\ Receives({"pin"})
    /\ spc' = "pin" /\ asked' = 0
    /\ UNCHANGED <<settings, bar, toClient, pinOf>>

\* Something is typed beside the bar.
Inquire ==
    /\ spc = "pin" /\ bar /\ asked < MaxInquire
    /\ spc' = "quality" /\ asked' = asked + 1
    /\ Says("INQUIRE")
    /\ UNCHANGED <<clientVars, settings, bar, toServer, pinOf, unset, shifted>>

OnQuality ==
    /\ spc = "quality" /\ Receives({"quality", "end"})
    /\ spc' = IF Head(toServer).op = "end" THEN "pin" ELSE "quality"
    /\ UNCHANGED <<settings, bar, asked, toClient, pinOf>>

\* The PIN in its lines and OK, or the dialog is cancelled.
Entered ==
    /\ spc = "pin"
    /\ spc' = "read" /\ bar' = FALSE
    /\ \/ \E n \in PinLines :
             /\ pinOf' = [k \in 1..n |-> k]
             /\ toClient' = toClient \o [k \in 1..n |-> [word |-> "D", part |-> k]] \o Status("OK")
       \/ pinOf' = << >> /\ Says("ERR")
    /\ UNCHANGED <<clientVars, settings, asked, toServer, unset, shifted>>

-----------------------------------------------------------------------------
Caller ==
    \/ \E f \in Fields, t \in Values : Set(f, t)
    \/ \E s \in [Fields -> Values] : Apply(s)
    \/ Confirm \/ Reset \/ GetPIN \/ GetPINWithQualBar \/ Refused

Client ==
    \/ ApplyGoesOn \/ TakeOK \/ TakeErr \/ TakeData \/ IgnoreInquire
    \/ BarData \/ BarOK \/ BarInquire \/ BarErr \/ BarSkips

Server == OnSet \/ OnShow \/ OnReset \/ OnGetPIN \/ OnQuality \/ Entered

Next == Caller \/ Client \/ Server \/ Inquire

Spec == Init /\ [][Next]_vars

\* Both ends go on; the user may type or not, but answers the dialog.
FairSpec == Spec /\ WF_vars(Client) /\ WF_vars(Server)

-----------------------------------------------------------------------------
(* Properties.                                                             *)

\* Between calls the client's copy of a setting is the pinentry's, for what it
\* has set, in part or with an error in the middle of Apply, since the last
\* Reset (the setters, Apply, TakeOK).  Until a PIN of several lines has shifted
\* the answers.
Mirrors ==
    (cpc = "idle" /\ ~shifted) => \A f \in Fields \ unset : current[f] = settings[f]

\* GetPIN without a quality bar returns the PIN in all its lines, and one with
\* a bar every PIN that fits on a line.
PinRight ==
    (cpc = "idle" /\ job.op = "pin" /\ ~shifted) => pin = pinOf

\* GETPIN with a bar has passed its OK by: the PIN was empty.
Missed == cpc = "bar" /\ toClient = << >> /\ toServer = << >> /\ spc = "read"

\* Every call returns, whatever is typed and inquired, unless the PIN is empty
\* or the answers have shifted.
CallsReturn == cpc # "idle" ~> cpc = "idle" \/ Missed \/ shifted

\* The pinentry is told the quality of what is typed, each time it asks, by a
\* call the bar was set for ("otherwise pinentry will hang", client.go:235).
QualityTold == spc = "quality" ~> spc # "quality" \/ shifted

\* What the client returns and remembers, all together.
ClientRight == TypeOK /\ Mirrors /\ PinRight
=============================================================================
