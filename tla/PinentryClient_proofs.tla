------------------------ MODULE PinentryClient_proofs ------------------------
(***************************************************************************)
(* Theorems about the client of a pinentry, PinentryClient, which is the   *)
(* instance Asker of MCAssuan, for any settings, values and PINs and any   *)
(* number of calls and inquiries.                                          *)
(***************************************************************************)
EXTENDS MCAssuan, TLAPS

-----------------------------------------------------------------------------
(* A call of PinentryClient goes through phases, and as long as no line has *)
(* been taken for another, client, pinentry and streams are in the same one. *)

Mirror == \A f \in Asker!Fields \ unset : current[f] = settings[f]

AskerLine(word, part) == [word |-> word, part |-> part]

AtPinentry == dialog \in {"simple", "bar"} /\ (job.op = "pin" => pin = << >>)
AtGetPIN == AtPinentry /\ job.op = "pin" /\ Mirror

InIdle ==
  /\ dialog = "idle" /\ pinentry = "read" /\ toPinentry = << >> /\ fromPinentry = << >>
  /\ Mirror /\ (job.op = "pin" => pin = pinOf)

\* The command is on its way.
InAsked ==
  /\ AtPinentry /\ pinentry = "read" /\ toPinentry = <<job>> /\ fromPinentry = << >>
  /\ Mirror /\ job.op \in {"set", "pin", "show", "reset"} /\ (dialog = "bar" => job.op = "pin")

\* The answer is on its way: after an OK the pinentry is ahead by one setting.
InTold ==
  /\ dialog = "simple" /\ pinentry = "read" /\ toPinentry = << >>
  /\ job.op \in {"set", "show", "reset"}
  /\ \E w \in {"OK", "ERR"} :
        /\ fromPinentry = <<AskerLine(w, 0)>>
        /\ w = "ERR" \/ job.op = "show" => Mirror
        /\ job.op = "reset" => w = "OK"
        /\ w = "OK" /\ job.op = "set" =>
              /\ settings[job.field] = job.text
              /\ \A f \in Asker!Fields \ (unset \cup {job.field}) : current[f] = settings[f]

InTyping == AtGetPIN /\ pinentry = "pin" /\ toPinentry = << >> /\ fromPinentry = << >>

\* An inquiry is on its way, or its answer, or SimpleCmd has passed it over.
InInquiry ==
  /\ AtGetPIN /\ pinentry = "quality"
  /\ \/ toPinentry = << >> /\ fromPinentry = <<AskerLine("INQUIRE", 0)>>
     \/ toPinentry = << >> /\ fromPinentry = << >> /\ dialog = "simple"
     \/ /\ fromPinentry = << >> /\ dialog = "bar"
        /\ toPinentry = <<Asker!Do("quality"), Asker!Do("end")>>
     \/ fromPinentry = << >> /\ dialog = "bar" /\ toPinentry = <<Asker!Do("end")>>

\* The lines of the PIN that have not been taken are on their way, with their OK.
InDelivery ==
  /\ job.op = "pin" /\ Mirror /\ pinentry = "read" /\ toPinentry = << >> /\ fromPinentry # << >>
  /\ Len(pin) + Len(fromPinentry) = Len(pinOf) + 1
  /\ \A k \in 1..Len(pin) : pin[k] = pinOf[k]
  /\ \A k \in 1..Len(fromPinentry) - 1 : fromPinentry[k] = AskerLine("D", pinOf[Len(pin) + k])
  /\ fromPinentry[Len(fromPinentry)] = AskerLine("OK", 0)
  /\ dialog = "simple" \/ (dialog = "bar" /\ pin = << >>) \/ (dialog = "ok" /\ Len(pin) = 1)

InCancelled ==
  /\ AtGetPIN /\ pinentry = "read" /\ toPinentry = << >> /\ fromPinentry = <<AskerLine("ERR", 0)>>
  /\ pinOf = << >>

\* The OK of an empty PIN has been passed over.
InMissed == dialog = "bar" /\ pinentry = "read" /\ toPinentry = << >> /\ fromPinentry = << >>

InPhase ==
  \/ InIdle \/ InAsked \/ InTold \/ InTyping \/ InInquiry \/ InDelivery \/ InCancelled
  \/ InMissed

\* Apply has nothing but settings left to send.
OnlySets == \A n \in DOMAIN todo : todo[n].op = "set"

AskerInv == Asker!TypeOK /\ OnlySets /\ (~shifted => InPhase)

LEMMA AskerJobs ==
  /\ Asker!QualityBar \in Asker!Fields /\ Default \in Values /\ Asker!None \in Asker!Job
  /\ Asker!None.op = "none" /\ Asker!Do("none") = Asker!None
  /\ \A op \in {"pin", "show", "reset"} : Asker!Do(op) \in Asker!Job /\ Asker!Do(op).op = op
  /\ \A op \in {"quality", "end"} : Asker!Do(op) \in Asker!Command /\ Asker!Do(op).op = op
  /\ \A f \in Asker!Fields, t \in Values :
        /\ Asker!SetJob(f, t) \in Asker!Job
        /\ Asker!SetJob(f, t).op = "set" /\ Asker!SetJob(f, t).field = f
        /\ Asker!SetJob(f, t).text = t
  /\ Asker!Job \subseteq Asker!Command
<1>1. Asker!QualityBar \in Asker!Fields /\ Default \in Values
  BY AskerConstants DEF Asker!ClientAssumption, Asker!QualityBar, Asker!Fields
<1>2. Asker!None \in Asker!Job /\ Asker!None.op = "none" /\ Asker!Do("none") = Asker!None
  BY <1>1 DEF Asker!None, Asker!Job, Asker!Do
<1>3. \A op \in {"pin", "show", "reset"} : Asker!Do(op) \in Asker!Job /\ Asker!Do(op).op = op
  BY <1>1 DEF Asker!None, Asker!Job, Asker!Do
<1>4. \A op \in {"quality", "end"} : Asker!Do(op) \in Asker!Command /\ Asker!Do(op).op = op
  BY <1>1 DEF Asker!None, Asker!Command, Asker!Do
<1>5. \A f \in Asker!Fields, t \in Values :
        /\ Asker!SetJob(f, t) \in Asker!Job
        /\ Asker!SetJob(f, t).op = "set" /\ Asker!SetJob(f, t).field = f
        /\ Asker!SetJob(f, t).text = t
  BY DEF Asker!SetJob, Asker!Job
<1> QED BY <1>1, <1>2, <1>3, <1>4, <1>5 DEF Asker!Command

\* What Apply has to send.
LEMMA AskerApplies ==
  ASSUME NEW s \in [Asker!Fields -> Values]
  PROVE  LET jobs == [n \in DOMAIN Order |-> Asker!SetJob(Order[n], s[Order[n]])]
         IN /\ Head(jobs) \in Asker!Job /\ Head(jobs).op = "set" /\ Tail(jobs) \in Seq(Asker!Job)
            /\ \A n \in DOMAIN Tail(jobs) : Tail(jobs)[n].op = "set"
<1> DEFINE jobs == [n \in DOMAIN Order |-> Asker!SetJob(Order[n], s[Order[n]])]
<1>1. Len(Order) \in Nat \ {0} /\ DOMAIN Order = 1..Len(Order)
  BY AskerConstants DEF Asker!ClientAssumption
<1>2. ASSUME NEW n \in DOMAIN Order PROVE jobs[n] \in Asker!Job /\ jobs[n].op = "set"
  BY <1>2, AskerJobs DEF Asker!Fields
<1>3. jobs \in Seq(Asker!Job) /\ Len(jobs) = Len(Order)
  BY <1>1, <1>2
<1> HIDE DEF jobs
<1>4. Head(jobs) = jobs[1] /\ Tail(jobs) \in Seq(Asker!Job)
  BY <1>1, <1>3
<1>5. \A n \in DOMAIN Tail(jobs) : Tail(jobs)[n] = jobs[n + 1] /\ n + 1 \in DOMAIN Order
  BY <1>1, <1>3
<1> QED BY <1>1, <1>2, <1>4, <1>5 DEF jobs

LEMMA AskerInit == Asker!Init => AskerInv
<1> SUFFICES ASSUME Asker!Init PROVE AskerInv
  OBVIOUS
<1>1. Asker!TypeOK
  <2>1. 0 \in 0..MaxCommands /\ 0 \in 0..MaxAsked
    BY AskerConstants DEF Asker!ClientAssumption
  <2>2. << >> \in Seq(Asker!Job) /\ << >> \in Seq(Nat) /\ << >> \in Seq(Asker!Command)
           /\ << >> \in Seq(Asker!Reply)
    OBVIOUS
  <2>3. current \in [Asker!Fields -> Values] /\ settings \in [Asker!Fields -> Values]
    BY AskerJobs DEF Asker!Init
  <2> QED BY <2>1, <2>2, <2>3, AskerJobs DEF Asker!Init, Asker!TypeOK
<1>2. InIdle
  BY AskerJobs DEF Asker!Init, InIdle, Mirror
<1>3. OnlySets
  BY DEF Asker!Init, OnlySets
<1> QED BY <1>1, <1>2, <1>3 DEF AskerInv, InPhase

\* A command more on its way, and what else a call leaves alone.
LEMMA AskerSends ==
  ASSUME Asker!TypeOK, NEW j \in Asker!Job, NEW later \in Seq(Asker!Job), Asker!Send(j, later),
        pin' \in Seq(Nat)
  PROVE  Asker!TypeOK'
<1>1. sent' \in 0..MaxCommands
  BY AskerConstants DEF Asker!Send, Asker!TypeOK, Asker!ClientAssumption
<1>2. toPinentry' \in Seq(Asker!Command)
  BY AskerJobs DEF Asker!Send, Asker!TypeOK
<1> QED BY <1>1, <1>2 DEF Asker!Send, Asker!TypeOK, Asker!serverVars

LEMMA AskerCallerTypes ==
  ASSUME Asker!TypeOK, Asker!Caller \/ Asker!ApplyGoesOn
  PROVE  Asker!TypeOK'
<1>1. ASSUME NEW f \in Asker!Fields, NEW t \in Values, Asker!Set(f, t) PROVE Asker!TypeOK'
  BY <1>1, AskerJobs, AskerSends DEF Asker!Set, Asker!Call, Asker!TypeOK
<1>2. ASSUME NEW s \in [Asker!Fields -> Values], Asker!Apply(s) PROVE Asker!TypeOK'
  BY <1>2, AskerApplies, AskerSends DEF Asker!Apply, Asker!TypeOK
<1>3. CASE Asker!Confirm \/ Asker!Reset \/ Asker!GetPIN
  <2>1. PICK op \in {"pin", "show", "reset"} : Asker!Send(Asker!Do(op), << >>) /\ pin' \in Seq(Nat)
    BY <1>3 DEF Asker!Confirm, Asker!Reset, Asker!GetPIN, Asker!Call, Asker!TypeOK
  <2>2. Asker!Do(op) \in Asker!Job /\ << >> \in Seq(Asker!Job)
    BY AskerJobs
  <2> QED BY <2>1, <2>2, AskerSends
<1>4. CASE Asker!GetPINWithQualBar
  <2>1. sent' \in 0..MaxCommands
    BY <1>4, AskerConstants DEF Asker!GetPINWithQualBar, Asker!TypeOK, Asker!ClientAssumption
  <2>2. toPinentry' \in Seq(Asker!Command) /\ job' \in Asker!Job
    BY <1>4, AskerJobs DEF Asker!GetPINWithQualBar, Asker!TypeOK
  <2>3. pin' \in Seq(Nat)
    BY <1>4 DEF Asker!GetPINWithQualBar
  <2> QED BY <1>4, <2>1, <2>2, <2>3 DEF Asker!GetPINWithQualBar, Asker!TypeOK, Asker!serverVars
<1>5. CASE Asker!Refused
  <2>1. todo' \in Seq(Asker!Job)
    BY <1>5 DEF Asker!Refused
  <2> QED BY <1>5, <2>1 DEF Asker!Refused, Asker!TypeOK, Asker!serverVars
<1>6. CASE Asker!ApplyGoesOn
  <2>1. Head(todo) \in Asker!Job /\ Tail(todo) \in Seq(Asker!Job)
           /\ Asker!Send(Head(todo), Tail(todo)) /\ pin' = pin
    BY <1>6 DEF Asker!ApplyGoesOn, Asker!TypeOK
  <2> QED BY <2>1, AskerSends DEF Asker!TypeOK
<1> QED BY <1>1, <1>2, <1>3, <1>4, <1>5, <1>6 DEF Asker!Caller

\* A line is taken.
LEMMA AskerReads ==
  ASSUME Asker!TypeOK, NEW at, NEW words, Asker!Reads(at, words)
  PROVE  /\ Head(fromPinentry) \in Asker!Reply /\ Head(fromPinentry) = fromPinentry[1]
         /\ Len(fromPinentry) \in Nat \ {0} /\ Len(fromPinentry') = Len(fromPinentry) - 1
         /\ fromPinentry' \in Seq(Asker!Reply)
         /\ \A n \in 1..Len(fromPinentry) - 1 : fromPinentry'[n] = fromPinentry[n + 1]
         /\ Head(fromPinentry).word \in words /\ Head(fromPinentry).part \in Nat /\ dialog \in at
         /\ UNCHANGED <<sent, Asker!serverVars, pinOf>>
<1>1. fromPinentry \in Seq(Asker!Reply) /\ fromPinentry # << >>
         /\ fromPinentry' = Tail(fromPinentry)
  BY DEF Asker!Reads, Asker!TypeOK
<1>2. Head(fromPinentry) \in Asker!Reply
  BY <1>1
<1> QED BY <1>1, <1>2 DEF Asker!Reads, Asker!Reply

LEMMA AskerClientTypes ==
  ASSUME Asker!TypeOK, Asker!Client
  PROVE  Asker!TypeOK'
<1> USE AskerReads
<1>1. CASE Asker!ApplyGoesOn
  BY <1>1, AskerCallerTypes
<1>2. CASE Asker!TakeOK
  <2>1. current' \in [Asker!Fields -> Values]
    BY <1>2 DEF Asker!TakeOK, Asker!TypeOK, Asker!Job
  <2>2. qualityBar' \in BOOLEAN
    BY <1>2 DEF Asker!TakeOK, Asker!TypeOK
  <2>3. unset' \subseteq Asker!Fields
    BY <1>2 DEF Asker!TakeOK, Asker!TypeOK
  <2> QED BY <1>2, <2>1, <2>2, <2>3 DEF Asker!TakeOK, Asker!TypeOK, Asker!serverVars
<1>3. CASE Asker!TakeErr
  <2>1. todo' \in Seq(Asker!Job) /\ pin' \in Seq(Nat)
    BY <1>3 DEF Asker!TakeErr
  <2> QED BY <1>3, <2>1 DEF Asker!TakeErr, Asker!TypeOK, Asker!serverVars
<1>4. CASE Asker!TakeData \/ Asker!BarData
  <2>1. Head(fromPinentry).part \in Nat
    BY <1>4 DEF Asker!TakeData, Asker!BarData
  <2>2. pin' = Append(pin, Head(fromPinentry).part) \/ pin' = <<Head(fromPinentry).part>>
    BY <1>4 DEF Asker!TakeData, Asker!BarData
  <2>3. pin \in Seq(Nat)
    BY DEF Asker!TypeOK
  <2> DEFINE part == Head(fromPinentry).part
  <2> HIDE DEF part
  <2>4. Append(pin, part) \in Seq(Nat) /\ <<part>> \in Seq(Nat)
    BY <2>1, <2>3 DEF part
  <2>5. pin' \in Seq(Nat)
    BY <2>2, <2>4 DEF part
  <2> QED BY <1>4, <2>5 DEF Asker!TakeData, Asker!BarData, Asker!TypeOK, Asker!serverVars
<1>5. CASE Asker!IgnoreInquire \/ Asker!BarOK \/ Asker!BarErr \/ Asker!BarSkips
  BY <1>5 DEF Asker!IgnoreInquire, Asker!BarOK, Asker!BarErr, Asker!BarSkips, Asker!TypeOK,
     Asker!serverVars
<1>6. CASE Asker!BarInquire
  <2>1. toPinentry' \in Seq(Asker!Command)
    BY <1>6, AskerJobs DEF Asker!BarInquire, Asker!TypeOK
  <2> QED BY <1>6, <2>1 DEF Asker!BarInquire, Asker!TypeOK, Asker!serverVars
<1> QED BY <1>1, <1>2, <1>3, <1>4, <1>5, <1>6 DEF Asker!Client

\* The PIN in its lines, and the OK after them.
LEMMA AskerLines ==
  ASSUME NEW n \in PinLines
  PROVE  /\ n \in Nat /\ [k \in 1..n |-> k] \in Seq(Nat) /\ Len([k \in 1..n |-> k]) = n
         /\ [k \in 1..n |-> AskerLine("D", k)] \in Seq(Asker!Reply)
         /\ Len([k \in 1..n |-> AskerLine("D", k)]) = n
  BY AskerConstants DEF Asker!ClientAssumption, AskerLine, Asker!Reply

LEMMA AskerServerTypes ==
  ASSUME Asker!TypeOK, Asker!Server \/ Asker!Inquire
  PROVE  Asker!TypeOK'
<1>1. ASSUME NEW ops, Asker!Receives(ops)
      PROVE  Head(toPinentry) \in Asker!Command /\ toPinentry' \in Seq(Asker!Command)
            /\ Head(toPinentry).op \in ops
  BY <1>1 DEF Asker!Receives, Asker!TypeOK
<1>2. ASSUME NEW w \in {"OK", "ERR", "INQUIRE"}, Asker!Says(w)
      PROVE fromPinentry' \in Seq(Asker!Reply)
  <2>1. Asker!Status(w) \in Seq(Asker!Reply)
    BY <1>2 DEF Asker!Status, Asker!Reply
  <2> QED BY <1>2, <2>1 DEF Asker!Says, Asker!TypeOK
<1>3. CASE Asker!OnSet
  <2>1. ASSUME NEW c \in Asker!Command PROVE c.field \in Asker!Fields /\ c.text \in Values
    BY <2>1, AskerJobs DEF Asker!Command, Asker!Job, Asker!None
  <2>2. settings' \in [Asker!Fields -> Values] /\ bar' \in BOOLEAN
    BY <1>1, <1>3, <2>1 DEF Asker!OnSet, Asker!TypeOK
  <2> QED BY <1>1, <1>2, <1>3, <2>2 DEF Asker!OnSet, Asker!Receives, Asker!TypeOK,
     Asker!clientVars
<1>4. CASE Asker!OnShow
  BY <1>1, <1>2, <1>4 DEF Asker!OnShow, Asker!Receives, Asker!TypeOK, Asker!clientVars,
     Asker!serverVars
<1>5. CASE Asker!OnReset
  <2>1. settings' \in [Asker!Fields -> Values]
    BY <1>5, AskerJobs DEF Asker!OnReset
  <2> QED BY <1>1, <1>2, <1>5, <2>1 DEF Asker!OnReset, Asker!Receives, Asker!TypeOK,
     Asker!clientVars
<1>6. CASE Asker!OnGetPIN
  BY <1>1, <1>6, AskerConstants DEF Asker!OnGetPIN, Asker!Receives, Asker!TypeOK,
     Asker!clientVars, Asker!ClientAssumption
<1>7. CASE Asker!OnQuality
  BY <1>1, <1>7 DEF Asker!OnQuality, Asker!Receives, Asker!TypeOK, Asker!clientVars
<1>8. CASE Asker!Entered
  <2>1. fromPinentry' \in Seq(Asker!Reply) /\ pinOf' \in Seq(Nat)
    <3>1. CASE pinOf' = << >> /\ Asker!Says("ERR")
      BY <1>2, <3>1
    <3>2. ASSUME NEW n \in PinLines, pinOf' = [k \in 1..n |-> k],
                 fromPinentry' = fromPinentry \o [k \in 1..n |-> [word |-> "D", part |-> k]]
                                              \o Asker!Status("OK")
          PROVE  fromPinentry' \in Seq(Asker!Reply) /\ pinOf' \in Seq(Nat)
      <4>1. Asker!Status("OK") \in Seq(Asker!Reply)
        BY DEF Asker!Status, Asker!Reply
      <4>2. fromPinentry' = fromPinentry \o [k \in 1..n |-> AskerLine("D", k)] \o Asker!Status("OK")
        BY <3>2 DEF AskerLine
      <4>3. fromPinentry \in Seq(Asker!Reply)
        BY DEF Asker!TypeOK
      <4>4. [k \in 1..n |-> AskerLine("D", k)] \in Seq(Asker!Reply) /\ pinOf' \in Seq(Nat)
        BY <3>2, AskerLines
      <4> HIDE DEF AskerLine
      <4> QED BY <4>1, <4>2, <4>3, <4>4
    <3> QED BY <1>8, <3>1, <3>2 DEF Asker!Entered
  <2> QED BY <1>8, <2>1 DEF Asker!Entered, Asker!TypeOK, Asker!clientVars
<1>9. CASE Asker!Inquire
  BY <1>2, <1>9, AskerConstants DEF Asker!Inquire, Asker!TypeOK, Asker!clientVars,
     Asker!ClientAssumption
<1> QED BY <1>3, <1>4, <1>5, <1>6, <1>7, <1>8, <1>9 DEF Asker!Server

LEMMA AskerTypeStep ==
  ASSUME Asker!TypeOK, [Asker!Next]_(Asker!vars)
  PROVE  Asker!TypeOK'
<1>1. CASE UNCHANGED Asker!vars
  BY <1>1 DEF Asker!vars, Asker!clientVars, Asker!serverVars, Asker!TypeOK
<1> QED BY <1>1, AskerCallerTypes, AskerClientTypes, AskerServerTypes DEF Asker!Next

LEMMA AskerTodoStep ==
  ASSUME Asker!TypeOK, OnlySets, [Asker!Next]_(Asker!vars)
  PROVE  OnlySets'
<1> USE DEF OnlySets
<1>1. CASE todo' = todo \/ todo' = << >>
  BY <1>1
<1>2. ASSUME NEW s \in [Asker!Fields -> Values], Asker!Apply(s) PROVE OnlySets'
  BY <1>2, AskerApplies DEF Asker!Apply, Asker!Send
<1>3. CASE Asker!ApplyGoesOn
  <2>1. todo' = Tail(todo) /\ todo \in Seq(Asker!Job) /\ todo # << >>
    BY <1>3 DEF Asker!ApplyGoesOn, Asker!Send, Asker!TypeOK
  <2>2. \A n \in DOMAIN todo' : n + 1 \in DOMAIN todo /\ todo'[n] = todo[n + 1]
    BY <2>1
  <2> QED BY <2>2
<1>4. CASE Asker!Caller /\ ~ \E s \in [Asker!Fields -> Values] : Asker!Apply(s)
  BY <1>1, <1>4 DEF Asker!Caller, Asker!Set, Asker!Call, Asker!Confirm, Asker!Reset,
     Asker!GetPIN, Asker!GetPINWithQualBar, Asker!Refused, Asker!Send
<1>5. CASE Asker!Client /\ ~Asker!ApplyGoesOn
  BY <1>1, <1>5 DEF Asker!Client, Asker!TakeOK, Asker!TakeErr, Asker!TakeData,
     Asker!IgnoreInquire, Asker!BarData, Asker!BarOK, Asker!BarInquire,
     Asker!BarErr, Asker!BarSkips
<1>6. CASE Asker!Server \/ Asker!Inquire \/ UNCHANGED Asker!vars
  BY <1>1, <1>6 DEF Asker!Server, Asker!OnSet, Asker!OnShow, Asker!OnReset, Asker!OnGetPIN,
     Asker!OnQuality, Asker!Entered, Asker!Inquire,
     Asker!Receives, Asker!vars, Asker!clientVars
<1> QED BY <1>2, <1>3, <1>4, <1>5, <1>6 DEF Asker!Next

LEMMA AskerOne == \A x : Head(<<x>>) = x /\ Tail(<<x>>) = << >> /\ <<x>> # << >> /\ Len(<<x>>) = 1
  OBVIOUS

LEMMA AskerTwo ==
  \A x, y : Head(<<x, y>>) = x /\ Tail(<<x, y>>) = <<y>> /\ <<x, y>> # << >>
  OBVIOUS

\* A call begins: everything rests.
LEMMA AskerCalls ==
  ASSUME AskerInv, ~shifted, Asker!Caller \/ Asker!ApplyGoesOn
  PROVE  InPhase'
<1> USE DEF AskerInv
<1>1. dialog = "idle" /\ InIdle
  BY DEF Asker!Caller, Asker!Set, Asker!Call, Asker!Apply, Asker!Confirm, Asker!Reset,
     Asker!GetPIN, Asker!GetPINWithQualBar, Asker!Refused,
     Asker!ApplyGoesOn, InPhase, InAsked, InTold, InTyping, InInquiry, InDelivery, InCancelled,
     InMissed, AtPinentry, AtGetPIN
<1>2. ASSUME NEW j \in Asker!Job, NEW later, Asker!Send(j, later),
             j.op \in {"set", "pin", "show", "reset"},
             j.op = "pin" => pin' = << >>
      PROVE  InPhase'
  <2>1. toPinentry' = <<j>>
    BY <1>1, <1>2 DEF Asker!Send, InIdle
  <2>2. Mirror'
    BY <1>1, <1>2 DEF Asker!Send, InIdle, Mirror, Asker!serverVars
  <2> QED BY <1>1, <1>2, <2>1, <2>2 DEF Asker!Send, InIdle, InAsked, InPhase, AtPinentry,
     Asker!serverVars
<1>3. ASSUME NEW f \in Asker!Fields, NEW t \in Values, Asker!Set(f, t) PROVE InPhase'
  BY <1>2, <1>3, AskerJobs DEF Asker!Set, Asker!Call
<1>4. ASSUME NEW s \in [Asker!Fields -> Values], Asker!Apply(s) PROVE InPhase'
  BY <1>2, <1>4, AskerApplies DEF Asker!Apply
<1>5. CASE Asker!Confirm \/ Asker!Reset \/ Asker!GetPIN
  <2>1. PICK op \in {"pin", "show", "reset"} :
            Asker!Send(Asker!Do(op), << >>) /\ (op = "pin" => pin' = << >>)
    BY <1>5 DEF Asker!Confirm, Asker!Reset, Asker!GetPIN, Asker!Call
  <2> QED BY <1>2, <2>1, AskerJobs
<1>6. CASE Asker!GetPINWithQualBar
  <2>1. toPinentry' = <<job'>> /\ job'.op = "pin"
    BY <1>1, <1>6, AskerJobs DEF Asker!GetPINWithQualBar, InIdle
  <2>2. Mirror'
    BY <1>1, <1>6 DEF Asker!GetPINWithQualBar, InIdle, Mirror, Asker!serverVars
  <2> QED BY <1>1, <1>6, <2>1, <2>2
        DEF Asker!GetPINWithQualBar, InIdle, InAsked, InPhase, AtPinentry, Asker!serverVars
<1>7. CASE Asker!Refused
  BY <1>1, <1>7 DEF Asker!Refused, InIdle, InPhase, Mirror, Asker!serverVars
<1>8. CASE Asker!ApplyGoesOn
  <2>1. Head(todo) \in Asker!Job /\ Head(todo).op = "set"
    BY <1>8 DEF Asker!ApplyGoesOn, OnlySets, Asker!TypeOK
  <2> QED BY <1>2, <1>8, <2>1 DEF Asker!ApplyGoesOn
<1> QED BY <1>3, <1>4, <1>5, <1>6, <1>7, <1>8 DEF Asker!Caller

\* What waits while a line is taken.
LEMMA AskerTakes ==
  ASSUME AskerInv, InPhase, NEW at, NEW words, Asker!Reads(at, words)
  PROVE  /\ InTold \/ InInquiry \/ InDelivery \/ InCancelled
         /\ toPinentry = << >>
         /\ InTold => /\ dialog = "simple" /\ Head(fromPinentry).word \in {"OK", "ERR"}
                      /\ fromPinentry' = << >>
         /\ InInquiry => Head(fromPinentry).word = "INQUIRE" /\ fromPinentry' = << >>
         /\ InCancelled => Head(fromPinentry).word = "ERR" /\ fromPinentry' = << >>
         /\ InDelivery => Head(fromPinentry).word \in {"OK", "D"}
<1>1. fromPinentry # << >> /\ fromPinentry' = Tail(fromPinentry)
  BY DEF Asker!Reads
<1>2. InTold \/ InInquiry \/ InDelivery \/ InCancelled
  BY <1>1 DEF InPhase, InIdle, InAsked, InTyping, InMissed
<1>3. toPinentry = << >>
  BY <1>1, <1>2 DEF InTold, InInquiry, InDelivery, InCancelled
<1>4. InTold => /\ dialog = "simple" /\ Head(fromPinentry).word \in {"OK", "ERR"}
                /\ fromPinentry' = << >>
  BY <1>1, AskerOne DEF InTold, AskerLine
<1>5. ASSUME InInquiry PROVE Head(fromPinentry).word = "INQUIRE" /\ fromPinentry' = << >>
  <2>1. fromPinentry = <<AskerLine("INQUIRE", 0)>>
    BY <1>1, <1>5 DEF InInquiry
  <2> QED BY <1>1, <2>1, AskerOne DEF AskerLine
<1>6. InCancelled => Head(fromPinentry).word = "ERR" /\ fromPinentry' = << >>
  BY <1>1, AskerOne DEF InCancelled, AskerLine
<1>7. ASSUME InDelivery PROVE Head(fromPinentry).word \in {"OK", "D"}
  <2>1. Len(fromPinentry) \in Nat \ {0} /\ Head(fromPinentry) = fromPinentry[1]
    BY AskerReads DEF AskerInv
  <2>2. CASE Len(fromPinentry) = 1
    <3>1. fromPinentry[1] = AskerLine("OK", 0)
      BY <1>7, <2>2 DEF InDelivery
    <3> QED BY <2>1, <3>1 DEF AskerLine
  <2>3. CASE Len(fromPinentry) > 1
    <3>1. fromPinentry[1] = AskerLine("D", pinOf[Len(pin) + 1])
      BY <1>7, <2>1, <2>3 DEF InDelivery
    <3> QED BY <2>1, <3>1 DEF AskerLine
  <2>4. Len(fromPinentry) = 1 \/ Len(fromPinentry) > 1
    <3>1. \A x \in Nat \ {0} : x = 1 \/ x > 1
      OBVIOUS
    <3>2. Len(fromPinentry) \in Nat \ {0}
      BY <2>1
    <3> QED BY <3>1, <3>2
  <2> QED BY <2>2, <2>3, <2>4
<1> QED BY <1>2, <1>3, <1>4, <1>5, <1>6, <1>7

\* The lines of a PIN: the one taken is the next one, or the OK that ends them.
LEMMA AskerTakesLine ==
  ASSUME AskerInv, InDelivery, NEW at, NEW words, Asker!Reads(at, words)
  PROVE  /\ Head(fromPinentry).word = "OK" => fromPinentry' = << >> /\ pin = pinOf
         /\ Head(fromPinentry).word = "D" =>
               /\ fromPinentry' # << >> /\ Len(pin) + 1 <= Len(pinOf)
               /\ Head(fromPinentry).part = pinOf[Len(pin) + 1]
               /\ (Len(pin) + 1) + Len(fromPinentry') = Len(pinOf) + 1
               /\ \A k \in 1..Len(fromPinentry') - 1 :
                     fromPinentry'[k] = AskerLine("D", pinOf[(Len(pin) + 1) + k])
               /\ fromPinentry'[Len(fromPinentry')] = AskerLine("OK", 0)
<1>1. /\ Len(pin) \in Nat /\ Len(pinOf) \in Nat /\ pin \in Seq(Nat) /\ pinOf \in Seq(Nat)
      /\ Asker!TypeOK
  BY DEF AskerInv, Asker!TypeOK
<1>2. /\ Len(fromPinentry) \in Nat \ {0} /\ Head(fromPinentry) = fromPinentry[1]
      /\ fromPinentry' \in Seq(Asker!Reply) /\ Len(fromPinentry') = Len(fromPinentry) - 1
      /\ \A n \in 1..Len(fromPinentry) - 1 : fromPinentry'[n] = fromPinentry[n + 1]
  BY <1>1, AskerReads
<1>3. Len(pin) + Len(fromPinentry) = Len(pinOf) + 1
  BY DEF InDelivery
<1>4. ASSUME Head(fromPinentry).word = "OK" PROVE fromPinentry' = << >> /\ pin = pinOf
  <2>1. Len(fromPinentry) = 1
    <3>1. Len(fromPinentry) > 1 => fromPinentry[1] = AskerLine("D", pinOf[Len(pin) + 1])
      BY <1>2 DEF InDelivery
    <3> QED BY <1>2, <1>4, <3>1 DEF AskerLine
  <2>2. Len(pin) = Len(pinOf) /\ \A k \in 1..Len(pin) : pin[k] = pinOf[k]
    BY <1>1, <1>3, <2>1 DEF InDelivery
  <2>3. pin = pinOf
    BY <1>1, <2>2
  <2>4. fromPinentry' = << >>
    BY <1>2, <2>1
  <2> QED BY <2>3, <2>4
<1>5. ASSUME Head(fromPinentry).word = "D"
      PROVE  /\ fromPinentry' # << >> /\ Len(pin) + 1 <= Len(pinOf)
             /\ Head(fromPinentry).part = pinOf[Len(pin) + 1]
             /\ (Len(pin) + 1) + Len(fromPinentry') = Len(pinOf) + 1
             /\ \A k \in 1..Len(fromPinentry') - 1 :
                   fromPinentry'[k] = AskerLine("D", pinOf[(Len(pin) + 1) + k])
             /\ fromPinentry'[Len(fromPinentry')] = AskerLine("OK", 0)
  <2>1. Len(fromPinentry) > 1
    <3>1. Len(fromPinentry) = 1 => fromPinentry[1] = AskerLine("OK", 0)
      BY DEF InDelivery
    <3> QED BY <1>2, <1>5, <3>1 DEF AskerLine
  <2>2. fromPinentry' # << >> /\ Len(pin) + 1 <= Len(pinOf)
        /\ (Len(pin) + 1) + Len(fromPinentry') = Len(pinOf) + 1
    <3>1. Len(fromPinentry') > 0 /\ Len(fromPinentry') = Len(fromPinentry) - 1
      BY <1>2, <2>1
    <3>2. fromPinentry' # << >>
      BY <1>2, <3>1
    <3>3. Len(pin) + 1 <= Len(pinOf)
      BY <1>1, <1>2, <1>3, <2>1
    <3>4. (Len(pin) + 1) + Len(fromPinentry') = Len(pinOf) + 1
      <4>1. Len(pin) \in Nat /\ Len(pinOf) \in Nat /\ Len(fromPinentry) \in Nat
        BY <1>1, <1>2
      <4> QED BY <1>3, <3>1, <4>1
    <3> QED BY <3>2, <3>3, <3>4
  <2>3. Head(fromPinentry).part = pinOf[Len(pin) + 1]
    <3>1. fromPinentry[1] = AskerLine("D", pinOf[Len(pin) + 1])
      BY <1>2, <2>1 DEF InDelivery
    <3> QED BY <1>2, <3>1 DEF AskerLine
  <2>4. ASSUME NEW k \in 1..Len(fromPinentry') - 1
        PROVE  fromPinentry'[k] = AskerLine("D", pinOf[(Len(pin) + 1) + k])
    <3>1. k + 1 \in 1..Len(fromPinentry) - 1 /\ fromPinentry'[k] = fromPinentry[k + 1]
      BY <1>2
    <3>2. fromPinentry[k + 1] = AskerLine("D", pinOf[Len(pin) + (k + 1)])
      BY <3>1 DEF InDelivery
    <3>3. Len(pin) + (k + 1) = (Len(pin) + 1) + k
      BY <1>1
    <3> QED BY <3>1, <3>2, <3>3
  <2>5. fromPinentry'[Len(fromPinentry')] = AskerLine("OK", 0)
    <3>1. Len(fromPinentry') \in 1..Len(fromPinentry) - 1
             /\ Len(fromPinentry') + 1 = Len(fromPinentry)
      BY <1>2, <2>1
    <3>2. fromPinentry'[Len(fromPinentry')] = fromPinentry[Len(fromPinentry)]
      BY <1>2, <3>1
    <3> QED BY <3>2 DEF InDelivery
  <2> QED BY <2>2, <2>3, <2>4, <2>5
<1> QED BY <1>4, <1>5

\* The client takes a line.
LEMMA AskerClientStep ==
  ASSUME AskerInv, ~shifted, ~shifted', Asker!Client
  PROVE  InPhase'
<1> USE DEF AskerInv
<1>0. InPhase
  OBVIOUS
<1>1. CASE Asker!ApplyGoesOn
  BY <1>1, AskerCalls
<1>2. CASE Asker!TakeOK
  <2>1. /\ Asker!Reads({"simple"}, {"OK"}) /\ dialog' = "idle" /\ dialog = "simple"
        /\ Head(fromPinentry).word = "OK"
        /\ current' = IF job.op = "set" THEN [current EXCEPT ![job.field] = job.text] ELSE current
        /\ unset' = IF job.op = "set" THEN unset \ {job.field}
                    ELSE IF job.op = "reset" THEN Asker!Fields ELSE unset
        /\ UNCHANGED <<job, pin, toPinentry, pinentry, settings, pinOf>>
    BY <1>2 DEF Asker!TakeOK, Asker!Reads, Asker!serverVars
  <2>2. toPinentry' = << >> /\ (InTold \/ InDelivery) /\ (InTold => fromPinentry' = << >>)
    BY <1>0, <2>1, AskerTakes
  <2>3. CASE InTold
    <3>1. fromPinentry = <<AskerLine("OK", 0)>>
      BY <2>1, <2>3, AskerOne DEF InTold, AskerLine
    <3>2. /\ job.op = "show" => Mirror
          /\ job.op = "set" =>
                /\ settings[job.field] = job.text
                /\ \A f \in Asker!Fields \ (unset \cup {job.field}) : current[f] = settings[f]
          /\ job.op \in {"set", "show", "reset"} /\ pinentry = "read"
      BY <2>3, <3>1 DEF InTold, AskerLine
    <3>3. Mirror'
      <4>1. CASE job.op = "set"
        <5>1. current' = [current EXCEPT ![job.field] = job.text] /\ job.field \in Asker!Fields
          BY <2>1, <4>1 DEF Asker!TypeOK, Asker!Job
        <5> QED BY <2>1, <3>2, <4>1, <5>1 DEF Mirror, Asker!TypeOK
      <4> QED BY <2>1, <3>2, <4>1 DEF Mirror
    <3> QED BY <2>1, <2>2, <2>3, <3>2, <3>3 DEF InPhase, InIdle
  <2>4. CASE InDelivery
    <3>1. fromPinentry' = << >> /\ pin = pinOf
      BY <2>1, <2>4, AskerTakesLine
    <3>2. Mirror'
      BY <2>1, <2>4 DEF InDelivery, Mirror
    <3> QED BY <2>1, <2>2, <2>4, <3>1, <3>2 DEF InPhase, InIdle, InDelivery
  <2> QED BY <2>2, <2>3, <2>4
<1>3. CASE Asker!TakeErr
  <2>1. /\ Asker!Reads({"simple"}, {"ERR"}) /\ dialog' = "idle" /\ pin' = << >>
        /\ Head(fromPinentry).word = "ERR"
        /\ UNCHANGED <<job, current, unset, toPinentry, pinentry, settings, pinOf>>
    BY <1>3 DEF Asker!TakeErr, Asker!Reads, Asker!serverVars
  <2>2. toPinentry' = << >> /\ (InTold \/ InCancelled) /\ fromPinentry' = << >>
    BY <1>0, <2>1, AskerTakes
  <2>3. Mirror' /\ pinentry' = "read" /\ (job.op = "pin" => pinOf = << >>)
    <3>1. CASE InTold
      <4>1. fromPinentry = <<AskerLine("ERR", 0)>>
        BY <2>1, <3>1, AskerOne DEF InTold, AskerLine
      <4> QED BY <2>1, <3>1, <4>1 DEF InTold, AskerLine, Mirror
    <3>2. CASE InCancelled
      BY <2>1, <3>2 DEF InCancelled, AtGetPIN, Mirror
    <3> QED BY <2>2, <3>1, <3>2
  <2> QED BY <2>1, <2>2, <2>3 DEF InPhase, InIdle
<1>4. CASE Asker!TakeData \/ Asker!BarData
  <2>1. PICK at \in {{"simple"}, {"bar"}} : Asker!Reads(at, {"D"})
    BY <1>4 DEF Asker!TakeData, Asker!BarData
  <2>2. /\ Head(fromPinentry).word = "D" /\ toPinentry = << >> /\ InDelivery
        /\ UNCHANGED <<job, current, unset, toPinentry, pinentry, settings, pinOf>>
        /\ dialog \in {"simple", "bar"}
    BY <1>0, <1>4, <2>1, AskerTakes DEF Asker!TakeData, Asker!BarData, Asker!Reads,
       Asker!serverVars
  <2>3. pin \in Seq(Nat) /\ Len(pin) \in Nat
    BY DEF Asker!TypeOK
  <2>4. dialog = "bar" => pin = << >>
    BY <2>2 DEF InDelivery
  <2>5. pin' = Append(pin, pinOf[Len(pin) + 1])
        /\ (dialog' = "simple" \/ (dialog' = "ok" /\ pin = << >>))
    <3>1. Head(fromPinentry).part = pinOf[Len(pin) + 1]
      BY <2>1, <2>2, AskerTakesLine
    <3>2. CASE Asker!TakeData
      BY <3>1, <3>2 DEF Asker!TakeData, Asker!Reads
    <3>3. CASE Asker!BarData
      BY <2>4, <3>1, <3>3 DEF Asker!BarData, Asker!Reads
    <3> QED BY <1>4, <3>2, <3>3
  <2>6. Len(pin') = Len(pin) + 1 /\ \A k \in 1..Len(pin') : pin'[k] = pinOf[k]
    BY <2>2, <2>3, <2>5 DEF InDelivery
  <2>7. /\ fromPinentry' # << >> /\ Len(pin') + Len(fromPinentry') = Len(pinOf) + 1
        /\ \A k \in 1..Len(fromPinentry') - 1 :
              fromPinentry'[k] = AskerLine("D", pinOf[Len(pin') + k])
        /\ fromPinentry'[Len(fromPinentry')] = AskerLine("OK", 0)
    BY <2>1, <2>2, <2>6, AskerTakesLine
  <2>8. Mirror'
    BY <2>2 DEF InDelivery, Mirror
  <2>9. dialog' = "simple" \/ (dialog' = "ok" /\ Len(pin') = 1)
    BY <2>5, <2>6
  <2>10. job'.op = "pin" /\ pinentry' = "read" /\ toPinentry' = << >> /\ pinOf' = pinOf
    BY <2>2 DEF InDelivery
  <2> QED BY <2>6, <2>7, <2>8, <2>9, <2>10 DEF InPhase, InDelivery
<1>5. CASE Asker!IgnoreInquire \/ Asker!BarInquire
  <2>1. PICK at \in {{"simple"}, {"bar"}} : Asker!Reads(at, {"INQUIRE"})
    BY <1>5 DEF Asker!IgnoreInquire, Asker!BarInquire
  <2>2. /\ toPinentry = << >> /\ InInquiry /\ fromPinentry' = << >>
        /\ UNCHANGED <<dialog, pin, job, current, unset, pinentry, settings, pinOf>>
    BY <1>0, <1>5, <2>1, AskerTakes DEF Asker!IgnoreInquire, Asker!BarInquire, Asker!Reads,
       Asker!serverVars
  <2>3. \/ dialog = "simple" /\ toPinentry' = << >>
        \/ dialog = "bar" /\ toPinentry' = <<Asker!Do("quality"), Asker!Do("end")>>
    BY <1>5, <2>2 DEF Asker!IgnoreInquire, Asker!BarInquire, Asker!Reads
  <2>4. (AtGetPIN /\ pinentry = "quality")'
    BY <2>2 DEF InInquiry, AtGetPIN, AtPinentry, Mirror
  <2> QED BY <2>2, <2>3, <2>4 DEF InPhase, InInquiry
<1>6. CASE Asker!BarOK
  <2>1. /\ Asker!Reads({"ok"}, {"OK", "ERR", "D", "INQUIRE"}) /\ dialog = "ok" /\ dialog' = "idle"
        /\ Head(fromPinentry).word = "OK"
        /\ UNCHANGED <<pin, job, current, unset, toPinentry, pinentry, settings, pinOf>>
    BY <1>6 DEF Asker!BarOK, Asker!Reads, Asker!serverVars
  <2>2. InDelivery /\ toPinentry = << >>
    BY <1>0, <2>1, AskerTakes DEF InInquiry, InCancelled, AtGetPIN, AtPinentry
  <2>3. fromPinentry' = << >> /\ pin = pinOf
    BY <2>1, <2>2, AskerTakesLine
  <2> QED BY <2>1, <2>2, <2>3 DEF InPhase, InIdle, InDelivery, Mirror
<1>7. CASE Asker!BarErr
  <2>1. /\ Asker!Reads({"bar"}, {"ERR"}) /\ dialog' = "idle" /\ dialog = "bar"
        /\ Head(fromPinentry).word = "ERR"
        /\ UNCHANGED <<pin, job, current, unset, toPinentry, pinentry, settings, pinOf>>
    BY <1>7 DEF Asker!BarErr, Asker!Reads, Asker!serverVars
  <2>2. InCancelled /\ toPinentry = << >> /\ fromPinentry' = << >>
    BY <1>0, <2>1, AskerTakes
  <2> QED BY <2>1, <2>2 DEF InPhase, InIdle, InCancelled, AtGetPIN, AtPinentry, Mirror
<1>8. CASE Asker!BarSkips
  <2>1. /\ Asker!Reads({"bar"}, {"OK"}) /\ dialog' = "bar" /\ dialog = "bar"
        /\ Head(fromPinentry).word = "OK" /\ UNCHANGED <<toPinentry, pinentry>>
    BY <1>8 DEF Asker!BarSkips, Asker!Reads, Asker!serverVars
  <2>2. InDelivery /\ toPinentry = << >>
    BY <1>0, <2>1, AskerTakes
  <2>3. fromPinentry' = << >>
    BY <2>1, <2>2, AskerTakesLine
  <2> QED BY <2>1, <2>2, <2>3 DEF InPhase, InMissed, InDelivery
<1> QED BY <1>1, <1>2, <1>3, <1>4, <1>5, <1>6, <1>7, <1>8 DEF Asker!Client

\* The pinentry takes a command, or the user types.
LEMMA AskerServerStep ==
  ASSUME AskerInv, ~shifted, Asker!Server \/ Asker!Inquire
  PROVE  InPhase'
<1> USE DEF AskerInv
<1>1. ASSUME NEW ops, Asker!Receives(ops)
      PROVE  /\ InAsked \/ InInquiry
             /\ InAsked => toPinentry' = << >> /\ Head(toPinentry) = job /\ job.op \in ops
             /\ InInquiry => /\ fromPinentry = << >> /\ dialog = "bar"
                             /\ Head(toPinentry).op \in ops
                             /\ \/ /\ Head(toPinentry) = Asker!Do("quality")
                                   /\ toPinentry' = <<Asker!Do("end")>>
                                \/ Head(toPinentry) = Asker!Do("end") /\ toPinentry' = << >>
             /\ UNCHANGED <<dialog, job, current, pin, unset>>
  <2>1. toPinentry # << >> /\ Head(toPinentry).op \in ops /\ toPinentry' = Tail(toPinentry)
    BY <1>1 DEF Asker!Receives
  <2>2. InAsked \/ InInquiry
    BY <2>1 DEF InPhase, InIdle, InTold, InTyping, InDelivery, InCancelled, InMissed
  <2>3. InAsked => toPinentry' = << >> /\ Head(toPinentry) = job /\ job.op \in ops
    BY <2>1, AskerOne DEF InAsked
  <2>4. ASSUME InInquiry
        PROVE  /\ fromPinentry = << >> /\ dialog = "bar"
               /\ \/ /\ Head(toPinentry) = Asker!Do("quality")
                     /\ toPinentry' = <<Asker!Do("end")>>
                  \/ Head(toPinentry) = Asker!Do("end") /\ toPinentry' = << >>
    BY <2>1, <2>4, AskerOne, AskerTwo DEF InInquiry
  <2> QED BY <1>1, <2>1, <2>2, <2>3, <2>4 DEF Asker!Receives, Asker!clientVars
<1>2. ASSUME NEW w, fromPinentry = << >>, Asker!Says(w) PROVE fromPinentry' = <<AskerLine(w, 0)>>
  <2>1. Asker!Status(w) = <<AskerLine(w, 0)>>
    BY DEF Asker!Status, AskerLine
  <2>2. << >> \o <<AskerLine(w, 0)>> = <<AskerLine(w, 0)>>
    OBVIOUS
  <2> QED BY <1>2, <2>1, <2>2 DEF Asker!Says
<1>3. CASE Asker!OnSet \/ Asker!OnShow \/ Asker!OnReset
  <2>1. PICK ops \in {{"set"}, {"show"}, {"reset"}} :
           /\ Asker!Receives(ops) /\ pinentry = "read"
           /\ ops = {"set"} => Asker!OnSet
           /\ ops = {"show"} => Asker!OnShow
           /\ ops = {"reset"} => Asker!OnReset
    <3>1. CASE Asker!OnSet
      BY <3>1 DEF Asker!OnSet
    <3>2. CASE Asker!OnShow
      BY <3>2 DEF Asker!OnShow
    <3>3. CASE Asker!OnReset
      BY <3>3 DEF Asker!OnReset
    <3> QED BY <1>3, <3>1, <3>2, <3>3
  <2>2. /\ InAsked /\ toPinentry' = << >> /\ Head(toPinentry) = job /\ ops = {job.op}
        /\ UNCHANGED <<dialog, job, current, pin, unset>>
    BY <1>1, <2>1 DEF InInquiry
  <2>3. fromPinentry = << >> /\ Mirror /\ dialog = "simple"
    BY <2>1, <2>2 DEF InAsked, AtPinentry
  <2>4. PICK w \in {"OK", "ERR"} :
           /\ fromPinentry' = <<AskerLine(w, 0)>>
           /\ ops = {"reset"} => w = "OK"
           /\ w = "ERR" \/ ops = {"show"} => settings' = settings
           /\ w = "OK" /\ ops = {"set"} =>
                 settings' = [settings EXCEPT ![job.field] = job.text]
           /\ pinentry' = "read"
    BY <1>2, <2>1, <2>2, <2>3 DEF Asker!OnSet, Asker!OnShow, Asker!OnReset, Asker!serverVars
  <2>5. w = "ERR" \/ job.op = "show" => Mirror'
    BY <2>2, <2>3, <2>4 DEF Mirror
  <2>6. ASSUME w = "OK", job.op = "set"
        PROVE  /\ settings'[job.field] = job.text
               /\ \A f \in Asker!Fields \ (unset \cup {job.field}) : current[f] = settings'[f]
    <3>1. job.field \in Asker!Fields /\ settings \in [Asker!Fields -> Values]
      BY DEF Asker!TypeOK, Asker!Job
    <3> QED BY <2>2, <2>3, <2>4, <2>6, <3>1 DEF Mirror
  <2>7. job.op \in {"set", "show", "reset"} /\ (job.op = "reset" => w = "OK")
    BY <2>2, <2>4
  <2> QED BY <2>2, <2>3, <2>4, <2>5, <2>6, <2>7 DEF InPhase, InTold
<1>4. CASE Asker!OnGetPIN
  <2>1. /\ Asker!Receives({"pin"}) /\ pinentry = "read" /\ pinentry' = "pin"
        /\ UNCHANGED <<settings, fromPinentry>>
    BY <1>4 DEF Asker!OnGetPIN
  <2>2. InAsked /\ toPinentry' = << >> /\ job.op = "pin"
           /\ UNCHANGED <<dialog, job, current, pin, unset>>
    BY <1>1, <2>1 DEF InInquiry
  <2> QED BY <2>1, <2>2 DEF InPhase, InAsked, InTyping, AtGetPIN, AtPinentry, Mirror
<1>5. CASE Asker!OnQuality
  <2>1. /\ Asker!Receives({"quality", "end"}) /\ pinentry = "quality"
        /\ pinentry' = IF Head(toPinentry).op = "end" THEN "pin" ELSE "quality"
        /\ UNCHANGED <<settings, fromPinentry>>
    BY <1>5 DEF Asker!OnQuality
  <2>2. /\ InInquiry /\ fromPinentry = << >> /\ dialog = "bar"
        /\ \/ Head(toPinentry) = Asker!Do("quality") /\ toPinentry' = <<Asker!Do("end")>>
           \/ Head(toPinentry) = Asker!Do("end") /\ toPinentry' = << >>
        /\ UNCHANGED <<dialog, job, current, pin, unset>>
    BY <1>1, <2>1 DEF InAsked
  <2>3. AtGetPIN'
    BY <2>1, <2>2 DEF InInquiry, AtGetPIN, AtPinentry, Mirror
  <2>4. Asker!Do("quality").op = "quality" /\ Asker!Do("end").op = "end"
    BY AskerJobs
  <2> QED BY <2>1, <2>2, <2>3, <2>4 DEF InPhase, InInquiry, InTyping
<1>6. CASE Asker!Inquire
  <2>1. /\ pinentry = "pin" /\ pinentry' = "quality" /\ Asker!Says("INQUIRE")
        /\ UNCHANGED <<dialog, job, current, pin, unset, settings, toPinentry>>
    BY <1>6 DEF Asker!Inquire, Asker!clientVars
  <2>2. InTyping
    BY <2>1 DEF InPhase, InIdle, InAsked, InTold, InInquiry, InDelivery, InCancelled, InMissed
  <2>3. fromPinentry' = <<AskerLine("INQUIRE", 0)>> /\ toPinentry' = << >>
    BY <1>2, <2>1, <2>2 DEF InTyping
  <2> QED BY <2>1, <2>2, <2>3 DEF InPhase, InInquiry, InTyping, AtGetPIN, AtPinentry, Mirror
<1>7. CASE Asker!Entered
  <2>1. /\ pinentry = "pin" /\ pinentry' = "read"
        /\ UNCHANGED <<dialog, job, current, pin, unset, settings, toPinentry>>
    BY <1>7 DEF Asker!Entered, Asker!clientVars
  <2>2. InTyping
    BY <2>1 DEF InPhase, InIdle, InAsked, InTold, InInquiry, InDelivery, InCancelled, InMissed
  <2>3. AtGetPIN' /\ toPinentry' = << >> /\ fromPinentry = << >> /\ pin' = << >>
    BY <2>1, <2>2 DEF InTyping, AtGetPIN, AtPinentry, Mirror
  <2>4. CASE pinOf' = << >> /\ Asker!Says("ERR")
    BY <1>2, <2>1, <2>3, <2>4 DEF InPhase, InCancelled
  <2>5. ASSUME NEW n \in PinLines, pinOf' = [k \in 1..n |-> k],
               fromPinentry' = fromPinentry \o [k \in 1..n |-> [word |-> "D", part |-> k]]
                                            \o Asker!Status("OK")
        PROVE  InPhase'
    <3> DEFINE lines == [k \in 1..n |-> AskerLine("D", k)]
    <3>1. n \in Nat /\ lines \in Seq(Asker!Reply) /\ Len(lines) = n /\ Len(pinOf') = n
      BY <2>5, AskerLines
    <3>2. Asker!Status("OK") = <<AskerLine("OK", 0)>>
      BY DEF Asker!Status, AskerLine
    <3>3. fromPinentry' = lines \o <<AskerLine("OK", 0)>>
      <4>1. << >> \o lines = lines
        BY <3>1
      <4>2. lines = [k \in 1..n |-> [word |-> "D", part |-> k]]
        BY DEF AskerLine
      <4> QED BY <2>3, <2>5, <3>2, <4>1, <4>2
    <3>4. \A k \in 1..n : lines[k] = AskerLine("D", pinOf'[k])
      BY <2>5
    <3> HIDE DEF lines
    <3>5. /\ Len(fromPinentry') = n + 1 /\ fromPinentry'[n + 1] = AskerLine("OK", 0)
          /\ \A k \in 1..n : fromPinentry'[k] = lines[k]
      BY <3>1, <3>3
    <3>6. Len(pin') = 0 /\ fromPinentry' # << >>
      BY <2>3, <3>1, <3>5
    <3>7. Len(pin') + Len(fromPinentry') = Len(pinOf') + 1
      BY <3>1, <3>5, <3>6
    <3>8. \A k \in 1..Len(fromPinentry') - 1 :
             fromPinentry'[k] = AskerLine("D", pinOf'[Len(pin') + k])
      BY <3>1, <3>4, <3>5, <3>6
    <3>9. fromPinentry'[Len(fromPinentry')] = AskerLine("OK", 0)
      BY <3>1, <3>5
    <3>10. \A k \in 1..Len(pin') : pin'[k] = pinOf'[k]
      BY <3>6
    <3>11. dialog' = "simple" \/ (dialog' = "bar" /\ pin' = << >>)
      BY <2>3 DEF AtGetPIN, AtPinentry
    <3>12. job'.op = "pin" /\ Mirror'
      BY <2>3 DEF AtGetPIN
    <3> QED BY <2>1, <2>3, <3>6, <3>7, <3>8, <3>9, <3>10, <3>11, <3>12 DEF InPhase, InDelivery
  <2> QED BY <1>7, <2>4, <2>5 DEF Asker!Entered
<1> QED BY <1>3, <1>4, <1>5, <1>6, <1>7 DEF Asker!Server

LEMMA AskerStep ==
  ASSUME AskerInv, [Asker!Next]_(Asker!vars)
  PROVE  AskerInv'
<1> USE DEF AskerInv
<1>1. Asker!TypeOK' /\ OnlySets'
  BY AskerTypeStep, AskerTodoStep
<1>2. ASSUME ~shifted' PROVE InPhase'
  <2>1. ~shifted
    BY <1>2 DEF Asker!Next, Asker!Caller, Asker!Set, Asker!Call, Asker!Apply, Asker!Confirm,
       Asker!Reset, Asker!GetPIN, Asker!GetPINWithQualBar, Asker!Refused,
       Asker!Send, Asker!Client, Asker!ApplyGoesOn, Asker!TakeOK, Asker!TakeErr, Asker!TakeData,
       Asker!IgnoreInquire, Asker!BarData, Asker!BarOK,
       Asker!BarInquire, Asker!BarErr, Asker!BarSkips, Asker!Server, Asker!OnSet, Asker!OnShow,
       Asker!OnReset, Asker!OnGetPIN, Asker!OnQuality, Asker!Entered,
       Asker!Inquire, Asker!Receives, Asker!vars
  <2>2. CASE UNCHANGED Asker!vars
    BY <2>1, <2>2 DEF Asker!vars, Asker!clientVars, Asker!serverVars, InPhase, InIdle,
       InAsked, InTold, InTyping,
       InInquiry, InDelivery, InCancelled, InMissed, AtPinentry, AtGetPIN, Mirror
  <2> QED BY <1>2, <2>1, <2>2, AskerCalls, AskerClientStep, AskerServerStep DEF Asker!Next
<1> QED BY <1>1, <1>2

LEMMA AskerAlways == Asker!Spec => []AskerInv
  BY AskerInit, AskerStep, PTL DEF Asker!Spec

\* Between calls the client's copy of each setting it has set is the pinentry's,
\* though Apply stops anywhere, and GetPIN returns the PIN that was entered, in all
\* its lines, until an answer has been taken for another
\* (src/pinentry/client.go:64-305): for any settings, PINs, calls and inquiries.
THEOREM ClientRightCorrect == Asker!Spec => []ClientRight
<1>1. AskerInv => ClientRight
  <2> SUFFICES ASSUME AskerInv PROVE ClientRight
    OBVIOUS
  <2>1. dialog = "idle" /\ ~shifted => InIdle
    BY DEF AskerInv, InPhase, InAsked, InTold, InTyping, InInquiry, InDelivery, InCancelled,
       InMissed, AtPinentry, AtGetPIN
  <2> QED BY <2>1 DEF AskerInv, InIdle, Mirror, ClientRight, Asker!ClientRight, Asker!Mirrors,
     Asker!PinRight
<1> QED BY <1>1, AskerAlways, PTL

-----------------------------------------------------------------------------
(* The behaviours of MCAssuan.                                             *)

\* What MCAssuan is checked on are behaviours of its three parts, so that whatever
\* is proved of PinentryClient, or in AssuanSession_proofs, holds of it
\* (src/assuan/client/session.go, src/assuan/server/server.go, src/pinentry/client.go).
THEOREM AssuanIsAll == AssuanSpec => Spec /\ Codec!Spec /\ Asker!Spec
<1>1. AssuanInit => Init /\ Codec!Init /\ Asker!Init
  BY DEF AssuanInit
<1>2. [AssuanNext]_allVars => [Next]_vars
  BY DEF AssuanNext, InSession, InCodec, InAsker, allVars
<1>3. [AssuanNext]_allVars => [Codec!Next]_(Codec!vars)
  BY DEF AssuanNext, InSession, InCodec, InAsker, allVars, codecVars, Codec!vars
<1>4. [AssuanNext]_allVars => [Asker!Next]_(Asker!vars)
  BY DEF AssuanNext, InSession, InCodec, InAsker, allVars, askerVars, Asker!vars,
     Asker!clientVars, Asker!serverVars
<1> QED BY <1>1, <1>2, <1>3, <1>4, PTL DEF AssuanSpec, Spec, Codec!Spec, Asker!Spec
=============================================================================
