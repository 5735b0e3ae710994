------------------------------ MODULE MCAssuan ------------------------------
(***************************************************************************)
(* The Assuan library from three sides: AssuanSession, for the order of    *)
(* what a session says, AssuanCodec, for its contents, and PinentryClient, *)
(* for a client built on it.  They share no variable, so in a behaviour    *)
(* only one of them leaves its initial state: their states add up and do   *)
(* not multiply.                                                           *)
(***************************************************************************)
EXTENDS AssuanSession

CONSTANTS Alphabet, MaxText, MaxLineLen, Ways, MaxTexts    \* of AssuanCodec
CONSTANTS Order, Values, Default, PinLines, MaxCommands, MaxAsked    \* of PinentryClient

Two == <<"desc", "bar">>

VARIABLES way, text, rest, sender, wire, received, state, sentTexts, lapsed, cutOff

VARIABLES dialog, job, todo, current, qualityBar, pin, sent, pinentry, settings, bar,
          asked, toPinentry, fromPinentry, pinOf, unset, shifted

Codec == INSTANCE AssuanCodec WITH
            MaxCalls <- MaxTexts, got <- received, calls <- sentTexts
Asker == INSTANCE PinentryClient WITH
            MaxInquire <- MaxAsked, cpc <- dialog, spc <- pinentry,
            toServer <- toPinentry, toClient <- fromPinentry

ASSUME CodecConstants == Codec!CodecAssumption
ASSUME AskerConstants == Asker!ClientAssumption

codecVars == <<way, text, rest, sender, wire, received, state, sentTexts, lapsed, cutOff>>
askerVars == <<dialog, job, todo, current, qualityBar, pin, sent, pinentry, settings, bar,
               asked, toPinentry, fromPinentry, pinOf, unset, shifted>>
allVars == <<vars, codecVars, askerVars>>

InSession(A) == Codec!Init /\ Asker!Init /\ A /\ UNCHANGED <<codecVars, askerVars>>
InCodec(A) == Init /\ Asker!Init /\ A /\ UNCHANGED <<vars, askerVars>>
InAsker(A) == Init /\ Codec!Init /\ A /\ UNCHANGED <<vars, codecVars>>

AssuanInit == Init /\ Codec!Init /\ Asker!Init
AssuanNext == InSession(Next) \/ InCodec(Codec!Next) \/ InAsker(Asker!Next)

\* The fairness is that of AssuanSession and PinentryClient.
AssuanSpec ==
    /\ AssuanInit /\ [][AssuanNext]_allVars
    /\ WF_allVars(InSession(Client)) /\ WF_allVars(InSession(Server))
    /\ WF_allVars(InAsker(Asker!Client)) /\ WF_allVars(InAsker(Asker!Server))

\* The properties of AssuanCodec and of PinentryClient.
TextRight == Codec!TextRight
ClientRight == Asker!ClientRight
AskerReturns == Asker!CallsReturn /\ Asker!QualityTold
=============================================================================
