------------------------------ MODULE Pinentry ------------------------------
(***************************************************************************)
(* pinentry.exe: the handlers of src/pinentry/server.go, the callbacks of  *)
(* src/cmd/pinentry/main.go and what they use of the Windows credential    *)
(* manager and of the dialog (src/util/credui.go, src/util/persist.go).    *)
(* gpg-agent sends one command at a time and waits for its answer; several *)
(* pinentry processes may run, with one vault and one "Remember me" flag   *)
(* between them.  A command that fails to write its answer is End.          *)
(*                                                                         *)
(* Texts other than the error and the prompt to repeat are left out, and   *)
(* so are the commands that only set one or report something.  Other       *)
(* programs may delete from the vault but do not write to it, and the two  *)
(* registry calls of the flag succeed.                                     *)
(***************************************************************************)

CONSTANTS Procs,  \* the pinentry processes
          Keys,   \* the keys gpg-agent names with SETKEYINFO
          Pins,   \* what a user may type, apart from nothing
          Empty,  \* the empty PIN
          None    \* no key, no PIN, no credential

ASSUME ValuesAssumption ==
    /\ None \notin Keys \cup Pins \cup {Empty}
    /\ Empty \notin Pins

VARIABLES
    pc,        \* where the process stands
    settings,  \* settings[p]: its Settings
    passwd1,   \* passwd1[p]: the PIN of its first dialog
    cached,    \* cached[p]: cachePasswd
    saveFlag,  \* saveFlag[p]: the flag the dialog was opened with
    vault,     \* vault[k]: the credential of key k
    remember   \* RememberCredential in the registry

\* What the properties observe.
VARIABLES
    status,    \* status[p]: the status lines of the GETPIN in progress or last done
    answer,    \* answer[p]: where the PIN it was answered came from
    agreed,    \* the keys and PINs the user has confirmed and asked to keep
    box,       \* the box as the user left it last
    overlap    \* two dialogs have been open at once

procVars == <<pc, settings, passwd1, cached, saveFlag>>
ghostVars == <<status, answer, agreed, box, overlap>>
vars == <<procVars, vault, remember, ghostVars>>

Settings == [err : BOOLEAN, repeat : BOOLEAN, key : Keys \cup {None}, cache : BOOLEAN]
DefaultSettings == [err |-> FALSE, repeat |-> FALSE, key |-> None, cache |-> FALSE]
Typed == Pins \cup {Empty}
InDialog == {"dialog", "again"}

\* The values each part of the state ranges over.
TypeOK ==
    /\ pc \in [Procs -> InDialog \cup {"idle", "vault", "reopen", "retry", "store",
                                  "confirm", "message", "panic", "end"}]
    /\ settings \in [Procs -> Settings]
    /\ passwd1 \in [Procs -> Typed \cup {None}]
    /\ cached \in [Procs -> BOOLEAN] /\ saveFlag \in [Procs -> BOOLEAN]
    /\ vault \in [Keys -> Typed \cup {None}]
    /\ remember \in BOOLEAN /\ box \in BOOLEAN /\ overlap \in BOOLEAN
    /\ status \in [Procs -> SUBSET {"PASSWORD_FROM_CACHE", "PIN_REPEATED"}]
    /\ answer \in [Procs -> {"none", "vault", "dialog", "error"}]
    /\ agreed \in SUBSET (Keys \X Typed)

Init ==
    /\ pc = [p \in Procs |-> "idle"]
    /\ settings = [p \in Procs |-> DefaultSettings]
    /\ passwd1 = [p \in Procs |-> None]
    /\ cached = [p \in Procs |-> FALSE] /\ saveFlag = [p \in Procs |-> FALSE]
    /\ vault = [k \in Keys |-> None]
    /\ remember = FALSE /\ box = FALSE /\ overlap = FALSE
    /\ status = [p \in Procs |-> {}]
    /\ answer = [p \in Procs |-> "none"]
    /\ agreed = {}

Put(f, p, v) == [f EXCEPT ![p] = v]
Goto(p, to) == pc' = Put(pc, p, to)
Set(p, s) == settings' = Put(settings, p, s)

-----------------------------------------------------------------------------
(* Commands that keep something.                                           *)

Keeps == UNCHANGED <<pc, passwd1, cached, saveFlag, vault, remember, ghostVars>>

SetError(p, on) == pc[p] = "idle" /\ Set(p, [settings[p] EXCEPT !.err = on]) /\ Keeps
SetRepeat(p, on) == pc[p] = "idle" /\ Set(p, [settings[p] EXCEPT !.repeat = on]) /\ Keeps

SetKeyInfo_NoClear(p, k) ==
    /\ pc[p] = "idle"
    /\ Set(p, [settings[p] EXCEPT !.key = IF k = None THEN "--clear" ELSE k])
    /\ Keeps

\* None stands for an empty parameter and for --clear.
SetKeyInfo(p, k) == pc[p] = "idle" /\ Set(p, [settings[p] EXCEPT !.key = k]) /\ Keeps

\* OPTION allow-external-password-cache; the others change nothing kept here.
SetOpt(p) == pc[p] = "idle" /\ Set(p, [settings[p] EXCEPT !.cache = TRUE]) /\ Keeps

Reset(p) == pc[p] = "idle" /\ Set(p, DefaultSettings) /\ Keeps

\* A vault that cannot be read, or a delete that fails, is an error and changes
\* nothing.
ClearPassphrase(p, k) ==
    /\ pc[p] = "idle"
    /\ vault' = Put(vault, k, None)
    /\ UNCHANGED <<procVars, remember, ghostVars>>

-----------------------------------------------------------------------------
(* GETPIN.                                                                 *)

SaveOffered(p) == settings[p].cache /\ settings[p].key # None

\* PromptForWindowsCredentials reads the flag and opens the dialog.
OpenDialog(p, which) ==
    /\ Goto(p, which)
    /\ saveFlag' = Put(saveFlag, p, remember)
    /\ overlap' = (overlap \/ \E q \in Procs \ {p} : pc[q] \in InDialog)

\* The variables of a call end with it.
Forget(p) ==
    /\ passwd1' = Put(passwd1, p, None)
    /\ cached' = Put(cached, p, FALSE) /\ saveFlag' = Put(saveFlag, p, FALSE)

\* The command is answered.
Answers(p, from) == Goto(p, "idle") /\ answer' = Put(answer, p, from) /\ Forget(p)

GetPIN(p) ==
    /\ pc[p] = "idle"
    /\ IF ~settings[p].err /\ ~settings[p].repeat /\ SaveOffered(p)
       THEN Goto(p, "vault") /\ UNCHANGED <<saveFlag, overlap>>
       ELSE OpenDialog(p, "dialog")
    /\ status' = Put(status, p, {}) /\ answer' = Put(answer, p, "none")
    /\ UNCHANGED <<settings, passwd1, cached, vault, remember, agreed, box>>

\* getCachedCredential.  A vault that fails is not asked again.
ReadVault(p) ==
    /\ pc[p] = "vault"
    /\ LET pin == vault[settings[p].key] IN
       \/ /\ pin \notin {None, Empty}
          /\ Answers(p, "vault")
          /\ status' = Put(status, p, {"PASSWORD_FROM_CACHE"})
          /\ UNCHANGED <<settings, overlap>>
       \/ /\ pin \in {None, Empty}
          /\ OpenDialog(p, "dialog")
          /\ status' = Put(status, p, IF pin = Empty THEN {"PASSWORD_FROM_CACHE"} ELSE {})
          /\ UNCHANGED <<settings, passwd1, cached, answer>>
       \/ /\ Set(p, [settings[p] EXCEPT !.cache = FALSE])
          /\ OpenDialog(p, "dialog")
          /\ UNCHANGED <<passwd1, cached, status, answer>>
    /\ UNCHANGED <<vault, remember, agreed, box>>

\* Cancel, or an error of the dialog.
CancelDialog(p) ==
    /\ pc[p] \in InDialog
    /\ Answers(p, "error")
    /\ UNCHANGED <<settings, vault, remember, status, agreed, box, overlap>>

Confirmed(p, pin, keep) ==
    agreed' = IF keep /\ SaveOffered(p) THEN agreed \cup {<<settings[p].key, pin>>} ELSE agreed

SetIntOption_Default(flag) == remember' = FALSE
SetIntOption(flag) == remember' = flag

\* The flag is that of the box, if it was shown, and is stored.
CloseDialog(p, pin, keep) ==
    /\ pc[p] = "dialog"
    /\ ~SaveOffered(p) => keep = saveFlag[p]
    /\ passwd1' = Put(passwd1, p, pin) /\ cached' = Put(cached, p, keep)
    /\ SetIntOption(keep)
    /\ box' = IF SaveOffered(p) THEN keep ELSE box
    /\ IF settings[p].repeat
       THEN /\ Goto(p, "reopen") /\ UNCHANGED agreed
       ELSE /\ Goto(p, "store") /\ Confirmed(p, pin, keep)
    /\ UNCHANGED <<settings, saveFlag, vault, status, answer, overlap>>

\* The second dialog has no box and stores the flag it was opened with.
\* Another PIN than the first begins all over.
CloseAgain(p, pin) ==
    /\ pc[p] = "again"
    /\ SetIntOption(saveFlag[p])
    /\ \/ /\ pin = passwd1[p]
          /\ Goto(p, "store")
          /\ status' = Put(status, p, status[p] \cup {"PIN_REPEATED"})
          /\ Confirmed(p, pin, cached[p])
       \/ /\ pin # passwd1[p]
          /\ Goto(p, "retry") /\ UNCHANGED <<status, agreed>>
    /\ UNCHANGED <<settings, passwd1, cached, saveFlag, vault, answer, box, overlap>>

NextDialog(p) ==
    /\ \/ pc[p] = "reopen" /\ OpenDialog(p, "again")
       \/ pc[p] = "retry" /\ OpenDialog(p, "dialog")
    /\ UNCHANGED <<settings, passwd1, cached, vault, remember, status, answer, agreed, box>>

Worth_Empty(p) == SaveOffered(p) /\ cached[p]
Worth_Unasked(p) == SaveOffered(p) /\ passwd1[p] # Empty
Worth(p) == SaveOffered(p) /\ cached[p] /\ passwd1[p] # Empty

\* addCachedCredential, whose failure is only logged, and the answer.
Store(p) ==
    /\ pc[p] = "store"
    /\ \/ Worth(p) /\ vault' = Put(vault, settings[p].key, passwd1[p])
       \/ UNCHANGED vault
    /\ Answers(p, "dialog")
    /\ UNCHANGED <<settings, remember, status, agreed, box, overlap>>

-----------------------------------------------------------------------------
(* CONFIRM and MESSAGE: a message box.                                     *)

Show(p, what) ==
    /\ pc[p] = "idle"
    /\ Goto(p, what)
    /\ UNCHANGED <<settings, passwd1, cached, saveFlag, vault, remember, ghostVars>>

\* Whether the user agreed is the answer, and nothing else depends on it.
CloseConfirm(p) ==
    /\ pc[p] = "confirm"
    /\ Goto(p, "idle")
    /\ UNCHANGED <<settings, passwd1, cached, saveFlag, vault, remember, ghostVars>>

\* Msg returns a nil *common.Error, which the handler returns as an error:
\* handleCmd takes it for one and dereferences it.
CloseMessage(p) ==
    /\ pc[p] = "message"
    /\ Goto(p, "panic")
    /\ UNCHANGED <<settings, passwd1, cached, saveFlag, vault, remember, ghostVars>>

\* gpg-agent closes the pipe, or kills the process.
End(p) ==
    /\ pc[p] \notin {"panic", "end"}
    /\ Goto(p, "end")
    /\ Set(p, DefaultSettings) /\ Forget(p)
    /\ status' = Put(status, p, {}) /\ answer' = Put(answer, p, "none")
    /\ UNCHANGED <<vault, remember, agreed, box, overlap>>

OthersDelete(k) ==
    /\ vault[k] # None
    /\ vault' = Put(vault, k, None)
    /\ UNCHANGED <<procVars, remember, ghostVars>>

-----------------------------------------------------------------------------
Command(p) ==
    \/ \E on \in BOOLEAN : SetError(p, on) \/ SetRepeat(p, on)
    \/ \E k \in Keys \cup {None} : SetKeyInfo(p, k)
    \/ SetOpt(p) \/ Reset(p)
    \/ \E k \in Keys : ClearPassphrase(p, k)
    \/ GetPIN(p)
    \/ Show(p, "confirm") \/ Show(p, "message")

Handler(p) ==
    \/ ReadVault(p) \/ NextDialog(p) \/ Store(p)
    \/ CloseConfirm(p) \/ CloseMessage(p)

Person(p) ==
    \/ CancelDialog(p)
    \/ \E pin \in Typed, keep \in BOOLEAN : CloseDialog(p, pin, keep)
    \/ \E pin \in Typed : CloseAgain(p, pin)

Next == \/ \E p \in Procs : Command(p) \/ Handler(p) \/ Person(p) \/ End(p)
        \/ \E k \in Keys : OthersDelete(k)

Spec == Init /\ [][Next]_vars

-----------------------------------------------------------------------------
(* Properties.                                                             *)

\* A PIN is announced as coming from the cache if and only if it does: the
\* status is sent before the credential is known to be of use, and it is the
\* guard of another step, often of another process, that keeps empty ones out
\* of the vault (main.go:63-66, 97-104, 135).
FromCacheHonest ==
    \A p \in Procs : answer[p] \in {"vault", "dialog"} /\ pc[p] = "idle" =>
        ("PASSWORD_FROM_CACHE" \in status[p] <=> answer[p] = "vault")

\* The vault holds for a key only what a user has typed for that very key, twice
\* where it had to be, and asked to keep; whatever is cancelled, interleaved or
\* killed half way stores nothing else (main.go:111-138).
VaultAgreed == \A k \in Keys : vault[k] # None => <<k, vault[k]>> \in agreed

\* The flag in the registry is the box as the user left it last, though every
\* dialog writes the flag, those that show no box too, unless two dialogs were
\* open at once (credui.go:147, 205).
BoxKept == overlap \/ remember = box

\* Every command is answered, MESSAGE too (assuan/README.md:30).
EveryCommandAnswered == \A p \in Procs : pc[p] # "panic"
=============================================================================
