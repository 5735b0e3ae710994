-------------------------- MODULE Pinentry_proofs --------------------------
(* Proofs about Pinentry: types, what the vault may hold, the status that  *)
(* names the source of a PIN, and the Remember-me flag.                    *)
EXTENDS Pinentry, TLAPS

-----------------------------------------------------------------------------
(* Types.                                                                  *)

LEMMA SettingsKept ==
  /\ DefaultSettings \in Settings
  /\ \A s \in Settings, on \in BOOLEAN : [s EXCEPT !.cache = on] \in Settings
  BY DEF Settings, DefaultSettings

LEMMA TypeInit == Init => TypeOK
  BY SettingsKept DEF Init, TypeOK, Typed, InDialog

LEMMA TypeStep == ASSUME TypeOK, [Next]_vars PROVE TypeOK'
<1> USE DEF TypeOK, Put
<1>1. ASSUME NEW p \in Procs, NEW on \in BOOLEAN, SetError(p, on)
      PROVE TypeOK'
  BY <1>1 DEF SetError, Keeps, Set, Settings, ghostVars, InDialog, Typed
<1>2. ASSUME NEW p \in Procs, NEW on \in BOOLEAN, SetRepeat(p, on)
      PROVE TypeOK'
  BY <1>2 DEF SetRepeat, Keeps, Set, Settings, ghostVars, InDialog, Typed
<1>3. ASSUME NEW p \in Procs, NEW k \in Keys \cup {None}, SetKeyInfo(p, k)
      PROVE TypeOK'
  BY <1>3 DEF SetKeyInfo, Keeps, Set, Settings, ghostVars, InDialog, Typed
<1>4. ASSUME NEW p \in Procs, SetOpt(p)
      PROVE TypeOK'
  BY <1>4, SettingsKept DEF SetOpt, Keeps, Set, ghostVars, InDialog, Typed
<1>5. ASSUME NEW p \in Procs, Reset(p)
      PROVE TypeOK'
  BY <1>5 DEF Reset, Keeps, Set, Settings, DefaultSettings, ghostVars, InDialog, Typed
<1>6. ASSUME NEW p \in Procs, NEW k \in Keys, ClearPassphrase(p, k)
      PROVE TypeOK'
  BY <1>6 DEF ClearPassphrase, procVars, ghostVars, InDialog, Typed
<1>7. ASSUME NEW p \in Procs, GetPIN(p)
      PROVE TypeOK'
  BY <1>7 DEF GetPIN, OpenDialog, Goto, InDialog, Typed
<1>8. ASSUME NEW p \in Procs, ReadVault(p)
      PROVE TypeOK'
  <2>1. settings' \in [Procs -> Settings]
    <3>1. settings' = settings \/ Set(p, [settings[p] EXCEPT !.cache = FALSE])
      BY <1>8 DEF ReadVault
    <3>2. [settings[p] EXCEPT !.cache = FALSE] \in Settings
      BY SettingsKept
    <3> QED BY <3>1, <3>2 DEF Set
  <2>2. pc' \in [Procs -> {"idle", "dialog"} \cup {pc[q] : q \in Procs}]
    BY <1>8 DEF ReadVault, Answers, OpenDialog, Goto
  <2>3. /\ passwd1' \in [Procs -> Typed \cup {None}]
        /\ cached' \in [Procs -> BOOLEAN] /\ saveFlag' \in [Procs -> BOOLEAN]
    BY <1>8 DEF ReadVault, Answers, OpenDialog, Forget
  <2>4. /\ status' \in [Procs -> SUBSET {"PASSWORD_FROM_CACHE", "PIN_REPEATED"}]
        /\ answer' \in [Procs -> {"none", "vault", "dialog", "error"}]
    BY <1>8 DEF ReadVault, Answers, OpenDialog
  <2>5. overlap' \in BOOLEAN
    BY <1>8 DEF ReadVault, Answers, OpenDialog
  <2>6. vault' = vault /\ remember' = remember /\ agreed' = agreed /\ box' = box
    BY <1>8 DEF ReadVault
  <2> QED BY <2>1, <2>2, <2>3, <2>4, <2>5, <2>6 DEF InDialog
<1>9. ASSUME NEW p \in Procs, NextDialog(p)
      PROVE TypeOK'
  BY <1>9 DEF NextDialog, OpenDialog, Goto, InDialog, Typed
<1>10. ASSUME NEW p \in Procs, Store(p)
      PROVE TypeOK'
  BY <1>10 DEF Store, Worth, SaveOffered, Answers, Forget, Goto, Typed, Settings, InDialog
<1>11. ASSUME NEW p \in Procs, CloseConfirm(p)
      PROVE TypeOK'
  BY <1>11 DEF CloseConfirm, Goto, ghostVars, InDialog, Typed
<1>12. ASSUME NEW p \in Procs, CloseMessage(p)
      PROVE TypeOK'
  BY <1>12 DEF CloseMessage, Goto, ghostVars, InDialog, Typed
<1>13. ASSUME NEW p \in Procs, NEW what \in {"confirm", "message"}, Show(p, what)
      PROVE TypeOK'
  BY <1>13 DEF Show, Goto, ghostVars, InDialog, Typed
<1>14. ASSUME NEW p \in Procs, CancelDialog(p)
      PROVE TypeOK'
  BY <1>14 DEF CancelDialog, Answers, Forget, Goto, InDialog, Typed
<1>15. ASSUME NEW p \in Procs, NEW pin \in Typed, NEW keep \in BOOLEAN, CloseDialog(p, pin, keep)
      PROVE TypeOK'
  BY <1>15 DEF CloseDialog, Confirmed, SaveOffered, SetIntOption, Goto, Settings, InDialog, Typed
<1>16. ASSUME NEW p \in Procs, NEW pin \in Typed, CloseAgain(p, pin)
      PROVE TypeOK'
  <2>1. agreed' \in SUBSET (Keys \X Typed)
    <3>1. SaveOffered(p) => settings[p].key \in Keys
      BY DEF SaveOffered, Settings
    <3> QED BY <1>16, <3>1 DEF CloseAgain, Confirmed
  <2>2. pc' \in [Procs -> {"store", "retry"} \cup {pc[q] : q \in Procs}]
    BY <1>16 DEF CloseAgain, Goto
  <2>3. status' \in [Procs -> SUBSET {"PASSWORD_FROM_CACHE", "PIN_REPEATED"}]
    BY <1>16 DEF CloseAgain
  <2>4. remember' \in BOOLEAN
    BY <1>16 DEF CloseAgain, SetIntOption
  <2>5. UNCHANGED <<settings, passwd1, cached, saveFlag, vault, answer, box, overlap>>
    BY <1>16 DEF CloseAgain
  <2> QED BY <2>1, <2>2, <2>3, <2>4, <2>5 DEF InDialog
<1>17. ASSUME NEW p \in Procs, End(p)
      PROVE TypeOK'
  BY <1>17 DEF End, Set, Forget, Goto, DefaultSettings, Settings, InDialog, Typed
<1>18. ASSUME NEW k \in Keys, OthersDelete(k)
      PROVE TypeOK'
  BY <1>18 DEF OthersDelete, procVars, ghostVars, InDialog, Typed
<1>19. ASSUME UNCHANGED vars PROVE TypeOK'
  BY <1>19 DEF vars, procVars, ghostVars
<1> QED
  BY <1>1, <1>2, <1>3, <1>4, <1>5, <1>6, <1>7, <1>8, <1>9, <1>10, <1>11, <1>12, <1>13, <1>14, <1>15, <1>16, <1>17, <1>18, <1>19 DEF Next, Command, Handler, Person

\* Every part of the state keeps to its values, for any processes, keys and PINs.
THEOREM PinentryTypeCorrect == Spec => []TypeOK
  BY TypeInit, TypeStep, PTL DEF Spec

-----------------------------------------------------------------------------
(* The vault, the status and the box.                                      *)

\* What a process is about to store, the user has agreed to.
Due ==
    \A p \in Procs : pc[p] = "store" /\ Worth(p) =>
        <<settings[p].key, passwd1[p]>> \in agreed

NoEmpty == \A k \in Keys : vault[k] # Empty

\* A GETPIN on its way to a dialog or behind it has not announced the cache.
Silent ==
    \A p \in Procs : pc[p] \notin {"idle", "confirm", "message", "panic", "end"} =>
        "PASSWORD_FROM_CACHE" \notin status[p]

\* Only a key that was named is looked for.
Named == \A p \in Procs : pc[p] = "vault" => settings[p].key \in Keys

Told ==
    \A p \in Procs :
        /\ pc[p] \in {"idle", "confirm", "message"}
        /\ answer[p] \in {"vault", "dialog"}
        => ("PASSWORD_FROM_CACHE" \in status[p] <=> answer[p] = "vault")

StoreInv == VaultAgreed /\ Due
SourceInv == NoEmpty /\ Silent /\ Named /\ Told

\* While no two dialogs have been open at once, the one that is open was opened
\* with the flag as it still is.
BoxInv ==
    \/ overlap
    \/ /\ remember = box
       /\ \A p \in Procs : pc[p] \in InDialog =>
             /\ saveFlag[p] = remember
             /\ \A q \in Procs \ {p} : pc[q] \notin InDialog

\* Nothing but Store puts a credential there, and consent is never taken back.
LEMMA StoreStep == ASSUME TypeOK, StoreInv, [Next]_vars PROVE StoreInv'
<1> USE DEF StoreInv, VaultAgreed, Due, Worth, SaveOffered, Put, TypeOK
<1>1. ASSUME NEW p \in Procs, NEW on \in BOOLEAN, SetError(p, on)
      PROVE StoreInv'
  BY <1>1 DEF SetError, Keeps, Set, ghostVars
<1>2. ASSUME NEW p \in Procs, NEW on \in BOOLEAN, SetRepeat(p, on)
      PROVE StoreInv'
  BY <1>2 DEF SetRepeat, Keeps, Set, ghostVars
<1>3. ASSUME NEW p \in Procs, NEW k \in Keys \cup {None}, SetKeyInfo(p, k)
      PROVE StoreInv'
  BY <1>3 DEF SetKeyInfo, Keeps, Set, ghostVars
<1>4. ASSUME NEW p \in Procs, SetOpt(p)
      PROVE StoreInv'
  BY <1>4 DEF SetOpt, Keeps, Set, ghostVars
<1>5. ASSUME NEW p \in Procs, Reset(p)
      PROVE StoreInv'
  BY <1>5 DEF Reset, Keeps, Set, ghostVars
<1>6. ASSUME NEW p \in Procs, NEW k \in Keys, ClearPassphrase(p, k)
      PROVE StoreInv'
  BY <1>6 DEF ClearPassphrase, procVars, ghostVars
<1>7. ASSUME NEW p \in Procs, GetPIN(p)
      PROVE StoreInv'
  BY <1>7 DEF GetPIN, OpenDialog, SaveOffered, Settings, Goto
<1>8. ASSUME NEW p \in Procs, ReadVault(p)
      PROVE StoreInv'
  BY <1>8 DEF ReadVault, Answers, OpenDialog, Forget, Goto, Set
<1>9. ASSUME NEW p \in Procs, NextDialog(p)
      PROVE StoreInv'
  BY <1>9 DEF NextDialog, OpenDialog, Goto
<1>10. ASSUME NEW p \in Procs, Store(p)
      PROVE StoreInv'
  BY <1>10 DEF Store, Answers, Forget, Goto
<1>11. ASSUME NEW p \in Procs, CloseConfirm(p)
      PROVE StoreInv'
  BY <1>11 DEF CloseConfirm, Goto, ghostVars
<1>12. ASSUME NEW p \in Procs, CloseMessage(p)
      PROVE StoreInv'
  BY <1>12 DEF CloseMessage, Goto, ghostVars
<1>13. ASSUME NEW p \in Procs, NEW what \in {"confirm", "message"}, Show(p, what)
      PROVE StoreInv'
  BY <1>13 DEF Show, Goto, ghostVars
<1>14. ASSUME NEW p \in Procs, CancelDialog(p)
      PROVE StoreInv'
  BY <1>14 DEF CancelDialog, Answers, Forget, Goto, InDialog
<1>15. ASSUME NEW p \in Procs, NEW pin \in Typed, NEW keep \in BOOLEAN, CloseDialog(p, pin, keep)
      PROVE StoreInv'
  BY <1>15 DEF CloseDialog, Confirmed, Goto
<1>16. ASSUME NEW p \in Procs, NEW pin \in Typed, CloseAgain(p, pin)
      PROVE StoreInv'
  BY <1>16 DEF CloseAgain, Confirmed, Goto
<1>17. ASSUME NEW p \in Procs, End(p)
      PROVE StoreInv'
  BY <1>17 DEF End, Set, Forget, Goto
<1>18. ASSUME NEW k \in Keys, OthersDelete(k)
      PROVE StoreInv'
  BY <1>18 DEF OthersDelete, procVars, ghostVars
<1>19. ASSUME UNCHANGED vars PROVE StoreInv'
  BY <1>19 DEF vars, procVars, ghostVars
<1> HIDE DEF StoreInv, TypeOK
<1> QED
  BY <1>1, <1>2, <1>3, <1>4, <1>5, <1>6, <1>7, <1>8, <1>9, <1>10, <1>11, <1>12, <1>13, <1>14, <1>15, <1>16, <1>17, <1>18, <1>19 DEF Next, Command, Handler, Person

\* Only ReadVault announces the cache, and it then answers with it: no credential
\* is empty.
LEMMA SourceStep == ASSUME TypeOK, SourceInv, [Next]_vars PROVE SourceInv'
<1> USE DEF SourceInv, NoEmpty, Silent, Named, Told, Worth, Put, TypeOK
<1>1. ASSUME NEW p \in Procs, NEW on \in BOOLEAN, SetError(p, on)
      PROVE SourceInv'
  BY <1>1 DEF SetError, Keeps, Set, ghostVars
<1>2. ASSUME NEW p \in Procs, NEW on \in BOOLEAN, SetRepeat(p, on)
      PROVE SourceInv'
  BY <1>2 DEF SetRepeat, Keeps, Set, ghostVars
<1>3. ASSUME NEW p \in Procs, NEW k \in Keys \cup {None}, SetKeyInfo(p, k)
      PROVE SourceInv'
  BY <1>3 DEF SetKeyInfo, Keeps, Set, ghostVars
<1>4. ASSUME NEW p \in Procs, SetOpt(p)
      PROVE SourceInv'
  BY <1>4 DEF SetOpt, Keeps, Set, ghostVars
<1>5. ASSUME NEW p \in Procs, Reset(p)
      PROVE SourceInv'
  BY <1>5 DEF Reset, Keeps, Set, ghostVars
<1>6. ASSUME NEW p \in Procs, NEW k \in Keys, ClearPassphrase(p, k)
      PROVE SourceInv'
  BY <1>6, ValuesAssumption DEF ClearPassphrase, procVars, ghostVars
<1>7. ASSUME NEW p \in Procs, GetPIN(p)
      PROVE SourceInv'
  BY <1>7 DEF GetPIN, OpenDialog, SaveOffered, Settings, Goto
<1>8. ASSUME NEW p \in Procs, ReadVault(p)
      PROVE SourceInv'
  <2>1. NoEmpty' /\ pc[p] = "vault" /\ "PASSWORD_FROM_CACHE" \notin status[p]
    BY <1>8 DEF ReadVault
  <2>2. \A q \in Procs \ {p} : /\ pc'[q] = pc[q] /\ status'[q] = status[q]
                               /\ answer'[q] = answer[q] /\ settings'[q] = settings[q]
    BY <1>8 DEF ReadVault, Answers, OpenDialog, Goto, Set
  <2>3. vault[settings[p].key] # Empty
    BY <1>8 DEF ReadVault
  <2>4. \/ /\ pc'[p] = "idle" /\ answer'[p] = "vault"
           /\ status'[p] = {"PASSWORD_FROM_CACHE"}
        \/ pc'[p] = "dialog" /\ status'[p] \in {{}, status[p]}
    BY <1>8, <2>3 DEF ReadVault, Answers, OpenDialog, Goto
  <2> QED BY <2>1, <2>2, <2>4
<1>9. ASSUME NEW p \in Procs, NextDialog(p)
      PROVE SourceInv'
  BY <1>9 DEF NextDialog, OpenDialog, Goto
<1>10. ASSUME NEW p \in Procs, Store(p)
      PROVE SourceInv'
  BY <1>10 DEF Store, Answers, Forget, Goto
<1>11. ASSUME NEW p \in Procs, CloseConfirm(p)
      PROVE SourceInv'
  BY <1>11 DEF CloseConfirm, Goto, ghostVars
<1>12. ASSUME NEW p \in Procs, CloseMessage(p)
      PROVE SourceInv'
  BY <1>12 DEF CloseMessage, Goto, ghostVars
<1>13. ASSUME NEW p \in Procs, NEW what \in {"confirm", "message"}, Show(p, what)
      PROVE SourceInv'
  BY <1>13 DEF Show, Goto, ghostVars
<1>14. ASSUME NEW p \in Procs, CancelDialog(p)
      PROVE SourceInv'
  BY <1>14 DEF CancelDialog, Answers, Forget, Goto, InDialog
<1>15. ASSUME NEW p \in Procs, NEW pin \in Typed, NEW keep \in BOOLEAN, CloseDialog(p, pin, keep)
      PROVE SourceInv'
  BY <1>15 DEF CloseDialog, Confirmed, Goto
<1>16. ASSUME NEW p \in Procs, NEW pin \in Typed, CloseAgain(p, pin)
      PROVE SourceInv'
  BY <1>16 DEF CloseAgain, Confirmed, Goto
<1>17. ASSUME NEW p \in Procs, End(p)
      PROVE SourceInv'
  BY <1>17 DEF End, Set, Forget, Goto
<1>18. ASSUME NEW k \in Keys, OthersDelete(k)
      PROVE SourceInv'
  BY <1>18, ValuesAssumption DEF OthersDelete, procVars, ghostVars
<1>19. ASSUME UNCHANGED vars PROVE SourceInv'
  BY <1>19 DEF vars, procVars, ghostVars
<1> HIDE DEF SourceInv, TypeOK
<1> QED
  BY <1>1, <1>2, <1>3, <1>4, <1>5, <1>6, <1>7, <1>8, <1>9, <1>10, <1>11, <1>12, <1>13, <1>14, <1>15, <1>16, <1>17, <1>18, <1>19 DEF Next, Command, Handler, Person

\* A dialog that opens reads the flag as it is, or overlaps another.
LEMMA BoxOpens ==
  ASSUME TypeOK, BoxInv, NEW p \in Procs, NEW which \in InDialog, pc[p] \notin InDialog,
         OpenDialog(p, which), remember' = remember, box' = box
  PROVE  BoxInv'
<1> USE DEF BoxInv, TypeOK, Put
<1>1. CASE \E q \in Procs \ {p} : pc[q] \in InDialog
  BY <1>1 DEF OpenDialog
<1>2. CASE ~overlap /\ \A q \in Procs \ {p} : pc[q] \notin InDialog
  <2>1. pc'[p] = which /\ saveFlag'[p] = remember
    BY DEF OpenDialog, Goto
  <2>2. \A q \in Procs \ {p} : pc'[q] = pc[q]
    BY DEF OpenDialog, Goto
  <2> QED BY <1>2, <2>1, <2>2
<1>3. CASE overlap
  BY <1>3 DEF OpenDialog
<1> QED BY <1>1, <1>2, <1>3

LEMMA BoxStep == ASSUME TypeOK, BoxInv, [Next]_vars PROVE BoxInv'
<1> USE DEF BoxInv, InDialog, SaveOffered, SetIntOption, Put, TypeOK
<1>1. ASSUME NEW p \in Procs, NEW on \in BOOLEAN, SetError(p, on)
      PROVE BoxInv'
  BY <1>1 DEF SetError, Keeps, Set, ghostVars
<1>2. ASSUME NEW p \in Procs, NEW on \in BOOLEAN, SetRepeat(p, on)
      PROVE BoxInv'
  BY <1>2 DEF SetRepeat, Keeps, Set, ghostVars
<1>3. ASSUME NEW p \in Procs, NEW k \in Keys \cup {None}, SetKeyInfo(p, k)
      PROVE BoxInv'
  BY <1>3 DEF SetKeyInfo, Keeps, Set, ghostVars
<1>4. ASSUME NEW p \in Procs, SetOpt(p)
      PROVE BoxInv'
  BY <1>4 DEF SetOpt, Keeps, Set, ghostVars
<1>5. ASSUME NEW p \in Procs, Reset(p)
      PROVE BoxInv'
  BY <1>5 DEF Reset, Keeps, Set, ghostVars
<1>6. ASSUME NEW p \in Procs, NEW k \in Keys, ClearPassphrase(p, k)
      PROVE BoxInv'
  BY <1>6 DEF ClearPassphrase, procVars, ghostVars
<1>7. ASSUME NEW p \in Procs, GetPIN(p)
      PROVE BoxInv'
  <2>1. CASE OpenDialog(p, "dialog")
    BY <1>7, <2>1, BoxOpens DEF GetPIN
  <2>2. CASE Goto(p, "vault") /\ UNCHANGED <<saveFlag, overlap>>
    BY <1>7, <2>2 DEF GetPIN, Goto
  <2> QED BY <1>7, <2>1, <2>2 DEF GetPIN
<1>8. ASSUME NEW p \in Procs, ReadVault(p)
      PROVE BoxInv'
  <2>1. CASE OpenDialog(p, "dialog")
    BY <1>8, <2>1, BoxOpens DEF ReadVault
  <2>2. CASE Answers(p, "vault") /\ UNCHANGED overlap
    BY <1>8, <2>2 DEF ReadVault, Answers, Forget, Goto
  <2> QED BY <1>8, <2>1, <2>2 DEF ReadVault
<1>9. ASSUME NEW p \in Procs, NextDialog(p)
      PROVE BoxInv'
  BY <1>9, BoxOpens DEF NextDialog
<1>10. ASSUME NEW p \in Procs, Store(p)
      PROVE BoxInv'
  BY <1>10 DEF Store, Answers, Forget, Goto
<1>11. ASSUME NEW p \in Procs, CloseConfirm(p)
      PROVE BoxInv'
  BY <1>11 DEF CloseConfirm, Goto, ghostVars
<1>12. ASSUME NEW p \in Procs, CloseMessage(p)
      PROVE BoxInv'
  BY <1>12 DEF CloseMessage, Goto, ghostVars
<1>13. ASSUME NEW p \in Procs, NEW what \in {"confirm", "message"}, Show(p, what)
      PROVE BoxInv'
  BY <1>13 DEF Show, Goto, ghostVars
<1>14. ASSUME NEW p \in Procs, CancelDialog(p)
      PROVE BoxInv'
  BY <1>14 DEF CancelDialog, Answers, Forget, Goto, InDialog
<1>15. ASSUME NEW p \in Procs, NEW pin \in Typed, NEW keep \in BOOLEAN, CloseDialog(p, pin, keep)
      PROVE BoxInv'
  BY <1>15 DEF CloseDialog, Confirmed, Goto
<1>16. ASSUME NEW p \in Procs, NEW pin \in Typed, CloseAgain(p, pin)
      PROVE BoxInv'
  BY <1>16 DEF CloseAgain, Confirmed, Goto
<1>17. ASSUME NEW p \in Procs, End(p)
      PROVE BoxInv'
  BY <1>17 DEF End, Set, Forget, Goto
<1>18. ASSUME NEW k \in Keys, OthersDelete(k)
      PROVE BoxInv'
  BY <1>18 DEF OthersDelete, procVars, ghostVars
<1>19. ASSUME UNCHANGED vars PROVE BoxInv'
  BY <1>19 DEF vars, procVars, ghostVars
<1> HIDE DEF BoxInv, TypeOK
<1> QED
  BY <1>1, <1>2, <1>3, <1>4, <1>5, <1>6, <1>7, <1>8, <1>9, <1>10, <1>11, <1>12, <1>13, <1>14, <1>15, <1>16, <1>17, <1>18, <1>19 DEF Next, Command, Handler, Person

LEMMA InvInit == Init => StoreInv /\ SourceInv /\ BoxInv
  BY ValuesAssumption DEF Init, BoxInv, InDialog, StoreInv, SourceInv, VaultAgreed, Due, NoEmpty, Silent, Named, Told

\* The vault holds for a key only what was typed for that key and agreed to.
THEOREM VaultAgreedCorrect == Spec => []VaultAgreed
<1>1. StoreInv => VaultAgreed  BY DEF StoreInv
<1> QED BY <1>1, InvInit, StoreStep, PinentryTypeCorrect, PTL DEF Spec

\* A PIN is announced as cached if and only if it comes from the vault.
THEOREM FromCacheCorrect == Spec => []FromCacheHonest
<1>1. SourceInv => FromCacheHonest  BY DEF SourceInv, Told, FromCacheHonest
<1> QED BY <1>1, InvInit, SourceStep, PinentryTypeCorrect, PTL DEF Spec

\* The flag is the box as the user left it last, unless two dialogs overlapped.
THEOREM BoxCorrect == Spec => []BoxKept
<1>1. BoxInv => BoxKept  BY DEF BoxInv, BoxKept
<1> QED BY <1>1, InvInit, BoxStep, PinentryTypeCorrect, PTL DEF Spec
=============================================================================
