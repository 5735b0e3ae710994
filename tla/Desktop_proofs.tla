--------------------------- MODULE Desktop_proofs ---------------------------
(***************************************************************************)
(* Theorems about MCDesktop.  Of UserEnv: types, what an orderly end       *)
(* leaves behind, the entries of the variables while agent-gui runs, and   *)
(* the entries of others.  Of SystrayMenu, for any number of goroutines    *)
(* that keep to their own items, any number of items and of menus: that    *)
(* the menu is right.                                                      *)
(***************************************************************************)
EXTENDS MCDesktop, Sequences, WellFoundedInduction, FiniteSetTheorems, TLAPS

-----------------------------------------------------------------------------
(* The user environment.                                                   *)

\* agent-gui is in setVars, or in the cleaner.
Setting == {"set", "get", "put"}
Cleaning == {"delete", "getBack", "putBack"}

\* Both loops stand at a variable, and touch WSLENV only for a registered one;
\* the cleaner only for one that is initialized.
AtInv ==
    /\ pc \in Setting \cup Cleaning => at \in Vars
    /\ pc \in {"get", "put", "getBack", "putBack"} => at \in Registered
    /\ pc \in {"getBack", "putBack"} => at \in initialized /\ env[at] # "agent"

\* What is initialized: all before at, then all, then none behind at.
InitializedInv ==
    /\ pc \in Setting => initialized = 1..at - 1
    /\ pc = "run" => initialized = Vars
    /\ pc \in Cleaning => initialized \subseteq 1..at
    /\ pc = "end" => initialized = {}

\* What was read is still so, up to what others have edited since.
ValInv ==
    pc \in {"put", "putBack"} => \A e \in Entries \ touched : e \in val <=> e \in wslenv

\* A variable of agent-gui's or an entry for it.
Left(v) == env[v] = "agent" \/ v \in wslenv

\* The cleaner will come to whatever is left, but for failures and orphans.
LeftInv ==
    pc # "dead" =>
        \A v \in Vars \ (troubled \cup orphans) :
            Left(v) => v \in initialized \/ (pc \in {"get", "put"} /\ v = at)

\* Whatever is initialized has its entry until the cleaner begins.
EntryInv == pc \in Setting \cup {"run"} => initialized \cap Registered \subseteq wslenv

EnvInv == TypeOK /\ AtInv /\ InitializedInv /\ ValInv /\ LeftInv /\ EntryInv

-----------------------------------------------------------------------------
(* WSLENV.                                                                 *)

\* The names of variables are not entries of others, so Without drops one entry
\* of ours, and of theirs those whose names begin like it.
LEMMA WithoutOne ==
  ASSUME NEW es \in SUBSET Entries, NEW v \in Vars
  PROVE  /\ Without(es, v) \in SUBSET Entries
         /\ \A w \in Vars : w \in Without(es, v) <=> w \in es /\ w # v
         /\ \A e \in Foreign : e \in Without(es, v) <=> e \in es /\ <<e, v>> \notin Extending
  BY ForeignAssumption DEF Without, Entries, Vars

LEMMA EntriesApart == Foreign \cap Vars = {} /\ Entries \cap Vars = Registered
  BY ForeignAssumption, RegisteredAssumption DEF Entries, Vars

LEMMA Places == 1 \in Vars /\ N \in Vars /\ Vars \subseteq 0..N + 1 /\ 1..1 - 1 = {}
  BY NAssumption DEF Vars

-----------------------------------------------------------------------------
(* One turn of each loop.                                                  *)

LEMMA PreparedDoes ==
  ASSUME EnvInv, pc \in Setting, Prepared
  PROVE  /\ at \in Vars /\ at' \in 0..N + 1 /\ pc' \in {"set", "run"}
         /\ initialized' = initialized \cup {at} /\ orphans' = orphans \ {at}
         /\ pc' = "set" => at' \in Vars /\ initialized' = 1..at' - 1
         /\ pc' = "run" => initialized' = Vars
<1>1. at \in Vars /\ initialized = 1..at - 1
  BY DEF EnvInv, AtInv, InitializedInv
<1> QED BY <1>1, NAssumption DEF Prepared, Vars

LEMMA PreviousDoes ==
  ASSUME EnvInv, pc \in Cleaning, Previous
  PROVE  /\ at \in Vars /\ at' \in 0..N + 1 /\ pc' \in {"delete", "end"}
         /\ initialized' = initialized \ {at}
         /\ pc' = "delete" => at' \in Vars /\ initialized' \subseteq 1..at'
         /\ pc' = "end" => initialized' = {}
<1>1. at \in Vars /\ initialized \subseteq 1..at
  BY DEF EnvInv, AtInv, InitializedInv
<1> QED BY <1>1, NAssumption DEF Previous, Vars

-----------------------------------------------------------------------------
(* The invariant.                                                          *)

LEMMA EnvInit == Init => EnvInv
<1> SUFFICES ASSUME Init PROVE EnvInv
  OBVIOUS
<1>1. TypeOK
  BY NAssumption DEF Init, TypeOK, Entries
<1>2. LeftInv
  BY EntriesApart DEF Init, LeftInv, Left
<1> QED BY <1>1, <1>2 DEF Init, EnvInv, AtInv, InitializedInv, ValInv, EntryInv, Setting,
   Cleaning

LEMMA EnvStep == EnvInv /\ [Next]_vars => EnvInv'
<1> SUFFICES ASSUME EnvInv, [Next]_vars PROVE EnvInv'
  OBVIOUS
<1>1. CASE Start
  <2>1. TypeOK'
    <3>1. starts' \in 0..MaxStarts
      <4>1. starts \in 0..MaxStarts /\ starts < MaxStarts /\ starts' = starts + 1
        BY <1>1 DEF Start, EnvInv, TypeOK
      <4> QED BY <4>1, NAssumption
    <3>2. at' \in 0..N + 1
      BY <1>1, Places DEF Start
    <3>3. orphans' \in SUBSET Vars
      BY <1>1 DEF Start
    <3> QED BY <1>1, <3>1, <3>2, <3>3 DEF EnvInv, TypeOK, Start
  <2>2. AtInv'
    BY <1>1, Places DEF AtInv, Start
  <2>3. InitializedInv'
    BY <1>1 DEF InitializedInv, Start
  <2>4. ValInv'
    BY <1>1 DEF ValInv, Start
  <2>5. LeftInv'
    BY <1>1 DEF LeftInv, Left, Start
  <2>6. EntryInv'
    BY <1>1 DEF EntryInv, Start
  <2> QED BY <2>1, <2>2, <2>3, <2>4, <2>5, <2>6 DEF EnvInv
<1>2. CASE PrepareFails
  <2>1. TypeOK'
    BY <1>2, Places DEF EnvInv, TypeOK, PrepareFails, Setting, AtInv
  <2>2. AtInv'
    BY <1>2, Places DEF AtInv, PrepareFails
  <2>3. InitializedInv'
    BY <1>2 DEF EnvInv, InitializedInv, PrepareFails, Setting, Vars, TypeOK
  <2>4. ValInv'
    BY <1>2 DEF ValInv, PrepareFails
  <2>5. LeftInv'
    BY <1>2 DEF EnvInv, LeftInv, Left, PrepareFails
  <2>6. EntryInv'
    BY <1>2 DEF EntryInv, PrepareFails, Setting
  <2> QED BY <2>1, <2>2, <2>3, <2>4, <2>5, <2>6 DEF EnvInv
<1>3. CASE SetVariable
  <2>1. TypeOK'
    BY <1>3, PreparedDoes DEF EnvInv, TypeOK, SetVariable, Stays, Setting
  <2>2. AtInv'
    BY <1>3, PreparedDoes DEF EnvInv, AtInv, SetVariable, Stays, Setting, Cleaning
  <2>3. InitializedInv'
    BY <1>3, PreparedDoes DEF EnvInv, InitializedInv, SetVariable, Stays, Setting, Cleaning
  <2>4. ValInv'
    BY <1>3, PreparedDoes DEF ValInv, SetVariable, Setting
  <2>5. LeftInv'
    BY <1>3, PreparedDoes DEF EnvInv, LeftInv, Left, SetVariable, Stays, Setting
  <2>6. EntryInv'
    BY <1>3, PreparedDoes DEF EnvInv, EntryInv, SetVariable, Stays, Setting
  <2> QED BY <2>1, <2>2, <2>3, <2>4, <2>5, <2>6 DEF EnvInv
<1>4. CASE GetWslenv
  <2>1. TypeOK'
    BY <1>4 DEF EnvInv, TypeOK, GetWslenv
  <2>2. AtInv'
    BY <1>4 DEF EnvInv, AtInv, GetWslenv, Setting, Cleaning
  <2>3. InitializedInv'
    BY <1>4 DEF EnvInv, InitializedInv, GetWslenv, Setting, Cleaning
  <2>4. ValInv'
    BY <1>4 DEF ValInv, GetWslenv
  <2>5. LeftInv'
    BY <1>4 DEF EnvInv, LeftInv, Left, GetWslenv
  <2>6. EntryInv'
    BY <1>4 DEF EnvInv, EntryInv, GetWslenv, Setting
  <2> QED BY <2>1, <2>2, <2>3, <2>4, <2>5, <2>6 DEF EnvInv
<1>5. CASE PutWslenv
  <2>1. TypeOK'
    BY <1>5, PreparedDoes, WithoutOne DEF EnvInv, TypeOK, PutWslenv, Setting, AtInv, Entries
  <2>2. AtInv'
    BY <1>5, PreparedDoes DEF AtInv, PutWslenv, Setting, Cleaning
  <2>3. InitializedInv'
    BY <1>5, PreparedDoes DEF InitializedInv, PutWslenv, Setting, Cleaning
  <2>4. ValInv'
    BY <1>5, PreparedDoes DEF ValInv, PutWslenv, Setting
  <2>5. LeftInv'
    BY <1>5, PreparedDoes, WithoutOne, EntriesApart DEF EnvInv, LeftInv, Left, PutWslenv,
       Setting, TypeOK, ValInv
  <2>6. EntryInv'
    BY <1>5, PreparedDoes, WithoutOne, EntriesApart DEF EnvInv, EntryInv, PutWslenv, Setting,
       Cleaning, TypeOK, ValInv, AtInv, Vars
  <2> QED BY <2>1, <2>2, <2>3, <2>4, <2>5, <2>6 DEF EnvInv
<1>6. CASE RunReturns
  <2>1. TypeOK'
    BY <1>6, Places DEF EnvInv, TypeOK, RunReturns, histVars
  <2>2. AtInv'
    BY <1>6, Places DEF AtInv, RunReturns
  <2>3. InitializedInv'
    BY <1>6 DEF EnvInv, InitializedInv, RunReturns, Setting, Vars
  <2>4. ValInv'
    BY <1>6 DEF ValInv, RunReturns
  <2>5. LeftInv'
    BY <1>6 DEF EnvInv, LeftInv, Left, RunReturns, histVars
  <2>6. EntryInv'
    BY <1>6 DEF EntryInv, RunReturns, Setting
  <2> QED BY <2>1, <2>2, <2>3, <2>4, <2>5, <2>6 DEF EnvInv
<1>7. CASE Skip
  <2>1. TypeOK'
    BY <1>7, PreviousDoes DEF EnvInv, TypeOK, Skip, histVars, Cleaning
  <2>2. AtInv'
    BY <1>7, PreviousDoes DEF AtInv, Skip, Setting, Cleaning
  <2>3. InitializedInv'
    BY <1>7, PreviousDoes DEF InitializedInv, Skip, Setting, Cleaning
  <2>4. ValInv'
    BY <1>7, PreviousDoes DEF ValInv, Skip, Cleaning
  <2>5. LeftInv'
    BY <1>7, PreviousDoes DEF EnvInv, LeftInv, Left, Skip, histVars, Cleaning
  <2>6. EntryInv'
    BY <1>7, PreviousDoes DEF EntryInv, Skip, Setting, Cleaning
  <2> QED BY <2>1, <2>2, <2>3, <2>4, <2>5, <2>6 DEF EnvInv
<1>8. CASE CleanFails
  <2>1. TypeOK'
    BY <1>8, PreviousDoes DEF EnvInv, TypeOK, CleanFails, Cleaning
  <2>2. AtInv'
    BY <1>8, PreviousDoes DEF AtInv, CleanFails, Setting, Cleaning
  <2>3. InitializedInv'
    BY <1>8, PreviousDoes DEF InitializedInv, CleanFails, Setting, Cleaning
  <2>4. ValInv'
    BY <1>8, PreviousDoes DEF ValInv, CleanFails, Cleaning
  <2>5. LeftInv'
    BY <1>8, PreviousDoes DEF EnvInv, LeftInv, Left, CleanFails, Cleaning
  <2>6. EntryInv'
    BY <1>8, PreviousDoes DEF EntryInv, CleanFails, Setting, Cleaning
  <2> QED BY <2>1, <2>2, <2>3, <2>4, <2>5, <2>6 DEF EnvInv
<1>9. CASE DeleteVariable
  <2>1. TypeOK'
    BY <1>9, PreviousDoes DEF EnvInv, TypeOK, DeleteVariable, histVars, Cleaning
  <2>2. AtInv'
    <3>1. CASE at \in Registered
      <4>1. at \in initialized /\ at \in Vars /\ env'[at] = "none" /\ at' = at
        BY <1>9, <3>1 DEF DeleteVariable, EnvInv, TypeOK
      <4> QED BY <1>9, <3>1, <4>1 DEF DeleteVariable, AtInv
    <3>2. CASE at \notin Registered
      BY <1>9, <3>2, PreviousDoes DEF DeleteVariable, AtInv, Setting, Cleaning
    <3> QED BY <3>1, <3>2
  <2>3. InitializedInv'
    BY <1>9, PreviousDoes DEF EnvInv, InitializedInv, DeleteVariable, Setting,
       Cleaning
  <2>4. ValInv'
    BY <1>9, PreviousDoes DEF ValInv, DeleteVariable, Cleaning
  <2>5. LeftInv'
    <3> SUFFICES ASSUME NEW v \in Vars \ (troubled \cup orphans), Left(v)'
                 PROVE  v \in initialized'
      BY <1>9 DEF LeftInv, DeleteVariable, histVars
    <3>1. Left(v) /\ (v = at => at \in wslenv)
      BY <1>9 DEF DeleteVariable, Left, EnvInv, TypeOK
    <3>2. v \in initialized
      BY <1>9, <3>1 DEF DeleteVariable, EnvInv, LeftInv
    <3>3. at \in Registered => initialized' = initialized
      BY <1>9 DEF DeleteVariable
    <3>4. at \notin Registered => v # at /\ initialized' = initialized \ {at}
      BY <1>9, <3>1, EntriesApart, PreviousDoes
         DEF DeleteVariable, EnvInv, TypeOK, Cleaning
    <3> QED BY <3>2, <3>3, <3>4
  <2>6. EntryInv'
    BY <1>9, PreviousDoes DEF EnvInv, EntryInv, DeleteVariable, histVars, Setting, Cleaning
  <2> QED BY <2>1, <2>2, <2>3, <2>4, <2>5, <2>6 DEF EnvInv
<1>10. CASE PutWslenvBack
  <2>1. TypeOK'
    BY <1>10, PreviousDoes, WithoutOne DEF EnvInv, TypeOK, PutWslenvBack, histVars, Setting,
       Cleaning, AtInv
  <2>2. AtInv'
    BY <1>10, PreviousDoes DEF EnvInv, AtInv, PutWslenvBack, histVars, Setting, Cleaning
  <2>3. InitializedInv'
    BY <1>10, PreviousDoes DEF EnvInv, InitializedInv, PutWslenvBack, histVars, Setting,
       Cleaning
  <2>4. ValInv'
    BY <1>10, PreviousDoes DEF EnvInv, ValInv, PutWslenvBack, histVars, Setting, Cleaning
  <2>5. LeftInv'
    <3> SUFFICES ASSUME NEW v \in Vars \ (troubled \cup orphans), Left(v)'
                 PROVE  v \in initialized'
      BY <1>10 DEF LeftInv, PutWslenvBack, histVars
    <3>1. at \in Vars /\ env[at] # "agent"
      BY <1>10 DEF PutWslenvBack, EnvInv, AtInv, Cleaning
    <3>2. v \in Without(val, at) => v \in val /\ v # at
      BY <3>1, WithoutOne DEF EnvInv, TypeOK
    <3>3. v \in val => v \in wslenv
      BY <1>10, EntriesApart DEF PutWslenvBack, EnvInv, TypeOK, ValInv
    <3>4. Left(v) /\ v # at
      BY <1>10, <3>1, <3>2, <3>3 DEF PutWslenvBack, Left
    <3>5. v \in initialized
      BY <1>10, <3>4 DEF PutWslenvBack, EnvInv, LeftInv
    <3>6. initialized' = initialized \ {at}
      BY <1>10, PreviousDoes DEF PutWslenvBack, Cleaning
    <3> QED BY <3>4, <3>5, <3>6
  <2>6. EntryInv'
    BY <1>10, PreviousDoes DEF EnvInv, EntryInv, PutWslenvBack, histVars, Setting, Cleaning
  <2> QED BY <2>1, <2>2, <2>3, <2>4, <2>5, <2>6 DEF EnvInv
<1>11. CASE Crash
  BY <1>11 DEF EnvInv, TypeOK, AtInv, InitializedInv, ValInv, LeftInv, EntryInv, Crash,
     Setting, Cleaning, histVars
<1>12. ASSUME NEW v \in Vars, UserSets(v) PROVE EnvInv'
  BY <1>12 DEF EnvInv, TypeOK, AtInv, InitializedInv, ValInv, LeftInv, EntryInv, UserSets,
     Setting, Cleaning, Left, histVars, procVars, Entries
<1>13. ASSUME NEW e \in Foreign, OtherEdits(e) PROVE EnvInv'
  BY <1>13, EntriesApart DEF EnvInv, TypeOK, AtInv, InitializedInv, ValInv, LeftInv,
     EntryInv, OtherEdits, Setting, Cleaning, Left, histVars, procVars, Entries
<1>14. CASE UNCHANGED vars
  BY <1>14 DEF EnvInv, TypeOK, AtInv, InitializedInv, ValInv, LeftInv, EntryInv, Left, vars,
     histVars, procVars
<1> QED BY <1>1, <1>2, <1>3, <1>4, <1>5, <1>6, <1>7, <1>8, <1>9, <1>10, <1>11, <1>12, <1>13,
   <1>14 DEF Next, Agent

-----------------------------------------------------------------------------
\* EnvInv is an invariant: every step of agent-gui and of the others keeps its
\* six parts.
THEOREM EnvAlways == Spec => []EnvInv
  BY EnvInit, EnvStep, PTL DEF Spec

\* In every reachable state the parts of the state have the values that
\* setVars and its cleaner can give them; the loops never leave the variables
\* (main.go:103-145, setenv.go:15-140).
THEOREM UserEnvTypeCorrect == Spec => []TypeOK
  BY EnvAlways, PTL DEF EnvInv

\* Whatever the variables, whichever registry calls fail and wherever earlier
\* starts have crashed: an orderly end leaves something of agent-gui's only for
\* a variable that had trouble itself, or that this start did not get to.
THEOREM NoLeftoversCorrect == Spec => []NoLeftovers
<1>1. EnvInv => NoLeftovers
  BY DEF EnvInv, LeftInv, InitializedInv, Left, NoLeftovers
<1> QED BY <1>1, EnvAlways, PTL

\* While agent-gui runs, every registered variable has its entry in WSLENV,
\* however the edits of others fall between its reads and its writes.
THEOREM AnnouncedCorrect == Spec => []Announced
<1>1. EnvInv => Announced
  BY RegisteredAssumption DEF EnvInv, EntryInv, InitializedInv, Announced, Setting, Vars
<1> QED BY <1>1, EnvAlways, PTL

\* No step of agent-gui changes an entry of somebody else, but for one edited
\* between its read and its write and one that begins like a variable of its own.
THEOREM OthersKeptCorrect == Spec => OthersKept
<1> DEFINE Kept == \A e \in Foreign :
                      Agent /\ (e \in wslenv <=> e \notin wslenv') =>
                          e \in touched \/ \E v \in Vars : <<e, v>> \in Extending
<1>1. EnvInv => [Kept]_vars
  <2> SUFFICES ASSUME EnvInv, NEW e \in Foreign, Agent, e \in wslenv <=> e \notin wslenv',
                      e \notin touched
               PROVE  \E v \in Vars : <<e, v>> \in Extending
    OBVIOUS
  <2>1. wslenv' # wslenv
    OBVIOUS
  <2>2. PutWslenv \/ PutWslenvBack
    BY <2>1 DEF Agent, Start, PrepareFails, SetVariable, GetWslenv, RunReturns, Skip,
                CleanFails, DeleteVariable, Crash
  <2>3. at \in Vars /\ e # at /\ (e \in wslenv' <=> e \in Without(val, at))
    BY <2>2, EntriesApart DEF PutWslenv, PutWslenvBack, EnvInv, AtInv, Setting, Cleaning
  <2>4. e \in val <=> e \in wslenv
    BY <2>2 DEF PutWslenv, PutWslenvBack, EnvInv, ValInv, Entries
  <2>5. e \in Without(val, at) <=> e \in val /\ <<e, at>> \notin Extending
    BY <2>3, WithoutOne DEF EnvInv, TypeOK
  <2> QED BY <2>3, <2>4, <2>5
<1> QED BY <1>1, EnvAlways, PTL DEF OthersKept

-----------------------------------------------------------------------------
(* The popup menu.  Numbers: the library has induction for operators only. *)

\* A set of numbers has a least one.
LEMMA Least ==
  ASSUME NEW T \in SUBSET Nat, T # {}
  PROVE  \E n \in T : \A m \in T : n <= m
<1>1. IsWellFoundedOn(OpToRel(<, Nat), Nat)
  BY NatLessThanWellFounded
<1> DEFINE R == OpToRel(<, Nat)
<1>2. \A x, y \in Nat : x < y => <<x, y>> \in R
  BY DEF OpToRel
<1> HIDE DEF R
<1>3. IsWellFoundedOn(R, Nat)
  BY <1>1 DEF R
<1>4. PICK x \in T : \A y \in T : ~ (<<y, x>> \in R)
  BY <1>3, WFMin
<1>5. ASSUME NEW m \in T PROVE x <= m
  <2>1. x \in Nat /\ m \in Nat /\ ~ m < x
    BY <1>2, <1>4
  <2> QED BY <2>1
<1> QED BY <1>5

\* Up to Z.
LEMMA UpTo ==
  ASSUME NEW Z \in Nat, NEW T, 0 \in T, \A n \in 0..Z - 1 : n \in T => n + 1 \in T
  PROVE  \A n \in 0..Z : n \in T
<1> DEFINE U == 0..Z \ T
<1>1. SUFFICES ASSUME U # {} PROVE FALSE
  OBVIOUS
<1>2. U \in SUBSET Nat
  OBVIOUS
<1> HIDE DEF U
<1>3. PICK n \in U : \A m \in U : n <= m
  BY <1>1, <1>2, Least
<1>4. n \in 0..Z /\ n \notin T /\ n # 0
  BY <1>3 DEF U
<1>5. n - 1 \in 0..Z - 1 /\ (n - 1) + 1 = n /\ n - 1 < n /\ n - 1 \in 0..Z
  BY <1>4
<1>6. n - 1 \notin U
  BY <1>2, <1>3, <1>5
<1> QED BY <1>4, <1>5, <1>6 DEF U

-----------------------------------------------------------------------------
(* Sequences of numbers.                                                   *)

\* In order, and strictly.
Rising(s) == \A m, n \in DOMAIN s : m < n => s[m] <= s[n]
Strict(s) == \A m, n \in DOMAIN s : m < n => s[m] < s[n]
Distinct(s) == \A m, n \in DOMAIN s : m # n => s[m] # s[n]
In(s, x) == \E n \in DOMAIN s : s[n] = x

\* Strictly in order is in order and without repetition.
LEMMA StrictIs ==
  ASSUME NEW s \in Seq(Nat)
  PROVE  Strict(s) <=> Rising(s) /\ Distinct(s)
<1>1. \A n \in DOMAIN s : n \in Nat /\ s[n] \in Nat
  OBVIOUS
<1> QED BY <1>1 DEF Strict, Rising, Distinct

\* What is in s is in t, and they agree below n: then t is not behind at n.
LEMMA Keeps ==
  ASSUME NEW s \in Seq(Nat), NEW t \in Seq(Nat), Strict(s), Strict(t),
         \A x \in Nat : In(s, x) => In(t, x),
         NEW n \in DOMAIN s, n \in DOMAIN t,
         \A m \in DOMAIN s : m < n => m \in DOMAIN t /\ s[m] = t[m]
  PROVE  ~ s[n] < t[n]
<1>1. SUFFICES ASSUME s[n] < t[n] PROVE FALSE
  OBVIOUS
<1>2. s[n] \in Nat /\ t[n] \in Nat /\ n \in Nat
  OBVIOUS
<1>3. PICK m \in DOMAIN t : t[m] = s[n]
  BY <1>2 DEF In
<1>4. m \in Nat /\ DOMAIN s = 1..Len(s) /\ DOMAIN t = 1..Len(t) /\ Len(s) \in Nat
  OBVIOUS
<1>5. CASE m < n
  <2>1. m \in DOMAIN s
    BY <1>2, <1>4, <1>5
  <2> QED BY <1>3, <1>5, <2>1, <1>2 DEF Strict
<1>6. CASE m >= n
  <2>1. t[m] >= t[n]
    <3>1. n = m \/ n < m
      BY <1>2, <1>4, <1>6
    <3>2. n < m => t[n] < t[m]
      BY DEF Strict
    <3> QED BY <1>2, <1>3, <3>1, <3>2
  <2> QED BY <1>1, <1>2, <1>3, <2>1
<1> QED BY <1>2, <1>4, <1>5, <1>6

\* Two sequences in strict order with the same numbers are the same.
LEMMA Same ==
  ASSUME NEW s \in Seq(Nat), NEW t \in Seq(Nat), Strict(s), Strict(t),
         \A x \in Nat : In(s, x) <=> In(t, x)
  PROVE  s = t
<1> DEFINE M == {n \in DOMAIN s \cap DOMAIN t : s[n] # t[n]}
<1>1. DOMAIN s = 1..Len(s) /\ DOMAIN t = 1..Len(t) /\ Len(s) \in Nat /\ Len(t) \in Nat
  OBVIOUS
<1>2. M \in SUBSET Nat
  BY <1>1
<1>3. M = {}
  <2>1. SUFFICES ASSUME M # {} PROVE FALSE
    OBVIOUS
  <2> HIDE DEF M
  <2>2. PICK n \in M : \A m \in M : n <= m
    BY <1>2, <2>1, Least
  <2>3. n \in DOMAIN s /\ n \in DOMAIN t /\ s[n] # t[n]
    BY <2>2 DEF M
  <2>4. /\ \A m \in DOMAIN s : m < n => m \in DOMAIN t /\ s[m] = t[m]
        /\ \A m \in DOMAIN t : m < n => m \in DOMAIN s /\ t[m] = s[m]
    BY <1>1, <2>2, <2>3 DEF M
  <2>5. ~ s[n] < t[n]
    BY <2>3, <2>4, Keeps
  <2>6. ~ t[n] < s[n]
    BY <2>3, <2>4, Keeps
  <2>7. s[n] \in Nat /\ t[n] \in Nat
    BY <2>3
  <2> QED BY <2>3, <2>5, <2>6, <2>7
<1>4. \A n \in DOMAIN s \cap DOMAIN t : s[n] = t[n]
  BY <1>3
<1>5. ~ Len(s) < Len(t)
  <2>1. SUFFICES ASSUME Len(s) < Len(t) PROVE FALSE
    OBVIOUS
  <2> DEFINE k == Len(s) + 1
  <2>2. k \in DOMAIN t
    BY <1>1, <2>1
  <2>3. t[k] \in Nat
    BY <2>2
  <2>4. PICK m \in DOMAIN s : s[m] = t[k]
    BY <2>2, <2>3 DEF In
  <2>5. m \in DOMAIN t /\ m < k
    BY <1>1, <2>1
  <2>6. t[m] = t[k]
    BY <1>4, <2>4, <2>5
  <2>7. t[m] < t[k]
    BY <2>2, <2>5 DEF Strict
  <2> QED BY <2>3, <2>6, <2>7
<1>6. ~ Len(t) < Len(s)
  <2>1. SUFFICES ASSUME Len(t) < Len(s) PROVE FALSE
    OBVIOUS
  <2> DEFINE k == Len(t) + 1
  <2>2. k \in DOMAIN s
    BY <1>1, <2>1
  <2>3. s[k] \in Nat
    BY <2>2
  <2>4. PICK m \in DOMAIN t : t[m] = s[k]
    BY <2>2, <2>3 DEF In
  <2>5. m \in DOMAIN s /\ m < k
    BY <1>1, <2>1
  <2>6. s[m] = s[k]
    BY <1>4, <2>4, <2>5
  <2>7. s[m] < s[k]
    BY <2>2, <2>5 DEF Strict
  <2> QED BY <2>3, <2>6, <2>7
<1>7. \A a, b \in Nat : ~ a < b /\ ~ b < a => a = b
  OBVIOUS
<1>8. Len(s) = Len(t)
  BY <1>1, <1>5, <1>6, <1>7
<1>9. s = [j \in 1..Len(s) |-> s[j]] /\ t = [j \in 1..Len(t) |-> t[j]]
  OBVIOUS
<1>10. \A j \in 1..Len(s) : s[j] = t[j]
  BY <1>1, <1>4, <1>8
<1> QED BY <1>8, <1>9, <1>10

\* Sequences without repetition of the same things are as long as each other.
LEMMA SameLength ==
  ASSUME NEW S, NEW s \in Seq(S), NEW t \in Seq(S), Distinct(s), Distinct(t),
         \A x \in S : In(s, x) <=> In(t, x)
  PROVE  Len(s) = Len(t) /\ Menu!Range(s) = Menu!Range(t)
<1>1. /\ s \in [1..Len(s) -> S] /\ t \in [1..Len(t) -> S]
      /\ Len(s) \in Nat /\ Len(t) \in Nat
      /\ DOMAIN s = 1..Len(s) /\ DOMAIN t = 1..Len(t)
  OBVIOUS
<1>2. Menu!Range(s) = Menu!Range(t)
  BY <1>1 DEF Menu!Range, In
<1>3. Cardinality(Menu!Range(s)) = Len(s)
  <2>1. s \in Bijection(1..Len(s), Menu!Range(s))
    BY <1>1 DEF Bijection, Injection, Surjection, IsInjective, Menu!Range, Distinct
  <2> QED BY <1>1, <2>1, FS_CountingElements DEF ExistsBijection
<1>4. Cardinality(Menu!Range(t)) = Len(t)
  <2>1. t \in Bijection(1..Len(t), Menu!Range(t))
    BY <1>1 DEF Bijection, Injection, Surjection, IsInjective, Menu!Range, Distinct
  <2> QED BY <1>1, <2>1, FS_CountingElements DEF ExistsBijection
<1> QED BY <1>2, <1>3, <1>4

-----------------------------------------------------------------------------
(* Entries that come and go.                                               *)

\* s with e at k.
With(s, k, e) == [j \in 1..Len(s) + 1 |-> IF j < k THEN s[j] ELSE IF j = k THEN e ELSE s[j - 1]]
Slot(s, n) == IF n \in 1..Len(s) THEN n ELSE Len(s) + 1
Less(s, k) == [j \in 1..Len(s) - 1 |-> IF j < k THEN s[j] ELSE s[j + 1]]

\* The entry comes in at the position or, if that is none, at the end.
LEMMA Inserts ==
  ASSUME NEW S, NEW s \in Seq(S), NEW n \in Nat, NEW e \in S
  PROVE  /\ Menu!WithEntry(s, n, e) \in Seq(S)
         /\ Menu!WithEntry(s, n, e) = With(s, Slot(s, n), e)
<1>1. Len(s) \in Nat
  OBVIOUS
<1>2. CASE n \in 1..Len(s)
  <2>1. Menu!WithEntry(s, n, e) = With(s, n, e)
    BY <1>1, <1>2 DEF Menu!WithEntry, Menu!InsertAt, With
  <2>2. Menu!WithEntry(s, n, e) \in Seq(S)
    BY <1>1, <1>2 DEF Menu!WithEntry, Menu!InsertAt
  <2> QED BY <1>2, <2>1, <2>2 DEF Slot
<1>3. CASE n \notin 1..Len(s)
  <2>1. Menu!WithEntry(s, n, e) = Append(s, e)
    BY <1>3 DEF Menu!WithEntry
  <2>2. Append(s, e) = With(s, Len(s) + 1, e)
    <3>1. /\ Append(s, e) \in [1..Len(s) + 1 -> S]
          /\ \A j \in 1..Len(s) + 1 : Append(s, e)[j] = IF j = Len(s) + 1 THEN e ELSE s[j]
      <4>1. Len(Append(s, e)) = Len(s) + 1 /\ Append(s, e) \in Seq(S)
        OBVIOUS
      <4>2. \A t \in Seq(S) : t \in [1..Len(t) -> S]
        OBVIOUS
      <4>3. \A j \in 1..Len(s) + 1 : Append(s, e)[j] = IF j = Len(s) + 1 THEN e ELSE s[j]
        BY <1>1
      <4> QED BY <4>1, <4>2, <4>3
    <3>2. \A j \in 1..Len(s) + 1 : j < Len(s) + 1 <=> j # Len(s) + 1
      BY <1>1
    <3> QED BY <3>1, <3>2 DEF With
  <2>3. Append(s, e) \in Seq(S)
    OBVIOUS
  <2> QED BY <1>3, <2>1, <2>2, <2>3 DEF Slot
<1> QED BY <1>2, <1>3

\* Menu!RemoveAt, as a function.
LEMMA Removes ==
  ASSUME NEW S, NEW s \in Seq(S), NEW k \in DOMAIN s
  PROVE  Menu!RemoveAt(s, k) = Less(s, k) /\ Menu!RemoveAt(s, k) \in Seq(S)
<1>1. Len(s) \in Nat /\ k \in 1..Len(s)
  OBVIOUS
<1>2. Menu!RemoveAt(s, k) \in Seq(S)
  BY <1>1 DEF Menu!RemoveAt
<1>3. Menu!RemoveAt(s, k) = Less(s, k)
  <2> DEFINE a == SubSeq(s, 1, k - 1)
             b == SubSeq(s, k + 1, Len(s))
  <2>1. /\ a \in Seq(S) /\ b \in Seq(S) /\ Len(a) = k - 1 /\ Len(b) = Len(s) - k
        /\ \A j \in 1..k - 1 : a[j] = s[j]
        /\ \A j \in 1..Len(s) - k : b[j] = s[j + k]
    BY <1>1
  <2> HIDE DEF a, b
  <2>2. Len(a \o b) = Len(s) - 1 /\ a \o b \in Seq(S)
    BY <1>1, <2>1
  <2>3. ASSUME NEW j \in 1..Len(s) - 1 PROVE (a \o b)[j] = IF j < k THEN s[j] ELSE s[j + 1]
    <3>1. CASE j < k
      <4>1. j \in 1..k - 1
        BY <1>1, <3>1
      <4> QED BY <2>1, <3>1, <4>1
    <3>2. CASE ~ j < k
      <4>1. j - (k - 1) \in 1..Len(s) - k /\ j - (k - 1) + k = j + 1
        BY <1>1, <3>2
      <4>2. (a \o b)[j] = b[j - (k - 1)]
        BY <1>1, <2>1, <3>2
      <4> QED BY <2>1, <3>2, <4>1, <4>2
    <3> QED BY <3>1, <3>2
  <2>4. a \o b = [j \in 1..Len(s) - 1 |-> (a \o b)[j]]
    <3>1. \A t \in Seq(S) : t = [j \in 1..Len(t) |-> t[j]]
      OBVIOUS
    <3> QED BY <2>2, <3>1
  <2>5. a \o b = Less(s, k)
    BY <2>3, <2>4 DEF Less
  <2> QED BY <2>5 DEF a, b, Menu!RemoveAt
<1> QED BY <1>2, <1>3

\* What is in the sequences: by the places.
LEMMA InWith ==
  ASSUME NEW S, NEW s \in Seq(S), NEW k \in 1..Len(s) + 1, NEW e \in S
  PROVE  /\ \A x : In(With(s, k, e), x) <=> In(s, x) \/ x = e
         /\ Distinct(s) /\ ~In(s, e) => Distinct(With(s, k, e))
<1> DEFINE w == With(s, k, e)
<1>1. Len(s) \in Nat /\ DOMAIN s = 1..Len(s) /\ DOMAIN w = 1..Len(s) + 1 /\ w[k] = e
  BY DEF With
<1>2. \A n \in DOMAIN s : \E m \in DOMAIN w : w[m] = s[n]
  <2>1. TAKE n \in DOMAIN s
  <2>2. CASE n < k
    <3>1. n \in DOMAIN w /\ w[n] = s[n]
      BY <1>1, <2>2 DEF With
    <3> QED BY <3>1
  <2>3. CASE ~ n < k
    <3>1. n + 1 \in DOMAIN w /\ w[n + 1] = s[n]
      BY <1>1, <2>3 DEF With
    <3> QED BY <3>1
  <2> QED BY <2>2, <2>3
<1>3. \A m \in DOMAIN w : m # k => /\ m < k => m \in DOMAIN s /\ w[m] = s[m]
                                   /\ m > k => m - 1 \in DOMAIN s /\ w[m] = s[m - 1]
  BY <1>1 DEF With
<1> HIDE DEF w
<1>4. \A x : In(w, x) <=> In(s, x) \/ x = e
  <2>1. TAKE x
  <2>2. ASSUME In(w, x) PROVE In(s, x) \/ x = e
    <3>1. PICK m \in DOMAIN w : w[m] = x
      BY <2>2 DEF In
    <3>2. m = k \/ m < k \/ m > k
      BY <1>1
    <3> QED BY <1>1, <1>3, <3>1, <3>2 DEF In
  <2>3. ASSUME In(s, x) \/ x = e PROVE In(w, x)
    <3>1. k \in DOMAIN w
      BY <1>1
    <3> QED BY <1>1, <1>2, <2>3, <3>1 DEF In
  <2> QED BY <2>2, <2>3
<1>5. ASSUME Distinct(s), ~In(s, e), NEW m \in DOMAIN w, NEW n \in DOMAIN w, m # n
      PROVE  w[m] # w[n]
  <2>1. m \in Int /\ n \in Int /\ k \in Int
    BY <1>1
  <2>2. CASE m = k
    BY <1>1, <1>3, <1>5, <2>1, <2>2 DEF In
  <2>3. CASE n = k
    BY <1>1, <1>3, <1>5, <2>1, <2>3 DEF In
  <2>4. CASE m # k /\ n # k
    <3>1. m < k /\ n < k => w[m] # w[n]
      BY <1>3, <1>5 DEF Distinct
    <3>2. m < k /\ n > k => w[m] # w[n]
      <4>1. m < k /\ n > k => m # n - 1
        BY <2>1
      <4> QED BY <1>3, <1>5, <2>4, <4>1 DEF Distinct
    <3>3. m > k /\ n < k => w[m] # w[n]
      <4>1. m > k /\ n < k => m - 1 # n
        BY <2>1
      <4> QED BY <1>3, <1>5, <2>4, <4>1 DEF Distinct
    <3>4. m > k /\ n > k => w[m] # w[n]
      <4>1. m - 1 # n - 1
        BY <2>1, <1>5
      <4> QED BY <1>3, <1>5, <2>4, <4>1 DEF Distinct
    <3>5. (m < k \/ m > k) /\ (n < k \/ n > k)
      BY <2>1, <2>4
    <3> QED BY <3>1, <3>2, <3>3, <3>4, <3>5
  <2> QED BY <2>2, <2>3, <2>4
<1>6. Distinct(s) /\ ~In(s, e) => Distinct(w)
  BY <1>5 DEF Distinct
<1> QED BY <1>4, <1>6 DEF w

\* What is left, and in the order it was in.
LEMMA InLess ==
  ASSUME NEW S, NEW s \in Seq(S), NEW k \in DOMAIN s
  PROVE  /\ \A m \in DOMAIN Less(s, k) : \E n \in DOMAIN s : n # k /\ Less(s, k)[m] = s[n]
         /\ \A n \in DOMAIN s : n # k => In(Less(s, k), s[n])
         /\ \A m, n \in DOMAIN Less(s, k) : m < n =>
               \E a, b \in DOMAIN s : a < b /\ a # k /\ b # k
                  /\ Less(s, k)[m] = s[a] /\ Less(s, k)[n] = s[b]
<1> DEFINE w == Less(s, k)
<1>1. Len(s) \in Nat /\ DOMAIN s = 1..Len(s) /\ DOMAIN w = 1..Len(s) - 1 /\ k \in 1..Len(s)
  BY DEF Less
<1> DEFINE of(m) == IF m < k THEN m ELSE m + 1
<1>2. \A m \in DOMAIN w : of(m) \in DOMAIN s /\ of(m) # k /\ w[m] = s[of(m)]
  BY <1>1 DEF Less
<1>3. \A m, n \in DOMAIN w : m < n => of(m) < of(n)
  BY <1>1
<1>4. ASSUME NEW n \in DOMAIN s, n # k PROVE \E m \in DOMAIN w : w[m] = s[n]
  <2>1. CASE n < k
    <3>1. n \in DOMAIN w /\ w[n] = s[n]
      BY <1>1, <2>1 DEF Less
    <3> QED BY <3>1
  <2>2. CASE ~ n < k
    <3>1. n - 1 \in DOMAIN w /\ ~ (n - 1 < k) /\ (n - 1) + 1 = n
      BY <1>1, <1>4, <2>2
    <3>2. w[n - 1] = s[n]
      BY <3>1 DEF Less
    <3> QED BY <3>1, <3>2
  <2> QED BY <2>1, <2>2
<1> HIDE DEF w, of
<1> QED BY <1>2, <1>3, <1>4 DEF w, In

\* A sequence in order has stayed in order.
LEMMA LessRises ==
  ASSUME NEW s \in Seq(Nat), NEW k \in DOMAIN s
  PROVE  /\ Rising(s) => Rising(Less(s, k))
         /\ Strict(s) => Strict(Less(s, k)) /\ \A x : In(Less(s, k), x) <=> In(s, x) /\ x # s[k]
         /\ Distinct(s) => Distinct(Less(s, k))
<1> DEFINE w == Less(s, k)
<1>1. /\ \A m \in DOMAIN w : \E n \in DOMAIN s : n # k /\ w[m] = s[n]
      /\ \A n \in DOMAIN s : n # k => In(w, s[n])
      /\ \A m, n \in DOMAIN w : m < n =>
            \E a, b \in DOMAIN s : a < b /\ a # k /\ b # k /\ w[m] = s[a] /\ w[n] = s[b]
  BY InLess
<1>2. /\ \A m, n \in DOMAIN w : m \in Int /\ n \in Int /\ (m # n => m < n \/ n < m)
      /\ \A m, n \in DOMAIN s : m \in Int /\ n \in Int /\ (m # n => m < n \/ n < m)
      /\ \A m \in DOMAIN s : s[m] \in Nat
  BY DEF Less
<1> HIDE DEF w
<1>3. Rising(s) => Rising(w)
  BY <1>1 DEF Rising
<1>4. Strict(s) => Strict(w)
  BY <1>1 DEF Strict
<1>5. Distinct(s) => Distinct(w)
  <2>1. SUFFICES ASSUME Distinct(s), NEW m \in DOMAIN w, NEW n \in DOMAIN w, m # n
                 PROVE  w[m] # w[n]
    BY DEF Distinct
  <2>2. \A a, b \in DOMAIN s : a < b => s[a] # s[b]
    BY <1>2, <2>1 DEF Distinct
  <2> QED BY <1>1, <1>2, <2>1, <2>2
<1>6. Strict(s) => \A x : In(w, x) <=> In(s, x) /\ x # s[k]
  <2>1. SUFFICES ASSUME Strict(s), NEW x PROVE In(w, x) <=> In(s, x) /\ x # s[k]
    OBVIOUS
  <2>2. \A n \in DOMAIN s : n # k => s[n] # s[k]
    BY <1>2, <2>1 DEF Strict
  <2> QED BY <1>1, <2>2 DEF In
<1> QED BY <1>3, <1>4, <1>5, <1>6 DEF w

\* What was taken out and put back, and the other way.
LEMMA PutBack ==
  ASSUME NEW s \in Seq(Nat), NEW k \in DOMAIN s
  PROVE  With(Less(s, k), k, s[k]) = s
<1>1. Len(s) \in Nat /\ k \in 1..Len(s) /\ Len(Less(s, k)) = Len(s) - 1
  BY DEF Less
<1> DEFINE w == Less(s, k)
<1>2. \A j \in 1..Len(s) - 1 : w[j] = IF j < k THEN s[j] ELSE s[j + 1]
  BY DEF Less
<1>3. Len(w) + 1 = Len(s)
  BY <1>1
<1>4. ASSUME NEW j \in 1..Len(s) PROVE With(w, k, s[k])[j] = s[j]
  <2>1. With(w, k, s[k])[j] = IF j < k THEN w[j] ELSE IF j = k THEN s[k] ELSE w[j - 1]
    BY <1>3 DEF With
  <2>2. CASE j < k
    BY <1>1, <1>2, <2>1, <2>2
  <2>3. CASE j = k
    BY <1>1, <2>1, <2>3
  <2>4. CASE j > k
    <3>1. j - 1 \in 1..Len(s) - 1 /\ ~ j - 1 < k /\ (j - 1) + 1 = j
      BY <1>1, <2>4
    <3>2. w[j - 1] = s[j]
      BY <1>2, <3>1
    <3>3. ~ j < k /\ j # k
      BY <1>1, <2>4
    <3> QED BY <2>1, <3>2, <3>3
  <2> QED BY <1>1, <2>2, <2>3, <2>4
<1>5. With(w, k, s[k]) = [j \in 1..Len(s) |-> With(w, k, s[k])[j]]
  BY <1>3 DEF With
<1>6. s = [j \in 1..Len(s) |-> s[j]]
  OBVIOUS
<1> HIDE DEF w
<1>7. [j \in 1..Len(s) |-> With(w, k, s[k])[j]] = [j \in 1..Len(s) |-> s[j]]
  BY <1>4
<1> QED BY <1>5, <1>6, <1>7 DEF w

\* Without what has come in it is what it was.
LEMMA TakeOut ==
  ASSUME NEW v \in Seq(Nat), NEW w \in Seq(Nat), Strict(v), Strict(w), NEW i \in Nat,
         ~In(v, i), \A x \in Nat : In(w, x) <=> In(v, x) \/ x = i,
         NEW k \in DOMAIN w, w[k] = i
  PROVE  Menu!RemoveAt(w, k) = v
<1>1. Menu!RemoveAt(w, k) = Less(w, k) /\ Less(w, k) \in Seq(Nat)
  BY Removes
<1>2. Strict(Less(w, k)) /\ \A x : In(Less(w, k), x) <=> In(w, x) /\ x # i
  BY LessRises
<1>3. \A x \in Nat : In(Less(w, k), x) <=> In(v, x)
  BY <1>2
<1> QED BY <1>1, <1>2, <1>3, Same

-----------------------------------------------------------------------------
(* Sorting.                                                                *)

\* Sort finds what there is.
LEMMA SortIs ==
  ASSUME NEW s \in Seq(Nat),
         \E p \in Menu!Bijection(DOMAIN s, DOMAIN s) : Rising([n \in DOMAIN s |-> s[p[n]]])
  PROVE  /\ Menu!Sort(s) \in Seq(Nat) /\ Rising(Menu!Sort(s)) /\ Len(Menu!Sort(s)) = Len(s)
         /\ \A x : In(Menu!Sort(s), x) <=> In(s, x)
         /\ Distinct(s) => Distinct(Menu!Sort(s))
<1> DEFINE D == DOMAIN s
           T == {[n \in D |-> s[p[n]]] : p \in Menu!Bijection(D, D)}
<1>1. \E t \in T : Rising(t)
  OBVIOUS
<1>2. Menu!Sort(s) \in T /\ Rising(Menu!Sort(s))
  BY <1>1 DEF Menu!Sort, Rising
<1>3. PICK p \in Menu!Bijection(D, D) : Menu!Sort(s) = [n \in D |-> s[p[n]]]
  BY <1>2
<1>4. /\ p \in [D -> D]
      /\ \A m, n \in D : p[m] = p[n] => m = n
      /\ \A n \in D : \E m \in D : p[m] = n
  BY DEF Menu!Bijection, Menu!Injection, Menu!Surjection, Menu!IsInjective
<1>5. D = 1..Len(s) /\ Len(s) \in Nat /\ \A n \in D : s[n] \in Nat
  OBVIOUS
<1> DEFINE t == Menu!Sort(s)
<1>6. /\ DOMAIN t = D /\ \A n \in D : t[n] = s[p[n]]
      /\ \A n \in D : p[n] \in D /\ s[p[n]] \in Nat
  <2>1. \A n \in D : p[n] \in D
    BY <1>4
  <2> HIDE DEF D
  <2>2. \A n \in D : s[p[n]] \in Nat
    BY <1>5, <2>1
  <2> QED BY <1>3, <2>1, <2>2
<1> HIDE DEF t, D
<1>7. t \in Seq(Nat) /\ Len(t) = Len(s)
  <2>1. t = [n \in D |-> s[p[n]]]
    BY <1>3 DEF t, D
  <2> QED BY <1>5, <1>6, <2>1
<1>8. \A x : In(t, x) <=> In(s, x)
  <2>1. TAKE x
  <2>2. ASSUME In(t, x) PROVE In(s, x)
    <3>1. PICK n \in D : t[n] = x
      BY <1>6, <2>2 DEF In
    <3>2. p[n] \in D /\ s[p[n]] = x
      BY <1>6, <3>1
    <3> QED BY <3>2 DEF In, D
  <2>3. ASSUME In(s, x) PROVE In(t, x)
    <3>1. PICK n \in D : s[n] = x
      BY <2>3 DEF In, D
    <3>2. PICK m \in D : p[m] = n
      BY <1>4
    <3> QED BY <1>6, <3>1, <3>2 DEF In
  <2> QED BY <2>2, <2>3
<1>9. Distinct(s) => Distinct(t)
  <2>1. ASSUME Distinct(s), NEW m \in D, NEW n \in D, m # n PROVE t[m] # t[n]
    <3>1. p[m] # p[n]
      BY <1>4, <2>1
    <3>2. s[p[m]] # s[p[n]]
      BY <1>6, <2>1, <3>1 DEF Distinct, D
    <3> QED BY <1>6, <3>2
  <2> QED BY <1>6, <2>1 DEF Distinct
<1> QED BY <1>2, <1>7, <1>8, <1>9 DEF t

\* An item comes into a sequence that is in order.
LEMMA Sorts ==
  ASSUME NEW v \in Seq(Nat), Rising(v), NEW i \in Nat
  PROVE  LET w == Menu!Sort(Append(v, i)) IN
         /\ w \in Seq(Nat) /\ Rising(w)
         /\ \A x : In(w, x) <=> In(v, x) \/ x = i
         /\ Distinct(v) /\ ~In(v, i) => Distinct(w)
<1> DEFINE s == Append(v, i)
           L == Len(v)
           B == {n \in 1..L + 1 : n = L + 1 \/ (n \in 1..L /\ i < v[n])}
<1>1. /\ L \in Nat /\ s \in Seq(Nat) /\ DOMAIN s = 1..L + 1 /\ DOMAIN v = 1..L
      /\ s[L + 1] = i /\ \A n \in 1..L : s[n] = v[n] /\ v[n] \in Nat
  OBVIOUS
<1>2. B \in SUBSET Nat /\ L + 1 \in B
  BY <1>1
<1> HIDE DEF B
<1>3. PICK k \in B : \A m \in B : k <= m
  BY <1>2, Least
<1>4. k \in 1..L + 1 /\ (k # L + 1 => i < v[k])
  BY <1>1, <1>3 DEF B
<1>5. \A n \in 1..L : n < k => v[n] <= i
  <2>1. ASSUME NEW n \in 1..L, n < k PROVE v[n] <= i
    <3>1. n \notin B
      BY <1>1, <1>3, <1>4, <2>1
    <3>2. n \in 1..L + 1
      BY <1>1
    <3>3. ~ i < v[n]
      BY <3>1, <3>2 DEF B
    <3> QED BY <1>1, <3>3
  <2> QED BY <2>1
<1>6. \A n \in 1..L : k <= n => i <= v[n]
  <2>1. ASSUME NEW n \in 1..L, k <= n PROVE i <= v[n]
    <3>1. k \in 1..L /\ k # L + 1
      BY <1>1, <1>4, <2>1
    <3>2. k < n => v[k] <= v[n]
      BY <1>1, <3>1 DEF Rising
    <3> QED BY <1>1, <1>4, <2>1, <3>1, <3>2
  <2> QED BY <2>1
<1> DEFINE p == [n \in 1..L + 1 |-> IF n < k THEN n ELSE IF n = k THEN L + 1 ELSE n - 1]
<1>7. p \in Menu!Bijection(1..L + 1, 1..L + 1)
  <2>1. p \in [1..L + 1 -> 1..L + 1]
    BY <1>1, <1>4
  <2>2. \A a, b \in 1..L + 1 : p[a] = p[b] => a = b
    BY <1>1, <1>4
  <2>3. ASSUME NEW n \in 1..L + 1 PROVE \E m \in 1..L + 1 : p[m] = n
    <3>1. CASE n < k
      <4>1. p[n] = n
        BY <3>1
      <4> QED BY <4>1
    <3>2. CASE n = L + 1
      <4>1. p[k] = n
        BY <1>1, <1>4, <3>2
      <4> QED BY <1>4, <4>1
    <3>3. CASE ~ n < k /\ n # L + 1
      <4>1. n + 1 \in 1..L + 1 /\ ~ n + 1 < k /\ n + 1 # k /\ (n + 1) - 1 = n
        BY <1>1, <1>4, <3>3
      <4>2. p[n + 1] = n
        BY <4>1
      <4> QED BY <4>1, <4>2
    <3> QED BY <3>1, <3>2, <3>3
  <2> HIDE DEF p
  <2>4. Menu!IsInjective(p)
    BY <2>1, <2>2 DEF Menu!IsInjective
  <2> QED BY <2>1, <2>3, <2>4 DEF Menu!Bijection, Menu!Injection, Menu!Surjection
<1> DEFINE t == [n \in DOMAIN s |-> s[p[n]]]
<1>8. \A n \in 1..L + 1 : /\ n < k => n \in 1..L /\ t[n] = v[n]
                          /\ n = k => t[n] = i
                          /\ n > k => n - 1 \in 1..L /\ t[n] = v[n - 1] /\ k <= n - 1
  <2>1. TAKE n \in 1..L + 1
  <2>2. t[n] = s[p[n]]
    BY <1>1
  <2>3. n < k => n \in 1..L /\ p[n] = n
    BY <1>1, <1>4
  <2>4. n = k => p[n] = L + 1
    BY <1>1, <1>4
  <2>5. n > k => n - 1 \in 1..L /\ p[n] = n - 1 /\ k <= n - 1
    BY <1>1, <1>4
  <2> HIDE DEF p, t, s
  <2> QED BY <1>1, <2>2, <2>3, <2>4, <2>5
<1>9. DOMAIN t = 1..L + 1
  BY <1>1
<1> HIDE DEF s, L, p, t
<1>10. Rising(t)
  <2>1. ASSUME NEW m \in 1..L + 1, NEW n \in 1..L + 1, m < n PROVE t[m] <= t[n]
    <3>1. CASE n < k
      <4>1. m < k
        BY <1>1, <1>4, <2>1, <3>1
      <4> QED BY <1>1, <1>8, <2>1, <3>1, <4>1 DEF Rising
    <3>2. CASE n = k
      BY <1>5, <1>8, <2>1, <3>2
    <3>3. CASE n > k
      <4>1. t[n] = v[n - 1] /\ k <= n - 1 /\ n - 1 \in 1..L
        BY <1>8, <3>3
      <4>2. i <= v[n - 1]
        BY <1>6, <4>1
      <4>3. CASE m < k
        <5>1. v[m] <= i /\ t[m] = v[m] /\ m \in 1..L
          BY <1>5, <1>8, <4>3
        <5>2. \A a, b, c \in Nat : a <= b /\ b <= c => a <= c
          OBVIOUS
        <5> QED BY <1>1, <4>1, <4>2, <5>1, <5>2
      <4>4. CASE m = k
        BY <1>8, <4>1, <4>2, <4>4
      <4>5. CASE m > k
        <5>1. t[m] = v[m - 1] /\ m - 1 \in 1..L
          BY <1>8, <4>5
        <5>2. m - 1 < n - 1
          BY <2>1
        <5> QED BY <1>1, <4>1, <5>1, <5>2 DEF Rising
      <4> QED BY <1>1, <1>4, <4>3, <4>4, <4>5
    <3> QED BY <1>1, <1>4, <3>1, <3>2, <3>3
  <2> QED BY <1>9, <2>1 DEF Rising
<1>11. \E q \in Menu!Bijection(DOMAIN s, DOMAIN s) : Rising([n \in DOMAIN s |-> s[q[n]]])
  BY <1>1, <1>7, <1>10 DEF t
<1>12. /\ Menu!Sort(s) \in Seq(Nat) /\ Rising(Menu!Sort(s))
       /\ \A x : In(Menu!Sort(s), x) <=> In(s, x)
       /\ Distinct(s) => Distinct(Menu!Sort(s))
  BY <1>1, <1>11, SortIs
<1>13. \A x : In(s, x) <=> In(v, x) \/ x = i
  <2>1. \A n \in 1..L + 1 : n \in 1..L \/ n = L + 1
    BY <1>1
  <2>2. \A n \in 1..L : n \in 1..L + 1
    BY <1>1
  <2>3. L + 1 \in 1..L + 1
    BY <1>1
  <2> QED BY <1>1, <2>1, <2>2, <2>3 DEF In
<1>14. Distinct(v) /\ ~In(v, i) => Distinct(s)
  <2>1. \A n \in 1..L + 1 : n \in 1..L \/ n = L + 1
    BY <1>1
  <2> QED BY <1>1, <2>1 DEF In, Distinct
<1> QED BY <1>12, <1>13, <1>14 DEF s

\* A sequence in order is sorted.
LEMMA SortedAlready ==
  ASSUME NEW s \in Seq(Nat), Strict(s)
  PROVE  Menu!Sort(s) = s
<1> DEFINE p == [n \in DOMAIN s |-> n]
<1>1. Rising(s) /\ Distinct(s)
  BY StrictIs
<1>2. p \in Menu!Bijection(DOMAIN s, DOMAIN s)
  BY DEF Menu!Bijection, Menu!Injection, Menu!Surjection, Menu!IsInjective
<1>3. [n \in DOMAIN s |-> s[p[n]]] = s
  OBVIOUS
<1> HIDE DEF p
<1>4. \E q \in Menu!Bijection(DOMAIN s, DOMAIN s) : Rising([n \in DOMAIN s |-> s[q[n]]])
  BY <1>1, <1>2, <1>3
<1>5. /\ Menu!Sort(s) \in Seq(Nat) /\ Rising(Menu!Sort(s)) /\ Distinct(Menu!Sort(s))
      /\ \A x : In(Menu!Sort(s), x) <=> In(s, x)
  BY <1>1, <1>4, SortIs
<1>6. Strict(Menu!Sort(s))
  BY <1>5, StrictIs
<1> QED BY <1>5, <1>6, Same

-----------------------------------------------------------------------------
(* The menus below a menu: a function that is defined from its value before. *)

\* A function may be defined from its value before.
Recurs(f, Z, X, A, G) ==
    f \in [0..Z -> SUBSET X] /\ f[0] = A /\ \A d \in 1..Z : f[d] = G[f[d - 1]]

\* There is one, for every start and every step.
LEMMA Recursion ==
  ASSUME NEW Z \in Nat, NEW X, NEW A \in SUBSET X, NEW G \in [SUBSET X -> SUBSET X]
  PROVE  \E f : Recurs(f, Z, X, A, G)
<1> DEFINE F(f, n) == [d \in 0..n |-> IF d = 0 THEN A ELSE G[f[d - 1]]]
           T == {n \in Nat : \E f : f = F(f, n) /\ f \in [0..n -> SUBSET X]}
<1>1. 0 \in T
  <2> DEFINE z == [d \in 0..0 |-> A]
  <2>1. z = F(z, 0) /\ z \in [0..0 -> SUBSET X]
    OBVIOUS
  <2> QED BY <2>1
<1>2. ASSUME NEW n \in 0..Z - 1, n \in T PROVE n + 1 \in T
  <2>1. PICK f : f = F(f, n) /\ f \in [0..n -> SUBSET X]
    BY <1>2
  <2> DEFINE g == [d \in 0..n + 1 |-> IF d = n + 1 THEN G[f[n]] ELSE f[d]]
  <2>2. n \in 0..n /\ G[f[n]] \in SUBSET X
    BY <2>1
  <2>3. g \in [0..n + 1 -> SUBSET X]
    BY <2>1, <2>2
  <2>4. ASSUME NEW d \in 0..n + 1 PROVE g[d] = IF d = 0 THEN A ELSE G[g[d - 1]]
    <3>1. CASE d = 0
      <4>1. g[d] = f[0] /\ 0 \in 0..n
        BY <3>1
      <4>2. f[0] = A
        BY <2>1, <4>1
      <4> QED BY <3>1, <4>1, <4>2
    <3>2. CASE d = n + 1
      <4>1. d - 1 = n /\ d # 0 /\ g[d] = G[f[n]] /\ g[n] = f[n]
        BY <2>2, <3>2
      <4> QED BY <4>1
    <3>3. CASE d # 0 /\ d # n + 1
      <4>1. d \in 0..n /\ d - 1 \in 0..n + 1 /\ d - 1 # n + 1
        BY <3>3
      <4>2. g[d] = f[d] /\ g[d - 1] = f[d - 1]
        BY <3>3, <4>1
      <4>3. f[d] = G[f[d - 1]]
        BY <2>1, <3>3, <4>1
      <4> QED BY <3>3, <4>2, <4>3
    <3> QED BY <3>1, <3>2, <3>3
  <2>5. g = [d \in 0..n + 1 |-> g[d]]
    OBVIOUS
  <2> HIDE DEF g
  <2>6. g = F(g, n + 1)
    BY <2>4, <2>5
  <2> QED BY <2>3, <2>6
<1> HIDE DEF T
<1>3. \A n \in 0..Z : n \in T
  BY <1>1, <1>2, UpTo
<1>4. Z \in T /\ 0 \in 0..Z /\ \A d \in 1..Z : d \in 0..Z /\ d # 0
  BY <1>3
<1>5. PICK f : f = F(f, Z) /\ f \in [0..Z -> SUBSET X]
  BY <1>4 DEF T
<1>6. f[0] = A /\ \A d \in 1..Z : f[d] = G[f[d - 1]]
  BY <1>4, <1>5
<1> QED BY <1>5, <1>6 DEF Recurs

\* A menu that hangs below an entry was made after the menu of the entry.
SubsUp == \A h \in 1..MaxMenus : \A n \in DOMAIN win[h] : win[h][n].sub # 0 => win[h][n].sub > h

\* The menus below menu h: h itself, what the entries lead to, and no more.
LEMMA BelowIs ==
  ASSUME Menu!TypeOK, SubsUp, Menu!MenuAssumption, NEW h \in 0..MaxMenus
  PROVE  /\ Menu!Below(h) \subseteq live
         /\ h \in live => h \in Menu!Below(h)
         /\ \A g \in Menu!Below(h) : \A n \in DOMAIN win[g] :
               win[g][n].sub \in live => win[g][n].sub \in Menu!Below(h)
         /\ \A S : /\ h \in live => h \in S
                   /\ \A g \in S \cap live : \A n \in DOMAIN win[g] :
                         win[g][n].sub \in live => win[g][n].sub \in S
                   => Menu!Below(h) \subseteq S
<1>1. /\ MaxMenus \in Nat /\ live \subseteq 1..MaxMenus /\ 0 \notin live
      /\ win \in [1..MaxMenus -> Seq(Menu!Entry)]
  BY DEF Menu!TypeOK, Menu!MenuAssumption
<1> DEFINE subs(S) == {e.sub : e \in UNION {Menu!Range(win[g]) : g \in S}} \cap live
           G == [S \in SUBSET live |-> S \cup subs(S)]
           A == {h} \cap live
<1>2. CASE h = 0
  <2>1. Menu!Below(h) = {}
    BY <1>2 DEF Menu!Below
  <2> QED BY <1>1, <1>2, <2>1
<1>3. CASE h # 0
  <2>1. G \in [SUBSET live -> SUBSET live]
    OBVIOUS
  <2>2. A \in SUBSET live
    OBVIOUS
  <2> DEFINE up(f) == [d \in 0..MaxMenus |->
                        IF d = 0 THEN {h} \cap live
                        ELSE f[d - 1] \cup
                          ({e.sub : e \in UNION {Menu!Range(win[g]) : g \in f[d - 1]}} \cap live)]
             f == CHOOSE f : f = up(f)
  <2>3. f = up(f)
    <3>1. PICK y \in [0..MaxMenus -> SUBSET live] :
             y[0] = A /\ \A d \in 1..MaxMenus : y[d] = G[y[d - 1]]
      <4>1. MaxMenus \in Nat
        BY <1>1
      <4> HIDE DEF G, A
      <4>2. PICK y : Recurs(y, MaxMenus, live, A, G)
        BY <2>1, <2>2, <4>1, Recursion
      <4> QED BY <4>2 DEF Recurs
    <3>2. \A d \in 0..MaxMenus : d # 0 => G[y[d - 1]] = y[d - 1] \cup subs(y[d - 1])
      <4>1. \A d \in 0..MaxMenus : d # 0 => d - 1 \in 0..MaxMenus
        BY <1>1
      <4>2. \A d \in 0..MaxMenus : d # 0 => y[d - 1] \in SUBSET live
        BY <3>1, <4>1
      <4>3. \A S \in SUBSET live : G[S] = S \cup subs(S)
        OBVIOUS
      <4> HIDE DEF G, subs
      <4> QED BY <4>2, <4>3
    <3>3. y = [d \in 0..MaxMenus |-> IF d = 0 THEN A ELSE y[d - 1] \cup subs(y[d - 1])]
      <4>1. y = [d \in 0..MaxMenus |-> y[d]]
        BY <3>1
      <4>2. \A d \in 0..MaxMenus : d # 0 => d \in 1..MaxMenus
        BY <1>1
      <4> HIDE DEF G, A, subs
      <4>3. \A d \in 0..MaxMenus : y[d] = IF d = 0 THEN A ELSE y[d - 1] \cup subs(y[d - 1])
        BY <3>1, <3>2, <4>2
      <4> QED BY <4>1, <4>3
    <3>4. y = up(y)
      BY <3>3
    <3> QED BY <3>4
  <2>4. Menu!Below(h) = f[MaxMenus]
    BY <1>3 DEF Menu!Below
  <2>5. /\ f[0] = A
        /\ \A d \in 1..MaxMenus : f[d] = f[d - 1] \cup subs(f[d - 1])
    <3>1. \A d \in 1..MaxMenus : d \in 0..MaxMenus /\ d # 0
      BY <1>1
    <3>2. 0 \in 0..MaxMenus
      BY <1>1
    <3> HIDE DEF f
    <3> QED BY <2>3, <3>1, <3>2
  <2>6. \A S : \A x : x \in subs(S) <=>
           x \in live /\ \E g \in S : \E n \in DOMAIN win[g] : win[g][n].sub = x
    BY DEF Menu!Range
  <2> HIDE DEF f, subs, A, G
  <2>7. \A d \in 0..MaxMenus : f[d] \subseteq live
    <3> DEFINE T == {d \in 0..MaxMenus : f[d] \subseteq live}
    <3>1. 0 \in T
      <4>1. 0 \in 0..MaxMenus
        BY <1>1
      <4> QED BY <2>2, <2>5, <4>1
    <3>2. ASSUME NEW d \in 0..MaxMenus - 1, d \in T PROVE d + 1 \in T
      <4>1. d + 1 \in 1..MaxMenus /\ (d + 1) - 1 = d /\ d + 1 \in 0..MaxMenus
        BY <1>1
      <4>2. f[d + 1] = f[d] \cup subs(f[d])
        BY <2>5, <4>1
      <4> QED BY <2>6, <3>2, <4>1, <4>2
    <3> HIDE DEF T
    <3>3. \A d \in 0..MaxMenus : d \in T
      BY <1>1, <3>1, <3>2, UpTo
    <3> QED BY <3>3 DEF T
  <2>8. \A d \in 1..MaxMenus : f[d - 1] \subseteq f[d]
    BY <2>5
  \* One layer is below the next, and so below all that follow.
  <2>9. ASSUME NEW b \in 0..MaxMenus, NEW x \in f[b]
        PROVE \A d \in 0..MaxMenus : b <= d => x \in f[d]
    <3> DEFINE T == {d \in 0..MaxMenus : b <= d => x \in f[d]}
    <3>1. 0 \in T
      BY <1>1, <2>9
    <3>2. ASSUME NEW d \in 0..MaxMenus - 1, d \in T PROVE d + 1 \in T
      <4>1. d + 1 \in 1..MaxMenus /\ (d + 1) - 1 = d /\ d + 1 \in 0..MaxMenus
        BY <1>1
      <4>2. f[d] \subseteq f[d + 1]
        BY <2>8, <4>1
      <4>3. CASE b <= d
        BY <3>2, <4>1, <4>2, <4>3
      <4>4. CASE ~ b <= d
        <5>1. b <= d + 1 => b = d + 1
          BY <4>4
        <5> QED BY <2>9, <4>1, <5>1
      <4> QED BY <4>3, <4>4
    <3> HIDE DEF T
    <3>3. \A d \in 0..MaxMenus : d \in T
      BY <1>1, <3>1, <3>2, UpTo
    <3> QED BY <3>3 DEF T
  \* Menu x appears in layer x - h at the latest.
  <2>10. \A d \in 0..MaxMenus : \A x \in f[d] : x >= h /\ x \in f[x - h]
    <3> DEFINE T == {d \in 0..MaxMenus : \A x \in f[d] : x >= h /\ x \in f[x - h]}
    <3>1. 0 \in T
      <4>1. 0 \in 0..MaxMenus /\ \A x \in f[0] : x = h /\ x - h = 0
        BY <1>1, <2>5 DEF A
      <4>2. h >= h
        OBVIOUS
      <4> QED BY <4>1, <4>2
    <3>2. ASSUME NEW d \in 0..MaxMenus - 1, d \in T PROVE d + 1 \in T
      <4>1. d + 1 \in 1..MaxMenus /\ (d + 1) - 1 = d /\ d + 1 \in 0..MaxMenus /\ d \in 0..MaxMenus
        BY <1>1
      <4>2. f[d + 1] = f[d] \cup subs(f[d])
        BY <2>5, <4>1
      <4>3. ASSUME NEW x \in subs(f[d]) PROVE x >= h /\ x \in f[x - h]
        <5>1. PICK g \in f[d] : x \in live /\ \E n \in DOMAIN win[g] : win[g][n].sub = x
          BY <2>6
        <5>2. g \in 1..MaxMenus /\ x \in 1..MaxMenus /\ x # 0
          BY <1>1, <2>7, <4>1, <5>1
        <5>3. x > g
          BY <5>1, <5>2 DEF SubsUp
        <5>4. g >= h /\ g \in f[g - h]
          BY <3>2
        <5>5. /\ g - h \in 0..MaxMenus /\ (g - h) + 1 \in 1..MaxMenus /\ ((g - h) + 1) - 1 = g - h
              /\ (g - h) + 1 \in 0..MaxMenus /\ x - h \in 0..MaxMenus /\ (g - h) + 1 <= x - h
              /\ x >= h
          <6>1. \A M, a, y, z \in Nat :
                   z >= a /\ y > z /\ y <= M =>
                      /\ z - a \in 0..M /\ (z - a) + 1 \in 1..M /\ ((z - a) + 1) - 1 = z - a
                      /\ (z - a) + 1 \in 0..M /\ y - a \in 0..M /\ (z - a) + 1 <= y - a
                      /\ y >= a
            OBVIOUS
          <6>2. g \in Nat /\ x \in Nat /\ h \in Nat /\ x <= MaxMenus
            BY <1>1, <5>2
          <6> QED BY <1>1, <5>3, <5>4, <6>1, <6>2
        <5>6. x \in subs(f[g - h])
          BY <2>6, <5>1, <5>4
        <5>7. x \in f[(g - h) + 1]
          BY <2>5, <5>5, <5>6
        <5> QED BY <2>9, <5>5, <5>7
      <4> QED BY <3>2, <4>1, <4>2, <4>3
    <3> HIDE DEF T
    <3>3. \A d \in 0..MaxMenus : d \in T
      BY <1>1, <3>1, <3>2, UpTo
    <3> QED BY <3>3 DEF T
  <2>11. MaxMenus \in 0..MaxMenus
    BY <1>1
  <2>12. Menu!Below(h) \subseteq live
    BY <2>4, <2>7, <2>11
  <2>13. h \in live => h \in Menu!Below(h)
    <3>1. 0 \in 0..MaxMenus /\ 0 <= MaxMenus
      BY <1>1
    <3>2. h \in live => h \in f[0]
      BY <2>5 DEF A
    <3> QED BY <2>4, <2>9, <2>11, <3>1, <3>2
  <2>14. ASSUME NEW g \in Menu!Below(h), NEW n \in DOMAIN win[g], win[g][n].sub \in live
         PROVE  win[g][n].sub \in Menu!Below(h)
    <3> DEFINE x == win[g][n].sub
    <3>1. g \in 1..MaxMenus /\ x \in 1..MaxMenus /\ x # 0
      BY <1>1, <2>12, <2>14
    <3>2. x > g
      BY <3>1 DEF SubsUp
    <3>3. g >= h /\ g \in f[g - h]
      BY <2>4, <2>10, <2>11
    <3>4. /\ g - h \in 0..MaxMenus /\ (g - h) + 1 \in 1..MaxMenus /\ ((g - h) + 1) - 1 = g - h
          /\ (g - h) + 1 \in 0..MaxMenus /\ (g - h) + 1 <= MaxMenus
      BY <1>1, <3>1, <3>2, <3>3
    <3>5. x \in subs(f[g - h])
      BY <2>6, <2>14, <3>3
    <3>6. x \in f[(g - h) + 1]
      BY <2>5, <3>4, <3>5
    <3> QED BY <2>4, <2>9, <2>11, <3>4, <3>6
  <2>15. ASSUME NEW S, h \in live => h \in S,
                \A g \in S \cap live : \A n \in DOMAIN win[g] :
                   win[g][n].sub \in live => win[g][n].sub \in S
         PROVE  Menu!Below(h) \subseteq S
    <3> DEFINE T == {d \in 0..MaxMenus : f[d] \subseteq S}
    <3>1. 0 \in T
      BY <1>1, <2>5, <2>15 DEF A
    <3>2. ASSUME NEW d \in 0..MaxMenus - 1, d \in T PROVE d + 1 \in T
      <4>1. d + 1 \in 1..MaxMenus /\ (d + 1) - 1 = d /\ d + 1 \in 0..MaxMenus /\ d \in 0..MaxMenus
        BY <1>1
      <4>2. f[d + 1] = f[d] \cup subs(f[d])
        BY <2>5, <4>1
      <4>3. f[d] \subseteq S \cap live
        BY <2>7, <3>2, <4>1
      <4>4. subs(f[d]) \subseteq S
        BY <2>6, <2>15, <4>3
      <4> QED BY <4>1, <4>2, <4>3, <4>4
    <3> HIDE DEF T
    <3>3. \A d \in 0..MaxMenus : d \in T
      BY <1>1, <3>1, <3>2, UpTo
    <3> QED BY <2>4, <2>11, <3>3 DEF T
  <2> QED BY <2>12, <2>13, <2>14, <2>15
<1> QED BY <1>2, <1>3

-----------------------------------------------------------------------------
(* The invariant of the menu.                                              *)

\* The entries of menu h, one for item i among them; what visibleItems has.
MenuEntries(h) == Menu!Range(win[h])
Has(h, i) == h # 0 /\ \E e \in MenuEntries(h) : e.id = i
Lists(p, i) == In(visible[p], i)

\* i and all it is below have never been hidden.
Safe(i) ==
    \E S \in SUBSET Menu!Ids :
        i \in S /\ \A j \in S : hides[j] = "never" /\ (parent[j] = 0 \/ parent[j] \in S)

\* Groups of steps of a call.
Making == {"create", "attach", "record"}
Hanging == {"attach", "record"}
Placing == {"pos", "insert", "seppos", "sepinsert", "delvis"}
Separating == {"sepvis", "seppos", "sepinsert"}
Hiding == {"hide", "delete", "delvis"}
Adding == {"check", "set", "addvis", "pos", "insert", "own", "undo"}

\* The item of a call: whose it is, and what is known of it by then.
CallOK(c) ==
    /\ step[c] = "idle" <=> item[c] = 0
    /\ item[c] <= currentID
    /\ step[c] # "idle" =>
          /\ adder[item[c]] \in {c, Nobody}
          /\ Menu!Parent(c) # 0 => adder[Menu!Parent(c)] = c
    /\ step[c] \in Hiding => adder[item[c]] = c /\ hides[item[c]] = "hidden"
    /\ step[c] \in Separating => Menu!Parent(c) = 0 /\ adder[item[c]] = Nobody
    /\ step[c] \in Menu!Steps \ (Separating \cup {"store"}) => item[c] \in menuItems
CallsInv == \A c \in Callers : CallOK(c)

\* No two calls are about one item.
AloneInv == \A c, d \in Callers : item[c] # 0 /\ item[c] = item[d] => c = d

\* An item is below one that is older and has the same owner.
ItemsInv ==
    \A i \in Menu!Ids :
        /\ adder[i] # Nobody => i <= currentID /\ i \in menuItems
        /\ parent[i] < i
        /\ i > currentID => parent[i] = 0
        /\ parent[i] # 0 =>
              adder[parent[i]] # Nobody /\ adder[i] \in {adder[parent[i]], Nobody}

\* The menus that the library has: one for each parent, made after that it is below.
MenusInv ==
    /\ menus[0] = Menu!Root /\ Menu!Root \in live
    /\ \A p, q \in 0..MaxId : menus[p] # 0 /\ menus[p] = menus[q] => p = q
    /\ \A p \in 0..MaxId : menus[p] <= made
    /\ \A q \in Menu!Ids : menus[q] # 0 =>
          adder[q] # Nobody /\ menus[parent[q]] # 0 /\ menus[parent[q]] < menus[q]

\* The menu that a call has in hand.
HandleOK(c) ==
    /\ step[c] \in Making => Menu!Parent(c) # 0 /\ menus[Menu!Parent(c)] = 0
    /\ step[c] \in Hanging =>
          handle[c] \in live /\ handle[c] > menus[parent[Menu!Parent(c)]]
          /\ \A p \in 0..MaxId : menus[p] # handle[c]
    /\ step[c] \in Adding \cup {"delete", "delvis", "sepinsert"}
          => handle[c] = menus[Menu!Parent(c)]
    /\ step[c] \in Adding => handle[c] # 0
    /\ step[c] = "undo" => handle[c] \notin live
HandleInv == \A c \in Callers : HandleOK(c)

\* No two calls have made the same menu.
NewInv ==
    \A c, d \in Callers :
        step[c] \in Hanging /\ step[d] \in Hanging /\ handle[c] = handle[d] => c = d

\* An entry has its own sub-menu, or the one its item is about to get.
SubInv(e, h) ==
    /\ e.sub > h
    /\ \/ menus[e.id] = e.sub
       \/ \E c \in Callers : step[c] = "record" /\ Menu!Parent(c) = e.id /\ handle[c] = e.sub

OwnEntryInv ==
    \A h \in 1..MaxMenus : \A e \in MenuEntries(h) :
        /\ menus[parent[e.id]] = h /\ e.id <= currentID
        /\ e.sub # 0 => SubInv(e, h)
        /\ e.type = "string" => e.id \in menuItems

OnceInv == \A h \in 1..MaxMenus : Distinct(Menu!MenuIds(h))

\* Menu h hangs below the entry of item q.
Leads(q, h) ==
    /\ menus[parent[q]] \in live
    /\ \E e \in MenuEntries(menus[parent[q]]) : e.id = q /\ e.sub = h

LeadsInv ==
    /\ \A q \in Menu!Ids : menus[q] \in live => Leads(q, menus[q])
    /\ \A c \in Callers : step[c] = "record" => Leads(Menu!Parent(c), handle[c])

\* visibleItems is in order, and has an item under its parent only.
VisibleInv ==
    \A p \in 0..MaxId :
        /\ menus[p] = 0 => visible[p] = << >>
        /\ Rising(visible[p])
        /\ \A i \in Menu!Ids : Lists(p, i) => parent[i] = p /\ i <= currentID

\* The books on a menu that has not been destroyed.
MirrorInv ==
    \A p \in 0..MaxId : menus[p] \in live =>
        /\ Distinct(visible[p])
        /\ \A i \in Menu!Ids : Has(menus[p], i) => Lists(p, i)
        /\ \A i \in Menu!Ids : Lists(p, i) =>
              Has(menus[p], i) \/ \E c \in Callers : item[c] = i /\ step[c] \in Placing

\* What a call knows of visibleItems and of the menu is still so.
CallerOK(c) ==
    step[c] # "idle" =>
        /\ step[c] = "set" => Lists(Menu!Parent(c), item[c])
        /\ menus[Menu!Parent(c)] \in live =>
              /\ step[c] \in {"addvis", "sepvis"} => ~Lists(Menu!Parent(c), item[c])
              /\ step[c] \in Placing => Lists(Menu!Parent(c), item[c])
                    /\ ~Has(menus[Menu!Parent(c)], item[c])
              /\ step[c] = "own" => Has(menus[Menu!Parent(c)], item[c])
CallerInv == \A c \in Callers : CallerOK(c)

\* The order of the entries, with no call at p that is about to change it ...
RestInv ==
    \A p \in 0..MaxId :
        Menu!Sole(p) /\ menus[p] \in live
              /\ (\A c \in Callers : step[c] \in Placing => Menu!Parent(c) # p)
            => Menu!MenuIds(menus[p]) = visible[p]

\* ... and with one.
PlaceOK(c) ==
    step[c] \in Placing /\ Menu!Sole(Menu!Parent(c)) /\ menus[Menu!Parent(c)] \in live =>
        /\ Menu!MenuIds(menus[Menu!Parent(c)])
              = Menu!RemoveAt(visible[Menu!Parent(c)], Menu!Index(c))
        /\ step[c] \in {"insert", "sepinsert"} => pos[c] = Menu!Index(c)
PlaceInv == \A c \in Callers : PlaceOK(c)

\* A menu that is gone was that of an item that was hidden, or below one.
LostInv == \A q \in Menu!Ids : menus[q] # 0 /\ menus[q] \notin live => ~Safe(q)

\* Item i is in its menu.
Seen(i) == Has(menus[parent[i]], i)

\* What was added is in its menu, and menuOf says in which.
SeenInv ==
    \A i \in Menu!Ids :
        /\ adder[i] # Nobody /\ Seen(i) =>
              menuOf[i] = menus[parent[i]] \/ \E c \in Callers : item[c] = i /\ step[c] = "own"
        /\ adder[i] # Nobody /\ hides[i] # "hidden" /\ (\A c \in Callers : item[c] # i) =>
              Seen(i) \/ (parent[i] # 0 /\ ~Safe(parent[i]))

\* An item that is being added has no entry yet.
FreshInv ==
    \A c \in Callers :
        step[c] \notin {"idle", "own"} /\ adder[item[c]] = Nobody => ~Seen(item[c])

\* All of it but FreshInv, which says nothing of most steps.
MenuInv ==
    /\ Menu!TypeOK /\ CallsInv /\ AloneInv /\ ItemsInv /\ MenusInv /\ HandleInv /\ NewInv
    /\ OwnEntryInv /\ OnceInv /\ LeadsInv /\ VisibleInv /\ MirrorInv /\ CallerInv
    /\ RestInv /\ PlaceInv /\ LostInv /\ SeenInv

-----------------------------------------------------------------------------
(* Steps that change nothing but where a call is.                          *)

\* The constants.
LEMMA MenuNumbers ==
  ASSUME Menu!MenuAssumption
  PROVE  /\ Menu!Ids = 1..MaxId /\ MaxId \in Nat /\ MaxMenus \in Nat /\ MaxMenus # 0
         /\ Nobody \notin Callers /\ 0 \notin Menu!Ids /\ Menu!Root = 1
  BY DEF Menu!MenuAssumption, Menu!Ids, Menu!Root

\* A call that is under way is about an item.
LEMMA CallFacts ==
  ASSUME Menu!MenuAssumption, Menu!TypeOK, CallsInv, NEW c \in Callers, step[c] # "idle"
  PROVE  item[c] \in Menu!Ids /\ Menu!Parent(c) \in 0..MaxId
<1>1. item[c] \in 0..MaxId /\ item[c] # 0
  BY DEF Menu!TypeOK, CallsInv, CallOK
<1>2. item[c] \in Menu!Ids
  BY <1>1, MenuNumbers
<1> QED BY <1>2 DEF Menu!TypeOK, Menu!Parent

\* No two calls add to a menu that only one goroutine adds to.
LEMMA SoleCaller ==
  ASSUME Menu!MenuAssumption, Private, MenuInv, NEW c \in Callers, NEW d \in Callers,
         step[c] # "idle", step[d] # "idle", Menu!Parent(c) = Menu!Parent(d),
         Menu!Sole(Menu!Parent(c))
  PROVE  c = d
<1>1. Menu!Parent(c) # 0 => adder[Menu!Parent(c)] = c /\ adder[Menu!Parent(c)] = d
  BY DEF MenuInv, CallsInv, CallOK
<1> QED BY <1>1 DEF Menu!Sole

\* What a step of one call changes that changes no state but its own.
Local(c) ==
    /\ \A d \in Callers \ {c} : step'[d] = step[d] /\ handle'[d] = handle[d] /\ pos'[d] = pos[d]
    /\ menuItems \subseteq menuItems'
    /\ UNCHANGED <<item, currentID, parent, menus, menuOf, visible, win, live, made, adder, hides>>

\* It keeps the invariant if the caller that takes it is all right after it.
LEMMA LocalStep ==
  ASSUME Menu!MenuAssumption, Private, MenuInv, Menu!TypeOK', NEW c \in Callers, Local(c),
         step[c] \notin {"idle", "attach", "record", "own"},
         step'[c] \notin {"idle", "attach", "record", "own"},
         menus[Menu!Parent(c)] \in live => (step[c] \in Placing <=> step'[c] \in Placing),
         CallOK(c)', HandleOK(c)', CallerOK(c)', PlaceOK(c)'
  PROVE  MenuInv'
<1> DEFINE P(d) == parent[item[d]]
<1>1. \A d \in Callers \ {c} : step'[d] = step[d] /\ handle'[d] = handle[d] /\ pos'[d] = pos[d]
  BY DEF Local
<1>2. /\ item' = item /\ currentID' = currentID /\ parent' = parent /\ menus' = menus
      /\ menuOf' = menuOf /\ visible' = visible /\ win' = win /\ live' = live
      /\ made' = made /\ adder' = adder /\ hides' = hides /\ menuItems \subseteq menuItems'
  BY DEF Local
<1>3. \A d \in Callers : Menu!Parent(d)' = Menu!Parent(d) /\ Menu!Index(d)' = Menu!Index(d)
  BY <1>2 DEF Menu!Parent, Menu!Index
<1>4. \A h : MenuEntries(h)' = MenuEntries(h) /\ Menu!MenuIds(h)' = Menu!MenuIds(h)
  BY <1>2 DEF MenuEntries, Menu!MenuIds
<1>5. /\ \A h, i : Has(h, i)' = Has(h, i)
      /\ \A p, i : Lists(p, i)' = Lists(p, i)
      /\ \A p : Menu!Sole(p)' = Menu!Sole(p)
      /\ \A i : Safe(i)' = Safe(i)
  BY <1>2, <1>4 DEF Has, Lists, Menu!Sole, Safe
<1>6. CallsInv'
  <2>1. \A d \in Callers \ {c} : CallOK(d)'
    BY <1>1, <1>2, <1>3 DEF MenuInv, CallsInv, CallOK
  <2> QED BY <2>1 DEF CallsInv
<1>7. HandleInv'
  <2>1. \A d \in Callers \ {c} : HandleOK(d)'
    BY <1>1, <1>2, <1>3 DEF MenuInv, HandleInv, HandleOK
  <2> QED BY <2>1 DEF HandleInv
<1>8. CallerInv'
  <2>1. \A d \in Callers \ {c} : CallerOK(d)'
    BY <1>1, <1>2, <1>3, <1>5 DEF MenuInv, CallerInv, CallerOK
  <2> QED BY <2>1 DEF CallerInv
<1>9. PlaceInv'
  <2>1. \A d \in Callers \ {c} : PlaceOK(d)'
    BY <1>1, <1>2, <1>3, <1>4, <1>5 DEF MenuInv, PlaceInv, PlaceOK
  <2> QED BY <2>1 DEF PlaceInv
<1>10. AloneInv' /\ ItemsInv' /\ MenusInv'
  BY <1>2 DEF MenuInv, AloneInv, ItemsInv, MenusInv
<1>11. NewInv'
  BY <1>1 DEF MenuInv, NewInv, Hanging
<1>12. OwnEntryInv'
  <2>1. \A e, h : SubInv(e, h) => SubInv(e, h)'
    BY <1>1, <1>2, <1>3 DEF SubInv
  <2> QED BY <1>2, <1>4, <2>1 DEF MenuInv, OwnEntryInv
<1>13. OnceInv'
  BY <1>4 DEF MenuInv, OnceInv, Distinct
<1>14. LeadsInv'
  BY <1>1, <1>2, <1>3, <1>4 DEF MenuInv, LeadsInv, Leads
<1>15. VisibleInv'
  BY <1>2, <1>5 DEF MenuInv, VisibleInv, Rising
<1>16. MirrorInv'
  <2>1. SUFFICES ASSUME NEW p \in 0..MaxId, menus[p] \in live, NEW i \in Menu!Ids, Lists(p, i),
                        ~Has(menus[p], i)
                 PROVE  \E d \in Callers : item[d] = i /\ step'[d] \in Placing
    BY <1>2, <1>5 DEF MenuInv, MirrorInv, Distinct
  <2>2. PICK d \in Callers : item[d] = i /\ step[d] \in Placing
    BY <2>1 DEF MenuInv, MirrorInv
  <2>3. parent[i] = p
    BY <2>1 DEF MenuInv, VisibleInv
  <2> QED BY <1>1, <2>1, <2>2, <2>3 DEF Menu!Parent
<1>17. RestInv'
  <2>1. SUFFICES ASSUME NEW p \in 0..MaxId, Menu!Sole(p), menus[p] \in live,
                        \A d \in Callers : step'[d] \in Placing => Menu!Parent(d) # p
                 PROVE  Menu!MenuIds(menus[p]) = visible[p]
    BY <1>2, <1>3, <1>4, <1>5 DEF RestInv
  <2>2. \A d \in Callers : step[d] \in Placing => Menu!Parent(d) # p
    BY <1>1, <2>1
  <2> QED BY <2>1, <2>2 DEF MenuInv, RestInv
<1>18. LostInv'
  BY <1>2, <1>5 DEF MenuInv, LostInv
<1>19. SeenInv'
  <2>1. \A i : Seen(i)' = Seen(i)
    BY <1>2, <1>5 DEF Seen
  <2>2. \A d \in Callers : step[d] = "own" => step'[d] = "own"
    BY <1>1
  <2> QED BY <1>2, <1>5, <2>1, <2>2 DEF MenuInv, SeenInv
<1> QED BY <1>6, <1>7, <1>8, <1>9, <1>10, <1>11, <1>12, <1>13, <1>14, <1>15, <1>16, <1>17,
           <1>18, <1>19 DEF MenuInv

-----------------------------------------------------------------------------
(* visibleItems, and the looks at it.                                      *)

\* Where the item of a call is in visibleItems.
LEMMA Indexes ==
  \A v \in Seq(Nat), i \in Nat :
     LET k == IF \E n \in DOMAIN v : v[n] = i
              THEN CHOOSE n \in DOMAIN v : v[n] = i /\ \A m \in 1..n - 1 : v[m] # i
              ELSE 0
     IN /\ k \in Nat
        /\ In(v, i) => k \in DOMAIN v /\ v[k] = i
        /\ ~In(v, i) => k = 0
<1> SUFFICES ASSUME NEW v \in Seq(Nat), NEW i \in Nat
             PROVE  LET k == IF \E n \in DOMAIN v : v[n] = i
                             THEN CHOOSE n \in DOMAIN v : v[n] = i /\ \A m \in 1..n - 1 : v[m] # i
                             ELSE 0
                    IN k \in Nat /\ (In(v, i) => k \in DOMAIN v /\ v[k] = i) /\ (~In(v, i) => k = 0)
  OBVIOUS
<1>1. DOMAIN v = 1..Len(v) /\ Len(v) \in Nat
  OBVIOUS
<1>2. CASE In(v, i)
  <2> DEFINE T == {n \in DOMAIN v : v[n] = i}
             F(n) == v[n] = i /\ \A m \in 1..n - 1 : v[m] # i
             k == CHOOSE n \in DOMAIN v : F(n)
  <2>1. T \in SUBSET Nat /\ T # {}
    BY <1>1, <1>2 DEF In
  <2> HIDE DEF T
  <2>2. PICK n \in T : \A m \in T : n <= m
    BY <2>1, Least
  <2>3. n \in DOMAIN v /\ v[n] = i
    BY DEF T
  <2>4. ASSUME NEW m \in 1..n - 1 PROVE v[m] # i
    <3>1. m \in DOMAIN v /\ ~ n <= m
      BY <1>1, <2>3
    <3> QED BY <2>2, <3>1 DEF T
  <2>5. F(n)
    BY <2>3, <2>4
  <2>6. k \in DOMAIN v /\ F(k)
    <3> HIDE DEF F
    <3> QED BY <2>3, <2>5
  <2> QED BY <1>1, <1>2, <2>6 DEF In
<1>3. CASE ~In(v, i)
  BY <1>3 DEF In
<1> QED BY <1>2, <1>3

\* The ids of visibleItems are numbers.
LEMMA VisibleTypes ==
  ASSUME Menu!MenuAssumption, Menu!TypeOK, NEW p \in 0..MaxId
  PROVE  visible[p] \in Seq(Nat) /\ visible[p] \in Seq(Menu!Ids)
<1>0. Menu!Ids \in SUBSET Nat
  BY MenuNumbers
<1>1. visible[p] \in Seq(Menu!Ids)
  BY DEF Menu!TypeOK
<1>2. ASSUME NEW S \in SUBSET Nat, NEW s \in Seq(S) PROVE s \in Seq(Nat)
  <2>1. s = [n \in 1..Len(s) |-> s[n]] /\ Len(s) \in Nat /\ \A n \in 1..Len(s) : s[n] \in Nat
    OBVIOUS
  <2> QED BY <2>1
<1> QED BY <1>0, <1>1, <1>2

\* getVisibleItemIndex finds the item if it is there.
LEMMA IndexIs ==
  ASSUME Menu!MenuAssumption, Menu!TypeOK, CallsInv, NEW c \in Callers, step[c] # "idle"
  PROVE  LET v == visible[Menu!Parent(c)] IN
         /\ Menu!Index(c) \in Nat
         /\ Lists(Menu!Parent(c), item[c])
               => Menu!Index(c) \in DOMAIN v /\ v[Menu!Index(c)] = item[c]
         /\ ~Lists(Menu!Parent(c), item[c]) => Menu!Index(c) = 0
<1>1. item[c] \in Nat /\ visible[Menu!Parent(c)] \in Seq(Nat)
  BY CallFacts, VisibleTypes, MenuNumbers
<1> QED BY <1>1, Indexes DEF Menu!Index, Lists

\* The steps of addOrUpdateMenuItem that only look, or only enter the item.
LEMMA StoreStep ==
  ASSUME Menu!MenuAssumption, Private, MenuInv, Menu!TypeOK', NEW c \in Callers, Menu!Store(c)
  PROVE  MenuInv'
<1>1. step[c] = "store" /\ step'[c] = "lookup" /\ Local(c) /\ item[c] \in menuItems'
  BY DEF MenuInv, Menu!Store, Menu!At, Menu!Goto, Menu!Put, Local, Menu!trayVars,
     Menu!winVars, Menu!TypeOK
<1>2. Menu!Parent(c)' = Menu!Parent(c)
  BY <1>1 DEF Local, Menu!Parent
<1>3. CallOK(c)'
  BY <1>1, <1>2 DEF MenuInv, CallsInv, CallOK, Local, Hiding, Separating
<1>4. HandleOK(c)' /\ CallerOK(c)' /\ PlaceOK(c)'
  BY <1>1 DEF HandleOK, CallerOK, PlaceOK, Making, Hanging, Adding, Placing
<1> QED BY <1>1, <1>3, <1>4, LocalStep DEF Placing

\* The menu of the parent, if it has one.
LEMMA LookupStep ==
  ASSUME Menu!MenuAssumption, Private, MenuInv, Menu!TypeOK', NEW c \in Callers, Menu!Lookup(c)
  PROVE  MenuInv'
<1>1. /\ step[c] = "lookup" /\ step'[c] = (IF handle'[c] = 0 THEN "create" ELSE "check")
      /\ handle'[c] = menus[Menu!Parent(c)] /\ Local(c)
  BY DEF MenuInv, Menu!Lookup, Menu!At, Menu!Goto, Menu!Put, Local, Menu!trayVars,
     Menu!winVars, Menu!TypeOK
<1>2. Menu!Parent(c)' = Menu!Parent(c)
  BY <1>1 DEF Local, Menu!Parent
<1>3. CallOK(c)'
  BY <1>1, <1>2 DEF MenuInv, CallsInv, CallOK, Local, Hiding, Separating, Menu!Steps
<1>4. Menu!Parent(c) = 0 => menus[Menu!Parent(c)] # 0
  BY MenuNumbers DEF MenuInv, MenusInv
<1>5. HandleOK(c)'
  BY <1>1, <1>2, <1>4 DEF HandleOK, Local, Making, Hanging, Adding
<1>6. CallerOK(c)' /\ PlaceOK(c)'
  BY <1>1 DEF CallerOK, PlaceOK, Placing
<1> QED BY <1>1, <1>3, <1>5, <1>6, LocalStep DEF Placing

\* The item is in visibleItems, or it is not.
LEMMA CheckStep ==
  ASSUME Menu!MenuAssumption, Private, MenuInv, Menu!TypeOK', NEW c \in Callers, Menu!Check(c)
  PROVE  MenuInv'
<1>1. /\ step[c] = "check" /\ step'[c] = (IF Menu!Index(c) = 0 THEN "addvis" ELSE "set")
      /\ handle'[c] = handle[c] /\ Local(c)
  BY DEF MenuInv, Menu!Check, Menu!At, Menu!Goto, Menu!Put, Local, Menu!trayVars,
     Menu!winVars, Menu!TypeOK
<1>2. Menu!Parent(c)' = Menu!Parent(c) /\ \A p, i : Lists(p, i)' = Lists(p, i)
  BY <1>1 DEF Local, Menu!Parent, Lists
<1>3. CallOK(c)'
  BY <1>1, <1>2 DEF MenuInv, CallsInv, CallOK, Local, Hiding, Separating, Menu!Steps
<1>4. HandleOK(c)'
  BY <1>1, <1>2 DEF MenuInv, HandleInv, HandleOK, Local, Making, Hanging, Adding
<1>5. Menu!Index(c) = 0 <=> ~Lists(Menu!Parent(c), item[c])
  <2>1. 0 \notin DOMAIN visible[Menu!Parent(c)]
    BY <1>1, CallFacts, VisibleTypes DEF MenuInv
  <2> QED BY <1>1, <2>1, IndexIs DEF MenuInv
<1>6. item'[c] = item[c]
  BY <1>1 DEF Local
<1>7. CallerOK(c)' /\ PlaceOK(c)'
  BY <1>1, <1>2, <1>5, <1>6 DEF CallerOK, PlaceOK, Placing
<1> QED BY <1>1, <1>3, <1>4, <1>7, LocalStep DEF Placing

\* The place among the visible items.
LEMMA PositionStep ==
  ASSUME Menu!MenuAssumption, Private, MenuInv, Menu!TypeOK', NEW c \in Callers, Menu!Position(c)
  PROVE  MenuInv'
<1>1. /\ step[c] = "pos" /\ step'[c] = "insert"
      /\ handle'[c] = handle[c] /\ pos'[c] = Menu!Index(c) /\ Local(c)
  BY DEF MenuInv, Menu!Position, Menu!At, Menu!Goto, Menu!Put, Local, Menu!trayVars,
     Menu!winVars, Menu!TypeOK
<1>2. /\ Menu!Parent(c)' = Menu!Parent(c) /\ item'[c] = item[c] /\ Menu!Index(c)' = Menu!Index(c)
      /\ \A p, i : Lists(p, i)' = Lists(p, i)
      /\ \A h, i : Has(h, i)' = Has(h, i)
      /\ \A h : Menu!MenuIds(h)' = Menu!MenuIds(h)
      /\ \A p : Menu!Sole(p)' = Menu!Sole(p)
      /\ menus' = menus /\ live' = live /\ visible' = visible
  BY <1>1 DEF Local, Menu!Parent, Lists, Menu!Index, Has, Menu!MenuIds, Menu!Sole, MenuEntries
<1>3. CallOK(c)'
  BY <1>1, <1>2 DEF MenuInv, CallsInv, CallOK, Local, Hiding, Separating, Menu!Steps
<1>4. HandleOK(c)'
  BY <1>1, <1>2 DEF MenuInv, HandleInv, HandleOK, Local, Making, Hanging, Adding
<1>5. CallerOK(c)'
  BY <1>1, <1>2 DEF MenuInv, CallerInv, CallerOK, Placing
<1>6. PlaceOK(c)'
  BY <1>1, <1>2 DEF MenuInv, PlaceInv, PlaceOK, Placing
<1> QED BY <1>1, <1>3, <1>4, <1>5, <1>6, LocalStep DEF Placing

\* The same for a separator.
LEMMA SeparatorPositionStep ==
  ASSUME Menu!MenuAssumption, Private, MenuInv, Menu!TypeOK', NEW c \in Callers,
         Menu!SeparatorPosition(c)
  PROVE  MenuInv'
<1>1. /\ step[c] = "seppos" /\ step'[c] = "sepinsert"
      /\ handle'[c] = menus[0] /\ pos'[c] = Menu!Index(c) /\ Local(c)
  BY DEF MenuInv, Menu!SeparatorPosition, Menu!At, Menu!Goto, Menu!Put, Local, Menu!trayVars,
     Menu!winVars, Menu!TypeOK
<1>2. /\ Menu!Parent(c)' = Menu!Parent(c) /\ item'[c] = item[c] /\ Menu!Index(c)' = Menu!Index(c)
      /\ \A p, i : Lists(p, i)' = Lists(p, i)
      /\ \A h, i : Has(h, i)' = Has(h, i)
      /\ \A h : Menu!MenuIds(h)' = Menu!MenuIds(h)
      /\ \A p : Menu!Sole(p)' = Menu!Sole(p)
      /\ menus' = menus /\ live' = live /\ visible' = visible
  BY <1>1 DEF Local, Menu!Parent, Lists, Menu!Index, Has, Menu!MenuIds, Menu!Sole, MenuEntries
<1>3. CallOK(c)' /\ Menu!Parent(c) = 0
  BY <1>1, <1>2 DEF MenuInv, CallsInv, CallOK, Local, Hiding, Separating, Menu!Steps
<1>4. HandleOK(c)'
  BY <1>1, <1>2, <1>3 DEF HandleOK, Local, Making, Hanging, Adding
<1>5. CallerOK(c)'
  BY <1>1, <1>2 DEF MenuInv, CallerInv, CallerOK, Placing
<1>6. PlaceOK(c)'
  BY <1>1, <1>2 DEF MenuInv, PlaceInv, PlaceOK, Placing
<1> QED BY <1>1, <1>3, <1>4, <1>5, <1>6, LocalStep DEF Placing

\* The look that hideMenuItem takes.
LEMMA HideLookupStep ==
  ASSUME Menu!MenuAssumption, Private, MenuInv, Menu!TypeOK', NEW c \in Callers, Menu!HideLookup(c)
  PROVE  MenuInv'
<1>1. /\ step[c] = "hide" /\ step'[c] = "delete" /\ handle'[c] = menus[Menu!Parent(c)] /\ Local(c)
  BY DEF MenuInv, Menu!HideLookup, Menu!At, Menu!Goto, Menu!Put, Local, Menu!trayVars,
     Menu!winVars, Menu!TypeOK
<1>2. Menu!Parent(c)' = Menu!Parent(c) /\ item'[c] = item[c]
  BY <1>1 DEF Local, Menu!Parent
<1>3. item[c] \in menuItems
  <2>1. item[c] \in Menu!Ids /\ adder[item[c]] = c
    BY <1>1, CallFacts DEF MenuInv, CallsInv, CallOK, Hiding
  <2> QED BY <2>1, MenuNumbers DEF MenuInv, ItemsInv
<1>4. CallOK(c)'
  BY <1>1, <1>2, <1>3 DEF MenuInv, CallsInv, CallOK, Local, Hiding, Separating, Menu!Steps
<1>5. HandleOK(c)'
  BY <1>1, <1>2 DEF HandleOK, Local, Making, Hanging, Adding
<1>6. CallerOK(c)' /\ PlaceOK(c)'
  BY <1>1 DEF CallerOK, PlaceOK, Placing
<1> QED BY <1>1, <1>4, <1>5, <1>6, LocalStep DEF Placing

-----------------------------------------------------------------------------
(* Where Windows finds an item.                                            *)

\* The sub-menus lead upwards, so that Below is what it seems.
LEMMA MenusBelow ==
  ASSUME Menu!MenuAssumption, MenuInv, NEW h \in 0..MaxMenus
  PROVE  /\ Menu!Below(h) \subseteq live
         /\ h \in live => h \in Menu!Below(h)
         /\ \A g \in Menu!Below(h) : \A e \in MenuEntries(g) : e.sub \in live
               => e.sub \in Menu!Below(h)
         /\ \A S : /\ h \in live => h \in S
                   /\ \A g \in S \cap live : \A e \in MenuEntries(g) : e.sub \in live => e.sub \in S
                   => Menu!Below(h) \subseteq S
<1>1. SubsUp
  BY DEF MenuInv, OwnEntryInv, SubInv, MenuEntries, Menu!Range, SubsUp
<1>2. \A g : /\ \A n \in DOMAIN win[g] : win[g][n] \in MenuEntries(g)
             /\ \A e \in MenuEntries(g) : \E n \in DOMAIN win[g] : win[g][n] = e
  BY DEF MenuEntries, Menu!Range
<1>3. /\ Menu!Below(h) \subseteq live
      /\ h \in live => h \in Menu!Below(h)
      /\ \A g \in Menu!Below(h) : \A n \in DOMAIN win[g] :
            win[g][n].sub \in live => win[g][n].sub \in Menu!Below(h)
      /\ \A S : /\ h \in live => h \in S
                /\ \A g \in S \cap live : \A n \in DOMAIN win[g] :
                      win[g][n].sub \in live => win[g][n].sub \in S
                => Menu!Below(h) \subseteq S
  BY <1>1, BelowIs DEF MenuInv
<1>4. \A g \in Menu!Below(h) : \A e \in MenuEntries(g) : e.sub \in live => e.sub \in Menu!Below(h)
  BY <1>2, <1>3
<1>5. ASSUME NEW S, h \in live => h \in S,
             \A g \in S \cap live : \A e \in MenuEntries(g) : e.sub \in live => e.sub \in S
      PROVE  Menu!Below(h) \subseteq S
  <2>1. \A g \in S \cap live : \A n \in DOMAIN win[g] :
           win[g][n].sub \in live => win[g][n].sub \in S
    BY <1>2, <1>5
  <2> QED BY <1>3, <1>5, <2>1
<1> QED BY <1>3, <1>4, <1>5

\* Nothing is below no menu.
LEMMA NoMenu == Menu!Below(0) = {}
  BY DEF Menu!Below

\* Looking for an item from a menu: a place is an entry of it, and if the menu
\* itself has one there is a place.
LEMMA PlacesIs ==
  ASSUME Menu!MenuAssumption, MenuInv, NEW h \in 0..MaxMenus, NEW i \in Menu!Ids
  PROVE  /\ \A p \in Menu!Places(h, i) :
               /\ p[1] \in live /\ p[1] \in 1..MaxMenus /\ p[2] \in DOMAIN win[p[1]]
               /\ win[p[1]][p[2]] \in MenuEntries(p[1])
               /\ win[p[1]][p[2]].id = i /\ p[1] = menus[parent[i]]
         /\ h \in live /\ Has(h, i) => Menu!Places(h, i) # {}
<1>1. live \subseteq 1..MaxMenus /\ 0 \notin live
  BY MenuNumbers DEF MenuInv, Menu!TypeOK
<1>2. ASSUME NEW p \in Menu!Places(h, i)
      PROVE  /\ p[1] \in live /\ p[1] \in 1..MaxMenus /\ p[2] \in DOMAIN win[p[1]]
             /\ win[p[1]][p[2]] \in MenuEntries(p[1])
             /\ win[p[1]][p[2]].id = i /\ p[1] = menus[parent[i]]
  <2>1. p[1] \in Menu!Below(h) /\ p[2] \in DOMAIN win[p[1]] /\ win[p[1]][p[2]].id = i
    BY DEF Menu!Places
  <2>2. p[1] \in live /\ p[1] \in 1..MaxMenus
    BY <1>1, <2>1, MenusBelow
  <2>3. win[p[1]][p[2]] \in MenuEntries(p[1])
    BY <2>1 DEF MenuEntries, Menu!Range
  <2> QED BY <2>1, <2>2, <2>3 DEF MenuInv, OwnEntryInv
<1>3. ASSUME h \in live, Has(h, i) PROVE Menu!Places(h, i) # {}
  <2>1. PICK n \in DOMAIN win[h] : win[h][n].id = i
    BY <1>3 DEF Has, MenuEntries, Menu!Range
  <2>2. h \in Menu!Below(h) /\ h \in 1..MaxMenus
    BY <1>1, <1>3, MenusBelow
  <2>3. <<h, n>> \in Menu!Places(h, i)
    BY <2>1, <2>2 DEF Menu!Places
  <2> QED BY <2>3
<1> QED BY <1>2, <1>3

-----------------------------------------------------------------------------
(* Types.                                                                  *)

\* Types after the beginning of a call that makes an item ...
LEMMA NewTypes ==
  ASSUME Menu!MenuAssumption, MenuInv, NEW c \in Callers, NEW op, NEW par \in 0..MaxId,
         NEW to \in Menu!Steps, Menu!New(c, op, par, to)
  PROVE  Menu!TypeOK'
<1>1. currentID + 1 \in Menu!Ids /\ currentID + 1 \in 0..MaxId /\ 0..MaxId \subseteq Int
  BY MenuNumbers DEF Menu!New, MenuInv, Menu!TypeOK
<1> QED BY <1>1 DEF MenuInv, Menu!TypeOK, Menu!New, Menu!Goto, Menu!Put, Menu!winVars

\* ... and of one about an item that there is.
LEMMA OnTypes ==
  ASSUME Menu!MenuAssumption, MenuInv, NEW c \in Callers, NEW op, NEW i \in Menu!Ids,
         NEW to \in Menu!Steps, Menu!On(c, op, i, to),
         hides' \in [Menu!Ids -> {"never", "hidden", "shown"}]
  PROVE  Menu!TypeOK'
<1>1. i \in 0..MaxId
  BY MenuNumbers
<1> QED BY <1>1 DEF MenuInv, Menu!TypeOK, Menu!On, Menu!Goto, Menu!Put, Menu!winVars,
   Menu!trayVars

\* The entry a call puts into a menu.
LEMMA EntryType ==
  ASSUME Menu!MenuAssumption, NEW i \in Menu!Ids, NEW t \in {"string", "separator"}
  PROVE  [id |-> i, type |-> t, sub |-> 0] \in Menu!Entry
<1>1. 0 \in 0..MaxMenus
  BY MenuNumbers
<1> QED BY <1>1 DEF Menu!Entry

\* The menus of Windows after an insertion ...
LEMMA InsertTypes ==
  ASSUME Menu!MenuAssumption, MenuInv, NEW c \in Callers, step[c] # "idle",
         NEW t \in {"string", "separator"}, handle[c] # 0, Menu!Insert(c, t)
  PROVE  win' \in [1..MaxMenus -> Seq(Menu!Entry)]
<1>1. handle[c] \in 1..MaxMenus /\ win[handle[c]] \in Seq(Menu!Entry) /\ pos[c] \in Nat
  BY MenuNumbers DEF MenuInv, Menu!TypeOK
<1>2. item[c] \in Menu!Ids
  BY CallFacts DEF MenuInv
<1> DEFINE e == [id |-> item[c], type |-> t, sub |-> 0]
<1>3. e \in Menu!Entry
  BY <1>2, EntryType
<1> HIDE DEF e
<1>4. Menu!WithEntry(win[handle[c]], pos[c], e) \in Seq(Menu!Entry)
  BY <1>1, <1>3, Inserts
<1>5. win' = [win EXCEPT ![handle[c]] = Menu!WithEntry(win[handle[c]], pos[c], e)]
  BY DEF Menu!Insert, Menu!Put, e
<1> QED BY <1>1, <1>4, <1>5 DEF MenuInv, Menu!TypeOK

\* ... and visibleItems.
LEMMA VisibleType ==
  ASSUME Menu!MenuAssumption, MenuInv, NEW c \in Callers, step[c] # "idle",
         visible' = Menu!Put(visible, Menu!Parent(c),
               Menu!Sort(Append(visible[Menu!Parent(c)], item[c])))
  PROVE  visible' \in [0..MaxId -> Seq(Menu!Ids)]
<1> DEFINE v == visible[Menu!Parent(c)]
           w == Menu!Sort(Append(v, item[c]))
<1>1. item[c] \in Menu!Ids /\ Menu!Parent(c) \in 0..MaxId /\ item[c] \in Nat
  BY CallFacts, MenuNumbers DEF MenuInv
<1>2. v \in Seq(Nat) /\ v \in Seq(Menu!Ids) /\ Rising(v)
  BY <1>1, VisibleTypes DEF MenuInv, VisibleInv
<1>3. w \in Seq(Nat) /\ \A x : In(w, x) <=> In(v, x) \/ x = item[c]
  BY <1>1, <1>2, Sorts
<1> HIDE DEF w
<1>4. \A n \in DOMAIN w : w[n] \in Menu!Ids
  <2>1. \A x : In(v, x) => x \in Menu!Ids
    <3>1. \A n \in DOMAIN v : v[n] \in Menu!Ids
      BY <1>2
    <3> HIDE DEF v
    <3> QED BY <3>1 DEF In
  <2>2. \A n \in DOMAIN w : In(w, w[n])
    BY DEF In
  <2> QED BY <1>1, <1>3, <2>1, <2>2
<1>5. w \in Seq(Menu!Ids)
  BY <1>3, <1>4
<1>6. visible' = [visible EXCEPT ![Menu!Parent(c)] = w]
  BY DEF Menu!Put, w
<1> QED BY <1>1, <1>5, <1>6 DEF MenuInv, Menu!TypeOK

\* The local variables of a call that is over ...
LEMMA LeaveTypes ==
  ASSUME Menu!MenuAssumption, MenuInv, NEW c \in Callers, Menu!Leave(c)
  PROVE  /\ step' \in [Callers -> {"idle"} \cup Menu!Steps]
         /\ item' \in [Callers -> 0..MaxId] /\ handle' \in [Callers -> 0..MaxMenus]
         /\ pos' \in [Callers -> Nat]
<1>1. 0 \in 0..MaxId /\ 0 \in 0..MaxMenus
  BY MenuNumbers
<1> QED BY <1>1 DEF MenuInv, Menu!TypeOK, Menu!Leave, Menu!Goto, Menu!Put

\* ... and the owner of its item.
LEMMA ReturnTypes ==
  ASSUME Menu!MenuAssumption, MenuInv, NEW c \in Callers, step[c] # "idle", Menu!Returns(c)
  PROVE  /\ step' \in [Callers -> {"idle"} \cup Menu!Steps]
         /\ item' \in [Callers -> 0..MaxId] /\ handle' \in [Callers -> 0..MaxMenus]
         /\ pos' \in [Callers -> Nat] /\ adder' \in [Menu!Ids -> Callers \cup {Nobody}]
<1>1. item[c] \in Menu!Ids
  BY CallFacts DEF MenuInv
<1> QED BY <1>1, LeaveTypes DEF MenuInv, Menu!TypeOK, Menu!Returns, Menu!Put

\* Every step keeps the types.
LEMMA MenuTypes ==
  ASSUME Menu!MenuAssumption, MenuInv, NEW c \in Callers, Menu!Calls(c) \/ Menu!Goes(c)
  PROVE  Menu!TypeOK'
<1> USE DEF Menu!Steps
<1>1. Menu!TypeOK
  BY DEF MenuInv
<1>2. step[c] # "idle" => item[c] \in Menu!Ids /\ Menu!Parent(c) \in 0..MaxId
  BY CallFacts DEF MenuInv
<1>3. 0 \in 0..MaxId /\ Menu!Ids \subseteq 0..MaxId /\ 0 \in 0..MaxMenus /\ MaxMenus \in Nat
  BY MenuNumbers
<1>4. CASE Menu!AddMenuItem(c)
  BY <1>3, <1>4, NewTypes DEF Menu!AddMenuItem
<1>5. CASE Menu!AddSeparator(c)
  BY <1>3, <1>5, NewTypes DEF Menu!AddSeparator
<1>6. CASE Menu!AddSubMenuItem(c)
  <2>1. PICK i \in Menu!Ids : Menu!New(c, "sub", i, "store")
    BY <1>6 DEF Menu!AddSubMenuItem, Menu!Known
  <2> QED BY <1>3, <2>1, NewTypes
<1>7. CASE Menu!Update(c)
  BY <1>1, <1>7, OnTypes DEF Menu!Update, Menu!TypeOK
<1>8. CASE Menu!Hide(c)
  BY <1>1, <1>8, OnTypes DEF Menu!Hide, Menu!TypeOK, Menu!Put
<1>9. CASE Menu!Show(c)
  BY <1>1, <1>9, OnTypes DEF Menu!Show, Menu!TypeOK, Menu!Put
<1>10. CASE Menu!Store(c)
  BY <1>1, <1>2, <1>10 DEF Menu!Store, Menu!TypeOK, Menu!At, Menu!Goto, Menu!Put, Menu!winVars
<1>11. CASE Menu!Lookup(c)
  BY <1>1, <1>2, <1>11 DEF Menu!Lookup, Menu!TypeOK, Menu!At, Menu!Goto, Menu!Put,
     Menu!winVars, Menu!trayVars
<1>12. CASE Menu!Create(c)
  <2>1. made \in 1..MaxMenus /\ made < MaxMenus /\ made' = made + 1
    BY <1>1, <1>12 DEF Menu!Create, Menu!TypeOK
  <2>2. made' \in 1..MaxMenus /\ made' \in 0..MaxMenus /\ made' \in 1..made'
        /\ \A h \in 1..made : h \in 1..made'
    BY <1>3, <2>1
  <2>3. live' \subseteq 1..made'
    BY <1>1, <1>12, <2>2 DEF Menu!Create, Menu!TypeOK
  <2> QED BY <1>1, <1>12, <2>2, <2>3 DEF Menu!Create, Menu!TypeOK, Menu!At, Menu!Goto,
     Menu!Put, Menu!trayVars
<1>13. CASE Menu!Attach(c)
  <2> DEFINE found == Menu!Places(menuOf[Menu!Parent(c)], Menu!Parent(c))
  <2>1. CASE found = {} /\ Menu!Returns(c) /\ UNCHANGED <<Menu!trayVars, Menu!winVars>>
    BY <1>1, <1>13, <2>1, ReturnTypes DEF Menu!Attach, Menu!At, Menu!TypeOK, Menu!winVars,
       Menu!trayVars
  <2>2. ASSUME NEW p \in found,
               win' = [win EXCEPT ![p[1]][p[2]].sub = handle[c]],
               live' = live \ Menu!Below(win[p[1]][p[2]].sub),
               Menu!Goto(c, "record"), UNCHANGED <<item, handle, pos, Menu!trayVars, made, adder>>
        PROVE  Menu!TypeOK'
    <3>1. Menu!Parent(c) \in Menu!Ids /\ menuOf[Menu!Parent(c)] \in 0..MaxMenus
      <4>1. step[c] = "attach"
        BY <1>13 DEF Menu!Attach, Menu!At
      <4>2. Menu!Parent(c) # 0
        BY <4>1 DEF MenuInv, HandleInv, HandleOK, Making
      <4>3. Menu!Parent(c) \in 0..MaxId
        BY <1>1, <4>1, CallFacts DEF MenuInv
      <4>4. Menu!Parent(c) \in Menu!Ids
        BY <4>2, <4>3, MenuNumbers
      <4> QED BY <1>1, <4>4 DEF Menu!TypeOK
    <3>2. p[1] \in 1..MaxMenus /\ p[2] \in DOMAIN win[p[1]]
      BY <3>1, PlacesIs
    <3> DEFINE g == p[1]
               n == p[2]
    <3>3. win[g] \in Seq(Menu!Entry) /\ win[g][n] \in Menu!Entry /\ handle[c] \in 0..MaxMenus
      BY <1>1, <3>2 DEF Menu!TypeOK
    <3>4. [win[g][n] EXCEPT !.sub = handle[c]] \in Menu!Entry
      BY <3>3 DEF Menu!Entry
    <3>5. [win[g] EXCEPT ![n] = [win[g][n] EXCEPT !.sub = handle[c]]] \in Seq(Menu!Entry)
      BY <3>2, <3>3, <3>4
    <3>6. win' = [win EXCEPT ![g] = [win[g] EXCEPT ![n] = [win[g][n] EXCEPT !.sub = handle[c]]]]
      BY <1>1, <2>2, <3>2 DEF Menu!TypeOK
    <3>7. win' \in [1..MaxMenus -> Seq(Menu!Entry)]
      BY <1>1, <3>2, <3>5, <3>6 DEF Menu!TypeOK
    <3> QED BY <1>1, <1>13, <2>2, <3>7 DEF Menu!TypeOK, Menu!Attach, Menu!At, Menu!Goto,
       Menu!Put, Menu!trayVars
  <2> QED BY <1>13, <2>1, <2>2 DEF Menu!Attach
<1>14. CASE Menu!Record(c)
  BY <1>1, <1>2, <1>14 DEF Menu!Record, Menu!TypeOK, Menu!At, Menu!Goto, Menu!Put, Menu!winVars
<1>15. CASE Menu!Check(c)
  BY <1>1, <1>15 DEF Menu!Check, Menu!TypeOK, Menu!At, Menu!Goto, Menu!Put, Menu!winVars,
     Menu!trayVars
<1>16. CASE Menu!Set(c)
  <2>1. CASE Menu!Places(handle[c], item[c]) # {}
    BY <1>1, <1>16, <2>1, ReturnTypes DEF Menu!Set, Menu!At, Menu!TypeOK, Menu!winVars,
       Menu!trayVars
  <2>2. CASE Menu!Places(handle[c], item[c]) = {}
    BY <1>1, <1>16, <2>2 DEF Menu!Set, Menu!TypeOK, Menu!At, Menu!Goto, Menu!Put,
       Menu!winVars, Menu!trayVars
  <2> QED BY <2>1, <2>2
<1>17. CASE Menu!AddToVisible(c)
  BY <1>1, <1>17, VisibleType DEF Menu!AddToVisible, Menu!AddVisible, Menu!TypeOK, Menu!At,
     Menu!Goto, Menu!Put, Menu!winVars
<1>18. CASE Menu!Position(c)
  BY <1>1, <1>18, IndexIs DEF MenuInv, Menu!Position, Menu!TypeOK, Menu!At, Menu!Goto,
     Menu!Put, Menu!winVars, Menu!trayVars
<1>19. CASE Menu!InsertItem(c)
  <2>1. CASE handle[c] \in live
    <3>1. handle[c] # 0
      BY <1>1, <2>1 DEF Menu!TypeOK
    <3>2. win' \in [1..MaxMenus -> Seq(Menu!Entry)]
      BY <1>19, <2>1, <3>1, InsertTypes DEF Menu!InsertItem, Menu!At
    <3> QED BY <1>1, <1>19, <2>1, <3>2 DEF Menu!InsertItem, Menu!TypeOK, Menu!At, Menu!Goto,
       Menu!Put, Menu!trayVars
  <2>2. CASE handle[c] \notin live
    BY <1>1, <1>19, <2>2 DEF Menu!InsertItem, Menu!TypeOK, Menu!At, Menu!Goto, Menu!Put,
       Menu!trayVars
  <2> QED BY <2>1, <2>2
<1>20. CASE Menu!Own(c)
  BY <1>1, <1>2, <1>20, ReturnTypes DEF Menu!Own, Menu!At, Menu!TypeOK, Menu!Put, Menu!winVars
<1>21. CASE Menu!DelFromVisible(c)
  <2>1. step[c] # "idle"
    BY <1>21 DEF Menu!DelFromVisible
  <2>2. visible' \in [0..MaxId -> Seq(Menu!Ids)]
    <3>1. CASE Menu!Index(c) = 0
      BY <1>1, <1>21, <3>1 DEF Menu!DelFromVisible, Menu!TypeOK
    <3>2. CASE Menu!Index(c) # 0
      <4>1. Menu!Index(c) \in DOMAIN visible[Menu!Parent(c)]
               /\ visible[Menu!Parent(c)] \in Seq(Menu!Ids)
        BY <1>1, <1>2, <2>1, <3>2, IndexIs, VisibleTypes DEF MenuInv
      <4>2. Menu!RemoveAt(visible[Menu!Parent(c)], Menu!Index(c)) \in Seq(Menu!Ids)
        BY <4>1, Removes
      <4> QED BY <1>1, <1>2, <1>21, <2>1, <3>2, <4>2
         DEF Menu!DelFromVisible, Menu!TypeOK, Menu!Put
    <3> QED BY <3>1, <3>2
  <2> QED BY <1>1, <1>21, <2>1, <2>2, ReturnTypes
     DEF Menu!DelFromVisible, Menu!TypeOK, Menu!winVars
<1>22. CASE Menu!SeparatorVisible(c)
  BY <1>1, <1>22, VisibleType DEF Menu!SeparatorVisible, Menu!AddVisible, Menu!TypeOK,
     Menu!At, Menu!Goto, Menu!Put, Menu!winVars
<1>23. CASE Menu!SeparatorPosition(c)
  BY <1>1, <1>3, <1>23, IndexIs DEF MenuInv, Menu!SeparatorPosition, Menu!TypeOK, Menu!At,
     Menu!Goto, Menu!Put, Menu!winVars, Menu!trayVars
<1>24. CASE Menu!InsertSeparator(c)
  <2>1. handle[c] # 0
    <3>1. Menu!Parent(c) = 0 /\ handle[c] = menus[Menu!Parent(c)]
      BY <1>24 DEF Menu!InsertSeparator, Menu!At, MenuInv, CallsInv, CallOK, HandleInv,
         HandleOK, Separating
    <3> QED BY <3>1, MenuNumbers DEF MenuInv, MenusInv
  <2>2. win' \in [1..MaxMenus -> Seq(Menu!Entry)]
    BY <1>24, <2>1, InsertTypes DEF Menu!InsertSeparator, Menu!At
  <2> QED BY <1>1, <1>24, <2>2, LeaveTypes DEF Menu!InsertSeparator, Menu!At, Menu!TypeOK,
     Menu!trayVars
<1>25. CASE Menu!HideLookup(c)
  BY <1>1, <1>2, <1>25 DEF Menu!HideLookup, Menu!TypeOK, Menu!At, Menu!Goto, Menu!Put,
     Menu!winVars, Menu!trayVars
<1>26. CASE Menu!Delete(c)
  <2> DEFINE found == Menu!Places(handle[c], item[c])
  <2>1. CASE found = {} /\ Menu!Returns(c) /\ UNCHANGED Menu!winVars
    BY <1>1, <1>26, <2>1, ReturnTypes DEF Menu!Delete, Menu!At, Menu!TypeOK, Menu!winVars,
       Menu!trayVars
  <2>2. ASSUME NEW p \in found,
               win' = Menu!Put(win, p[1], Menu!RemoveAt(win[p[1]], p[2])),
               live' = live \ Menu!Below(win[p[1]][p[2]].sub),
               Menu!Goto(c, "delvis"), UNCHANGED <<item, handle, pos, made, adder>>
        PROVE  Menu!TypeOK'
    <3>1. item[c] \in Menu!Ids /\ handle[c] \in 0..MaxMenus
      BY <1>1, <1>2, <1>26 DEF Menu!Delete, Menu!At, Menu!TypeOK
    <3>2. p[1] \in 1..MaxMenus /\ p[2] \in DOMAIN win[p[1]]
      BY <3>1, PlacesIs
    <3>3. win[p[1]] \in Seq(Menu!Entry)
      BY <1>1, <3>2 DEF Menu!TypeOK
    <3>4. Menu!RemoveAt(win[p[1]], p[2]) \in Seq(Menu!Entry)
      BY <3>2, <3>3, Removes
    <3>5. win' \in [1..MaxMenus -> Seq(Menu!Entry)]
      BY <1>1, <2>2, <3>2, <3>4 DEF Menu!TypeOK, Menu!Put
    <3> QED BY <1>1, <1>26, <2>2, <3>5 DEF Menu!TypeOK, Menu!Delete, Menu!At, Menu!Goto,
       Menu!Put, Menu!trayVars
  <2> QED BY <1>26, <2>1, <2>2 DEF Menu!Delete
<1> QED BY <1>4, <1>5, <1>6, <1>7, <1>8, <1>9, <1>10, <1>11, <1>12, <1>13, <1>14, <1>15, <1>16,
           <1>17, <1>18, <1>19, <1>20, <1>21, <1>22, <1>23, <1>24, <1>25, <1>26
        DEF Menu!Calls, Menu!Goes

-----------------------------------------------------------------------------
(* Beginnings of calls.                                                    *)

\* Handles of menus.
LEMMA LiveIs ==
  ASSUME Menu!MenuAssumption, MenuInv
  PROVE  live \subseteq 1..MaxMenus /\ 0 \notin live /\ live \subseteq 0..MaxMenus
  BY MenuNumbers DEF MenuInv, Menu!TypeOK

\* What an entry is.
LEMMA EntryTypes ==
  ASSUME Menu!MenuAssumption, Menu!TypeOK, NEW h \in 1..MaxMenus, NEW e \in MenuEntries(h)
  PROVE  e \in Menu!Entry /\ e.id \in Menu!Ids /\ e.sub \in 0..MaxMenus
<1>1. PICK n \in DOMAIN win[h] : e = win[h][n]
  BY DEF MenuEntries, Menu!Range
<1>2. e \in Menu!Entry
  <2>1. win[h] \in Seq(Menu!Entry)
    BY DEF Menu!TypeOK
  <2>2. \A s \in Seq(Menu!Entry) : \A m \in DOMAIN s : s[m] \in Menu!Entry
    OBVIOUS
  <2> QED BY <1>1, <2>1, <2>2
<1> QED BY <1>2 DEF Menu!Entry

\* A goroutine begins to add an item.
LEMMA NewStep ==
  ASSUME Menu!MenuAssumption, Private, MenuInv, Menu!TypeOK', NEW c \in Callers, NEW op,
         NEW par \in 0..MaxId, par # 0 => adder[par] = c,
         NEW to \in {"store", "sepvis"}, to = "sepvis" => par = 0, Menu!New(c, op, par, to)
  PROVE  MenuInv'
<1> DEFINE j == currentID + 1
<1>1. /\ j \in Menu!Ids /\ j \in Nat /\ currentID \in Nat /\ j > currentID /\ par \in Nat
      /\ \A i \in Menu!Ids : i \in Nat
  BY MenuNumbers DEF Menu!New, MenuInv, Menu!TypeOK
<1> HIDE DEF j
<1>2. /\ step[c] = "idle" /\ step' = [step EXCEPT ![c] = to] /\ item' = [item EXCEPT ![c] = j]
      /\ currentID' = j /\ parent' = [parent EXCEPT ![j] = par]
      /\ handle' = handle /\ pos' = pos /\ menuItems' = menuItems /\ menus' = menus
      /\ menuOf' = menuOf /\ visible' = visible /\ win' = win /\ live' = live
      /\ made' = made /\ adder' = adder /\ hides' = hides
  BY DEF Menu!New, Menu!Goto, Menu!Put, Menu!winVars, j
<1>3. /\ step \in [Callers -> {"idle"} \cup Menu!Steps] /\ item \in [Callers -> 0..MaxId]
      /\ parent \in [Menu!Ids -> 0..MaxId]
  BY DEF MenuInv, Menu!TypeOK
<1>4. /\ step'[c] = to /\ item'[c] = j /\ parent'[j] = par /\ item[c] = 0
      /\ \A d \in Callers \ {c} : step'[d] = step[d] /\ item'[d] = item[d]
      /\ \A i \in Menu!Ids \ {j} : parent'[i] = parent[i]
  BY <1>1, <1>2, <1>3 DEF MenuInv, CallsInv, CallOK
<1>5. adder[j] = Nobody /\ menus[j] = 0 /\ parent[j] = 0
  <2>1. adder[j] = Nobody
    BY <1>1 DEF MenuInv, ItemsInv
  <2> QED BY <1>1, <2>1 DEF MenuInv, ItemsInv, MenusInv
<1>6. par # 0 => par \in Menu!Ids /\ par <= currentID /\ par < j
  <2>1. par # 0 => par \in Menu!Ids
    BY MenuNumbers
  <2> QED BY <1>1, <2>1, MenuNumbers DEF MenuInv, ItemsInv
<1>7. \A d \in Callers \ {c} : step[d] # "idle" =>
         item[d] \in Menu!Ids /\ item[d] # j /\ Menu!Parent(d)' = Menu!Parent(d)
               /\ Menu!Index(d)' = Menu!Index(d)
  <2>1. TAKE d \in Callers \ {c}
  <2>2. SUFFICES ASSUME step[d] # "idle"
                 PROVE  item[d] \in Menu!Ids /\ item[d] # j /\ Menu!Parent(d)' = Menu!Parent(d)
                       /\ Menu!Index(d)' = Menu!Index(d)
    OBVIOUS
  <2>3. item[d] \in Menu!Ids /\ item[d] <= currentID
    BY <2>2, CallFacts DEF MenuInv, CallsInv, CallOK
  <2>4. item[d] # j
    BY <1>1, <2>3
  <2>5. Menu!Parent(d)' = Menu!Parent(d)
    BY <1>4, <2>3, <2>4 DEF Menu!Parent
  <2>6. Menu!Index(d)' = Menu!Index(d)
    BY <1>2, <1>4, <2>5 DEF Menu!Index
  <2> QED BY <2>3, <2>4, <2>5, <2>6
<1>8. Menu!Parent(c)' = par
  BY <1>4 DEF Menu!Parent
<1>9. /\ \A h : MenuEntries(h)' = MenuEntries(h) /\ Menu!MenuIds(h)' = Menu!MenuIds(h)
      /\ \A h, i : Has(h, i)' = Has(h, i)
      /\ \A p, i : Lists(p, i)' = Lists(p, i)
      /\ \A p : Menu!Sole(p)' = Menu!Sole(p)
  BY <1>2 DEF MenuEntries, Menu!MenuIds, Has, Lists, Menu!Sole
<1>10. \A i : Safe(i)' => Safe(i)
  BY <1>2, <1>4, <1>5 DEF Safe
<1>11. \A i \in Menu!Ids : parent[i] # 0 => i # j /\ parent[i] # j /\ parent[i] \in Menu!Ids
  <2>1. TAKE i \in Menu!Ids
  <2>2. parent[i] # 0 => parent[i] \in Menu!Ids /\ adder[parent[i]] # Nobody
    BY <1>3, MenuNumbers DEF MenuInv, ItemsInv
  <2> QED BY <1>5, <2>2
<1>12. CallsInv'
  <2>1. \A d \in Callers \ {c} : CallOK(d)'
    <3>1. TAKE d \in Callers \ {c}
    <3>2. CallOK(d)
      BY DEF MenuInv, CallsInv
    <3>3. item[d] \in Nat
      BY <1>3, MenuNumbers
    <3>4. CASE step[d] = "idle"
      BY <1>1, <1>2, <1>4, <3>2, <3>3, <3>4 DEF CallOK, Hiding, Separating
    <3>5. CASE step[d] # "idle"
      <4>1. item[d] <= currentID'
        BY <1>1, <1>2, <3>2, <3>3 DEF CallOK
      <4> QED BY <1>2, <1>4, <1>7, <3>2, <3>5, <4>1 DEF CallOK
    <3> QED BY <3>4, <3>5
  <2>2. CallOK(c)'
    BY <1>1, <1>2, <1>4, <1>5, <1>8, MenuNumbers DEF CallOK, Hiding, Separating
  <2> QED BY <2>1, <2>2 DEF CallsInv
<1>13. AloneInv'
  <2>1. \A d \in Callers \ {c} : item[d] # j
    BY <1>1 DEF MenuInv, CallsInv, CallOK
  <2> QED BY <1>4, <2>1 DEF MenuInv, AloneInv
<1>14. ItemsInv'
  <2>1. SUFFICES ASSUME NEW i \in Menu!Ids
                 PROVE  /\ adder[i] # Nobody => i <= j /\ i \in menuItems
                        /\ parent'[i] < i
                        /\ i > j => parent'[i] = 0
                        /\ parent'[i] # 0 =>
                              adder[parent'[i]] # Nobody /\ adder[i] \in {adder[parent'[i]], Nobody}
    BY <1>2 DEF ItemsInv
  <2>2. CASE i = j
    BY <1>1, <1>4, <1>5, <1>6, <2>2, MenuNumbers
  <2>3. CASE i # j
    <3>1. /\ adder[i] # Nobody => i <= currentID /\ i \in menuItems
          /\ parent[i] < i
          /\ i > currentID => parent[i] = 0
          /\ parent[i] # 0 =>
                adder[parent[i]] # Nobody /\ adder[i] \in {adder[parent[i]], Nobody}
      BY DEF MenuInv, ItemsInv
    <3>2. parent'[i] = parent[i] /\ i \in Nat
      BY <1>1, <1>4, <2>3
    <3> QED BY <1>1, <3>1, <3>2
  <2> QED BY <2>2, <2>3
<1>15. MenusInv'
  BY <1>2, <1>4, <1>5 DEF MenuInv, MenusInv
<1>16. HandleInv'
  <2>1. \A d \in Callers \ {c} : HandleOK(d)'
    <3>1. TAKE d \in Callers \ {c}
    <3>2. CASE step[d] = "idle"
      BY <1>4, <3>2 DEF HandleOK, Making, Hanging, Adding
    <3>3. CASE step[d] # "idle"
      <4>1. step[d] \in Hanging => parent'[Menu!Parent(d)] = parent[Menu!Parent(d)]
        <5>1. Menu!Parent(d) # j
          <6>1. item[d] \in Menu!Ids
            BY <1>7, <3>3
          <6> QED BY <1>1, <1>11, <6>1, MenuNumbers DEF Menu!Parent
        <5>2. step[d] \in Hanging => Menu!Parent(d) \in Menu!Ids
          BY <1>7, <1>11, <3>3 DEF MenuInv, HandleInv, HandleOK, Making, Hanging, Menu!Parent
        <5> QED BY <1>4, <5>1, <5>2
      <4> QED BY <1>2, <1>4, <1>7, <3>3, <4>1 DEF MenuInv, HandleInv, HandleOK
    <3> QED BY <3>2, <3>3
  <2>2. HandleOK(c)'
    BY <1>4 DEF HandleOK, Making, Hanging, Adding
  <2> QED BY <2>1, <2>2 DEF HandleInv
<1>17. NewInv'
  BY <1>2, <1>4 DEF MenuInv, NewInv, Hanging
<1>18. OwnEntryInv'
  <2>1. SUFFICES ASSUME NEW h \in 1..MaxMenus, NEW e \in MenuEntries(h)
                 PROVE  /\ menus[parent'[e.id]] = h /\ e.id <= j
                        /\ e.sub # 0 => SubInv(e, h)'
                        /\ e.type = "string" => e.id \in menuItems
    BY <1>2, <1>9 DEF OwnEntryInv
  <2>2. /\ menus[parent[e.id]] = h /\ e.id <= currentID
        /\ e.sub # 0 => SubInv(e, h)
        /\ e.type = "string" => e.id \in menuItems
    BY DEF MenuInv, OwnEntryInv
  <2>3. e.id \in Menu!Ids
    BY EntryTypes DEF MenuInv
  <2>4. e.id # j
    BY <1>1, <2>2, <2>3
  <2>5. SubInv(e, h) => SubInv(e, h)'
    <3>1. \A d \in Callers : step[d] = "record"
             => d # c /\ step'[d] = "record" /\ Menu!Parent(d)' = Menu!Parent(d)
      BY <1>2, <1>4, <1>7
    <3> QED BY <1>2, <3>1 DEF SubInv
  <2>6. e.id <= j
    <3>1. \A a \in Nat : a <= currentID => a <= j
      BY <1>1
    <3>2. e.id \in Nat
      BY <1>1, <2>3
    <3> QED BY <2>2, <3>1, <3>2
  <2> QED BY <1>4, <2>2, <2>3, <2>4, <2>5, <2>6
<1>19. OnceInv'
  BY <1>9 DEF MenuInv, OnceInv, Distinct
<1>20. LeadsInv'
  <2>1. \A q \in Menu!Ids : menus[q] \in live => Leads(q, menus[q])'
    <3>1. \A q \in Menu!Ids : menus[q] \in live => q # j
      BY <1>5, LiveIs
    <3> QED BY <1>2, <1>4, <1>9, <3>1 DEF MenuInv, LeadsInv, Leads
  <2>2. ASSUME NEW d \in Callers, step'[d] = "record" PROVE Leads(Menu!Parent(d), handle[d])'
    <3>1. d # c /\ step[d] = "record"
      BY <1>4, <2>2
    <3>2. Menu!Parent(d)' = Menu!Parent(d) /\ item[d] \in Menu!Ids
      BY <1>7, <3>1
    <3>3. Menu!Parent(d) \in Menu!Ids /\ Menu!Parent(d) # j
      BY <1>11, <3>1, <3>2 DEF MenuInv, HandleInv, HandleOK, Making, Menu!Parent
    <3> QED BY <1>2, <1>4, <1>9, <3>1, <3>2, <3>3 DEF MenuInv, LeadsInv, Leads
  <2> QED BY <1>2, <2>1, <2>2 DEF LeadsInv
<1>21. VisibleInv'
  <2>1. \A p \in 0..MaxId : \A i \in Menu!Ids : Lists(p, i)
           => i # j /\ parent'[i] = p /\ i <= currentID'
    BY <1>1, <1>2, <1>4 DEF MenuInv, VisibleInv
  <2> QED BY <1>2, <1>9, <2>1 DEF MenuInv, VisibleInv, Rising
<1>22. MirrorInv'
  BY <1>2, <1>4, <1>9 DEF MenuInv, MirrorInv, Distinct, Placing
<1>23. CallerInv'
  <2>1. \A d \in Callers \ {c} : CallerOK(d)'
    <3>1. TAKE d \in Callers \ {c}
    <3>2. CASE step[d] = "idle"
      BY <1>4, <3>2 DEF CallerOK
    <3>3. CASE step[d] # "idle"
      BY <1>2, <1>4, <1>7, <1>9, <3>3 DEF MenuInv, CallerInv, CallerOK
    <3> QED BY <3>2, <3>3
  <2>2. ~Lists(par, j)
    BY <1>1 DEF MenuInv, VisibleInv
  <2>3. CallerOK(c)'
    BY <1>4, <1>8, <1>9, <2>2 DEF CallerOK, Placing
  <2> QED BY <2>1, <2>3 DEF CallerInv
<1>24. RestInv'
  <2>1. \A d \in Callers : step[d] \in Placing
           => step'[d] \in Placing /\ Menu!Parent(d)' = Menu!Parent(d)
    BY <1>2, <1>4, <1>7 DEF Placing
  <2> QED BY <1>2, <1>9, <2>1 DEF MenuInv, RestInv
<1>25. PlaceInv'
  <2>1. \A d \in Callers : step'[d] \in Placing =>
           step[d] \in Placing /\ step'[d] = step[d] /\ Menu!Parent(d)' = Menu!Parent(d)
                 /\ Menu!Index(d)' = Menu!Index(d)
    BY <1>2, <1>4, <1>7 DEF Placing
  <2> QED BY <1>2, <1>9, <2>1 DEF MenuInv, PlaceInv, PlaceOK
<1>26. LostInv'
  BY <1>2, <1>10 DEF MenuInv, LostInv
<1>27. SeenInv'
  <2>1. SUFFICES ASSUME NEW i \in Menu!Ids, adder[i] # Nobody
                 PROVE  /\ Seen(i)' =>
                              menuOf[i] = menus[parent'[i]]
                              \/ \E d \in Callers : item'[d] = i /\ step'[d] = "own"
                        /\ hides[i] # "hidden" /\ (\A d \in Callers : item'[d] # i) =>
                              Seen(i)' \/ (parent'[i] # 0 /\ ~Safe(parent[i])')
    BY <1>2 DEF SeenInv
  <2>2. i # j /\ parent'[i] = parent[i]
    BY <1>4, <1>5, <2>1
  <2>3. Seen(i)' = Seen(i)
    BY <1>2, <1>9, <2>2 DEF Seen
  <2>4. (\A d \in Callers : item'[d] # i) => (\A d \in Callers : item[d] # i)
    BY <1>4, <2>1, MenuNumbers
  <2>5. (\E d \in Callers : item[d] = i /\ step[d] = "own")
           => (\E d \in Callers : item'[d] = i /\ step'[d] = "own")
    BY <1>2, <1>4
  <2>6. ~Safe(parent[i]) => ~Safe(parent[i])'
    BY <1>2, <2>2, <1>10 DEF Safe
  <2> QED BY <2>1, <2>2, <2>3, <2>4, <2>5, <2>6 DEF MenuInv, SeenInv
<1> QED BY <1>12, <1>13, <1>14, <1>15, <1>16, <1>17, <1>18, <1>19, <1>20, <1>21, <1>22, <1>23,
           <1>24, <1>25, <1>26, <1>27 DEF MenuInv

\* A goroutine begins a call about an item of its own.
LEMMA OnStep ==
  ASSUME Menu!MenuAssumption, Private, MenuInv, Menu!TypeOK', NEW c \in Callers, NEW op,
         NEW i \in Menu!Ids,
         NEW to \in {"store", "lookup", "hide"}, Menu!On(c, op, i, to),
         \A k \in Menu!Ids \ {i} : hides'[k] = hides[k],
         hides'[i] = "never" => hides[i] = "never",
         to = "hide" => hides'[i] = "hidden"
  PROVE  MenuInv'
<1>1. /\ step[c] = "idle" /\ step' = [step EXCEPT ![c] = to] /\ item' = [item EXCEPT ![c] = i]
      /\ adder[i] = c
      /\ currentID' = currentID /\ parent' = parent
      /\ handle' = handle /\ pos' = pos /\ menuItems' = menuItems /\ menus' = menus
      /\ menuOf' = menuOf /\ visible' = visible /\ win' = win /\ live' = live
      /\ made' = made /\ adder' = adder
  BY DEF Menu!On, Menu!Goto, Menu!Put, Menu!winVars, Menu!trayVars, Menu!Known
<1>2. /\ step \in [Callers -> {"idle"} \cup Menu!Steps] /\ item \in [Callers -> 0..MaxId]
      /\ parent \in [Menu!Ids -> 0..MaxId] /\ i # 0 /\ c # Nobody
  BY MenuNumbers DEF MenuInv, Menu!TypeOK
<1>3. /\ step'[c] = to /\ item'[c] = i /\ item[c] = 0
      /\ \A d \in Callers \ {c} : step'[d] = step[d] /\ item'[d] = item[d]
  BY <1>1, <1>2 DEF MenuInv, CallsInv, CallOK
<1>4. \A d \in Callers \ {c} : item[d] # i
  <2>1. SUFFICES ASSUME NEW d \in Callers \ {c}, item[d] = i PROVE FALSE
    OBVIOUS
  <2>2. adder[item[d]] \in {d, Nobody}
    BY <1>2, <2>1 DEF MenuInv, CallsInv, CallOK
  <2> QED BY <1>1, <1>2, <2>1, <2>2
<1>5. \A d \in Callers \ {c} : Menu!Parent(d)' = Menu!Parent(d) /\ Menu!Index(d)' = Menu!Index(d)
  BY <1>1, <1>3 DEF Menu!Parent, Menu!Index
<1>6. Menu!Parent(c)' = parent[i] /\ (parent[i] # 0 => adder[parent[i]] = c)
  <2>1. parent[i] # 0 => adder[parent[i]] # Nobody /\ adder[i] \in {adder[parent[i]], Nobody}
    BY DEF MenuInv, ItemsInv
  <2> QED BY <1>1, <1>2, <1>3, <2>1 DEF Menu!Parent
<1>7. /\ \A h : MenuEntries(h)' = MenuEntries(h) /\ Menu!MenuIds(h)' = Menu!MenuIds(h)
      /\ \A h, k : Has(h, k)' = Has(h, k)
      /\ \A p, k : Lists(p, k)' = Lists(p, k)
      /\ \A p : Menu!Sole(p)' = Menu!Sole(p)
  BY <1>1 DEF MenuEntries, Menu!MenuIds, Has, Lists, Menu!Sole
<1>8. \A k : Safe(k)' => Safe(k)
  <2>1. \A k \in Menu!Ids : hides'[k] = "never" => hides[k] = "never"
    OBVIOUS
  <2> QED BY <1>1, <2>1 DEF Safe
<1>9. i <= currentID /\ i \in menuItems
  BY <1>1, <1>2 DEF MenuInv, ItemsInv
<1>10. CallsInv'
  <2>1. \A d \in Callers \ {c} : CallOK(d)'
    <3>1. TAKE d \in Callers \ {c}
    <3>2. CallOK(d)
      BY DEF MenuInv, CallsInv
    <3>3. step[d] \in Hiding => hides'[item[d]] = hides[item[d]]
      <4>1. step[d] \in Hiding => item[d] \in Menu!Ids
        BY CallFacts DEF MenuInv, Hiding
      <4> QED BY <1>4, <4>1
    <3> QED BY <1>1, <1>3, <1>5, <3>2, <3>3 DEF CallOK
  <2>2. CallOK(c)'
    BY <1>1, <1>2, <1>3, <1>6, <1>9 DEF CallOK, Hiding, Separating
  <2> QED BY <2>1, <2>2 DEF CallsInv
<1>11. AloneInv'
  BY <1>3, <1>4 DEF MenuInv, AloneInv
<1>12. ItemsInv'
  BY <1>1 DEF MenuInv, ItemsInv
<1>13. MenusInv'
  BY <1>1 DEF MenuInv, MenusInv
<1>14. HandleInv'
  <2>1. \A d \in Callers \ {c} : HandleOK(d)'
    BY <1>1, <1>3, <1>5 DEF MenuInv, HandleInv, HandleOK
  <2>2. HandleOK(c)'
    BY <1>3 DEF HandleOK, Making, Hanging, Adding
  <2> QED BY <2>1, <2>2 DEF HandleInv
<1>15. NewInv'
  BY <1>1, <1>3 DEF MenuInv, NewInv, Hanging
<1>16. OwnEntryInv'
  <2>1. \A e, h : SubInv(e, h) => SubInv(e, h)'
    <3>1. \A d \in Callers : step[d] = "record"
             => d # c /\ step'[d] = "record" /\ Menu!Parent(d)' = Menu!Parent(d)
      BY <1>1, <1>3, <1>5
    <3> QED BY <1>1, <3>1 DEF SubInv
  <2> QED BY <1>1, <1>7, <2>1 DEF MenuInv, OwnEntryInv
<1>17. OnceInv'
  BY <1>7 DEF MenuInv, OnceInv, Distinct
<1>18. LeadsInv'
  <2>1. \A d \in Callers : step'[d] = "record"
           => d # c /\ step[d] = "record" /\ Menu!Parent(d)' = Menu!Parent(d)
    BY <1>1, <1>3, <1>5
  <2> QED BY <1>1, <1>7, <2>1 DEF MenuInv, LeadsInv, Leads
<1>19. VisibleInv'
  BY <1>1, <1>7 DEF MenuInv, VisibleInv, Rising
<1>20. MirrorInv'
  BY <1>1, <1>3, <1>7 DEF MenuInv, MirrorInv, Distinct, Placing
<1>21. CallerInv'
  <2>1. \A d \in Callers \ {c} : CallerOK(d)'
    BY <1>1, <1>3, <1>5, <1>7 DEF MenuInv, CallerInv, CallerOK
  <2>2. CallerOK(c)'
    BY <1>3 DEF CallerOK, Placing
  <2> QED BY <2>1, <2>2 DEF CallerInv
<1>22. RestInv'
  <2>1. \A d \in Callers : step[d] \in Placing
           => step'[d] \in Placing /\ Menu!Parent(d)' = Menu!Parent(d)
    BY <1>1, <1>3, <1>5 DEF Placing
  <2> QED BY <1>1, <1>7, <2>1 DEF MenuInv, RestInv
<1>23. PlaceInv'
  <2>1. \A d \in Callers : step'[d] \in Placing =>
           step[d] \in Placing /\ step'[d] = step[d] /\ Menu!Parent(d)' = Menu!Parent(d)
                 /\ Menu!Index(d)' = Menu!Index(d)
    BY <1>1, <1>3, <1>5 DEF Placing
  <2> QED BY <1>1, <1>7, <2>1 DEF MenuInv, PlaceInv, PlaceOK
<1>24. LostInv'
  BY <1>1, <1>8 DEF MenuInv, LostInv
<1>25. SeenInv'
  <2>1. SUFFICES ASSUME NEW k \in Menu!Ids, adder[k] # Nobody
                 PROVE  /\ Seen(k)' =>
                              menuOf[k] = menus[parent[k]]
                              \/ \E d \in Callers : item'[d] = k /\ step'[d] = "own"
                        /\ hides'[k] # "hidden" /\ (\A d \in Callers : item'[d] # k) =>
                              Seen(k)' \/ (parent[k] # 0 /\ ~Safe(parent[k])')
    BY <1>1 DEF SeenInv
  <2>2. Seen(k)' = Seen(k)
    BY <1>1, <1>7 DEF Seen
  <2>3. (\A d \in Callers : item'[d] # k) => k # i /\ (\A d \in Callers : item[d] # k)
    BY <1>3, <2>1, MenuNumbers
  <2>4. (\E d \in Callers : item[d] = k /\ step[d] = "own")
           => (\E d \in Callers : item'[d] = k /\ step'[d] = "own")
    BY <1>1, <1>3
  <2>5. ~Safe(parent[k]) => ~Safe(parent[k])'
    BY <1>1, <1>8
  <2> QED BY <2>1, <2>2, <2>3, <2>4, <2>5 DEF MenuInv, SeenInv
<1> QED BY <1>10, <1>11, <1>12, <1>13, <1>14, <1>15, <1>16, <1>17, <1>18, <1>19, <1>20, <1>21,
           <1>22, <1>23, <1>24, <1>25 DEF MenuInv

\* Calls begin.
LEMMA CallStep ==
  ASSUME Menu!MenuAssumption, Private, MenuInv, Menu!TypeOK', NEW c \in Callers, Menu!Calls(c)
  PROVE  MenuInv'
<1>1. 0 \in 0..MaxId /\ Menu!Ids \subseteq 0..MaxId
  BY MenuNumbers
<1>2. CASE Menu!AddMenuItem(c)
  BY <1>1, <1>2, NewStep DEF Menu!AddMenuItem
<1>3. CASE Menu!AddSeparator(c)
  BY <1>1, <1>3, NewStep DEF Menu!AddSeparator
<1>4. CASE Menu!AddSubMenuItem(c)
  <2>1. PICK i \in Menu!Ids : Menu!New(c, "sub", i, "store") /\ adder[i] = c
    BY <1>4 DEF Menu!AddSubMenuItem, Menu!Known
  <2> QED BY <1>1, <2>1, NewStep
<1>5. CASE Menu!Update(c)
  <2>1. PICK i \in Menu!Ids : Menu!On(c, "update", i, "store") /\ hides' = hides
    BY <1>5 DEF Menu!Update
  <2> QED BY <2>1, OnStep
<1>6. CASE Menu!Hide(c)
  <2>1. PICK i \in Menu!Ids : Menu!On(c, "hide", i, "hide")
           /\ hides' = [hides EXCEPT ![i] = "hidden"]
    BY <1>6 DEF Menu!Hide, Menu!Put
  <2>2. hides'[i] = "hidden" /\ \A k \in Menu!Ids \ {i} : hides'[k] = hides[k]
    BY <2>1 DEF MenuInv, Menu!TypeOK
  <2> QED BY <2>1, <2>2, OnStep
<1>7. CASE Menu!Show(c)
  <2>1. PICK i \in Menu!Ids :
           /\ Menu!On(c, "show", i, "lookup")
           /\ hides' = IF hides[i] = "hidden" THEN [hides EXCEPT ![i] = "shown"] ELSE hides
    BY <1>7 DEF Menu!Show, Menu!Put
  <2>2. /\ hides'[i] = "never" => hides[i] = "never"
        /\ \A k \in Menu!Ids \ {i} : hides'[k] = hides[k]
    BY <2>1 DEF MenuInv, Menu!TypeOK
  <2> QED BY <2>1, <2>2, OnStep
<1> QED BY <1>2, <1>3, <1>4, <1>5, <1>6, <1>7 DEF Menu!Calls

-----------------------------------------------------------------------------
(* convertToSubMenu.                                                       *)

\* A sub-menu is created.
LEMMA CreateStep ==
  ASSUME Menu!MenuAssumption, Private, MenuInv, Menu!TypeOK', NEW c \in Callers, Menu!Create(c)
  PROVE  MenuInv'
<1> DEFINE h == made + 1
<1>1. /\ step[c] = "create" /\ step' = [step EXCEPT ![c] = "attach"]
            /\ handle' = [handle EXCEPT ![c] = h]
      /\ made' = h /\ live' = live \cup {h}
      /\ item' = item /\ pos' = pos /\ currentID' = currentID /\ menuItems' = menuItems
      /\ parent' = parent /\ menus' = menus /\ menuOf' = menuOf /\ visible' = visible
      /\ win' = win /\ adder' = adder /\ hides' = hides
  BY DEF Menu!Create, Menu!At, Menu!Goto, Menu!Put, Menu!trayVars
<1>2. made \in Nat /\ h \in Nat /\ h > made /\ live \subseteq 1..made /\ h \notin live
  <2>1. made \in 1..MaxMenus /\ live \subseteq 1..made
    BY DEF MenuInv, Menu!TypeOK
  <2>2. made \in Nat
    BY <2>1, MenuNumbers
  <2>3. h \in Nat /\ h > made /\ h \notin 1..made
    BY <2>2
  <2> QED BY <2>1, <2>2, <2>3
<1> HIDE DEF h
<1>3. /\ \A p \in 0..MaxId : menus[p] \in Nat /\ menus[p] < h /\ menus[p] # h
      /\ \A p \in 0..MaxId : menus[p] \in live' => menus[p] \in live
  <2>1. \A p \in 0..MaxId : menus[p] \in Nat /\ menus[p] <= made
    <3>1. \A p \in 0..MaxId : menus[p] \in 0..MaxMenus /\ menus[p] <= made
      BY DEF MenuInv, Menu!TypeOK, MenusInv
    <3> QED BY <3>1, MenuNumbers
  <2>2. \A a \in Nat : a <= made => a < h /\ a # h
    BY <1>2
  <2> QED BY <1>1, <2>1, <2>2
<1>4. /\ step'[c] = "attach" /\ handle'[c] = h
      /\ \A d \in Callers \ {c} : step'[d] = step[d] /\ handle'[d] = handle[d]
  BY <1>1 DEF MenuInv, Menu!TypeOK
<1>5. \A d \in Callers : Menu!Parent(d)' = Menu!Parent(d) /\ Menu!Index(d)' = Menu!Index(d)
  BY <1>1 DEF Menu!Parent, Menu!Index
<1>6. /\ \A g : MenuEntries(g)' = MenuEntries(g) /\ Menu!MenuIds(g)' = Menu!MenuIds(g)
      /\ \A g, i : Has(g, i)' = Has(g, i)
      /\ \A p, i : Lists(p, i)' = Lists(p, i)
      /\ \A p : Menu!Sole(p)' = Menu!Sole(p)
      /\ \A i : Safe(i)' = Safe(i)
  BY <1>1 DEF MenuEntries, Menu!MenuIds, Has, Lists, Menu!Sole, Safe
<1>7. \A d \in Callers : step[d] # "idle" => Menu!Parent(d) \in 0..MaxId /\ item[d] \in Menu!Ids
  BY CallFacts DEF MenuInv
<1>8. Menu!Parent(c) \in Menu!Ids /\ parent[Menu!Parent(c)] \in 0..MaxId
  <2>1. Menu!Parent(c) \in 0..MaxId /\ Menu!Parent(c) # 0
    BY <1>1, <1>7 DEF MenuInv, HandleInv, HandleOK, Making
  <2>2. Menu!Parent(c) \in Menu!Ids
    BY <2>1, MenuNumbers
  <2> QED BY <2>2 DEF MenuInv, Menu!TypeOK
<1>9. CallsInv'
  <2>1. \A d \in Callers : CallOK(d)
    BY DEF MenuInv, CallsInv
  <2>2. \A d \in Callers \ {c} : CallOK(d)'
    BY <1>1, <1>4, <1>5, <2>1 DEF CallOK
  <2>3. CallOK(c)'
    BY <1>1, <1>4, <1>5, <2>1 DEF CallOK, Hiding, Separating, Menu!Steps
  <2> QED BY <2>2, <2>3 DEF CallsInv
<1>10. AloneInv' /\ ItemsInv'
  BY <1>1 DEF MenuInv, AloneInv, ItemsInv
<1>11. MenusInv'
  <2>1. \A p \in 0..MaxId : menus[p] <= made'
    BY <1>1, <1>2, <1>3
  <2> QED BY <1>1, <2>1 DEF MenuInv, MenusInv
<1>12. HandleInv'
  <2>1. \A d \in Callers : HandleOK(d)
    BY DEF MenuInv, HandleInv
  <2>2. \A d \in Callers \ {c} : HandleOK(d)'
    <3>1. TAKE d \in Callers \ {c}
    <3>2. step[d] = "undo" => handle[d] \notin live'
      BY <1>1, <1>3, <1>7, <2>1 DEF HandleOK, Adding
    <3> QED BY <1>1, <1>4, <1>5, <2>1, <3>2 DEF HandleOK
  <2>3. HandleOK(c)'
    <3>1. h > menus[parent[Menu!Parent(c)]]
      BY <1>2, <1>3, <1>8
    <3>2. step[c] \in Making
      BY <1>1 DEF Making
    <3> QED BY <1>1, <1>3, <1>4, <1>5, <2>1, <3>1, <3>2 DEF HandleOK, Hanging, Adding
  <2> QED BY <2>2, <2>3 DEF HandleInv
<1>13. NewInv'
  <2>1. \A d \in Callers : step[d] \in Hanging => handle[d] # h
    BY <1>2 DEF MenuInv, HandleInv, HandleOK
  <2> QED BY <1>1, <1>4, <2>1 DEF MenuInv, NewInv
<1>14. OwnEntryInv'
  <2>1. \A e, g : SubInv(e, g) => SubInv(e, g)'
    <3>1. \A d \in Callers : step[d] = "record" => step'[d] = "record" /\ handle'[d] = handle[d]
      BY <1>1, <1>4
    <3> QED BY <1>1, <1>5, <3>1 DEF SubInv
  <2> QED BY <1>1, <1>6, <2>1 DEF MenuInv, OwnEntryInv
<1>15. OnceInv'
  BY <1>6 DEF MenuInv, OnceInv, Distinct
<1>16. LeadsInv'
  <2>1. \A q, g : Leads(q, g) => Leads(q, g)'
    BY <1>1, <1>6 DEF Leads
  <2>2. \A d \in Callers : step'[d] = "record"
           => step[d] = "record" /\ Leads(Menu!Parent(d), handle[d])'
    <3>1. TAKE d \in Callers
    <3>2. SUFFICES ASSUME step'[d] = "record"
                   PROVE  step[d] = "record" /\ Leads(Menu!Parent(d), handle[d])'
      OBVIOUS
    <3>3. step[d] = "record" /\ handle'[d] = handle[d]
      BY <1>1, <1>4, <3>2
    <3>4. Leads(Menu!Parent(d), handle[d])
      BY <3>3 DEF MenuInv, LeadsInv
    <3> QED BY <1>1, <1>5, <1>6, <3>3, <3>4 DEF Leads
  <2>3. \A q \in Menu!Ids : menus[q] \in live' => menus[q] \in live
    BY <1>3, MenuNumbers
  <2>4. \A q \in Menu!Ids : menus'[q] \in live' => Leads(q, menus[q])'
    BY <1>1, <1>6, <2>3 DEF MenuInv, LeadsInv, Leads
  <2> QED BY <2>2, <2>4 DEF LeadsInv
<1>17. VisibleInv'
  BY <1>1, <1>6 DEF MenuInv, VisibleInv, Rising
<1>18. \A d \in Callers : step'[d] \in Placing <=> step[d] \in Placing
  BY <1>1, <1>4 DEF Placing
<1>19. MirrorInv'
  BY <1>1, <1>3, <1>6, <1>18 DEF MenuInv, MirrorInv, Distinct
<1>20. CallerInv'
  <2>1. \A d \in Callers : CallerOK(d)
    BY DEF MenuInv, CallerInv
  <2>2. \A d \in Callers \ {c} : CallerOK(d)'
    BY <1>1, <1>3, <1>4, <1>5, <1>6, <1>7, <2>1 DEF CallerOK
  <2>3. CallerOK(c)'
    BY <1>4 DEF CallerOK, Placing
  <2> QED BY <2>2, <2>3 DEF CallerInv
<1>21. RestInv'
  BY <1>1, <1>3, <1>5, <1>6, <1>18 DEF MenuInv, RestInv
<1>22. PlaceInv'
  <2>1. \A d \in Callers : step'[d] \in Placing =>
           d # c /\ step'[d] = step[d] /\ Menu!Parent(d) \in 0..MaxId
    BY <1>1, <1>4, <1>7 DEF Placing
  <2> QED BY <1>1, <1>3, <1>5, <1>6, <2>1 DEF MenuInv, PlaceInv, PlaceOK
<1>23. LostInv'
  BY <1>1, <1>6 DEF MenuInv, LostInv
<1>24. SeenInv'
  <2>1. \A i : Seen(i)' = Seen(i)
    BY <1>1, <1>6 DEF Seen
  <2>2. \A d \in Callers : step[d] = "own" => step'[d] = "own"
    BY <1>1, <1>4
  <2> QED BY <1>1, <1>6, <2>1, <2>2 DEF MenuInv, SeenInv
<1> QED BY <1>9, <1>10, <1>11, <1>12, <1>13, <1>14, <1>15, <1>16, <1>17, <1>19, <1>20, <1>21,
           <1>22, <1>23, <1>24 DEF MenuInv

\* It becomes the menu of the parent.
LEMMA RecordStep ==
  ASSUME Menu!MenuAssumption, Private, MenuInv, Menu!TypeOK', NEW c \in Callers, Menu!Record(c)
  PROVE  MenuInv'
<1> DEFINE P == Menu!Parent(c)
           h == handle[c]
<1>1. /\ step[c] = "record" /\ step' = [step EXCEPT ![c] = "addvis"]
      /\ menus' = [menus EXCEPT ![P] = h]
      /\ handle' = handle /\ made' = made /\ live' = live
      /\ item' = item /\ pos' = pos /\ currentID' = currentID /\ menuItems' = menuItems
      /\ parent' = parent /\ menuOf' = menuOf /\ visible' = visible
      /\ win' = win /\ adder' = adder /\ hides' = hides
  BY DEF Menu!Record, Menu!At, Menu!Goto, Menu!Put, Menu!winVars
<1>2. P \in Menu!Ids /\ parent[P] \in 0..MaxId /\ P # 0 /\ parent[P] # P /\ menus[P] = 0
  <2>1. P \in 0..MaxId /\ P # 0 /\ menus[P] = 0
    BY <1>1, CallFacts DEF MenuInv, HandleInv, HandleOK, Making
  <2>2. P \in Menu!Ids
    BY <2>1, MenuNumbers
  <2>3. parent[P] < P
    BY <2>2 DEF MenuInv, ItemsInv
  <2> QED BY <2>1, <2>2, <2>3, MenuNumbers DEF MenuInv, Menu!TypeOK
<1>3. /\ h \in live /\ h # 0 /\ h > menus[parent[P]] /\ \A p \in 0..MaxId : menus[p] # h
      /\ h \in 1..MaxMenus /\ Leads(P, h)
  BY <1>1, LiveIs DEF MenuInv, HandleInv, HandleOK, Hanging, LeadsInv
<1>4. adder[P] = c /\ c # Nobody
  BY <1>1, <1>2, MenuNumbers DEF MenuInv, CallsInv, CallOK
<1> HIDE DEF P, h
<1>5. menus'[P] = h /\ \A p \in 0..MaxId : p # P => menus'[p] = menus[p]
  BY <1>1, <1>2, MenuNumbers DEF MenuInv, Menu!TypeOK
<1>6. /\ step'[c] = "addvis"
      /\ \A d \in Callers \ {c} : step'[d] = step[d]
  BY <1>1 DEF MenuInv, Menu!TypeOK
<1>7. \A d \in Callers : Menu!Parent(d)' = Menu!Parent(d) /\ Menu!Index(d)' = Menu!Index(d)
  BY <1>1 DEF Menu!Parent, Menu!Index
<1>8. /\ \A g : MenuEntries(g)' = MenuEntries(g) /\ Menu!MenuIds(g)' = Menu!MenuIds(g)
      /\ \A g, i : Has(g, i)' = Has(g, i)
      /\ \A p, i : Lists(p, i)' = Lists(p, i)
      /\ \A p : Menu!Sole(p)' = Menu!Sole(p)
      /\ \A i : Safe(i)' = Safe(i)
  BY <1>1 DEF MenuEntries, Menu!MenuIds, Has, Lists, Menu!Sole, Safe
\* The new menu is empty, and so are the books on it.
<1>9. MenuEntries(h) = {} /\ Menu!MenuIds(h) = << >> /\ visible[P] = << >>
  <2>1. \A e \in MenuEntries(h) : FALSE
    <3>1. TAKE e \in MenuEntries(h)
    <3>2. e.id \in Menu!Ids /\ menus[parent[e.id]] = h
      BY <1>3, EntryTypes DEF MenuInv, OwnEntryInv
    <3>3. parent[e.id] \in 0..MaxId
      BY <3>2 DEF MenuInv, Menu!TypeOK
    <3> QED BY <1>3, <3>2, <3>3
  <2>2. win[h] \in Seq(Menu!Entry)
    BY <1>3 DEF MenuInv, Menu!TypeOK
  <2>3. \A n \in DOMAIN win[h] : FALSE
    BY <2>1 DEF MenuEntries, Menu!Range
  <2>4. DOMAIN win[h] = {}
    BY <2>3
  <2>5. Menu!MenuIds(h) = << >>
    BY <2>4 DEF Menu!MenuIds
  <2>6. visible[P] = << >>
    BY <1>2, MenuNumbers DEF MenuInv, VisibleInv
  <2> QED BY <2>1, <2>5, <2>6
\* Nothing that has to do with P is another's.
<1>10. \A q \in Menu!Ids : parent[q] \in 0..MaxId /\ (parent[q] = P => menus[q] = 0 /\ q # P)
  BY <1>2 DEF MenuInv, Menu!TypeOK, MenusInv
<1>11. \A d \in Callers \ {c} : step[d] # "idle" =>
          Menu!Parent(d) \in 0..MaxId /\ Menu!Parent(d) # P
                /\ menus'[Menu!Parent(d)] = menus[Menu!Parent(d)]
  <2>1. TAKE d \in Callers \ {c}
  <2>2. step[d] # "idle" => Menu!Parent(d) \in 0..MaxId
    BY CallFacts DEF MenuInv
  <2>3. step[d] # "idle" => Menu!Parent(d) # P
    BY <1>2, <1>4 DEF MenuInv, CallsInv, CallOK
  <2> QED BY <1>5, <2>2, <2>3
<1>12. \A d \in Callers \ {c} : step[d] \in Making =>
          Menu!Parent(d) \in Menu!Ids /\ parent[Menu!Parent(d)] # P
          /\ menus'[parent[Menu!Parent(d)]] = menus[parent[Menu!Parent(d)]]
  <2>1. TAKE d \in Callers \ {c}
  <2>2. SUFFICES ASSUME step[d] \in Making
                 PROVE  Menu!Parent(d) \in Menu!Ids /\ parent[Menu!Parent(d)] # P
                        /\ menus'[parent[Menu!Parent(d)]] = menus[parent[Menu!Parent(d)]]
    OBVIOUS
  <2>3. Menu!Parent(d) # 0 /\ step[d] # "idle"
    BY <2>2 DEF MenuInv, HandleInv, HandleOK, Making
  <2>4. Menu!Parent(d) \in Menu!Ids /\ adder[Menu!Parent(d)] = d
    BY <1>11, <2>3, MenuNumbers DEF MenuInv, CallsInv, CallOK
  <2>5. parent[Menu!Parent(d)] # 0
           => adder[Menu!Parent(d)] \in {adder[parent[Menu!Parent(d)]], Nobody}
    BY <2>4 DEF MenuInv, ItemsInv
  <2>6. d # Nobody
    BY MenuNumbers
  <2>7. parent[Menu!Parent(d)] # P
    BY <1>2, <1>4, <2>4, <2>5, <2>6
  <2> QED BY <1>5, <1>10, <2>4, <2>7
<1>13. CallsInv'
  <2>1. \A d \in Callers : CallOK(d)
    BY DEF MenuInv, CallsInv
  <2>2. \A d \in Callers \ {c} : CallOK(d)'
    BY <1>1, <1>6, <1>7, <2>1 DEF CallOK
  <2>3. CallOK(c)'
    BY <1>1, <1>6, <1>7, <2>1 DEF CallOK, Hiding, Separating, Menu!Steps
  <2> QED BY <2>2, <2>3 DEF CallsInv
<1>14. AloneInv' /\ ItemsInv'
  BY <1>1 DEF MenuInv, AloneInv, ItemsInv
<1>15. MenusInv'
  <2>1. menus'[0] = Menu!Root /\ Menu!Root \in live'
    BY <1>1, <1>2, <1>5, MenuNumbers DEF MenuInv, MenusInv
  <2>2. \A p, q \in 0..MaxId : menus'[p] # 0 /\ menus'[p] = menus'[q] => p = q
    BY <1>3, <1>5 DEF MenuInv, MenusInv
  <2>3. \A p \in 0..MaxId : menus'[p] <= made'
    <3>1. h <= made
      BY <1>3 DEF MenuInv, Menu!TypeOK
    <3> QED BY <1>1, <1>5, <3>1 DEF MenuInv, MenusInv
  <2>4. ASSUME NEW q \in Menu!Ids, menus'[q] # 0
        PROVE  adder'[q] # Nobody /\ menus'[parent'[q]] # 0 /\ menus'[parent'[q]] < menus'[q]
    <3>1. CASE q = P
      <4>1. menus[parent[P]] \in live
        BY <1>3 DEF Leads
      <4>2. menus[parent[P]] # 0
        BY <4>1, LiveIs
      <4> QED BY <1>1, <1>2, <1>3, <1>4, <1>5, <3>1, <4>2
    <3>2. CASE q # P
      <4>1. q \in 0..MaxId /\ menus'[q] = menus[q]
        BY <1>5, <3>2, MenuNumbers
      <4>2. parent[q] # P /\ menus'[parent[q]] = menus[parent[q]]
        BY <1>5, <1>10, <2>4, <4>1
      <4> QED BY <1>1, <2>4, <4>1, <4>2 DEF MenuInv, MenusInv
    <3> QED BY <3>1, <3>2
  <2> QED BY <2>1, <2>2, <2>3, <2>4 DEF MenusInv
<1>16. HandleInv'
  <2>1. \A d \in Callers : HandleOK(d)
    BY DEF MenuInv, HandleInv
  <2>2. \A d \in Callers \ {c} : HandleOK(d)'
    <3>1. TAKE d \in Callers \ {c}
    <3>2. step[d] \in Making => step[d] # "idle" /\ menus'[Menu!Parent(d)] = 0
      BY <1>11, <2>1 DEF HandleOK, Making
    <3>3. step[d] \in Hanging => step[d] \in Making /\ handle[d] > menus'[parent[Menu!Parent(d)]]
      BY <1>12, <2>1 DEF HandleOK, Making, Hanging
    <3>4. step[d] \in Hanging => \A p \in 0..MaxId : menus'[p] # handle[d]
      <4>1. step[d] \in Hanging => handle[d] # h
        BY <1>1 DEF MenuInv, NewInv, Hanging, h
      <4> QED BY <1>5, <2>1, <4>1 DEF HandleOK
    <3>5. step[d] \in Adding \cup {"delete", "delvis", "sepinsert"}
             => menus'[Menu!Parent(d)] = menus[Menu!Parent(d)]
      BY <1>11 DEF Adding
    <3> QED BY <1>1, <1>6, <1>7, <2>1, <3>2, <3>3, <3>4, <3>5 DEF HandleOK
  <2>3. HandleOK(c)'
    BY <1>1, <1>3, <1>5, <1>6, <1>7 DEF HandleOK, Making, Hanging, Adding, P, h
  <2> QED BY <2>2, <2>3 DEF HandleInv
<1>17. NewInv'
  BY <1>1, <1>6 DEF MenuInv, NewInv, Hanging
<1>18. OwnEntryInv'
  <2>1. SUFFICES ASSUME NEW g \in 1..MaxMenus, NEW e \in MenuEntries(g)
                 PROVE  menus'[parent[e.id]] = g /\ (e.sub # 0 => SubInv(e, g)')
    BY <1>1, <1>8 DEF MenuInv, OwnEntryInv
  <2>2. e.id \in Menu!Ids /\ menus[parent[e.id]] = g /\ (e.sub # 0 => SubInv(e, g))
    BY EntryTypes DEF MenuInv, OwnEntryInv
  <2>3. g # 0
    OBVIOUS
  <2>4. menus'[parent[e.id]] = g
    BY <1>2, <1>5, <1>10, <2>2, <2>3
  <2>5. ASSUME e.sub # 0 PROVE SubInv(e, g)'
    <3>1. SubInv(e, g)
      BY <2>2, <2>5
    <3>2. CASE menus[e.id] = e.sub
      <4>1. menus'[e.id] = e.sub
        BY <1>2, <1>5, <2>2, <2>5, <3>2, MenuNumbers
      <4> QED BY <3>1, <4>1 DEF SubInv
    <3>3. ASSUME NEW d \in Callers, step[d] = "record", Menu!Parent(d) = e.id, handle[d] = e.sub
          PROVE  SubInv(e, g)'
      <4>1. CASE d = c
        BY <1>5, <3>1, <3>3, <4>1 DEF SubInv, P, h
      <4>2. CASE d # c
        BY <1>1, <1>6, <1>7, <3>1, <3>3, <4>2 DEF SubInv
      <4> QED BY <4>1, <4>2
    <3> QED BY <3>1, <3>2, <3>3 DEF SubInv
  <2> QED BY <2>4, <2>5
<1>19. OnceInv'
  BY <1>8 DEF MenuInv, OnceInv, Distinct
<1>20. LeadsInv'
  <2>1. ASSUME NEW q \in Menu!Ids, menus'[q] \in live' PROVE Leads(q, menus[q])'
    <3>1. CASE q = P
      BY <1>1, <1>2, <1>3, <1>5, <1>8, <3>1 DEF Leads
    <3>2. CASE q # P
      <4>1. menus'[q] = menus[q] /\ menus[q] \in live
        BY <1>1, <1>5, <2>1, <3>2, MenuNumbers
      <4>2. menus'[parent[q]] = menus[parent[q]]
        BY <1>5, <1>10, <4>1, LiveIs
      <4>3. Leads(q, menus[q])
        BY <4>1 DEF MenuInv, LeadsInv
      <4> QED BY <1>1, <1>8, <4>1, <4>2, <4>3 DEF Leads
    <3> QED BY <3>1, <3>2
  <2>2. ASSUME NEW d \in Callers, step'[d] = "record" PROVE Leads(Menu!Parent(d), handle[d])'
    <3>1. d # c /\ step[d] = "record"
      BY <1>6, <2>2
    <3>2. Leads(Menu!Parent(d), handle[d])
             /\ menus'[parent[Menu!Parent(d)]] = menus[parent[Menu!Parent(d)]]
      BY <1>12, <3>1 DEF MenuInv, LeadsInv, Making
    <3> QED BY <1>1, <1>7, <1>8, <3>2 DEF Leads
  <2> QED BY <2>1, <2>2 DEF LeadsInv
<1>21. VisibleInv'
  <2>1. \A p \in 0..MaxId : menus'[p] = 0 => menus[p] = 0
    BY <1>3, <1>5
  <2> QED BY <1>1, <1>8, <2>1 DEF MenuInv, VisibleInv, Rising
<1>22. \A d \in Callers : step'[d] \in Placing <=> step[d] \in Placing
  BY <1>1, <1>6 DEF Placing
<1>23. MirrorInv'
  <2>1. SUFFICES ASSUME NEW p \in 0..MaxId, menus'[p] \in live
                 PROVE  /\ Distinct(visible[p])
                        /\ \A i \in Menu!Ids : Has(menus'[p], i) => Lists(p, i)
                        /\ \A i \in Menu!Ids : Lists(p, i) =>
                              Has(menus'[p], i) \/ \E d \in Callers : item[d] = i
                                    /\ step'[d] \in Placing
    BY <1>1, <1>8 DEF MirrorInv, Distinct
  <2>2. CASE p = P
    BY <1>5, <1>9, <2>2 DEF Distinct, Has, Lists, In
  <2>3. CASE p # P
    BY <1>5, <1>22, <2>1, <2>3 DEF MenuInv, MirrorInv
  <2> QED BY <2>2, <2>3
<1>24. CallerInv'
  <2>1. \A d \in Callers : CallerOK(d)
    BY DEF MenuInv, CallerInv
  <2>2. \A d \in Callers \ {c} : CallerOK(d)'
    BY <1>1, <1>6, <1>7, <1>8, <1>11, <2>1 DEF CallerOK
  <2>3. ~Lists(Menu!Parent(c), item[c])
    BY <1>9 DEF Lists, In, P
  <2>4. CallerOK(c)'
    BY <1>1, <1>6, <1>7, <1>8, <2>3 DEF CallerOK, Placing
  <2> QED BY <2>2, <2>4 DEF CallerInv
<1>25. RestInv'
  <2>1. SUFFICES ASSUME NEW p \in 0..MaxId, Menu!Sole(p), menus'[p] \in live,
                        \A d \in Callers : step[d] \in Placing => Menu!Parent(d) # p
                 PROVE  Menu!MenuIds(menus'[p]) = visible[p]
    BY <1>1, <1>7, <1>8, <1>22 DEF RestInv
  <2>2. CASE p = P
    BY <1>5, <1>9, <2>2
  <2>3. CASE p # P
    BY <1>5, <2>1, <2>3 DEF MenuInv, RestInv
  <2> QED BY <2>2, <2>3
<1>26. PlaceInv'
  <2>1. \A d \in Callers : step'[d] \in Placing =>
           d # c /\ step'[d] = step[d] /\ menus'[Menu!Parent(d)] = menus[Menu!Parent(d)]
    BY <1>1, <1>6, <1>11 DEF Placing
  <2> QED BY <1>1, <1>7, <1>8, <2>1 DEF MenuInv, PlaceInv, PlaceOK
<1>27. LostInv'
  <2>1. \A q \in Menu!Ids : menus'[q] # 0 /\ menus'[q] \notin live => menus'[q] = menus[q]
    BY <1>3, <1>5, MenuNumbers
  <2> QED BY <1>1, <1>8, <2>1 DEF MenuInv, LostInv
<1>28. SeenInv'
  <2>1. \A i \in Menu!Ids : Seen(i) => menus'[parent[i]] = menus[parent[i]]
    BY <1>2, <1>5, <1>10 DEF Seen, Has
  <2>2. \A i \in Menu!Ids : Has(menus'[parent[i]], i) => Seen(i)
    BY <1>5, <1>9, <1>10 DEF Seen, Has
  <2>3. \A i \in Menu!Ids : Seen(i)' <=> Seen(i)
    BY <1>1, <1>8, <2>1, <2>2 DEF Seen
  <2>4. \A d \in Callers : step[d] = "own" => step'[d] = "own"
    BY <1>1, <1>6
  <2> QED BY <1>1, <1>8, <2>1, <2>3, <2>4 DEF MenuInv, SeenInv
<1> QED BY <1>13, <1>14, <1>15, <1>16, <1>17, <1>18, <1>19, <1>20, <1>21, <1>23, <1>24, <1>25,
           <1>26, <1>27, <1>28 DEF MenuInv

-----------------------------------------------------------------------------
(* addToVisibleItems.                                                      *)

\* The item comes into visibleItems, at its place.
LEMMA AddVisibleStep ==
  ASSUME Menu!MenuAssumption, Private, MenuInv, Menu!TypeOK', NEW c \in Callers,
         NEW from, NEW to,
         \/ from = "addvis" /\ to = "pos"
         \/ from = "sepvis" /\ to = "seppos",
         Menu!AddVisible(from, to, c)
  PROVE  MenuInv'
<1> DEFINE P == Menu!Parent(c)
           i == item[c]
           W == Menu!Sort(Append(visible[P], i))
<1>1. /\ step[c] = from /\ step' = [step EXCEPT ![c] = to]
      /\ visible' = [visible EXCEPT ![P] = W]
      /\ handle' = handle /\ menus' = menus /\ made' = made /\ live' = live
      /\ item' = item /\ pos' = pos /\ currentID' = currentID /\ menuItems' = menuItems
      /\ parent' = parent /\ menuOf' = menuOf
      /\ win' = win /\ adder' = adder /\ hides' = hides
  BY DEF Menu!AddVisible, Menu!At, Menu!Goto, Menu!Put, Menu!winVars
<1>2. i \in Menu!Ids /\ i \in Nat /\ P \in 0..MaxId /\ parent[i] = P
  BY <1>1, CallFacts, MenuNumbers DEF MenuInv, Menu!Parent
<1>3. visible[P] \in Seq(Nat) /\ Rising(visible[P])
  BY <1>2, VisibleTypes DEF MenuInv, VisibleInv
<1>4. /\ W \in Seq(Nat) /\ Rising(W)
      /\ \A x : In(W, x) <=> In(visible[P], x) \/ x = i
      /\ Distinct(visible[P]) /\ ~In(visible[P], i) => Distinct(W)
  BY <1>2, <1>3, Sorts
<1> HIDE DEF W
<1>5. visible'[P] = W /\ \A p \in 0..MaxId : p # P => visible'[p] = visible[p]
  BY <1>1, <1>2 DEF MenuInv, Menu!TypeOK
<1>6. step'[c] = to /\ \A d \in Callers \ {c} : step'[d] = step[d]
  BY <1>1 DEF MenuInv, Menu!TypeOK
<1>7. /\ \A d \in Callers : Menu!Parent(d)' = Menu!Parent(d)
      /\ \A d \in Callers : Menu!Parent(d) \in 0..MaxId /\ Menu!Parent(d) # P
            => Menu!Index(d)' = Menu!Index(d)
  BY <1>1, <1>5 DEF Menu!Parent, Menu!Index
<1>8. /\ \A g : MenuEntries(g)' = MenuEntries(g) /\ Menu!MenuIds(g)' = Menu!MenuIds(g)
      /\ \A g, k : Has(g, k)' = Has(g, k)
      /\ \A p : Menu!Sole(p)' = Menu!Sole(p)
      /\ \A k : Safe(k)' = Safe(k)
  BY <1>1 DEF MenuEntries, Menu!MenuIds, Has, Menu!Sole, Safe
<1>9. \A p \in 0..MaxId : \A k : Lists(p, k)' <=> Lists(p, k) \/ (p = P /\ k = i)
  BY <1>4, <1>5 DEF Lists
<1>10. menus[P] # 0 /\ (menus[P] \in live => ~Lists(P, i))
  <2>1. CASE from = "addvis"
    BY <1>1, <2>1 DEF MenuInv, HandleInv, HandleOK, CallerInv, CallerOK, Adding
  <2>2. CASE from = "sepvis"
    BY <1>1, <2>2, MenuNumbers DEF MenuInv, CallsInv, CallOK, Separating, CallerInv, CallerOK,
       MenusInv
  <2> QED BY <2>1, <2>2
<1> HIDE DEF P, i
<1>11. \A d \in Callers \ {c} : step[d] # "idle" =>
          Menu!Parent(d) \in 0..MaxId /\ item[d] # i /\ item[d] \in Menu!Ids
  BY <1>1, CallFacts, MenuNumbers DEF MenuInv, AloneInv, i
<1>12. CallsInv'
  <2>1. \A d \in Callers : CallOK(d)
    BY DEF MenuInv, CallsInv
  <2>2. \A d \in Callers \ {c} : CallOK(d)'
    BY <1>1, <1>6, <1>7, <2>1 DEF CallOK
  <2>3. CallOK(c)'
    BY <1>1, <1>6, <1>7, <2>1 DEF CallOK, Hiding, Separating, Menu!Steps
  <2> QED BY <2>2, <2>3 DEF CallsInv
<1>13. AloneInv' /\ ItemsInv' /\ MenusInv'
  BY <1>1 DEF MenuInv, AloneInv, ItemsInv, MenusInv
<1>14. HandleInv'
  <2>1. \A d \in Callers : HandleOK(d)
    BY DEF MenuInv, HandleInv
  <2>2. \A d \in Callers \ {c} : HandleOK(d)'
    BY <1>1, <1>6, <1>7, <2>1 DEF HandleOK
  <2>3. HandleOK(c)'
    BY <1>1, <1>6, <1>7, <2>1 DEF HandleOK, Making, Hanging, Adding
  <2> QED BY <2>2, <2>3 DEF HandleInv
<1>15. NewInv'
  BY <1>1, <1>6 DEF MenuInv, NewInv, Hanging
<1>16. \A d \in Callers : step[d] \in {"record", "own"} \/ step'[d] \in {"record", "own"}
         => step'[d] = step[d]
  BY <1>1, <1>6
<1>17. OwnEntryInv'
  <2>1. \A e, g : SubInv(e, g) => SubInv(e, g)'
    BY <1>1, <1>7, <1>16 DEF SubInv
  <2> QED BY <1>1, <1>8, <2>1 DEF MenuInv, OwnEntryInv
<1>18. OnceInv'
  BY <1>8 DEF MenuInv, OnceInv, Distinct
<1>19. LeadsInv'
  <2>1. \A d \in Callers : step'[d] = "record" => step[d] = "record"
    BY <1>16
  <2> QED BY <1>1, <1>7, <1>8, <2>1 DEF MenuInv, LeadsInv, Leads
<1>20. VisibleInv'
  <2>1. \A p \in 0..MaxId : Rising(visible[p])'
    <3>1. \A p \in 0..MaxId : Rising(visible'[p])
      BY <1>4, <1>5 DEF MenuInv, VisibleInv
    <3> QED BY <3>1 DEF Rising
  <2>2. \A p \in 0..MaxId : menus[p] = 0 => visible'[p] = << >>
    BY <1>5, <1>10 DEF MenuInv, VisibleInv
  <2>3. \A p \in 0..MaxId : \A k \in Menu!Ids : Lists(p, k)' => parent[k] = p /\ k <= currentID
    <3>1. i <= currentID
      BY DEF MenuInv, CallsInv, CallOK, i
    <3> QED BY <1>2, <1>9, <3>1 DEF MenuInv, VisibleInv
  <2> QED BY <1>1, <2>1, <2>2, <2>3 DEF VisibleInv
<1>21. step'[c] \in Placing /\ step[c] \notin Placing /\ item[c] = i /\ Menu!Parent(c) = P
  BY <1>1, <1>6 DEF Placing, i, P
<1>22. MirrorInv'
  <2>1. SUFFICES ASSUME NEW p \in 0..MaxId, menus[p] \in live
                 PROVE  /\ Distinct(visible'[p])
                        /\ \A k \in Menu!Ids : Has(menus[p], k) => Lists(p, k)'
                        /\ \A k \in Menu!Ids : Lists(p, k)' =>
                              Has(menus[p], k) \/ \E d \in Callers : item[d] = k
                                    /\ step'[d] \in Placing
    BY <1>1, <1>8 DEF MirrorInv, Distinct
  <2>2. Distinct(visible'[p])
    BY <1>4, <1>5, <1>10, <2>1 DEF MenuInv, MirrorInv, Lists
  <2>3. \A k \in Menu!Ids : Has(menus[p], k) => Lists(p, k)'
    BY <1>9, <2>1 DEF MenuInv, MirrorInv
  <2>4. ASSUME NEW k \in Menu!Ids, Lists(p, k)'
        PROVE  Has(menus[p], k) \/ \E d \in Callers : item[d] = k /\ step'[d] \in Placing
    <3>1. CASE Lists(p, k)
      BY <1>6, <1>21, <2>1, <3>1 DEF MenuInv, MirrorInv
    <3>2. CASE k = i
      BY <1>21, <3>2
    <3> QED BY <1>9, <2>4, <3>1, <3>2
  <2> QED BY <2>2, <2>3, <2>4
<1>23. CallerInv'
  <2>1. \A d \in Callers : CallerOK(d)
    BY DEF MenuInv, CallerInv
  <2>2. \A d \in Callers \ {c} : step[d] # "idle" =>
           (Lists(Menu!Parent(d), item[d])' <=> Lists(Menu!Parent(d), item[d]))
    <3>1. TAKE d \in Callers \ {c}
    <3>2. SUFFICES ASSUME step[d] # "idle"
                   PROVE  Lists(Menu!Parent(d), item[d])' <=> Lists(Menu!Parent(d), item[d])
      OBVIOUS
    <3>3. Menu!Parent(d) \in 0..MaxId /\ item[d] # i
      BY <1>11, <3>2
    <3>4. visible'[Menu!Parent(d)] = visible[Menu!Parent(d)] \/ Menu!Parent(d) = P
      BY <1>5, <3>3
    <3>5. In(visible'[Menu!Parent(d)], item[d]) <=> In(visible[Menu!Parent(d)], item[d])
      BY <1>4, <1>5, <3>3, <3>4
    <3>6. Menu!Parent(d)' = Menu!Parent(d) /\ item'[d] = item[d]
      BY <1>1, <1>7
    <3> QED BY <3>5, <3>6 DEF Lists, In
  <2>3. \A d \in Callers \ {c} : CallerOK(d)'
    BY <1>1, <1>6, <1>7, <1>8, <2>1, <2>2 DEF CallerOK
  <2>4. CallerOK(c)'
    <3>1. In(visible'[P], i)
      BY <1>4, <1>5
    <3>2. menus[P] \in live => ~Has(menus[P], i)
      BY <1>2, <1>10 DEF MenuInv, MirrorInv
    <3>3. (Menu!Parent(c)' = P /\ item'[c] = i) /\ menus' = menus /\ live' = live
      BY <1>1, <1>7, <1>21
    <3>4. Lists(Menu!Parent(c), item[c])'
      BY <3>1, <3>3 DEF Lists, In
    <3>5. menus[P] \in live => ~Has(menus[Menu!Parent(c)], item[c])'
      BY <1>8, <3>2, <3>3 DEF P, i
    <3> QED BY <1>1, <1>6, <3>3, <3>4, <3>5 DEF CallerOK
  <2> QED BY <2>3, <2>4 DEF CallerInv
<1>24. RestInv'
  <2>1. SUFFICES ASSUME NEW p \in 0..MaxId, Menu!Sole(p), menus[p] \in live,
                        \A d \in Callers : step'[d] \in Placing => Menu!Parent(d) # p
                 PROVE  Menu!MenuIds(menus[p]) = visible'[p]
    BY <1>1, <1>7, <1>8 DEF RestInv
  <2>2. p # P
    BY <1>21, <2>1
  <2>3. \A d \in Callers : step[d] \in Placing => Menu!Parent(d) # p
    BY <1>6, <1>21, <2>1
  <2> QED BY <1>5, <2>1, <2>2, <2>3 DEF MenuInv, RestInv
<1>25. PlaceInv'
  <2>1. ASSUME NEW d \in Callers \ {c} PROVE PlaceOK(d)'
    <3>1. SUFFICES ASSUME step[d] \in Placing, Menu!Sole(Menu!Parent(d)),
                          menus[Menu!Parent(d)] \in live
                   PROVE  /\ Menu!MenuIds(menus[Menu!Parent(d)])
                                = Menu!RemoveAt(visible'[Menu!Parent(d)], Menu!Index(d)')
                          /\ step[d] \in {"insert", "sepinsert"} => pos[d] = Menu!Index(d)'
      BY <1>1, <1>6, <1>7, <1>8 DEF PlaceOK
    <3>2. step[d] # "idle" /\ step[c] # "idle"
      BY <1>1, <3>1 DEF Placing
    <3>3. Menu!Parent(d) # P /\ Menu!Parent(d) \in 0..MaxId
      BY <1>11, <1>21, <3>1, <3>2, SoleCaller
    <3> QED BY <1>5, <1>7, <3>1, <3>3 DEF MenuInv, PlaceInv, PlaceOK
  <2>2. PlaceOK(c)'
    <3>1. SUFFICES ASSUME Menu!Sole(P), menus[P] \in live
                   PROVE  Menu!MenuIds(menus[P]) = Menu!RemoveAt(W, Menu!Index(c)')
      BY <1>1, <1>5, <1>6, <1>7, <1>8, <1>21 DEF PlaceOK
    <3>2. \A d \in Callers : step[d] \in Placing => Menu!Parent(d) # P
      <4>1. \A d \in Callers : step[d] \in Placing => step[d] # "idle" /\ d # c
        BY <1>21 DEF Placing
      <4>2. step[c] # "idle"
        BY <1>1
      <4> QED BY <1>21, <3>1, <4>1, <4>2, SoleCaller
    <3>3. Menu!MenuIds(menus[P]) = visible[P]
      BY <1>2, <3>1, <3>2 DEF MenuInv, RestInv
    <3>4. Distinct(visible[P]) /\ ~In(visible[P], i) /\ Distinct(W)
      BY <1>2, <1>4, <1>10, <3>1 DEF MenuInv, MirrorInv, Lists
    <3>5. Strict(visible[P]) /\ Strict(W)
      BY <1>3, <1>4, <3>4, StrictIs
    <3>6. Menu!Index(c)' \in DOMAIN W /\ W[Menu!Index(c)'] = i
      <4>1. Menu!Parent(c)' = P /\ item'[c] = i
        BY <1>1, <1>7, <1>21
      <4>2. visible'[Menu!Parent(c)'] = W /\ In(W, i)
        BY <1>4, <1>5, <4>1
      <4>3. visible'[Menu!Parent(c)'] \in Seq(Nat) /\ item'[c] \in Nat
               /\ In(visible'[Menu!Parent(c)'], item'[c])
        BY <1>2, <1>4, <4>1, <4>2
      <4>4. Menu!Index(c)' \in DOMAIN visible'[Menu!Parent(c)']
               /\ visible'[Menu!Parent(c)'][Menu!Index(c)'] = item'[c]
        BY <4>3, Indexes DEF Menu!Index
      <4> QED BY <4>1, <4>2, <4>4
    <3>7. Menu!RemoveAt(W, Menu!Index(c)') = visible[P]
      <4>1. PICK k : k = Menu!Index(c)'
        OBVIOUS
      <4>2. \A v, w \in Seq(Nat) : \A x, n \in Nat :
               /\ Strict(v) /\ Strict(w) /\ ~In(v, x) /\ n \in DOMAIN w /\ w[n] = x
               /\ \A y \in Nat : In(w, y) <=> In(v, y) \/ y = x
               => Menu!RemoveAt(w, n) = v
        BY TakeOut
      <4>3. k \in Nat
        BY <1>4, <3>6, <4>1
      <4>4. k \in DOMAIN W /\ W[k] = i
        BY <3>6, <4>1
      <4>5. Menu!RemoveAt(W, k) = visible[P]
        <5> HIDE DEF W
        <5> QED BY <1>2, <1>3, <1>4, <3>4, <3>5, <4>2, <4>3, <4>4
      <4> QED BY <4>1, <4>5
    <3> QED BY <3>3, <3>7
  <2> QED BY <2>1, <2>2 DEF PlaceInv
<1>26. LostInv'
  BY <1>1, <1>8 DEF MenuInv, LostInv
<1>27. SeenInv'
  <2>1. \A k : Seen(k)' = Seen(k)
    BY <1>1, <1>8 DEF Seen
  <2>2. \A d \in Callers : step[d] = "own" => step'[d] = "own"
    BY <1>16
  <2> QED BY <1>1, <1>8, <2>1, <2>2 DEF MenuInv, SeenInv
<1> QED BY <1>12, <1>13, <1>14, <1>15, <1>17, <1>18, <1>19, <1>20, <1>22, <1>23, <1>24, <1>25,
           <1>26, <1>27 DEF MenuInv

-----------------------------------------------------------------------------
(* Insertion.                                                              *)

\* The entries of a menu, and their ids.
LEMMA WinTypes ==
  ASSUME Menu!MenuAssumption, Menu!TypeOK, NEW h \in 1..MaxMenus
  PROVE  /\ win[h] \in Seq(Menu!Entry) /\ Menu!MenuIds(h) \in Seq(Menu!Ids)
               /\ Menu!MenuIds(h) \in Seq(Nat)
         /\ Len(Menu!MenuIds(h)) = Len(win[h]) /\ DOMAIN Menu!MenuIds(h) = DOMAIN win[h]
         /\ \A n \in DOMAIN win[h] : win[h][n] \in Menu!Entry /\ Menu!MenuIds(h)[n] = win[h][n].id
<1>1. win[h] \in Seq(Menu!Entry)
  BY DEF Menu!TypeOK
<1>2. \A n \in DOMAIN win[h] : win[h][n] \in Menu!Entry /\ Menu!MenuIds(h)[n] = win[h][n].id
  <2>1. \A s \in Seq(Menu!Entry) : \A m \in DOMAIN s : s[m] \in Menu!Entry
    OBVIOUS
  <2> QED BY <1>1, <2>1 DEF Menu!MenuIds
<1>3. DOMAIN win[h] = 1..Len(win[h]) /\ Len(win[h]) \in Nat
  BY <1>1
<1>4. Menu!MenuIds(h) = [n \in 1..Len(win[h]) |-> win[h][n].id]
  BY <1>3 DEF Menu!MenuIds
<1>5. \A n \in 1..Len(win[h]) : win[h][n].id \in Menu!Ids /\ win[h][n].id \in Nat
  BY <1>2, <1>3, MenuNumbers DEF Menu!Entry
<1>6. Menu!MenuIds(h) \in Seq(Menu!Ids) /\ Menu!MenuIds(h) \in Seq(Nat)
         /\ Len(Menu!MenuIds(h)) = Len(win[h])
  BY <1>3, <1>4, <1>5
<1> QED BY <1>1, <1>2, <1>3, <1>4, <1>6

\* An item is in a menu if it is among the ids.
LEMMA HasIs ==
  ASSUME Menu!MenuAssumption, Menu!TypeOK, NEW h \in 1..MaxMenus, NEW i
  PROVE  Has(h, i) <=> In(Menu!MenuIds(h), i)
<1>1. h # 0
  OBVIOUS
<1> QED BY <1>1, WinTypes DEF Has, In, MenuEntries, Menu!Range

\* What InsertMenuItem makes of the menu.
LEMMA InsertIs ==
  ASSUME Menu!MenuAssumption, MenuInv, NEW c \in Callers, step[c] # "idle",
         handle[c] \in 1..MaxMenus,
         NEW t \in {"string", "separator"}, Menu!Insert(c, t)
  PROVE  /\ win' = [win EXCEPT ![handle[c]] = win'[handle[c]]]
         /\ Menu!Range(win'[handle[c]]) = MenuEntries(handle[c])
               \cup {[id |-> item[c], type |-> t, sub |-> 0]}
         /\ \E k \in 1..Len(Menu!MenuIds(handle[c])) + 1 :
               /\ [n \in DOMAIN win'[handle[c]] |-> win'[handle[c]][n].id]
                     = With(Menu!MenuIds(handle[c]), k, item[c])
               /\ pos[c] \in 1..Len(Menu!MenuIds(handle[c])) + 1 => k = pos[c]
<1> DEFINE h == handle[c]
           s == win[h]
           e == [id |-> item[c], type |-> t, sub |-> 0]
<1>1. item[c] \in Menu!Ids /\ pos[c] \in Nat
  BY CallFacts DEF MenuInv, Menu!TypeOK
<1>2. e \in Menu!Entry /\ e.id = item[c]
  BY <1>1, EntryType
<1>3. /\ s \in Seq(Menu!Entry) /\ Len(Menu!MenuIds(h)) = Len(s) /\ Len(s) \in Nat
            /\ DOMAIN s = 1..Len(s)
      /\ \A n \in DOMAIN s : Menu!MenuIds(h)[n] = s[n].id
  BY WinTypes DEF MenuInv
<1>4. win' = [win EXCEPT ![h] = Menu!WithEntry(s, pos[c], e)]
  BY DEF Menu!Insert, Menu!Put
<1> HIDE DEF e, s
<1>5. Menu!WithEntry(s, pos[c], e) = With(s, Slot(s, pos[c]), e)
  BY <1>1, <1>2, <1>3, Inserts
<1> DEFINE k == Slot(s, pos[c])
<1>0. k \in 1..Len(s) + 1 /\ (pos[c] \in 1..Len(s) + 1 => k = pos[c])
  BY <1>1, <1>3 DEF Slot
<1> HIDE DEF k
<1> DEFINE w == Menu!WithEntry(s, pos[c], e)
<1> HIDE DEF w
<1>6. win'[h] = w
  BY <1>4 DEF MenuInv, Menu!TypeOK, w
<1>7. DOMAIN w = 1..Len(s) + 1 /\ w = With(s, k, e)
  BY <1>0, <1>3, <1>5 DEF With, w, k
<1>8. \A x : In(w, x) <=> In(s, x) \/ x = e
  BY <1>0, <1>2, <1>3, <1>7, InWith
<1>9. Menu!Range(w) = Menu!Range(s) \cup {e}
  BY <1>8 DEF In, Menu!Range
<1>10. [n \in DOMAIN w |-> w[n].id] = With(Menu!MenuIds(h), k, item[c])
  <2>1. \A n \in 1..Len(s) + 1 : w[n].id = With(Menu!MenuIds(h), k, item[c])[n]
    <3>1. TAKE n \in 1..Len(s) + 1
    <3>2. w[n] = IF n < k THEN s[n] ELSE IF n = k THEN e ELSE s[n - 1]
      BY <1>7 DEF With
    <3>3. With(Menu!MenuIds(h), k, item[c])[n]
             = IF n < k THEN Menu!MenuIds(h)[n]
               ELSE IF n = k THEN item[c] ELSE Menu!MenuIds(h)[n - 1]
      BY <1>3 DEF With
    <3>4. n < k => n \in DOMAIN s
      BY <1>0, <1>3
    <3>5. ~ n < k /\ n # k => n - 1 \in DOMAIN s
      BY <1>0, <1>3
    <3> QED BY <1>2, <1>3, <3>2, <3>3, <3>4, <3>5
  <2>2. With(Menu!MenuIds(h), k, item[c])
           = [n \in 1..Len(s) + 1 |-> With(Menu!MenuIds(h), k, item[c])[n]]
    BY <1>3 DEF With
  <2> QED BY <1>7, <2>1, <2>2
<1>11. Menu!Range(s) = MenuEntries(h)
  BY DEF MenuEntries, s
<1>12. win' = [win EXCEPT ![h] = win'[h]]
  BY <1>4, <1>6 DEF w
<1>13. Menu!Range(win'[h]) = MenuEntries(h) \cup {[id |-> item[c], type |-> t, sub |-> 0]}
  BY <1>6, <1>9, <1>11 DEF e
<1>14. /\ [n \in DOMAIN win'[h] |-> win'[h][n].id] = With(Menu!MenuIds(h), k, item[c])
       /\ pos[c] \in 1..Len(Menu!MenuIds(h)) + 1 => k = pos[c]
  BY <1>0, <1>3, <1>6, <1>10
<1>15. k \in 1..Len(Menu!MenuIds(h)) + 1
  BY <1>0, <1>3
<1> QED BY <1>12, <1>13, <1>14, <1>15

\* An entry comes into a menu.
LEMMA InsertStep ==
  ASSUME Menu!MenuAssumption, Private, MenuInv, Menu!TypeOK', NEW c \in Callers,
         NEW t \in {"string", "separator"}, NEW to \in {"own", "idle"},
         \/ step[c] = "insert" /\ t = "string" /\ to = "own"
         \/ step[c] = "sepinsert" /\ t = "separator" /\ to = "idle",
         Menu!Insert(c, t), handle[c] = menus[Menu!Parent(c)], handle[c] \in live, step'[c] = to,
         to = "own" => item'[c] = item[c] /\ handle'[c] = handle[c],
         to = "idle" => item'[c] = 0,
         \A d \in Callers \ {c} : step'[d] = step[d] /\ item'[d] = item[d] /\ handle'[d] = handle[d]
                                  /\ pos'[d] = pos[d],
         UNCHANGED <<currentID, menuItems, parent, menus, menuOf, visible, live, made, adder,
               hides>>
  PROVE  MenuInv'
<1> DEFINE P == Menu!Parent(c)
           i == item[c]
           h == handle[c]
           e == [id |-> i, type |-> t, sub |-> 0]
<1>1. /\ \A d \in Callers \ {c} : step'[d] = step[d] /\ item'[d] = item[d] /\ handle'[d] = handle[d]
                                  /\ pos'[d] = pos[d]
      /\ currentID' = currentID /\ menuItems' = menuItems /\ parent' = parent /\ menus' = menus
      /\ menuOf' = menuOf /\ visible' = visible /\ live' = live /\ made' = made
      /\ adder' = adder /\ hides' = hides
  OBVIOUS
<1>2. i \in Menu!Ids /\ i \in Nat /\ P \in 0..MaxId /\ parent[i] = P /\ h \in 1..MaxMenus
  BY CallFacts, MenuNumbers, LiveIs DEF MenuInv, Menu!Parent
<1>3. Lists(P, i) /\ ~Has(h, i)
  BY DEF MenuInv, CallerInv, CallerOK, Placing
<1>4. /\ win' = [win EXCEPT ![h] = win'[h]] /\ Menu!Range(win'[h]) = MenuEntries(h) \cup {e}
      /\ \E k \in 1..Len(Menu!MenuIds(h)) + 1 :
            /\ [n \in DOMAIN win'[h] |-> win'[h][n].id] = With(Menu!MenuIds(h), k, i)
            /\ pos[c] \in 1..Len(Menu!MenuIds(h)) + 1 => k = pos[c]
  BY <1>2, InsertIs
<1>5. PICK k \in 1..Len(Menu!MenuIds(h)) + 1 :
            /\ [n \in DOMAIN win'[h] |-> win'[h][n].id] = With(Menu!MenuIds(h), k, i)
            /\ pos[c] \in 1..Len(Menu!MenuIds(h)) + 1 => k = pos[c]
  BY <1>4
<1>6. e.id = i /\ e.sub = 0 /\ e.type = t
  OBVIOUS
<1>7. \A g \in 1..MaxMenus : g # h => win'[g] = win[g]
  BY <1>2, <1>4 DEF MenuInv, Menu!TypeOK
<1>8. /\ \A g \in 1..MaxMenus : g # h => MenuEntries(g)' = MenuEntries(g)
            /\ Menu!MenuIds(g)' = Menu!MenuIds(g)
      /\ \A g : g = h => MenuEntries(g)' = MenuEntries(g) \cup {e}
      /\ \A g : g = h => Menu!MenuIds(g)' = With(Menu!MenuIds(g), k, i)
  BY <1>4, <1>5, <1>7 DEF MenuEntries, Menu!MenuIds
<1>9. \A g \in 0..MaxMenus : \A j : Has(g, j)' <=> Has(g, j) \/ (g = h /\ j = i)
  <2> TAKE g \in 0..MaxMenus
  <2> TAKE j
  <2>2. CASE g = h
    <3>1. \A f : f \in MenuEntries(g)' <=> f \in MenuEntries(g) \/ f = e
      BY <1>8, <2>2
    <3> HIDE DEF e, h
    <3>2. (\E f \in MenuEntries(g)' : f.id = j) <=> (\E f \in MenuEntries(g) : f.id = j) \/ j = i
      BY <1>6, <3>1
    <3>3. g # 0
      BY <1>2, <2>2
    <3> QED BY <2>2, <3>2, <3>3 DEF Has
  <2>3. CASE g # h /\ g # 0
    BY <1>8, <2>3 DEF Has
  <2>4. CASE g = 0
    BY <1>2, <2>4 DEF Has
  <2> QED BY <2>2, <2>3, <2>4
<1>10. /\ \A p, j : Lists(p, j)' = Lists(p, j)
       /\ \A p : Menu!Sole(p)' = Menu!Sole(p)
       /\ \A j : Safe(j)' = Safe(j)
       /\ \A d \in Callers \ {c} : Menu!Parent(d)' = Menu!Parent(d)
             /\ Menu!Index(d)' = Menu!Index(d)
  <2>1. (\A p, j : Lists(p, j)' = Lists(p, j)) /\ (\A p : Menu!Sole(p)' = Menu!Sole(p))
    BY <1>1 DEF Lists, Menu!Sole
  <2>2. \A j : Safe(j)' = Safe(j)
    BY <1>1 DEF Safe
  <2>3. \A d \in Callers \ {c} : Menu!Parent(d)' = Menu!Parent(d)
    BY <1>1 DEF Menu!Parent
  <2>4. \A d \in Callers \ {c} : Menu!Index(d)' = Menu!Index(d)
    <3>1. TAKE d \in Callers \ {c}
    <3>2. item'[d] = item[d] /\ visible'[Menu!Parent(d)'] = visible[Menu!Parent(d)]
      BY <1>1, <2>3
    <3> QED BY <3>2 DEF Menu!Index
  <2> QED BY <2>1, <2>2, <2>3, <2>4
<1>11. to = "own" => Menu!Parent(c)' = P
  BY <1>1 DEF Menu!Parent
<1>12. h = menus[P] /\ h # 0 /\ \A p \in 0..MaxId : menus[p] = h => p = P
  BY <1>2 DEF MenuInv, MenusInv
<1>13. step[c] \in {"insert", "sepinsert"} /\ step[c] \in Placing /\ step[c] # "idle"
  BY DEF Placing
<1>14. \A p \in 0..MaxId : menus[p] \in 0..MaxMenus
  BY DEF MenuInv, Menu!TypeOK
<1>15. \A d \in Callers \ {c} : step[d] # "idle" =>
          item[d] # i /\ Menu!Parent(d) \in 0..MaxId /\ item[d] \in Menu!Ids
  BY <1>13, CallFacts, MenuNumbers DEF MenuInv, AloneInv
<1> HIDE DEF P, i, h, e
<1>16. CallsInv'
  <2>1. \A d \in Callers : CallOK(d)
    BY DEF MenuInv, CallsInv
  <2>2. \A d \in Callers \ {c} : CallOK(d)'
    BY <1>1, <1>10, <2>1 DEF CallOK
  <2>3. CASE to = "own"
    <3>1. step'[c] = "own" /\ step[c] = "insert" /\ item'[c] = item[c]
             /\ Menu!Parent(c)' = Menu!Parent(c)
      BY <1>11, <2>3 DEF P
    <3>2. CallOK(c)'
      BY <1>1, <2>1, <3>1 DEF CallOK, Hiding, Separating, Menu!Steps
    <3> QED BY <2>2, <3>2 DEF CallsInv
  <2>4. CASE to = "idle"
    <3>1. step'[c] = "idle" /\ item'[c] = 0 /\ 0 <= currentID
      BY <2>4 DEF MenuInv, Menu!TypeOK
    <3>2. CallOK(c)'
      BY <1>1, <3>1 DEF CallOK, Hiding, Separating, Menu!Steps
    <3> QED BY <2>2, <3>2 DEF CallsInv
  <2> QED BY <2>3, <2>4
<1>17. AloneInv'
  <2>1. item'[c] = item[c] \/ item'[c] = 0
    OBVIOUS
  <2> QED BY <1>1, <2>1 DEF MenuInv, AloneInv
<1>18. ItemsInv' /\ MenusInv'
  BY <1>1 DEF MenuInv, ItemsInv, MenusInv
<1>19. HandleInv'
  <2>1. \A d \in Callers : HandleOK(d)
    BY DEF MenuInv, HandleInv
  <2>2. \A d \in Callers \ {c} : HandleOK(d)'
    BY <1>1, <1>10, <2>1 DEF HandleOK
  <2>3. HandleOK(c)'
    BY <1>1, <1>11, <1>12 DEF HandleOK, Making, Hanging, Adding, h
  <2> QED BY <2>2, <2>3 DEF HandleInv
<1>20. NewInv'
  BY <1>1 DEF MenuInv, NewInv, Hanging
<1>21. \A d \in Callers : step[d] = "record" \/ step'[d] = "record" => d # c
  OBVIOUS
<1>22. OwnEntryInv'
  <2>1. SUFFICES ASSUME NEW g \in 1..MaxMenus, NEW f \in MenuEntries(g)'
                 PROVE  /\ menus[parent[f.id]] = g /\ f.id <= currentID
                        /\ f.sub # 0 => SubInv(f, g)'
                        /\ f.type = "string" => f.id \in menuItems
    BY <1>1 DEF OwnEntryInv
  <2>2. SubInv(f, g) => SubInv(f, g)'
    BY <1>1, <1>10, <1>21 DEF SubInv
  <2>3. CASE f \in MenuEntries(g)
    BY <2>2, <2>3 DEF MenuInv, OwnEntryInv
  <2>4. CASE g = h /\ f = e
    <3>1. i <= currentID
      BY <1>13 DEF MenuInv, CallsInv, CallOK, i
    <3>2. t = "string" => i \in menuItems
      BY DEF MenuInv, CallsInv, CallOK, Menu!Steps, Separating, i
    <3> QED BY <1>2, <1>6, <1>12, <2>4, <3>1, <3>2
  <2> QED BY <1>8, <2>1, <2>3, <2>4
<1>23. Menu!MenuIds(h) \in Seq(Menu!Ids) /\ Menu!MenuIds(h) \in Seq(Nat)
  BY <1>2, WinTypes DEF MenuInv
<1>24. OnceInv'
  <2>1. SUFFICES ASSUME NEW g \in 1..MaxMenus PROVE Distinct(Menu!MenuIds(g)')
    BY DEF OnceInv, Distinct
  <2>2. Distinct(Menu!MenuIds(g))
    BY DEF MenuInv, OnceInv
  <2>3. CASE g = h
    <3>1. ~In(Menu!MenuIds(h), i)
      BY <1>2, <1>3, HasIs DEF MenuInv
    <3>2. Distinct(With(Menu!MenuIds(h), k, i))
      BY <1>2, <1>23, <2>2, <2>3, <3>1, InWith
    <3> QED BY <1>8, <2>3, <3>2
  <2> QED BY <1>8, <2>2, <2>3
<1>25. LeadsInv'
  <2>1. \A q \in Menu!Ids : \A g : Leads(q, g) => Leads(q, g)'
    <3> TAKE q \in Menu!Ids
    <3> TAKE g
    <3>2. SUFFICES ASSUME Leads(q, g) PROVE Leads(q, g)'
      OBVIOUS
    <3>3. menus[parent[q]] \in 1..MaxMenus
      BY <3>2, LiveIs DEF Leads
    <3>4. MenuEntries(menus[parent[q]]) \subseteq MenuEntries(menus[parent[q]])'
      BY <1>1, <1>8, <3>3
    <3> QED BY <1>1, <3>2, <3>4 DEF Leads
  <2>2. \A d \in Callers : step[d] = "record" => Menu!Parent(d) \in Menu!Ids
    BY CallFacts, MenuNumbers DEF MenuInv, HandleInv, HandleOK, Making
  <2> QED BY <1>1, <1>10, <1>21, <2>1, <2>2 DEF MenuInv, LeadsInv
<1>26. VisibleInv'
  BY <1>1, <1>10 DEF MenuInv, VisibleInv, Rising
<1>27. MirrorInv'
  <2>1. SUFFICES ASSUME NEW p \in 0..MaxId, menus[p] \in live
                 PROVE  /\ Distinct(visible[p])
                        /\ \A j \in Menu!Ids : Has(menus[p], j)' => Lists(p, j)
                        /\ \A j \in Menu!Ids : Lists(p, j) =>
                              Has(menus[p], j)' \/ \E d \in Callers : item'[d] = j
                                    /\ step'[d] \in Placing
    BY <1>1, <1>10 DEF MirrorInv, Distinct
  <2>2. /\ Distinct(visible[p])
        /\ \A j \in Menu!Ids : Has(menus[p], j) => Lists(p, j)
        /\ \A j \in Menu!Ids : Lists(p, j) =>
              Has(menus[p], j) \/ \E d \in Callers : item[d] = j /\ step[d] \in Placing
    BY <2>1 DEF MenuInv, MirrorInv
  <2>3. \A j \in Menu!Ids : Has(menus[p], j)' <=> Has(menus[p], j) \/ (p = P /\ j = i)
    BY <1>1, <1>9, <1>12, <1>14
  <2>4. ASSUME NEW j \in Menu!Ids, Lists(p, j)
        PROVE  Has(menus[p], j)' \/ \E d \in Callers : item'[d] = j /\ step'[d] \in Placing
    <3>1. parent[j] = p
      BY <2>4 DEF MenuInv, VisibleInv
    <3>2. CASE j = i
      BY <1>2, <2>3, <3>1, <3>2
    <3>3. CASE j # i
      BY <1>1, <2>2, <2>3, <2>4, <3>3 DEF i
    <3> QED BY <3>2, <3>3
  <2> QED BY <1>3, <2>2, <2>3, <2>4
<1>28. CallerInv'
  <2>1. \A d \in Callers : CallerOK(d)
    BY DEF MenuInv, CallerInv
  <2>2. \A d \in Callers \ {c} : step[d] # "idle" =>
           (Has(menus[Menu!Parent(d)], item[d])' <=> Has(menus[Menu!Parent(d)], item[d]))
    BY <1>1, <1>9, <1>10, <1>14, <1>15
  <2>3. \A d \in Callers \ {c} : CallerOK(d)'
    BY <1>1, <1>10, <2>1, <2>2 DEF CallerOK
  <2>4. to = "own" => Has(menus[Menu!Parent(c)], item[c])'
    BY <1>1, <1>2, <1>9, <1>11, <1>12 DEF i
  <2>5. CallerOK(c)'
    BY <2>4 DEF CallerOK, Placing
  <2> QED BY <2>3, <2>5 DEF CallerInv
<1>29. RestInv'
  <2>1. SUFFICES ASSUME NEW p \in 0..MaxId, Menu!Sole(p), menus[p] \in live,
                        \A d \in Callers : step'[d] \in Placing => Menu!Parent(d)' # p
                 PROVE  Menu!MenuIds(menus[p])' = visible[p]
    BY <1>1, <1>10 DEF RestInv
  <2>2. CASE p # P
    <3>1. \A d \in Callers : step[d] \in Placing => Menu!Parent(d) # p
      BY <1>1, <1>10, <2>1, <2>2 DEF P
    <3>2. Menu!MenuIds(menus[p])' = Menu!MenuIds(menus[p])
      BY <1>1, <1>8, <1>12, <2>1, <2>2, LiveIs
    <3> QED BY <2>1, <3>1, <3>2 DEF MenuInv, RestInv
  <2>3. CASE p = P
    <3> DEFINE V == visible[P]
               n == Menu!Index(c)
    <3>1. V \in Seq(Nat) /\ n \in DOMAIN V /\ V[n] = i
      BY <1>2, <1>3, <1>13, IndexIs, VisibleTypes DEF MenuInv, P, i
    <3>2. Menu!MenuIds(h) = Menu!RemoveAt(V, n) /\ pos[c] = n
      BY <1>12, <1>13, <2>1, <2>3 DEF MenuInv, PlaceInv, PlaceOK, P, h
    <3> HIDE DEF V, n
    <3>3. Menu!MenuIds(h) = Less(V, n)
      BY <3>1, <3>2, Removes
    <3>4. Len(Menu!MenuIds(h)) = Len(V) - 1 /\ n \in 1..Len(V) /\ Len(V) \in Nat
      BY <3>1, <3>3 DEF Less
    <3>5. pos[c] \in 1..Len(Menu!MenuIds(h)) + 1
      BY <3>2, <3>4
    <3>6. k = n
      BY <1>5, <3>2, <3>5
    <3>7. \A g : g = h => Menu!MenuIds(g)' = With(Less(V, n), n, V[n])
      BY <1>8, <3>1, <3>3, <3>6
    <3>8. \A g : g = h => Menu!MenuIds(g)' = V
      BY <3>1, <3>7, PutBack
    <3>9. menus'[p] = h /\ V = visible[p]
      BY <1>1, <1>12, <2>3 DEF V
    <3> QED BY <1>1, <3>8, <3>9
  <2> QED BY <2>2, <2>3
<1>30. PlaceInv'
  <2>1. ASSUME NEW d \in Callers \ {c} PROVE PlaceOK(d)'
    <3>1. SUFFICES ASSUME step[d] \in Placing, Menu!Sole(Menu!Parent(d)),
                          menus[Menu!Parent(d)] \in live
                   PROVE  /\ Menu!MenuIds(menus[Menu!Parent(d)])'
                                = Menu!RemoveAt(visible[Menu!Parent(d)], Menu!Index(d))
                          /\ step[d] \in {"insert", "sepinsert"} => pos[d] = Menu!Index(d)
      BY <1>1, <1>10 DEF PlaceOK
    <3>2. step[d] # "idle"
      BY <3>1 DEF Placing
    <3>3. Menu!Parent(d) # P /\ Menu!Parent(d) \in 0..MaxId
      BY <1>13, <1>15, <3>1, <3>2, SoleCaller DEF P
    <3>4. Menu!MenuIds(menus[Menu!Parent(d)])' = Menu!MenuIds(menus[Menu!Parent(d)])
      BY <1>1, <1>8, <1>10, <1>12, <3>1, <3>3, LiveIs
    <3> QED BY <3>1, <3>4 DEF MenuInv, PlaceInv, PlaceOK
  <2>2. PlaceOK(c)'
    BY DEF PlaceOK, Placing
  <2> QED BY <2>1, <2>2 DEF PlaceInv
<1>31. LostInv'
  BY <1>1, <1>10 DEF MenuInv, LostInv
<1>32. SeenInv'
  <2>1. SUFFICES ASSUME NEW j \in Menu!Ids, adder[j] # Nobody
                 PROVE  /\ Seen(j)' =>
                              menuOf[j] = menus[parent[j]]
                              \/ \E d \in Callers : item'[d] = j /\ step'[d] = "own"
                        /\ hides[j] # "hidden" /\ (\A d \in Callers : item'[d] # j) =>
                              Seen(j)' \/ (parent[j] # 0 /\ ~Safe(parent[j]))
    BY <1>1, <1>10 DEF SeenInv
  <2>2. parent[j] \in 0..MaxId
    BY DEF MenuInv, Menu!TypeOK
  <2>3. CASE j = i
    <3>1. to # "idle"
      BY <1>13, <2>1, <2>3 DEF MenuInv, CallsInv, CallOK, Separating, i
    <3> QED BY <2>3, <3>1 DEF i
  <2>4. CASE j # i
    <3>1. Seen(j)' <=> Seen(j)
      <4>1. menus[parent[j]] \in 0..MaxMenus /\ menus'[parent'[j]] = menus[parent[j]]
        BY <1>1, <1>14, <2>2
      <4>2. \A g \in 0..MaxMenus : Has(g, j)' <=> Has(g, j)
        BY <1>9, <2>4
      <4>3. Has(menus[parent[j]], j)' <=> Has(menus[parent[j]], j)
        BY <4>1, <4>2
      <4> QED BY <4>3 DEF Seen
    <3>2. (\A d \in Callers : item'[d] # j) => (\A d \in Callers : item[d] # j)
      BY <1>1, <2>4 DEF i
    <3>3. (\E d \in Callers : item[d] = j /\ step[d] = "own")
             => (\E d \in Callers : item'[d] = j /\ step'[d] = "own")
      BY <1>1, <2>4 DEF i
    <3> QED BY <2>1, <3>1, <3>2, <3>3 DEF MenuInv, SeenInv
  <2> QED BY <2>3, <2>4
<1> QED BY <1>16, <1>17, <1>18, <1>19, <1>20, <1>22, <1>24, <1>25, <1>26, <1>27, <1>28, <1>29,
           <1>30, <1>31, <1>32 DEF MenuInv

\* addOrUpdateMenuItem inserts it ...
LEMMA InsertItemStep ==
  ASSUME Menu!MenuAssumption, Private, MenuInv, Menu!TypeOK', NEW c \in Callers, Menu!InsertItem(c)
  PROVE  MenuInv'
<1>1. /\ step[c] = "insert" /\ handle[c] = menus[Menu!Parent(c)]
      /\ UNCHANGED <<item, handle, pos, Menu!trayVars, live, made, adder, hides>>
  BY DEF Menu!InsertItem, Menu!At, MenuInv, HandleInv, HandleOK, Adding
<1>2. step \in [Callers -> {"idle"} \cup Menu!Steps]
  BY DEF MenuInv, Menu!TypeOK
<1>3. CASE handle[c] \in live
  <2>1. Menu!Insert(c, "string") /\ step' = [step EXCEPT ![c] = "own"]
    BY <1>3 DEF Menu!InsertItem, Menu!Goto, Menu!Put
  <2>2. step'[c] = "own" /\ \A d \in Callers \ {c} : step'[d] = step[d]
    BY <1>2, <2>1
  <2>3. /\ item' = item /\ handle' = handle /\ pos' = pos
        /\ UNCHANGED <<currentID, menuItems, parent, menus, menuOf, visible, live, made, adder,
              hides>>
    BY <1>1 DEF Menu!trayVars
  <2> QED BY <1>1, <1>3, <2>1, <2>2, <2>3, InsertStep
<1>4. CASE handle[c] \notin live
  <2>1. step' = [step EXCEPT ![c] = "undo"] /\ win' = win
    BY <1>4 DEF Menu!InsertItem, Menu!Goto, Menu!Put
  <2>2. step'[c] = "undo" /\ Local(c)
    BY <1>1, <1>2, <2>1 DEF Local, Menu!trayVars
  <2>3. Menu!Parent(c)' = Menu!Parent(c) /\ item'[c] = item[c] /\ handle'[c] = handle[c]
    BY <1>1 DEF Menu!Parent, Menu!trayVars
  <2>4. CallOK(c)'
    BY <1>1, <2>2, <2>3 DEF MenuInv, CallsInv, CallOK, Local, Hiding, Separating, Menu!Steps
  <2>5. HandleOK(c)'
    BY <1>1, <1>4, <2>2, <2>3 DEF MenuInv, HandleInv, HandleOK, Local, Making, Hanging, Adding
  <2>6. CallerOK(c)' /\ PlaceOK(c)'
    BY <1>1, <1>4, <2>2, <2>3 DEF CallerOK, PlaceOK, Placing, Local
  <2> QED BY <1>1, <1>4, <2>2, <2>4, <2>5, <2>6, LocalStep
<1> QED BY <1>3, <1>4

\* ... and addSeparatorMenuItem.
LEMMA InsertSeparatorStep ==
  ASSUME Menu!MenuAssumption, Private, MenuInv, Menu!TypeOK', NEW c \in Callers,
         Menu!InsertSeparator(c)
  PROVE  MenuInv'
<1>1. /\ step[c] = "sepinsert" /\ handle[c] = menus[Menu!Parent(c)] /\ Menu!Parent(c) = 0
      /\ step' = [step EXCEPT ![c] = "idle"] /\ item' = [item EXCEPT ![c] = 0]
      /\ handle' = [handle EXCEPT ![c] = 0] /\ pos' = [pos EXCEPT ![c] = 0]
      /\ Menu!Insert(c, "separator")
      /\ UNCHANGED <<currentID, menuItems, parent, menus, menuOf, visible, live, made, adder,
            hides>>
  BY DEF Menu!InsertSeparator, Menu!At, Menu!Leave, Menu!Goto, Menu!Put, MenuInv, HandleInv,
     HandleOK, CallsInv, CallOK,
         Separating, Menu!trayVars
<1>2. handle[c] \in live
  BY <1>1 DEF MenuInv, MenusInv
<1>3. /\ step'[c] = "idle" /\ item'[c] = 0
      /\ \A d \in Callers \ {c} : step'[d] = step[d] /\ item'[d] = item[d] /\ handle'[d] = handle[d]
                                  /\ pos'[d] = pos[d]
  BY <1>1 DEF MenuInv, Menu!TypeOK
<1> QED BY <1>1, <1>2, <1>3, InsertStep

\* The item is in visibleItems but Windows does not find it: it is added again.
LEMMA SetAgainStep ==
  ASSUME Menu!MenuAssumption, Private, MenuInv, Menu!TypeOK', NEW c \in Callers, Menu!Set(c),
         Menu!Places(handle[c], item[c]) = {}
  PROVE  MenuInv'
<1>1. /\ step[c] = "set" /\ handle[c] = menus[Menu!Parent(c)]
            /\ step' = [step EXCEPT ![c] = "addvis"]
      /\ UNCHANGED <<item, handle, pos, Menu!trayVars, Menu!winVars, adder, hides>>
  BY DEF Menu!Set, Menu!At, Menu!Goto, Menu!Put, MenuInv, HandleInv, HandleOK, Adding
<1>2. step'[c] = "addvis" /\ Local(c)
  BY <1>1 DEF Local, Menu!trayVars, Menu!winVars, MenuInv, Menu!TypeOK
<1>3. Menu!Parent(c)' = Menu!Parent(c) /\ item'[c] = item[c] /\ handle'[c] = handle[c]
  BY <1>1 DEF Menu!Parent, Menu!trayVars
<1>4. item[c] \in Menu!Ids /\ Menu!Parent(c) \in 0..MaxId /\ handle[c] \in 0..MaxMenus
  BY <1>1, CallFacts DEF MenuInv, Menu!TypeOK
<1>5. handle[c] \notin live
  <2>1. SUFFICES ASSUME handle[c] \in live PROVE FALSE
    OBVIOUS
  <2>2. Lists(Menu!Parent(c), item[c])
    BY <1>1 DEF MenuInv, CallerInv, CallerOK
  <2>3. \A d \in Callers : item[d] = item[c] => step[d] \notin Placing
    BY <1>1, <1>4, MenuNumbers DEF MenuInv, AloneInv, Placing
  <2>4. Has(handle[c], item[c])
    BY <1>1, <1>4, <2>1, <2>2, <2>3 DEF MenuInv, MirrorInv
  <2> QED BY <1>4, <2>1, <2>4, PlacesIs
<1>6. CallOK(c)'
  BY <1>1, <1>2, <1>3 DEF MenuInv, CallsInv, CallOK, Local, Hiding, Separating, Menu!Steps
<1>7. HandleOK(c)'
  BY <1>1, <1>2, <1>3 DEF MenuInv, HandleInv, HandleOK, Local, Making, Hanging, Adding
<1>8. CallerOK(c)' /\ PlaceOK(c)'
  BY <1>1, <1>2, <1>3, <1>5 DEF CallerOK, PlaceOK, Placing, Local
<1> QED BY <1>1, <1>2, <1>6, <1>7, <1>8, LocalStep DEF Placing

-----------------------------------------------------------------------------
(* Ends of calls.                                                          *)

\* What a safe item is below is safe.
LEMMA SafeUp ==
  ASSUME NEW q \in Menu!Ids, Safe(q)
  PROVE  hides[q] = "never" /\ (parent[q] # 0 => Safe(parent[q]))
  BY DEF Safe

\* A menu that is gone was that of an item that was hidden, or below one.
LEMMA DeadMenu ==
  ASSUME Menu!MenuAssumption, MenuInv, NEW p \in 0..MaxId, menus[p] # 0, menus[p] \notin live
  PROVE  p \in Menu!Ids /\ ~Safe(p)
<1>1. p # 0
  BY DEF MenuInv, MenusInv
<1>2. p \in Menu!Ids
  BY <1>1, MenuNumbers
<1> QED BY <1>2 DEF MenuInv, LostInv

\* What a call leaves of visibleItems when it takes its item out.
LEMMA Listed ==
  ASSUME Menu!MenuAssumption, MenuInv, NEW c \in Callers, step[c] # "idle",
         \/ visible' = visible
         \/ Lists(Menu!Parent(c), item[c])
            /\ visible' = [visible EXCEPT ![Menu!Parent(c)]
                  = Menu!RemoveAt(visible[Menu!Parent(c)], Menu!Index(c))]
  PROVE  /\ \A p \in 0..MaxId : Rising(visible'[p])
               /\ (p # Menu!Parent(c) => visible'[p] = visible[p])
         /\ \A p \in 0..MaxId : \A j \in Menu!Ids : In(visible'[p], j) => In(visible[p], j)
         /\ \A p \in 0..MaxId : \A j \in Menu!Ids \ {item[c]} :
               In(visible[p], j) => In(visible'[p], j)
         /\ \A p \in 0..MaxId : Distinct(visible[p]) => Distinct(visible'[p])
         /\ \A p \in 0..MaxId :
               /\ Distinct(visible[p]) /\ p = Menu!Parent(c) /\ Lists(p, item[c])
               /\ visible' = [visible EXCEPT ![p] = Menu!RemoveAt(visible[p], Menu!Index(c))]
               => ~In(visible'[p], item[c])
<1> DEFINE P == Menu!Parent(c)
           i == item[c]
           V == visible[P]
           n == Menu!Index(c)
<1>1. /\ \A p \in 0..MaxId : Rising(visible[p])
      /\ \A p \in 0..MaxId : p = P => visible[p] = V
  BY DEF MenuInv, VisibleInv
<1>2. P \in 0..MaxId /\ i \in Menu!Ids /\ V \in Seq(Nat)
  BY CallFacts, VisibleTypes DEF MenuInv
<1>3. CASE visible' = visible /\ ~ (Lists(P, i)
         /\ visible' = [visible EXCEPT ![P] = Menu!RemoveAt(V, n)])
  BY <1>1, <1>3
<1>4. CASE Lists(P, i) /\ visible' = [visible EXCEPT ![P] = Menu!RemoveAt(V, n)]
  <2>1. n \in DOMAIN V /\ V[n] = i
    BY <1>4, IndexIs DEF MenuInv
  <2>2. Menu!RemoveAt(V, n) = Less(V, n)
    BY <1>2, <2>1, Removes
  <2>3. /\ \A p \in 0..MaxId : p = P => visible'[p] = Less(V, n)
        /\ \A p \in 0..MaxId : p # P => visible'[p] = visible[p]
    BY <1>2, <1>4, <2>2 DEF MenuInv, Menu!TypeOK
  <2> HIDE DEF P, i, V, n
  <2>4. /\ Rising(V) => Rising(Less(V, n))
        /\ Strict(V) => \A x : In(Less(V, n), x) <=> In(V, x) /\ x # V[n]
        /\ Distinct(V) => Distinct(Less(V, n))
    BY <1>2, <2>1, LessRises
  <2>5. Rising(V)
    BY <1>1, <1>2 
  <2>6. Distinct(V) => ~In(Less(V, n), i)
    BY <1>2, <2>1, <2>4, <2>5, StrictIs
  <2>7. /\ \A j : In(Less(V, n), j) => In(V, j)
        /\ \A j : j # i /\ In(V, j) => In(Less(V, n), j)
    <3>1. /\ \A m \in DOMAIN Less(V, n) : \E k \in DOMAIN V : k # n /\ Less(V, n)[m] = V[k]
          /\ \A k \in DOMAIN V : k # n => In(Less(V, n), V[k])
      BY <1>2, <2>1, InLess
    <3> QED BY <2>1, <3>1 DEF In
  <2> QED BY <1>1, <2>3, <2>4, <2>5, <2>6, <2>7 DEF P, i
<1> QED BY <1>3, <1>4

\* A call is over, and may have taken its item out of visibleItems.
LEMMA ReturnStep ==
  ASSUME Menu!MenuAssumption, Private, MenuInv, Menu!TypeOK', NEW c \in Callers,
         step[c] \in {"set", "attach", "own", "delete", "undo", "delvis"}, Menu!Returns(c),
         UNCHANGED <<currentID, menuItems, parent, menus, win, live, made, hides>>,
         \/ visible' = visible
         \/ Lists(Menu!Parent(c), item[c])
            /\ visible' = [visible EXCEPT ![Menu!Parent(c)]
                  = Menu!RemoveAt(visible[Menu!Parent(c)], Menu!Index(c))],
         step[c] # "delvis" /\ menus[Menu!Parent(c)] \in live => visible' = visible,
         step[c] = "delvis" /\ menus[Menu!Parent(c)] \in live =>
            visible' = [visible EXCEPT ![Menu!Parent(c)]
                  = Menu!RemoveAt(visible[Menu!Parent(c)], Menu!Index(c))],
         \A k \in Menu!Ids \ {item[c]} : menuOf'[k] = menuOf[k],
         Seen(item[c]) => menuOf'[item[c]] = menus[Menu!Parent(c)],
         \/ hides[item[c]] = "hidden" \/ Seen(item[c])
         \/ Menu!Parent(c) # 0 /\ ~Safe(Menu!Parent(c))
  PROVE  MenuInv'
<1> DEFINE P == Menu!Parent(c)
           i == item[c]
<1>1. /\ step' = [step EXCEPT ![c] = "idle"] /\ item' = [item EXCEPT ![c] = 0]
      /\ handle' = [handle EXCEPT ![c] = 0] /\ pos' = [pos EXCEPT ![c] = 0]
      /\ adder' = IF adder[i] = Nobody THEN [adder EXCEPT ![i] = c] ELSE adder
      /\ currentID' = currentID /\ menuItems' = menuItems /\ parent' = parent /\ menus' = menus
      /\ win' = win /\ live' = live /\ made' = made /\ hides' = hides
  BY DEF Menu!Returns, Menu!Leave, Menu!Goto, Menu!Put
<1>2. i \in Menu!Ids /\ i \in Nat /\ P \in 0..MaxId /\ parent[i] = P /\ c # Nobody
         /\ step[c] # "idle"
  BY CallFacts, MenuNumbers DEF MenuInv, Menu!Parent
<1>3. /\ step'[c] = "idle" /\ item'[c] = 0
      /\ \A d \in Callers \ {c} : step'[d] = step[d] /\ item'[d] = item[d] /\ handle'[d] = handle[d]
                                  /\ pos'[d] = pos[d]
  BY <1>1 DEF MenuInv, Menu!TypeOK
<1>4. adder[i] \in {c, Nobody} /\ (P # 0 => adder[P] = c) /\ i <= currentID /\ i \in menuItems
  BY <1>2 DEF MenuInv, CallsInv, CallOK, Menu!Steps, Separating
<1>5. /\ adder'[i] = c
      /\ \A k \in Menu!Ids : k # i \/ adder[k] # Nobody => adder'[k] = adder[k]
  BY <1>1, <1>2, <1>4 DEF MenuInv, Menu!TypeOK
<1>6. /\ \A p \in 0..MaxId : Rising(visible'[p]) /\ (p # P => visible'[p] = visible[p])
      /\ \A p \in 0..MaxId : \A j \in Menu!Ids : In(visible'[p], j) => In(visible[p], j)
      /\ \A p \in 0..MaxId : \A j \in Menu!Ids \ {i} : In(visible[p], j) => In(visible'[p], j)
      /\ \A p \in 0..MaxId : Distinct(visible[p]) => Distinct(visible'[p])
      /\ \A p \in 0..MaxId :
            /\ Distinct(visible[p]) /\ p = P /\ Lists(p, i)
            /\ visible' = [visible EXCEPT ![p] = Menu!RemoveAt(visible[p], Menu!Index(c))]
            => ~In(visible'[p], i)
  BY <1>2, Listed
<1>7. \A p \in 0..MaxId : \A j \in Menu!Ids :
         /\ Lists(p, j)' => Lists(p, j)
         /\ j # i => (Lists(p, j)' <=> Lists(p, j))
  BY <1>6 DEF Lists
<1>8. /\ \A g : MenuEntries(g)' = MenuEntries(g) /\ Menu!MenuIds(g)' = Menu!MenuIds(g)
      /\ \A g, k : Has(g, k)' = Has(g, k)
      /\ \A p : Menu!Sole(p)' = Menu!Sole(p)
      /\ \A k : Safe(k)' = Safe(k)
      /\ \A k : Seen(k)' = Seen(k)
  <2>1. \A g : MenuEntries(g)' = MenuEntries(g) /\ Menu!MenuIds(g)' = Menu!MenuIds(g)
    BY <1>1 DEF MenuEntries, Menu!MenuIds
  <2>2. \A g, k : Has(g, k)' = Has(g, k)
    BY <2>1 DEF Has
  <2>3. (\A p : Menu!Sole(p)' = Menu!Sole(p)) /\ (\A k : Safe(k)' = Safe(k))
    BY <1>1 DEF Menu!Sole, Safe
  <2>4. \A k : Seen(k)' = Seen(k)
    BY <1>1, <2>2 DEF Seen
  <2> QED BY <2>1, <2>2, <2>3, <2>4
<1>9. \A d \in Callers \ {c} : Menu!Parent(d)' = Menu!Parent(d)
  BY <1>1, <1>3 DEF Menu!Parent
<1>10. \A d \in Callers \ {c} : step[d] # "idle" =>
          item[d] # i /\ Menu!Parent(d) \in 0..MaxId /\ item[d] \in Menu!Ids
  BY <1>2, CallFacts, MenuNumbers DEF MenuInv, AloneInv
<1>11. \A d \in Callers \ {c} : step[d] # "idle" /\ Menu!Parent(d) # P
         => Menu!Index(d)' = Menu!Index(d)
  <2>1. TAKE d \in Callers \ {c}
  <2>2. SUFFICES ASSUME step[d] # "idle" /\ Menu!Parent(d) # P PROVE Menu!Index(d)' = Menu!Index(d)
    OBVIOUS
  <2>3. item'[d] = item[d] /\ visible'[Menu!Parent(d)'] = visible[Menu!Parent(d)]
    BY <1>3, <1>6, <1>9, <1>10, <2>2
  <2> QED BY <2>3 DEF Menu!Index
<1> HIDE DEF P, i
<1>12. CallsInv'
  <2>1. \A d \in Callers : CallOK(d)
    BY DEF MenuInv, CallsInv
  <2>2. ASSUME NEW d \in Callers \ {c} PROVE CallOK(d)'
    <3>1. CASE step[d] = "idle"
      BY <1>1, <1>3, <2>1, <3>1 DEF CallOK, Hiding, Separating, Menu!Steps
    <3>2. CASE step[d] # "idle"
      <4>1. item[d] # i /\ item[d] \in Menu!Ids /\ adder'[item[d]] = adder[item[d]]
        BY <1>5, <1>10, <3>2
      <4>2. Menu!Parent(d) # 0 => adder'[Menu!Parent(d)] = d
        <5>1. SUFFICES ASSUME Menu!Parent(d) # 0 PROVE adder'[Menu!Parent(d)] = d
          OBVIOUS
        <5>2. Menu!Parent(d) \in Menu!Ids /\ adder[Menu!Parent(d)] = d /\ d # Nobody
          BY <1>10, <2>1, <3>2, <5>1, MenuNumbers DEF CallOK
        <5> QED BY <1>5, <5>2
      <4> QED BY <1>1, <1>3, <1>9, <2>1, <3>2, <4>1, <4>2 DEF CallOK
    <3> QED BY <3>1, <3>2
  <2>3. CallOK(c)'
    <3>1. 0 <= currentID
      BY DEF MenuInv, Menu!TypeOK
    <3> QED BY <1>1, <1>3, <3>1 DEF CallOK, Hiding, Separating, Menu!Steps
  <2> QED BY <2>2, <2>3 DEF CallsInv
<1>13. AloneInv'
  BY <1>3 DEF MenuInv, AloneInv
<1>14. ItemsInv'
  <2>1. SUFFICES ASSUME NEW k \in Menu!Ids
                 PROVE  /\ adder'[k] # Nobody => k <= currentID /\ k \in menuItems
                        /\ parent[k] < k
                        /\ k > currentID => parent[k] = 0
                        /\ parent[k] # 0 =>
                              adder'[parent[k]] # Nobody
                                    /\ adder'[k] \in {adder'[parent[k]], Nobody}
    BY <1>1 DEF ItemsInv
  <2>2. /\ adder[k] # Nobody => k <= currentID /\ k \in menuItems
        /\ parent[k] < k
        /\ k > currentID => parent[k] = 0
        /\ parent[k] # 0 =>
              adder[parent[k]] # Nobody /\ adder[k] \in {adder[parent[k]], Nobody}
    BY DEF MenuInv, ItemsInv
  <2>3. adder'[k] # Nobody => k <= currentID /\ k \in menuItems
    BY <1>4, <1>5, <2>2
  <2>4. ASSUME parent[k] # 0
        PROVE  adder'[parent[k]] # Nobody /\ adder'[k] \in {adder'[parent[k]], Nobody}
    <3>1. parent[k] \in Menu!Ids
      BY <2>4, MenuNumbers DEF MenuInv, Menu!TypeOK
    <3>2. adder'[parent[k]] = adder[parent[k]]
      BY <1>5, <2>2, <2>4, <3>1
    <3>3. CASE k = i
      BY <1>2, <1>4, <1>5, <2>4, <3>2, <3>3
    <3>4. CASE k # i
      BY <1>5, <2>2, <2>4, <3>2, <3>4
    <3> QED BY <3>3, <3>4
  <2> QED BY <2>2, <2>3, <2>4
<1>15. MenusInv'
  <2>1. \A q \in Menu!Ids : adder[q] # Nobody => adder'[q] # Nobody
    BY <1>5
  <2> QED BY <1>1, <2>1 DEF MenuInv, MenusInv
<1>16. HandleInv'
  <2>1. \A d \in Callers : HandleOK(d)
    BY DEF MenuInv, HandleInv
  <2>2. \A d \in Callers \ {c} : HandleOK(d)'
    BY <1>1, <1>3, <1>9, <2>1 DEF HandleOK
  <2>3. HandleOK(c)'
    BY <1>3 DEF HandleOK, Making, Hanging, Adding
  <2> QED BY <2>2, <2>3 DEF HandleInv
<1>17. NewInv'
  BY <1>3 DEF MenuInv, NewInv, Hanging
<1>18. \A d \in Callers : step[d] = "record" \/ step'[d] = "record" => d # c
  BY <1>3
<1>19. OwnEntryInv'
  <2>1. \A e, g : SubInv(e, g) => SubInv(e, g)'
    BY <1>1, <1>3, <1>9, <1>18 DEF SubInv
  <2> QED BY <1>1, <1>8, <2>1 DEF MenuInv, OwnEntryInv
<1>20. OnceInv'
  BY <1>8 DEF MenuInv, OnceInv, Distinct
<1>21. LeadsInv'
  <2>1. \A q, g : Leads(q, g)' = Leads(q, g)
    BY <1>1, <1>8 DEF Leads
  <2> QED BY <1>1, <1>3, <1>9, <1>18, <2>1 DEF MenuInv, LeadsInv
<1>22. VisibleInv'
  <2>1. \A p \in 0..MaxId : Rising(visible[p])'
    BY <1>6 DEF Rising
  <2>2. \A p \in 0..MaxId : menus[p] = 0 => visible'[p] = << >>
    <3>1. \A p \in 0..MaxId : menus[p] = 0 => visible[p] = << >>
      BY DEF MenuInv, VisibleInv
    <3>2. menus[P] = 0 => ~Lists(P, i)
      BY <1>2, <3>1 DEF Lists, In
    <3> QED BY <1>2, <1>6, <3>1, <3>2 DEF P, i
  <2>3. \A p \in 0..MaxId : \A k \in Menu!Ids : Lists(p, k)' => parent[k] = p /\ k <= currentID
    BY <1>7 DEF MenuInv, VisibleInv
  <2> QED BY <1>1, <2>1, <2>2, <2>3 DEF VisibleInv
<1>23. menus[P] \in live /\ step[c] = "delvis" => Lists(P, i) /\ ~Has(menus[P], i)
  BY DEF MenuInv, CallerInv, CallerOK, Placing, P, i
<1>24. MirrorInv'
  <2>1. SUFFICES ASSUME NEW p \in 0..MaxId, menus[p] \in live
                 PROVE  /\ Distinct(visible'[p])
                        /\ \A j \in Menu!Ids : Has(menus[p], j) => Lists(p, j)'
                        /\ \A j \in Menu!Ids : Lists(p, j)' =>
                              Has(menus[p], j) \/ \E d \in Callers : item'[d] = j
                                    /\ step'[d] \in Placing
    BY <1>1, <1>8 DEF MirrorInv, Distinct
  <2>2. /\ Distinct(visible[p])
        /\ \A j \in Menu!Ids : Has(menus[p], j) => Lists(p, j)
        /\ \A j \in Menu!Ids : Lists(p, j) =>
              Has(menus[p], j) \/ \E d \in Callers : item[d] = j /\ step[d] \in Placing
    BY <2>1 DEF MenuInv, MirrorInv
  <2>3. ASSUME NEW j \in Menu!Ids, Has(menus[p], j) PROVE Lists(p, j)'
    <3>1. Lists(p, j)
      BY <2>2, <2>3
    <3>2. CASE j = i
      <4>1. parent[j] = p
        BY <3>1 DEF MenuInv, VisibleInv
      <4>2. p = P /\ step[c] # "delvis"
        BY <1>2, <1>23, <2>1, <2>3, <3>2, <4>1
      <4>3. visible' = visible
        BY <2>1, <4>2 DEF P
      <4> QED BY <3>1, <4>3 DEF Lists
    <3>3. CASE j # i
      BY <1>7, <3>1, <3>3
    <3> QED BY <3>2, <3>3
  <2>4. ASSUME NEW j \in Menu!Ids, Lists(p, j)'
        PROVE  Has(menus[p], j) \/ \E d \in Callers : item'[d] = j /\ step'[d] \in Placing
    <3>1. Lists(p, j)
      BY <1>7, <2>4
    <3>2. CASE j = i
      <4>1. parent[j] = p
        BY <3>1 DEF MenuInv, VisibleInv
      <4>2. p = P
        BY <1>2, <3>2, <4>1
      <4>3. CASE step[c] = "delvis"
        <5>1. visible' = [visible EXCEPT ![p] = Menu!RemoveAt(visible[p], Menu!Index(c))]
          BY <2>1, <4>2, <4>3 DEF P
        <5>2. ~In(visible'[p], i)
          BY <1>6, <2>2, <3>1, <3>2, <4>2, <5>1
        <5> QED BY <2>4, <3>2, <5>2 DEF Lists
      <4>4. CASE step[c] # "delvis"
        <5>1. step[c] \notin Placing
          BY <4>4 DEF Placing
        <5>2. \A d \in Callers : item[d] = i => d = c
          BY <1>2, MenuNumbers DEF MenuInv, AloneInv, i
        <5> QED BY <2>2, <3>1, <3>2, <5>1, <5>2
      <4> QED BY <4>3, <4>4
    <3>3. CASE j # i
      BY <1>3, <2>2, <3>1, <3>3 DEF i
    <3> QED BY <3>2, <3>3
  <2> QED BY <1>6, <2>2, <2>3, <2>4
<1>25. CallerInv'
  <2>1. \A d \in Callers : CallerOK(d)
    BY DEF MenuInv, CallerInv
  <2>2. \A d \in Callers \ {c} : step[d] # "idle" =>
           (Lists(Menu!Parent(d), item[d])' <=> Lists(Menu!Parent(d), item[d]))
    BY <1>3, <1>7, <1>9, <1>10
  <2>3. \A d \in Callers \ {c} : CallerOK(d)'
    BY <1>1, <1>3, <1>8, <1>9, <2>1, <2>2 DEF CallerOK
  <2>4. CallerOK(c)'
    BY <1>3 DEF CallerOK
  <2> QED BY <2>3, <2>4 DEF CallerInv
<1>26. RestInv'
  <2>1. SUFFICES ASSUME NEW p \in 0..MaxId, Menu!Sole(p), menus[p] \in live,
                        \A d \in Callers : step'[d] \in Placing => Menu!Parent(d)' # p
                 PROVE  Menu!MenuIds(menus[p]) = visible'[p]
    BY <1>1, <1>8 DEF RestInv
  <2>2. \A d \in Callers \ {c} : step[d] \in Placing => Menu!Parent(d) # p
    BY <1>3, <1>9, <2>1
  <2>3. CASE p # P
    <3>1. \A d \in Callers : step[d] \in Placing => Menu!Parent(d) # p
      BY <2>2, <2>3 DEF P
    <3> QED BY <1>6, <2>1, <2>3, <3>1 DEF MenuInv, RestInv
  <2>4. CASE p = P /\ step[c] = "delvis"
    <3>1. Menu!MenuIds(menus[p]) = Menu!RemoveAt(visible[p], Menu!Index(c))
      BY <2>1, <2>4 DEF MenuInv, PlaceInv, PlaceOK, Placing, P
    <3>2. visible' = [visible EXCEPT ![p] = Menu!RemoveAt(visible[p], Menu!Index(c))]
      BY <2>1, <2>4 DEF P
    <3> QED BY <3>1, <3>2 DEF MenuInv, Menu!TypeOK
  <2>5. CASE p = P /\ step[c] # "delvis"
    <3>1. step[c] \notin Placing
      BY <2>5 DEF Placing
    <3>2. \A d \in Callers : step[d] \in Placing => Menu!Parent(d) # p
      BY <2>2, <3>1
    <3>3. visible' = visible
      BY <2>1, <2>5 DEF P
    <3> QED BY <2>1, <3>2, <3>3 DEF MenuInv, RestInv
  <2> QED BY <2>3, <2>4, <2>5
<1>27. PlaceInv'
  <2>1. ASSUME NEW d \in Callers \ {c} PROVE PlaceOK(d)'
    <3>1. SUFFICES ASSUME step[d] \in Placing, Menu!Sole(Menu!Parent(d)),
                          menus[Menu!Parent(d)] \in live
                   PROVE  /\ Menu!MenuIds(menus[Menu!Parent(d)])
                                = Menu!RemoveAt(visible'[Menu!Parent(d)], Menu!Index(d)')
                          /\ step[d] \in {"insert", "sepinsert"} => pos[d] = Menu!Index(d)'
      BY <1>1, <1>3, <1>8, <1>9 DEF PlaceOK
    <3>2. step[d] # "idle"
      BY <3>1 DEF Placing
    <3>3. Menu!Parent(d) # P /\ Menu!Parent(d) \in 0..MaxId
      BY <1>2, <1>10, <3>1, <3>2, SoleCaller DEF P
    <3> QED BY <1>6, <1>11, <3>1, <3>2, <3>3 DEF MenuInv, PlaceInv, PlaceOK
  <2>2. PlaceOK(c)'
    BY <1>3 DEF PlaceOK, Placing
  <2> QED BY <2>1, <2>2 DEF PlaceInv
<1>28. LostInv'
  BY <1>1, <1>8 DEF MenuInv, LostInv
<1>29. SeenInv'
  <2>1. SUFFICES ASSUME NEW k \in Menu!Ids, adder'[k] # Nobody
                 PROVE  /\ Seen(k) =>
                              menuOf'[k] = menus[parent[k]]
                              \/ \E d \in Callers : item'[d] = k /\ step'[d] = "own"
                        /\ hides[k] # "hidden" /\ (\A d \in Callers : item'[d] # k) =>
                              Seen(k) \/ (parent[k] # 0 /\ ~Safe(parent[k]))
    BY <1>1, <1>8 DEF SeenInv
  <2>2. CASE k = i
    BY <1>2, <2>2 DEF P, i
  <2>3. CASE k # i
    <3>1. adder[k] # Nobody /\ menuOf'[k] = menuOf[k]
      BY <1>5, <2>1, <2>3 DEF i
    <3>2. (\A d \in Callers : item'[d] # k) => (\A d \in Callers : item[d] # k)
      BY <1>3, <2>3 DEF i
    <3>3. (\E d \in Callers : item[d] = k /\ step[d] = "own")
             => (\E d \in Callers : item'[d] = k /\ step'[d] = "own")
      BY <1>3, <2>3 DEF i
    <3> QED BY <3>1, <3>2, <3>3 DEF MenuInv, SeenInv
  <2> QED BY <2>2, <2>3
<1> QED BY <1>12, <1>13, <1>14, <1>15, <1>16, <1>17, <1>19, <1>20, <1>21, <1>22, <1>24, <1>25,
           <1>26, <1>27, <1>28, <1>29 DEF MenuInv

\* A call that is not putting its entry in finds only one that is on the books.
LEMMA SeenOf ==
  ASSUME Menu!MenuAssumption, MenuInv, FreshInv, NEW c \in Callers, step[c] \notin {"idle", "own"},
         Seen(item[c])
  PROVE  menuOf[item[c]] = menus[Menu!Parent(c)]
<1>1. item[c] \in Menu!Ids
  BY CallFacts DEF MenuInv
<1>2. adder[item[c]] # Nobody
  BY DEF FreshInv
<1>3. \A d \in Callers : item[d] = item[c] => d = c
  BY <1>1, MenuNumbers DEF MenuInv, AloneInv
<1> QED BY <1>1, <1>2, <1>3 DEF MenuInv, SeenInv, Menu!Parent

\* The item is changed where it is.
LEMMA SetStep ==
  ASSUME Menu!MenuAssumption, Private, MenuInv, FreshInv, Menu!TypeOK', NEW c \in Callers,
         Menu!Set(c)
  PROVE  MenuInv'
<1>1. step[c] = "set" /\ UNCHANGED <<Menu!trayVars, Menu!winVars, hides>>
  BY DEF Menu!Set, Menu!At
<1>2. item[c] \in Menu!Ids /\ handle[c] \in 0..MaxMenus
  BY <1>1, CallFacts DEF MenuInv, Menu!TypeOK
<1>3. CASE Menu!Places(handle[c], item[c]) = {}
  BY <1>3, SetAgainStep
<1>4. CASE Menu!Places(handle[c], item[c]) # {}
  <2>1. Menu!Returns(c)
    BY <1>4 DEF Menu!Set
  <2>2. Seen(item[c])
    <3>1. PICK p \in Menu!Places(handle[c], item[c]) : TRUE
      BY <1>4
    <3>2. /\ p[1] \in live /\ win[p[1]][p[2]] \in MenuEntries(p[1])
          /\ win[p[1]][p[2]].id = item[c] /\ p[1] = menus[parent[item[c]]]
      BY <1>2, <3>1, PlacesIs
    <3> QED BY <3>2, LiveIs DEF Seen, Has
  <2>3. menuOf[item[c]] = menus[Menu!Parent(c)]
    BY <1>1, <2>2, SeenOf
  <2>4. /\ UNCHANGED <<currentID, menuItems, parent, menus, win, live, made, hides>>
        /\ visible' = visible /\ menuOf' = menuOf /\ step[c] # "delvis"
    BY <1>1 DEF Menu!trayVars, Menu!winVars
  <2> QED BY <1>1, <2>1, <2>2, <2>3, <2>4, ReturnStep
<1> QED BY <1>3, <1>4

\* menuOf gets the menu of the item, and the call is over.
LEMMA OwnStep ==
  ASSUME Menu!MenuAssumption, Private, MenuInv, Menu!TypeOK', NEW c \in Callers, Menu!Own(c)
  PROVE  MenuInv'
<1>1. /\ step[c] = "own" /\ Menu!Returns(c) /\ menuOf' = [menuOf EXCEPT ![item[c]] = handle[c]]
      /\ UNCHANGED <<currentID, menuItems, parent, menus, win, live, made, hides>>
      /\ visible' = visible
  BY DEF Menu!Own, Menu!At, Menu!Put, Menu!winVars
<1>2. item[c] \in Menu!Ids /\ Menu!Parent(c) \in 0..MaxId
  BY <1>1, CallFacts DEF MenuInv
<1>3. handle[c] = menus[Menu!Parent(c)] /\ handle[c] # 0
  BY <1>1 DEF MenuInv, HandleInv, HandleOK, Adding
<1>4. menuOf'[item[c]] = handle[c] /\ \A k \in Menu!Ids \ {item[c]} : menuOf'[k] = menuOf[k]
  BY <1>1, <1>2 DEF MenuInv, Menu!TypeOK
<1>5. Seen(item[c]) \/ (Menu!Parent(c) # 0 /\ ~Safe(Menu!Parent(c)))
  <2>1. CASE menus[Menu!Parent(c)] \in live
    BY <1>1, <2>1 DEF MenuInv, CallerInv, CallerOK, Seen, Menu!Parent
  <2>2. CASE menus[Menu!Parent(c)] \notin live
    BY <1>2, <1>3, <2>2, DeadMenu, MenuNumbers
  <2> QED BY <2>1, <2>2
<1> QED BY <1>1, <1>3, <1>4, <1>5, ReturnStep

\* The item goes from visibleItems, and the call is over.
LEMMA DelFromVisibleStep ==
  ASSUME Menu!MenuAssumption, Private, MenuInv, FreshInv, Menu!TypeOK', NEW c \in Callers,
         Menu!DelFromVisible(c)
  PROVE  MenuInv'
<1>1. /\ step[c] \in {"undo", "delvis"} /\ Menu!Returns(c)
      /\ visible' = IF Menu!Index(c) = 0 THEN visible
                    ELSE [visible EXCEPT ![Menu!Parent(c)]
                          = Menu!RemoveAt(visible[Menu!Parent(c)], Menu!Index(c))]
      /\ UNCHANGED <<currentID, menuItems, parent, menus, win, live, made, hides>>
      /\ menuOf' = menuOf
  BY DEF Menu!DelFromVisible, Menu!Put, Menu!winVars
<1>2. item[c] \in Menu!Ids /\ Menu!Parent(c) \in 0..MaxId
  BY <1>1, CallFacts DEF MenuInv
<1>3. Menu!Index(c) = 0 <=> ~Lists(Menu!Parent(c), item[c])
  <2>1. 0 \notin DOMAIN visible[Menu!Parent(c)]
    BY <1>2, VisibleTypes DEF MenuInv
  <2> QED BY <1>1, <2>1, IndexIs DEF MenuInv
<1>4. Seen(item[c]) => menuOf'[item[c]] = menus[Menu!Parent(c)]
  BY <1>1, SeenOf
<1>5. CASE step[c] = "undo"
  <2>1. menus[Menu!Parent(c)] \notin live /\ menus[Menu!Parent(c)] # 0
    BY <1>5 DEF MenuInv, HandleInv, HandleOK, Adding
  <2>2. Menu!Parent(c) # 0 /\ ~Safe(Menu!Parent(c))
    BY <1>2, <2>1, DeadMenu, MenuNumbers
  <2> QED BY <1>1, <1>3, <1>4, <1>5, <2>1, <2>2, ReturnStep
<1>6. CASE step[c] = "delvis"
  <2>1. hides[item[c]] = "hidden"
    BY <1>6 DEF MenuInv, CallsInv, CallOK, Hiding
  <2>2. menus[Menu!Parent(c)] \in live => Lists(Menu!Parent(c), item[c])
    BY <1>6 DEF MenuInv, CallerInv, CallerOK, Placing
  <2> QED BY <1>1, <1>3, <1>4, <1>6, <2>1, <2>2, ReturnStep
<1> QED BY <1>1, <1>5, <1>6

\* The entry of the parent is not found, which cannot be unless it was hidden.
LEMMA AttachNoneStep ==
  ASSUME Menu!MenuAssumption, Private, MenuInv, Menu!TypeOK', NEW c \in Callers,
         step[c] = "attach", Menu!Returns(c), UNCHANGED <<Menu!trayVars, Menu!winVars, hides>>,
         Menu!Places(menuOf[Menu!Parent(c)], Menu!Parent(c)) = {}
  PROVE  MenuInv'
<1> DEFINE P == Menu!Parent(c)
<1>1. P \in Menu!Ids /\ menus[P] = 0 /\ item[c] \in Menu!Ids /\ P < item[c] /\ P = parent[item[c]]
         /\ P \in Nat
  BY CallFacts, MenuNumbers DEF MenuInv, HandleInv, HandleOK, Making, ItemsInv, Menu!Parent
<1>2. ~Seen(item[c])
  BY <1>1 DEF Seen, Has
<1>3. ASSUME Safe(P) PROVE FALSE
  <2>1. adder[P] = c /\ hides[P] # "hidden" /\ c # Nobody
    BY <1>1, <1>3, SafeUp, MenuNumbers DEF MenuInv, CallsInv, CallOK
  <2>2. \A d \in Callers : item[d] # P
    <3>1. TAKE d \in Callers
    <3>2. SUFFICES ASSUME item[d] = P PROVE FALSE
      OBVIOUS
    <3>3. step[d] # "idle"
      BY <1>1, <3>2, MenuNumbers DEF MenuInv, CallsInv, CallOK
    <3>4. d = c
      BY <2>1, <3>2, <3>3 DEF MenuInv, CallsInv, CallOK
    <3>5. ~ P < P
      BY <1>1
    <3> QED BY <1>1, <3>2, <3>4, <3>5
  <2>3. Seen(P) /\ menuOf[P] = menus[parent[P]]
    <3>1. Seen(P)
      BY <1>1, <1>3, <2>1, <2>2, SafeUp DEF MenuInv, SeenInv
    <3> QED BY <1>1, <2>1, <2>2, <3>1 DEF MenuInv, SeenInv
  <2>4. parent[P] \in 0..MaxId /\ menus[parent[P]] \in 0..MaxMenus
    BY <1>1 DEF MenuInv, Menu!TypeOK
  <2>5. Has(menus[parent[P]], P)
    BY <2>3 DEF Seen
  <2>6. menus[parent[P]] \notin live
    BY <1>1, <2>3, <2>4, <2>5, PlacesIs
  <2>7. menus[parent[P]] # 0
    BY <2>5 DEF Has
  <2>8. parent[P] # 0 /\ ~Safe(parent[P])
    BY <2>4, <2>6, <2>7, DeadMenu, MenuNumbers
  <2> QED BY <1>1, <1>3, <2>8, SafeUp
<1>4. P # 0
  BY <1>1, MenuNumbers
<1>5. /\ UNCHANGED <<currentID, menuItems, parent, menus, win, live, made, hides>>
      /\ visible' = visible /\ menuOf' = menuOf /\ step[c] # "delvis"
  BY DEF Menu!trayVars, Menu!winVars
<1> QED BY <1>2, <1>3, <1>4, <1>5, ReturnStep

\* The entry to be deleted is not found.
LEMMA DeleteNoneStep ==
  ASSUME Menu!MenuAssumption, Private, MenuInv, FreshInv, Menu!TypeOK', NEW c \in Callers,
         step[c] = "delete", Menu!Returns(c), UNCHANGED <<Menu!trayVars, Menu!winVars, hides>>
  PROVE  MenuInv'
<1>1. hides[item[c]] = "hidden"
  BY DEF MenuInv, CallsInv, CallOK, Hiding
<1>2. Seen(item[c]) => menuOf[item[c]] = menus[Menu!Parent(c)]
  BY SeenOf
<1>3. /\ UNCHANGED <<currentID, menuItems, parent, menus, win, live, made, hides>>
      /\ visible' = visible /\ menuOf' = menuOf /\ step[c] # "delvis"
  BY DEF Menu!trayVars, Menu!winVars
<1> QED BY <1>1, <1>2, <1>3, ReturnStep

-----------------------------------------------------------------------------
(* A sub-menu is attached.                                                 *)

\* The entry of an item gets its sub-menu.
LEMMA AttachFoundStep ==
  ASSUME Menu!MenuAssumption, Private, MenuInv, Menu!TypeOK', NEW c \in Callers, step[c] = "attach",
         NEW p \in Menu!Places(menuOf[Menu!Parent(c)], Menu!Parent(c)),
         win' = [win EXCEPT ![p[1]][p[2]].sub = handle[c]],
         live' = live \ Menu!Below(win[p[1]][p[2]].sub),
         step' = [step EXCEPT ![c] = "record"],
         UNCHANGED <<item, handle, pos, Menu!trayVars, made, adder, hides>>
  PROVE  MenuInv'
<1> DEFINE P == Menu!Parent(c)
           m == handle[c]
           g == p[1]
           n == p[2]
           e == win[g][n]
           s == win'[g]
<1>1. /\ item' = item /\ handle' = handle /\ pos' = pos /\ currentID' = currentID
      /\ menuItems' = menuItems /\ parent' = parent /\ menus' = menus /\ menuOf' = menuOf
      /\ visible' = visible /\ made' = made /\ adder' = adder /\ hides' = hides
  BY DEF Menu!trayVars
<1>2. step'[c] = "record" /\ \A d \in Callers \ {c} : step'[d] = step[d]
  BY DEF MenuInv, Menu!TypeOK
<1>3. /\ P \in Menu!Ids /\ P \in 0..MaxId /\ P # 0 /\ menus[P] = 0 /\ adder[P] = c /\ m \in live
      /\ m > menus[parent[P]] /\ \A q \in 0..MaxId : menus[q] # m
  BY CallFacts, MenuNumbers
     DEF MenuInv, HandleInv, HandleOK, Making, Hanging, CallsInv, CallOK
<1>4. menuOf[P] \in 0..MaxMenus
  BY <1>3 DEF MenuInv, Menu!TypeOK
<1>5. /\ g \in live /\ g \in 1..MaxMenus /\ n \in DOMAIN win[g] /\ e \in MenuEntries(g)
      /\ e.id = P /\ g = menus[parent[P]]
  BY <1>3, <1>4, PlacesIs
<1>6. /\ e \in Menu!Entry /\ e.id \in Menu!Ids /\ e.sub \in 0..MaxMenus
            /\ win[g] \in Seq(Menu!Entry)
      /\ m \in 0..MaxMenus /\ \A x \in MenuEntries(g) : x \in Menu!Entry
  BY <1>5, EntryTypes DEF MenuInv, Menu!TypeOK
<1>7. \A d \in Callers \ {c} : step[d] # "idle" => Menu!Parent(d) # P
  BY <1>3 DEF MenuInv, CallsInv, CallOK
<1>8. e.sub = 0
  <2>1. SUFFICES ASSUME e.sub # 0 PROVE FALSE
    OBVIOUS
  <2>2. SubInv(e, g)
    BY <1>5, <2>1 DEF MenuInv, OwnEntryInv
  <2>3. menus[e.id] # e.sub
    BY <1>3, <1>5, <2>1
  <2>4. PICK d \in Callers : step[d] = "record" /\ Menu!Parent(d) = e.id
    BY <2>2, <2>3 DEF SubInv
  <2> QED BY <1>5, <1>7, <2>4
<1>9. live' = live
  BY <1>8, NoMenu
<1> DEFINE f == [e EXCEPT !.sub = m]
<1>10. f \in Menu!Entry /\ f.id = P /\ f.sub = m /\ f.type = e.type
  BY <1>5, <1>6 DEF Menu!Entry
<1>11. /\ win' = [win EXCEPT ![g] = [win[g] EXCEPT ![n] = f]]
       /\ s = [win[g] EXCEPT ![n] = f]
       /\ \A h \in 1..MaxMenus : h # g => win'[h] = win[h]
  BY <1>5 DEF MenuInv, Menu!TypeOK
<1>12. /\ DOMAIN s = DOMAIN win[g] /\ s[n] = f
       /\ \A k \in DOMAIN win[g] : k # n => s[k] = win[g][k]
       /\ \A k \in DOMAIN win[g] : s[k].id = win[g][k].id
  BY <1>5, <1>10, <1>11
<1> HIDE DEF P, m, g, n, e, s, f
<1>13. \A h \in 1..MaxMenus : Menu!MenuIds(h)' = Menu!MenuIds(h)
  <2>1. TAKE h \in 1..MaxMenus
  <2>2. DOMAIN win'[h] = DOMAIN win[h] /\ \A k \in DOMAIN win[h] : win'[h][k].id = win[h][k].id
    BY <1>11, <1>12 DEF s
  <2> QED BY <2>2 DEF Menu!MenuIds
<1>14. \A h \in 1..MaxMenus : \A j : Has(h, j)' <=> Has(h, j)
  <2>1. TAKE h \in 1..MaxMenus
  <2>2. DOMAIN win'[h] = DOMAIN win[h] /\ \A k \in DOMAIN win[h] : win'[h][k].id = win[h][k].id
    BY <1>11, <1>12 DEF s
  <2>3. \A j : Has(h, j) <=> h # 0 /\ \E k \in DOMAIN win[h] : win[h][k].id = j
    BY DEF Has, MenuEntries, Menu!Range
  <2>4. \A j : Has(h, j)' <=> h # 0 /\ \E k \in DOMAIN win'[h] : win'[h][k].id = j
    BY DEF Has, MenuEntries, Menu!Range
  <2> QED BY <2>2, <2>3, <2>4
<1>15. \A h \in 0..MaxMenus : \A j : Has(h, j)' <=> Has(h, j)
  <2>1. \A j : ~Has(0, j) /\ ~Has(0, j)'
    BY DEF Has
  <2>2. \A h \in 0..MaxMenus : h \in 1..MaxMenus \/ h = 0
    BY MenuNumbers
  <2> QED BY <1>14, <2>1, <2>2
<1>16. \A h \in 1..MaxMenus : \A x \in MenuEntries(h)' : x \in MenuEntries(h) \/ (h = g /\ x = f)
  <2>1. \A h \in 1..MaxMenus : \A k \in DOMAIN win'[h] :
           win'[h][k] \in MenuEntries(h) \/ (h = g /\ win'[h][k] = f)
    <3>1. TAKE h \in 1..MaxMenus
    <3>2. \A k \in DOMAIN win[h] : win[h][k] \in MenuEntries(h)
      BY DEF MenuEntries, Menu!Range
    <3> QED BY <1>11, <1>12, <3>2 DEF s
  <2> QED BY <2>1 DEF MenuEntries, Menu!Range
<1>17. \A h \in 1..MaxMenus : \A x \in MenuEntries(h) : x.id # P => x \in MenuEntries(h)'
  <2>1. TAKE h \in 1..MaxMenus
  <2>2. ASSUME NEW k \in DOMAIN win[h], win[h][k].id # P
        PROVE  k \in DOMAIN win'[h] /\ win'[h][k] = win[h][k]
    <3>1. h = g => k # n
      BY <1>5, <2>2 DEF e
    <3> QED BY <1>11, <1>12, <3>1 DEF s
  <2> QED BY <2>2 DEF MenuEntries, Menu!Range
<1>18. \A h : h = g => f \in MenuEntries(h)'
  <2>1. n \in DOMAIN win'[g] /\ win'[g][n] = f
    BY <1>5, <1>12 DEF s
  <2> QED BY <2>1 DEF MenuEntries, Menu!Range
<1>19. /\ \A q, j : Lists(q, j)' = Lists(q, j)
       /\ \A q : Menu!Sole(q)' = Menu!Sole(q)
       /\ \A j : Safe(j)' = Safe(j)
       /\ \A d \in Callers : Menu!Parent(d)' = Menu!Parent(d)
       /\ \A d \in Callers : Menu!Index(d)' = Menu!Index(d)
  <2>1. (\A q, j : Lists(q, j)' = Lists(q, j)) /\ (\A q : Menu!Sole(q)' = Menu!Sole(q))
    BY <1>1 DEF Lists, Menu!Sole
  <2>2. \A j : Safe(j)' = Safe(j)
    BY <1>1 DEF Safe
  <2>3. \A d \in Callers : Menu!Parent(d)' = Menu!Parent(d)
    BY <1>1 DEF Menu!Parent
  <2>4. \A d \in Callers : Menu!Index(d)' = Menu!Index(d)
    <3> TAKE d \in Callers
    <3>1. item'[d] = item[d] /\ visible'[Menu!Parent(d)'] = visible[Menu!Parent(d)]
      BY <1>1, <2>3
    <3> QED BY <3>1 DEF Menu!Index
  <2> QED BY <2>1, <2>2, <2>3, <2>4
<1>20. \A q \in 0..MaxId : menus[q] \in 0..MaxMenus
  BY DEF MenuInv, Menu!TypeOK
<1>21. \A d \in Callers : step[d] # "idle" => Menu!Parent(d) \in 0..MaxId
  BY CallFacts DEF MenuInv
<1>22. CallsInv'
  <2>1. \A d \in Callers : CallOK(d)
    BY DEF MenuInv, CallsInv
  <2>2. \A d \in Callers \ {c} : CallOK(d)'
    BY <1>1, <1>2, <1>19, <2>1 DEF CallOK
  <2>3. CallOK(c)'
    BY <1>1, <1>2, <1>19, <2>1 DEF CallOK, Hiding, Separating, Menu!Steps
  <2> QED BY <2>2, <2>3 DEF CallsInv
<1>23. AloneInv' /\ ItemsInv' /\ MenusInv'
  BY <1>1, <1>9 DEF MenuInv, AloneInv, ItemsInv, MenusInv
<1>24. HandleInv'
  <2>1. \A d \in Callers : HandleOK(d)
    BY DEF MenuInv, HandleInv
  <2>2. \A d \in Callers \ {c} : HandleOK(d)'
    BY <1>1, <1>2, <1>9, <1>19, <2>1 DEF HandleOK
  <2>3. HandleOK(c)'
    BY <1>1, <1>2, <1>9, <1>19, <2>1 DEF HandleOK, Making, Hanging, Adding
  <2> QED BY <2>2, <2>3 DEF HandleInv
<1>25. NewInv'
  BY <1>1, <1>2 DEF MenuInv, NewInv, Hanging
<1>26. OwnEntryInv'
  <2>1. SUFFICES ASSUME NEW h \in 1..MaxMenus, NEW x \in MenuEntries(h)'
                 PROVE  /\ menus[parent[x.id]] = h /\ x.id <= currentID
                        /\ x.sub # 0 => SubInv(x, h)'
                        /\ x.type = "string" => x.id \in menuItems
    BY <1>1 DEF OwnEntryInv
  <2>2. CASE x \in MenuEntries(h)
    <3>1. \A d \in Callers : step[d] = "record" => step'[d] = "record"
      BY <1>2
    <3>2. SubInv(x, h) => SubInv(x, h)'
      BY <1>1, <1>19, <3>1 DEF SubInv
    <3> QED BY <2>2, <3>2 DEF MenuInv, OwnEntryInv
  <2>3. CASE h = g /\ x = f
    <3>1. x.sub > h /\ step'[c] = "record" /\ Menu!Parent(c)' = x.id /\ handle'[c] = x.sub
      BY <1>1, <1>2, <1>3, <1>5, <1>10, <1>19, <2>3 DEF P, m
    <3>2. SubInv(x, h)'
      BY <3>1 DEF SubInv
    <3>3. /\ menus[parent[e.id]] = g /\ e.id <= currentID
          /\ e.type = "string" => e.id \in menuItems
      BY <1>5 DEF MenuInv, OwnEntryInv
    <3> QED BY <1>5, <1>10, <2>3, <3>2, <3>3
  <2> QED BY <1>16, <2>1, <2>2, <2>3
<1>27. OnceInv'
  BY <1>13 DEF MenuInv, OnceInv, Distinct
<1>28. LeadsInv'
  <2>1. \A q \in Menu!Ids : \A h : q # P /\ Leads(q, h) => Leads(q, h)'
    <3> TAKE q \in Menu!Ids
    <3> TAKE h
    <3>1. SUFFICES ASSUME q # P, Leads(q, h) PROVE Leads(q, h)'
      OBVIOUS
    <3>2. menus[parent[q]] \in live /\ menus[parent[q]] \in 1..MaxMenus
      BY <3>1, LiveIs DEF Leads
    <3>3. PICK x \in MenuEntries(menus[parent[q]]) : x.id = q /\ x.sub = h
      BY <3>1 DEF Leads
    <3>4. x \in MenuEntries(menus[parent[q]])'
      BY <1>1, <1>17, <3>1, <3>2, <3>3
    <3> QED BY <1>1, <1>9, <3>2, <3>3, <3>4 DEF Leads
  <2>2. \A q, h : q = P /\ h = m => Leads(q, h)'
    <3> TAKE q, h
    <3>1. SUFFICES ASSUME q = P, h = m PROVE Leads(q, h)'
      OBVIOUS
    <3>2. menus'[parent'[q]] = g
      BY <1>1, <1>5, <3>1
    <3>3. f \in MenuEntries(menus[parent[q]])'
      BY <1>18, <3>2
    <3>4. f.id = q /\ f.sub = h /\ menus'[parent'[q]] \in live'
      BY <1>5, <1>9, <1>10, <3>1, <3>2
    <3> QED BY <3>3, <3>4 DEF Leads
  <2>3. \A q \in Menu!Ids : menus[q] \in live => q # P
    BY <1>3, LiveIs
  <2>4. ASSUME NEW d \in Callers, step'[d] = "record" PROVE Leads(Menu!Parent(d), handle[d])'
    <3>1. CASE d = c
      <4>1. Menu!Parent(d)' = P /\ handle'[d] = m
        BY <1>1, <1>19, <3>1 DEF P, m
      <4> QED BY <2>2, <4>1
    <3>2. CASE d # c
      <4>1. step[d] = "record" /\ Menu!Parent(d) # P /\ Menu!Parent(d) \in Menu!Ids
        BY <1>2, <1>7, <1>21, <2>4, <3>2, MenuNumbers DEF MenuInv, HandleInv, HandleOK, Making
      <4>2. Leads(Menu!Parent(d), handle[d])
        BY <4>1 DEF MenuInv, LeadsInv
      <4> QED BY <1>1, <1>19, <2>1, <4>1, <4>2
    <3> QED BY <3>1, <3>2
  <2>5. \A q \in Menu!Ids : menus[q] \in live => Leads(q, menus[q])'
    BY <1>1, <2>1, <2>3 DEF MenuInv, LeadsInv
  <2> QED BY <1>1, <1>9, <2>4, <2>5 DEF LeadsInv
<1>29. VisibleInv'
  BY <1>1, <1>19 DEF MenuInv, VisibleInv, Rising
<1>30. \A d \in Callers : /\ step'[d] \in Placing <=> step[d] \in Placing
                          /\ step'[d] = "own" <=> step[d] = "own"
  BY <1>2 DEF Placing
<1>31. MirrorInv'
  <2>1. \A q \in 0..MaxId : \A j : Has(menus[q], j)' <=> Has(menus[q], j)
    BY <1>1, <1>15, <1>20
  <2> QED BY <1>1, <1>9, <1>19, <1>30, <2>1 DEF MenuInv, MirrorInv, Distinct
<1>32. CallerInv'
  <2>1. \A d \in Callers : CallerOK(d)
    BY DEF MenuInv, CallerInv
  <2>2. \A d \in Callers \ {c} : step[d] # "idle" =>
           (Has(menus[Menu!Parent(d)], item[d])' <=> Has(menus[Menu!Parent(d)], item[d]))
    BY <1>1, <1>15, <1>19, <1>20, <1>21
  <2>3. \A d \in Callers \ {c} : CallerOK(d)'
    BY <1>1, <1>2, <1>9, <1>19, <2>1, <2>2 DEF CallerOK
  <2>4. CallerOK(c)'
    BY <1>2 DEF CallerOK, Placing
  <2> QED BY <2>3, <2>4 DEF CallerInv
<1>33. RestInv'
  <2>1. SUFFICES ASSUME NEW q \in 0..MaxId, Menu!Sole(q), menus[q] \in live,
                        \A d \in Callers : step'[d] \in Placing => Menu!Parent(d)' # q
                 PROVE  Menu!MenuIds(menus[q])' = visible[q]
    BY <1>1, <1>9, <1>19 DEF RestInv
  <2>2. \A d \in Callers : step[d] \in Placing => Menu!Parent(d) # q
    BY <1>19, <1>30, <2>1
  <2>3. Menu!MenuIds(menus[q])' = Menu!MenuIds(menus[q])
    BY <1>1, <1>13, <2>1, LiveIs
  <2> QED BY <2>1, <2>2, <2>3 DEF MenuInv, RestInv
<1>34. PlaceInv'
  <2>1. ASSUME NEW d \in Callers PROVE PlaceOK(d)'
    <3>1. SUFFICES ASSUME step'[d] \in Placing, Menu!Sole(Menu!Parent(d)),
                          menus[Menu!Parent(d)] \in live
                   PROVE  /\ Menu!MenuIds(menus[Menu!Parent(d)])'
                                = Menu!RemoveAt(visible[Menu!Parent(d)], Menu!Index(d))
                          /\ step'[d] \in {"insert", "sepinsert"} => pos[d] = Menu!Index(d)
      BY <1>1, <1>9, <1>19 DEF PlaceOK
    <3>2. step[d] \in Placing /\ step'[d] = step[d]
      BY <1>2, <1>30, <3>1 DEF Placing
    <3>3. Menu!MenuIds(menus[Menu!Parent(d)])' = Menu!MenuIds(menus[Menu!Parent(d)])
      BY <1>1, <1>13, <1>19, <3>1, LiveIs
    <3> QED BY <3>1, <3>2, <3>3 DEF MenuInv, PlaceInv, PlaceOK
  <2> QED BY <2>1 DEF PlaceInv
<1>35. LostInv'
  BY <1>1, <1>9, <1>19 DEF MenuInv, LostInv
<1>36. SeenInv'
  <2>1. \A j \in Menu!Ids : Seen(j)' <=> Seen(j)
    <3>1. TAKE j \in Menu!Ids
    <3>2. menus[parent[j]] \in 0..MaxMenus /\ menus'[parent'[j]] = menus[parent[j]]
      BY <1>1 DEF MenuInv, Menu!TypeOK
    <3>3. Has(menus[parent[j]], j)' <=> Has(menus[parent[j]], j)
      BY <1>15, <3>2
    <3> QED BY <3>3 DEF Seen
  <2>2. \A j : (\E d \in Callers : item[d] = j /\ step[d] = "own")
                  <=> (\E d \in Callers : item'[d] = j /\ step'[d] = "own")
    BY <1>1, <1>30
  <2> QED BY <1>1, <1>19, <2>1, <2>2 DEF MenuInv, SeenInv
<1> QED BY <1>22, <1>23, <1>24, <1>25, <1>26, <1>27, <1>28, <1>29, <1>31, <1>32, <1>33, <1>34,
           <1>35, <1>36 DEF MenuInv

-----------------------------------------------------------------------------
(* An entry is deleted, with all the menus below it.                       *)

\* The menus that Windows destroys with an entry are sub-menus that the caller
\* has added below the item it hides.
LEMMA Doomed ==
  ASSUME Menu!MenuAssumption, Private, MenuInv, NEW c \in Callers, step[c] = "delete",
         NEW g \in 1..MaxMenus, NEW e \in MenuEntries(g), e.id = item[c]
  PROVE  \A h \in Menu!Below(e.sub) :
            h > g /\ \E q \in Menu!Ids : menus[q] = h /\ adder[q] = c /\ ~Safe(q)
<1> DEFINE i == item[c]
           S == {h \in 1..MaxMenus : h > g /\ \E q \in Menu!Ids : menus[q] = h /\ adder[q] = c
                 /\ ~Safe(q)}
<1>1. /\ i \in Menu!Ids /\ adder[i] = c /\ c # Nobody /\ ~Safe(i) /\ e.sub \in 0..MaxMenus
      /\ e.sub # 0 => SubInv(e, g)
  <2>1. i \in Menu!Ids /\ adder[i] = c /\ hides[i] = "hidden"
    BY CallFacts DEF MenuInv, CallsInv, CallOK, Hiding
  <2>2. e.sub # 0 => SubInv(e, g)
    BY DEF MenuInv, OwnEntryInv
  <2>3. e.sub \in 0..MaxMenus
    BY EntryTypes DEF MenuInv
  <2> QED BY <2>1, <2>2, <2>3, SafeUp, MenuNumbers
<1>2. \A d \in Callers : step[d] = "record" /\ Menu!Parent(d) \in Menu!Ids
         => adder[Menu!Parent(d)] = d /\ d # c
  BY MenuNumbers DEF MenuInv, CallsInv, CallOK
<1>3. e.sub \in live => e.sub \in S
  <2>1. SUFFICES ASSUME e.sub \in live PROVE e.sub \in S
    OBVIOUS
  <2>2. e.sub # 0 /\ e.sub \in 1..MaxMenus
    BY <2>1, LiveIs
  <2>3. SubInv(e, g)
    BY <1>1, <2>2
  <2>4. ~ \E d \in Callers : step[d] = "record" /\ Menu!Parent(d) = i /\ handle[d] = e.sub
    BY <1>1, <1>2
  <2>5. menus[i] = e.sub /\ e.sub > g
    BY <2>3, <2>4 DEF SubInv
  <2> QED BY <1>1, <2>2, <2>5
<1>4. ASSUME NEW h \in S \cap live, NEW x \in MenuEntries(h), x.sub \in live
      PROVE  x.sub \in S
  <2>1. PICK q \in Menu!Ids : menus[q] = h /\ adder[q] = c /\ ~Safe(q)
    OBVIOUS
  <2>2. h \in 1..MaxMenus /\ h > g /\ h \in Nat /\ g \in Nat /\ q \in 0..MaxId
    BY MenuNumbers
  <2>3. x.id \in Menu!Ids /\ x.sub \in 1..MaxMenus /\ x.sub # 0 /\ parent[x.id] \in 0..MaxId
    <3>1. x.id \in Menu!Ids
      BY <2>2, EntryTypes DEF MenuInv
    <3> QED BY <1>4, <3>1, LiveIs DEF MenuInv, Menu!TypeOK
  <2>4. menus[parent[x.id]] = h /\ SubInv(x, h)
    BY <2>2, <2>3 DEF MenuInv, OwnEntryInv
  <2>5. parent[x.id] = q /\ q # 0
    BY <2>1, <2>2, <2>3, <2>4, MenuNumbers DEF MenuInv, MenusInv
  <2>6. adder[x.id] \in {c, Nobody}
    BY <2>1, <2>3, <2>5 DEF MenuInv, ItemsInv
  <2>7. ~ \E d \in Callers : step[d] = "record" /\ Menu!Parent(d) = x.id /\ handle[d] = x.sub
    <3>1. \A d \in Callers : d # Nobody
      BY MenuNumbers
    <3> QED BY <1>2, <2>3, <2>6, <3>1
  <2>8. menus[x.id] = x.sub /\ x.sub > h
    BY <2>4, <2>7 DEF SubInv
  <2>9. adder[x.id] = c
    BY <2>3, <2>6, <2>8 DEF MenuInv, MenusInv
  <2>10. ~Safe(x.id)
    BY <2>1, <2>3, <2>5, SafeUp
  <2>11. x.sub > g
    BY <2>2, <2>3, <2>8
  <2> QED BY <2>3, <2>8, <2>9, <2>10, <2>11
<1>5. Menu!Below(e.sub) \subseteq S
  <2>1. \A h \in S \cap live : \A x \in MenuEntries(h) : x.sub \in live => x.sub \in S
    BY <1>4
  <2> HIDE DEF S
  <2>2. \A h \in 0..MaxMenus : \A T :
            /\ h \in live => h \in T
            /\ \A y \in T \cap live : \A x \in MenuEntries(y) : x.sub \in live => x.sub \in T
            => Menu!Below(h) \subseteq T
    BY MenusBelow
  <2> QED BY <1>1, <1>3, <2>1, <2>2
<1> QED BY <1>5

\* What DeleteMenu leaves of the menu.
LEMMA DeleteIs ==
  ASSUME Menu!MenuAssumption, MenuInv, NEW g \in 1..MaxMenus, NEW n \in DOMAIN win[g],
         win' = [win EXCEPT ![g] = Menu!RemoveAt(win[g], n)]
  PROVE  /\ \A h \in 1..MaxMenus : h # g => win'[h] = win[h]
         /\ \A h : h = g =>
               /\ Menu!MenuIds(h)' = Less(Menu!MenuIds(g), n)
               /\ \A x \in MenuEntries(h)' : x \in MenuEntries(g)
               /\ \A x \in MenuEntries(g) : x # win[g][n] => x \in MenuEntries(h)'
<1>1. /\ win[g] \in Seq(Menu!Entry) /\ Len(win[g]) \in Nat /\ DOMAIN win[g] = 1..Len(win[g])
      /\ Len(Menu!MenuIds(g)) = Len(win[g])
            /\ \A k \in DOMAIN win[g] : Menu!MenuIds(g)[k] = win[g][k].id
  BY WinTypes DEF MenuInv
<1>2. Menu!RemoveAt(win[g], n) = Less(win[g], n)
  BY <1>1, Removes
<1>3. win'[g] = Less(win[g], n) /\ \A h \in 1..MaxMenus : h # g => win'[h] = win[h]
  BY <1>2 DEF MenuInv, Menu!TypeOK
<1> DEFINE s == win[g]
<1> HIDE DEF s
<1>4. [k \in DOMAIN Less(s, n) |-> Less(s, n)[k].id] = Less(Menu!MenuIds(g), n)
  <2>1. DOMAIN Less(s, n) = 1..Len(s) - 1
    BY DEF Less
  <2>2. Less(Menu!MenuIds(g), n) = [k \in 1..Len(s) - 1 |-> Less(Menu!MenuIds(g), n)[k]]
    BY <1>1 DEF Less, s
  <2>3. ASSUME NEW k \in 1..Len(s) - 1 PROVE Less(s, n)[k].id = Less(Menu!MenuIds(g), n)[k]
    <3>1. k \in DOMAIN s /\ k + 1 \in DOMAIN s
      BY <1>1 DEF s
    <3>2. Less(s, n)[k] = IF k < n THEN s[k] ELSE s[k + 1]
      BY DEF Less
    <3>3. Less(Menu!MenuIds(g), n)[k] = IF k < n THEN Menu!MenuIds(g)[k] ELSE Menu!MenuIds(g)[k + 1]
      BY <1>1 DEF Less, s
    <3> QED BY <1>1, <3>1, <3>2, <3>3 DEF s
  <2> QED BY <2>1, <2>2, <2>3
<1>5. /\ \A m \in DOMAIN Less(s, n) : \E k \in DOMAIN s : k # n /\ Less(s, n)[m] = s[k]
      /\ \A k \in DOMAIN s : k # n => In(Less(s, n), s[k])
  BY <1>1, InLess DEF s
<1>6. \A x \in Menu!Range(Less(s, n)) : x \in Menu!Range(s)
  BY <1>5 DEF Menu!Range
<1>7. \A x \in Menu!Range(s) : x # s[n] => x \in Menu!Range(Less(s, n))
  BY <1>5 DEF Menu!Range, In
<1>8. \A h : h = g => win'[h] = Less(s, n) /\ win[h] = s
  BY <1>3 DEF s
<1> QED BY <1>3, <1>4, <1>6, <1>7, <1>8 DEF Menu!MenuIds, MenuEntries, s

\* The entry of an item goes, and the menus below it.
LEMMA DeleteFoundStep ==
  ASSUME Menu!MenuAssumption, Private, MenuInv, Menu!TypeOK', NEW c \in Callers, step[c] = "delete",
         NEW p \in Menu!Places(handle[c], item[c]),
         win' = [win EXCEPT ![p[1]] = Menu!RemoveAt(win[p[1]], p[2])],
         live' = live \ Menu!Below(win[p[1]][p[2]].sub),
         step' = [step EXCEPT ![c] = "delvis"],
         UNCHANGED <<item, handle, pos, Menu!trayVars, made, adder, hides>>
  PROVE  MenuInv'
<1> DEFINE P == Menu!Parent(c)
           i == item[c]
           g == p[1]
           n == p[2]
           e == win[g][n]
           K == Menu!Below(e.sub)
<1>1. /\ item' = item /\ handle' = handle /\ pos' = pos /\ currentID' = currentID
      /\ menuItems' = menuItems /\ parent' = parent /\ menus' = menus /\ menuOf' = menuOf
      /\ visible' = visible /\ made' = made /\ adder' = adder /\ hides' = hides
  BY DEF Menu!trayVars
<1>2. step'[c] = "delvis" /\ \A d \in Callers \ {c} : step'[d] = step[d]
  BY DEF MenuInv, Menu!TypeOK
<1>3. /\ i \in Menu!Ids /\ i \in Nat /\ P \in 0..MaxId /\ parent[i] = P /\ handle[c] \in 0..MaxMenus
      /\ handle[c] = menus[P] /\ adder[i] = c /\ hides[i] = "hidden" /\ c # Nobody
  <2>1. i \in Menu!Ids /\ i \in Nat /\ P \in 0..MaxId /\ parent[i] = P /\ c # Nobody
    BY CallFacts, MenuNumbers DEF MenuInv, Menu!Parent
  <2>2. handle[c] \in 0..MaxMenus /\ handle[c] = menus[P]
    BY DEF MenuInv, Menu!TypeOK, HandleInv, HandleOK
  <2>3. adder[i] = c /\ hides[i] = "hidden"
    BY DEF MenuInv, CallsInv, CallOK, Hiding
  <2> QED BY <2>1, <2>2, <2>3
<1>4. /\ g \in live /\ g \in 1..MaxMenus /\ n \in DOMAIN win[g] /\ e \in MenuEntries(g)
      /\ e.id = i /\ g = menus[P]
  BY <1>3, PlacesIs
<1>5. e.sub \in 0..MaxMenus
  BY <1>4, EntryTypes DEF MenuInv
<1>6. \A h \in K : h > g /\ \E q \in Menu!Ids : menus[q] = h /\ adder[q] = c /\ ~Safe(q)
  BY <1>4, Doomed
<1>7. /\ e.sub \in live => e.sub \in K
      /\ \A h \in K : \A x \in MenuEntries(h) : x.sub \in live => x.sub \in K
  BY <1>5, MenusBelow
<1>8. /\ \A h \in 1..MaxMenus : h # g => win'[h] = win[h]
      /\ \A h : h = g =>
            /\ Menu!MenuIds(h)' = Less(Menu!MenuIds(g), n)
            /\ \A x \in MenuEntries(h)' : x \in MenuEntries(g)
            /\ \A x \in MenuEntries(g) : x # e => x \in MenuEntries(h)'
  BY <1>4, DeleteIs
<1>9. /\ live' = live \ K /\ g \in live' /\ Menu!Root \in live'
      /\ \A h \in live' : h \in live /\ h \in 1..MaxMenus
  <2>1. g \notin K
    BY <1>4, <1>6
  <2>2. \A q \in Menu!Ids : menus[q] # Menu!Root
    <3>1. 0 \in 0..MaxId /\ Menu!Ids \subseteq 0..MaxId /\ 0 \notin Menu!Ids /\ Menu!Root # 0
      BY MenuNumbers
    <3> QED BY <3>1 DEF MenuInv, MenusInv
  <2>3. Menu!Root \notin K /\ Menu!Root \in live
    BY <1>6, <2>2 DEF MenuInv, MenusInv
  <2> QED BY <1>4, <2>1, <2>3, LiveIs
<1>10. \A h \in 1..MaxMenus : h # g => MenuEntries(h)' = MenuEntries(h)
         /\ Menu!MenuIds(h)' = Menu!MenuIds(h)
  BY <1>8 DEF MenuEntries, Menu!MenuIds
<1> HIDE DEF P, i, g, n, e, K
<1>11. \A x \in MenuEntries(g) : x # e => x.id # i
  <2>1. ASSUME NEW k \in DOMAIN win[g], k # n PROVE win[g][k].id # i
    <3>1. Distinct(Menu!MenuIds(g)) /\ DOMAIN Menu!MenuIds(g) = DOMAIN win[g]
      BY <1>4, WinTypes DEF MenuInv, OnceInv
    <3>2. Menu!MenuIds(g)[k] = win[g][k].id /\ Menu!MenuIds(g)[n] = i
      BY <1>4 DEF Menu!MenuIds, e
    <3> QED BY <1>4, <2>1, <3>1, <3>2 DEF Distinct
  <2> QED BY <2>1 DEF MenuEntries, Menu!Range, e
<1>12. \A h \in 1..MaxMenus : \A x \in MenuEntries(h) :
          h # g \/ x.id # i \/ x.sub # e.sub => x \in MenuEntries(h)'
  BY <1>4, <1>8, <1>10
<1>13. \A h \in 1..MaxMenus : \A x \in MenuEntries(h)' : x \in MenuEntries(h)
  BY <1>8, <1>10
<1>14. \A h, j : h = g /\ j = i => ~Has(h, j)'
  <2>1. Menu!MenuIds(g) \in Seq(Nat) /\ Distinct(Menu!MenuIds(g)) /\ n \in DOMAIN Menu!MenuIds(g)
           /\ Menu!MenuIds(g)[n] = i
    BY <1>4, WinTypes DEF MenuInv, OnceInv, Menu!MenuIds, e
  <2>2. \A m \in DOMAIN Less(Menu!MenuIds(g), n) : Less(Menu!MenuIds(g), n)[m] # i
    <3>1. \A m \in DOMAIN Less(Menu!MenuIds(g), n) : \E k \in DOMAIN Menu!MenuIds(g) :
             k # n /\ Less(Menu!MenuIds(g), n)[m] = Menu!MenuIds(g)[k]
      BY <2>1, InLess
    <3> QED BY <2>1, <3>1 DEF Distinct
  <2>3. \A h : h = g => \A m \in DOMAIN win'[h] : win'[h][m].id # i
    <3> TAKE h
    <3>1. SUFFICES ASSUME h = g PROVE \A m \in DOMAIN win'[h] : win'[h][m].id # i
      OBVIOUS
    <3>2. Menu!MenuIds(h)' = Less(Menu!MenuIds(g), n)
      BY <1>8, <3>1
    <3>3. DOMAIN Menu!MenuIds(h)' = DOMAIN win'[h]
             /\ \A m \in DOMAIN win'[h] : Menu!MenuIds(h)'[m] = win'[h][m].id
      BY DEF Menu!MenuIds
    <3> QED BY <2>2, <3>2, <3>3
  <2> QED BY <2>3 DEF Has, MenuEntries, Menu!Range
<1>15. \A h \in 0..MaxMenus : \A j : h # g \/ j # i => (Has(h, j)' <=> Has(h, j))
  <2>1. \A j : ~Has(0, j) /\ ~Has(0, j)'
    BY DEF Has
  <2>2. \A h \in 0..MaxMenus : h \in 1..MaxMenus \/ h = 0
    BY MenuNumbers
  <2>3. \A h \in 1..MaxMenus : \A j : h # g \/ j # i => (Has(h, j)' <=> Has(h, j))
    BY <1>12, <1>13 DEF Has
  <2> QED BY <2>1, <2>2, <2>3
<1>16. /\ \A q, j : Lists(q, j)' = Lists(q, j)
       /\ \A q : Menu!Sole(q)' = Menu!Sole(q)
       /\ \A j : Safe(j)' = Safe(j)
       /\ \A d \in Callers : Menu!Parent(d)' = Menu!Parent(d)
       /\ \A d \in Callers : Menu!Index(d)' = Menu!Index(d)
  <2>1. (\A q, j : Lists(q, j)' = Lists(q, j)) /\ (\A q : Menu!Sole(q)' = Menu!Sole(q))
    BY <1>1 DEF Lists, Menu!Sole
  <2>2. \A j : Safe(j)' = Safe(j)
    BY <1>1 DEF Safe
  <2>3. \A d \in Callers : Menu!Parent(d)' = Menu!Parent(d)
    BY <1>1 DEF Menu!Parent
  <2>4. \A d \in Callers : Menu!Index(d)' = Menu!Index(d)
    <3> TAKE d \in Callers
    <3>1. item'[d] = item[d] /\ visible'[Menu!Parent(d)'] = visible[Menu!Parent(d)]
      BY <1>1, <2>3
    <3> QED BY <3>1 DEF Menu!Index
  <2> QED BY <2>1, <2>2, <2>3, <2>4
<1>17. \A q \in 0..MaxId : menus[q] \in 0..MaxMenus /\ (menus[q] = g => q = P)
  <2>1. \A q \in 0..MaxId : menus[q] \in 0..MaxMenus
    BY DEF MenuInv, Menu!TypeOK
  <2>2. g # 0
    BY <1>4
  <2>3. \A q \in 0..MaxId : menus[q] = g => q = P
    BY <1>3, <1>4, <2>2 DEF MenuInv, MenusInv
  <2> QED BY <2>1, <2>3
<1>18. \A d \in Callers \ {c} : step[d] # "idle" =>
          /\ item[d] # i /\ item[d] \in Menu!Ids /\ Menu!Parent(d) \in 0..MaxId
          /\ Menu!Parent(d) # 0 => adder[Menu!Parent(d)] = d
  BY <1>3, CallFacts, MenuNumbers DEF MenuInv, AloneInv, CallsInv, CallOK, i
<1>19. CallsInv'
  <2>1. \A d \in Callers : CallOK(d)
    BY DEF MenuInv, CallsInv
  <2>2. \A d \in Callers \ {c} : CallOK(d)'
    BY <1>1, <1>2, <1>16, <2>1 DEF CallOK
  <2>3. CallOK(c)'
    BY <1>1, <1>2, <1>16, <2>1 DEF CallOK, Hiding, Separating, Menu!Steps
  <2> QED BY <2>2, <2>3 DEF CallsInv
<1>20. AloneInv' /\ ItemsInv' /\ MenusInv'
  BY <1>1, <1>9 DEF MenuInv, AloneInv, ItemsInv, MenusInv
<1>21. \A d \in Callers : step[d] \in Hanging => handle[d] \in live'
  <2>1. \A d \in Callers : step[d] \in Hanging
           => handle[d] \in live /\ \A q \in 0..MaxId : menus[q] # handle[d]
    BY DEF MenuInv, HandleInv, HandleOK
  <2>2. Menu!Ids \subseteq 0..MaxId
    BY MenuNumbers
  <2> QED BY <1>6, <1>9, <2>1, <2>2
<1>22. HandleInv'
  <2>1. \A d \in Callers : HandleOK(d)
    BY DEF MenuInv, HandleInv
  <2>2. \A d \in Callers \ {c} : HandleOK(d)'
    BY <1>1, <1>2, <1>9, <1>16, <1>21, <2>1 DEF HandleOK
  <2>3. HandleOK(c)'
    BY <1>1, <1>2, <1>9, <1>16, <2>1 DEF HandleOK, Making, Hanging, Adding
  <2> QED BY <2>2, <2>3 DEF HandleInv
<1>23. NewInv'
  BY <1>1, <1>2 DEF MenuInv, NewInv, Hanging
<1>24. \A d \in Callers : step'[d] = "record" <=> step[d] = "record"
  BY <1>2
<1>25. OwnEntryInv'
  <2>1. SUFFICES ASSUME NEW h \in 1..MaxMenus, NEW x \in MenuEntries(h)'
                 PROVE  /\ menus[parent[x.id]] = h /\ x.id <= currentID
                        /\ x.sub # 0 => SubInv(x, h)'
                        /\ x.type = "string" => x.id \in menuItems
    BY <1>1 DEF OwnEntryInv
  <2>2. x \in MenuEntries(h)
    BY <1>13, <2>1
  <2>3. SubInv(x, h) => SubInv(x, h)'
    BY <1>1, <1>16, <1>24 DEF SubInv
  <2> QED BY <2>2, <2>3 DEF MenuInv, OwnEntryInv
<1>26. OnceInv'
  <2>1. SUFFICES ASSUME NEW h \in 1..MaxMenus PROVE Distinct(Menu!MenuIds(h)')
    BY DEF OnceInv, Distinct
  <2>2. Menu!MenuIds(h) \in Seq(Nat) /\ Distinct(Menu!MenuIds(h))
           /\ DOMAIN Menu!MenuIds(h) = DOMAIN win[h]
    BY WinTypes DEF MenuInv, OnceInv
  <2>3. CASE h = g
    <3>1. Distinct(Less(Menu!MenuIds(g), n))
      BY <1>4, <2>2, <2>3, LessRises
    <3> QED BY <1>8, <2>3, <3>1
  <2> QED BY <1>10, <2>2, <2>3
<1>27. LeadsInv'
  <2>1. ASSUME NEW q \in Menu!Ids, NEW h \in live', Leads(q, h)
        PROVE  Leads(q, h)'
    <3>1. PICK x \in MenuEntries(menus[parent[q]]) : x.id = q /\ x.sub = h
      BY <2>1 DEF Leads
    <3>2. menus[parent[q]] \in live /\ menus[parent[q]] \in 1..MaxMenus
      BY <2>1, LiveIs DEF Leads
    <3>3. h \in live /\ h \notin K
      BY <1>9, <2>1
    <3>4. menus[parent[q]] \notin K
      BY <1>7, <3>1, <3>3
    <3>5. x.sub # e.sub
      BY <1>7, <3>1, <3>3
    <3>6. x \in MenuEntries(menus[parent[q]])'
      BY <1>1, <1>12, <3>1, <3>2, <3>5
    <3> QED BY <1>1, <1>9, <3>1, <3>2, <3>4, <3>6 DEF Leads
  <2>2. ASSUME NEW q \in Menu!Ids, menus[q] \in live' PROVE Leads(q, menus[q])'
    <3>1. Leads(q, menus[q])
      BY <1>9, <2>2 DEF MenuInv, LeadsInv
    <3> QED BY <1>1, <2>1, <2>2, <3>1
  <2>3. ASSUME NEW d \in Callers, step'[d] = "record" PROVE Leads(Menu!Parent(d), handle[d])'
    <3>1. step[d] = "record" /\ d # c
      BY <1>2, <1>24, <2>3
    <3>2. Leads(Menu!Parent(d), handle[d]) /\ handle[d] \in live'
      BY <1>21, <3>1 DEF MenuInv, LeadsInv, Hanging
    <3>3. Menu!Parent(d) \in Menu!Ids /\ Menu!Parent(d) # i
      BY <1>3, <1>18, <3>1, MenuNumbers DEF MenuInv, HandleInv, HandleOK, Making
    <3> QED BY <1>1, <1>16, <2>1, <3>2, <3>3
  <2> QED BY <1>1, <2>2, <2>3 DEF LeadsInv
<1>28. VisibleInv'
  BY <1>1, <1>16 DEF MenuInv, VisibleInv, Rising
<1>29. step'[c] \in Placing /\ step[c] \notin Placing /\ item[c] = i /\ Menu!Parent(c) = P
  BY <1>2 DEF Placing, i, P
<1>30. MirrorInv'
  <2>1. SUFFICES ASSUME NEW q \in 0..MaxId, menus[q] \in live
                 PROVE  /\ Distinct(visible[q])
                        /\ \A j \in Menu!Ids : Has(menus[q], j)' => Lists(q, j)
                        /\ \A j \in Menu!Ids : Lists(q, j) =>
                              Has(menus[q], j)' \/ \E d \in Callers : item[d] = j
                                    /\ step'[d] \in Placing
    BY <1>1, <1>9, <1>16 DEF MirrorInv, Distinct
  <2>2. /\ Distinct(visible[q])
        /\ \A j \in Menu!Ids : Has(menus[q], j) => Lists(q, j)
        /\ \A j \in Menu!Ids : Lists(q, j) =>
              Has(menus[q], j) \/ \E d \in Callers : item[d] = j /\ step[d] \in Placing
    BY <2>1 DEF MenuInv, MirrorInv
  <2>3. menus'[q] = menus[q] /\ menus[q] \in 0..MaxMenus
    BY <1>1, <1>17
  <2>4. ASSUME NEW j \in Menu!Ids
        PROVE  /\ Has(menus[q], j)' => Lists(q, j)
               /\ Lists(q, j) =>
                     Has(menus[q], j)' \/ \E d \in Callers : item[d] = j /\ step'[d] \in Placing
    <3>1. CASE menus[q] = g /\ j = i
      <4>1. ~Has(menus[q], j)'
        BY <1>14, <2>3, <3>1
      <4> QED BY <1>29, <3>1, <4>1
    <3>2. CASE menus[q] # g \/ j # i
      <4>1. Has(menus[q], j)' <=> Has(menus[q], j)
        BY <1>15, <2>3, <3>2
      <4> QED BY <1>2, <1>29, <2>2, <4>1
    <3> QED BY <3>1, <3>2
  <2> QED BY <2>2, <2>4
<1>31. Lists(P, i) /\ ~Has(menus[P], i)'
  <2>1. Has(menus[P], i)
    <3>1. g # 0
      BY <1>4
    <3> QED BY <1>4, <3>1 DEF Has
  <2>2. Lists(P, i)
    BY <1>3, <1>4, <2>1 DEF MenuInv, MirrorInv
  <2>3. P' = P /\ i' = i
    BY <1>1, <1>16 DEF P, i
  <2> QED BY <1>1, <1>4, <1>14, <2>2, <2>3
<1>32. CallerInv'
  <2>1. \A d \in Callers : CallerOK(d)
    BY DEF MenuInv, CallerInv
  <2>2. \A d \in Callers \ {c} : step[d] # "idle" =>
           (Has(menus[Menu!Parent(d)], item[d])' <=> Has(menus[Menu!Parent(d)], item[d]))
    BY <1>1, <1>15, <1>16, <1>17, <1>18
  <2>3. \A d \in Callers \ {c} : CallerOK(d)'
    BY <1>1, <1>2, <1>9, <1>16, <2>1, <2>2 DEF CallerOK
  <2>4. CallerOK(c)'
    BY <1>2, <1>16, <1>31 DEF CallerOK, P, i
  <2> QED BY <2>3, <2>4 DEF CallerInv
<1>33. RestInv'
  <2>1. SUFFICES ASSUME NEW q \in 0..MaxId, Menu!Sole(q), menus[q] \in live,
                        \A d \in Callers : step'[d] \in Placing => Menu!Parent(d) # q
                 PROVE  Menu!MenuIds(menus[q])' = visible[q]
    BY <1>1, <1>9, <1>16 DEF RestInv
  <2>2. q # P
    BY <1>29, <2>1
  <2>3. \A d \in Callers : step[d] \in Placing => Menu!Parent(d) # q
    BY <1>2, <1>29, <2>1
  <2>4. Menu!MenuIds(menus[q])' = Menu!MenuIds(menus[q])
    BY <1>1, <1>10, <1>17, <2>1, <2>2, LiveIs
  <2> QED BY <2>1, <2>3, <2>4 DEF MenuInv, RestInv
<1>34. PlaceInv'
  <2>1. ASSUME NEW d \in Callers \ {c} PROVE PlaceOK(d)'
    <3>1. SUFFICES ASSUME step[d] \in Placing, Menu!Sole(Menu!Parent(d)),
                          menus[Menu!Parent(d)] \in live
                   PROVE  /\ Menu!MenuIds(menus[Menu!Parent(d)])'
                                = Menu!RemoveAt(visible[Menu!Parent(d)], Menu!Index(d))
                          /\ step[d] \in {"insert", "sepinsert"} => pos[d] = Menu!Index(d)
      BY <1>1, <1>2, <1>9, <1>16 DEF PlaceOK
    <3>2. step[d] # "idle" /\ step[c] # "idle"
      BY <3>1 DEF Placing
    <3>3. Menu!Parent(d) # P /\ Menu!Parent(d) \in 0..MaxId
      BY <1>18, <3>1, <3>2, SoleCaller DEF P
    <3>4. Menu!MenuIds(menus[Menu!Parent(d)])' = Menu!MenuIds(menus[Menu!Parent(d)])
      BY <1>1, <1>10, <1>16, <1>17, <3>1, <3>3, LiveIs
    <3> QED BY <3>1, <3>4 DEF MenuInv, PlaceInv, PlaceOK
  <2>2. PlaceOK(c)'
    <3>1. SUFFICES ASSUME Menu!Sole(P)
                   PROVE  Menu!MenuIds(menus[P])' = Menu!RemoveAt(visible[P], Menu!Index(c))
      <4>1. P' = P /\ Menu!Parent(c)' = P /\ step'[c] \notin {"insert", "sepinsert"}
               /\ Menu!Index(c)' = Menu!Index(c)
        BY <1>1, <1>2, <1>16 DEF P
      <4> QED BY <1>1, <1>16, <3>1, <4>1 DEF PlaceOK, P
    <3>2. \A d \in Callers : step[d] \in Placing => Menu!Parent(d) # P
      <4>1. \A d \in Callers : step[d] \in Placing => step[d] # "idle" /\ d # c
        BY <1>29 DEF Placing
      <4> QED BY <1>29, <3>1, <4>1, SoleCaller
    <3>3. Menu!MenuIds(g) = visible[P]
      BY <1>3, <1>4, <3>1, <3>2 DEF MenuInv, RestInv
    <3>4. /\ visible[P] \in Seq(Nat) /\ Distinct(visible[P])
          /\ Menu!Index(c) \in DOMAIN visible[P] /\ visible[P][Menu!Index(c)] = i
      BY <1>3, <1>4, <1>29, <1>31, IndexIs, VisibleTypes DEF MenuInv, MirrorInv
    <3>5. n \in DOMAIN visible[P] /\ visible[P][n] = i
      BY <1>4, <3>3 DEF Menu!MenuIds, e
    <3>6. Menu!Index(c) = n
      BY <3>4, <3>5 DEF Distinct
    <3>7. Menu!RemoveAt(visible[P], n) = Less(visible[P], n)
      BY <3>4, <3>5, Removes
    <3>8. \A h : h = g => Menu!MenuIds(h)' = Menu!RemoveAt(visible[P], Menu!Index(c))
      BY <1>8, <3>3, <3>6, <3>7
    <3>9. menus'[P'] = g
      BY <1>1, <1>4, <1>16 DEF P
    <3> QED BY <3>8, <3>9
  <2> QED BY <2>1, <2>2 DEF PlaceInv
<1>35. LostInv'
  <2>1. ASSUME NEW q \in Menu!Ids, menus[q] # 0, menus[q] \notin live' PROVE ~Safe(q)
    <3>1. CASE menus[q] \notin live
      BY <2>1, <3>1 DEF MenuInv, LostInv
    <3>2. CASE menus[q] \in K
      <4>1. PICK r \in Menu!Ids : menus[r] = menus[q] /\ ~Safe(r)
        BY <1>6, <3>2
      <4>2. r = q
        BY <2>1, <4>1, MenuNumbers DEF MenuInv, MenusInv
      <4> QED BY <4>1, <4>2
    <3> QED BY <1>9, <2>1, <3>1, <3>2
  <2> QED BY <1>1, <1>16, <2>1 DEF LostInv
<1>36. SeenInv'
  <2>1. \A j \in Menu!Ids : j # i => (Seen(j)' <=> Seen(j))
    <3>1. TAKE j \in Menu!Ids
    <3>2. menus[parent[j]] \in 0..MaxMenus /\ menus'[parent'[j]] = menus[parent[j]]
      BY <1>1 DEF MenuInv, Menu!TypeOK
    <3>3. j # i => (Has(menus[parent[j]], j)' <=> Has(menus[parent[j]], j))
      BY <1>15, <3>2
    <3> QED BY <3>3 DEF Seen
  <2>2. \A j : (\E d \in Callers : item[d] = j /\ step[d] = "own")
                  <=> (\E d \in Callers : item'[d] = j /\ step'[d] = "own")
    BY <1>1, <1>2
  <2>3. ~Seen(i)'
    <3>1. P' = P /\ i' = i /\ parent'[i] = P
      BY <1>1, <1>3, <1>16 DEF P, i
    <3> QED BY <1>31, <3>1 DEF Seen
  <2>4. SUFFICES ASSUME NEW j \in Menu!Ids, adder[j] # Nobody
                 PROVE  /\ Seen(j)' =>
                              menuOf[j] = menus[parent[j]]
                              \/ \E d \in Callers : item'[d] = j /\ step'[d] = "own"
                        /\ hides[j] # "hidden" /\ (\A d \in Callers : item[d] # j) =>
                              Seen(j)' \/ (parent[j] # 0 /\ ~Safe(parent[j]))
    BY <1>1, <1>16 DEF SeenInv
  <2>5. CASE j = i
    <3>1. i' = i
      BY <1>1 DEF i
    <3> QED BY <1>3, <2>3, <2>5, <3>1
  <2>6. CASE j # i
    BY <2>1, <2>2, <2>4, <2>6 DEF MenuInv, SeenInv
  <2> QED BY <2>5, <2>6
<1> QED BY <1>19, <1>20, <1>22, <1>23, <1>25, <1>26, <1>27, <1>28, <1>30, <1>32, <1>33, <1>34,
           <1>35, <1>36 DEF MenuInv

-----------------------------------------------------------------------------
(* An item that is being added has no entry before its call inserts it.    *)

\* FreshInv, when no entry comes but the one of the item that the call adds.
LEMMA FreshKept ==
  ASSUME Menu!MenuAssumption, MenuInv, FreshInv, Menu!TypeOK', NEW c \in Callers,
         \A d \in Callers \ {c} : step'[d] = step[d] /\ item'[d] = item[d],
         \A j \in Menu!Ids : adder'[j] = Nobody => adder[j] = Nobody,
         \A j \in Menu!Ids : Seen(j)' => Seen(j) \/ (j = item[c] /\ step'[c] \in {"own", "idle"}),
         \/ step'[c] \in {"own", "idle"}
         \/ step[c] \notin {"own", "idle"} /\ item'[c] = item[c]
         \/ step[c] = "idle" /\ item'[c] \in Menu!Ids
               /\ (adder'[item'[c]] = Nobody => ~Seen(item[c])')
  PROVE  FreshInv'
<1>1. \A d \in Callers : step[d] # "idle" => item[d] \in Menu!Ids /\ item[d] # 0
  BY CallFacts, MenuNumbers DEF MenuInv
<1>2. ASSUME NEW d \in Callers \ {c}, step'[d] \notin {"idle", "own"}, adder'[item'[d]] = Nobody
      PROVE  ~Seen(item[d])'
  <2>1. step[d] \notin {"idle", "own"} /\ item'[d] = item[d] /\ item[d] \in Menu!Ids /\ item[d] # 0
    BY <1>1, <1>2
  <2>2. item[c] # item[d]
    BY <2>1 DEF MenuInv, AloneInv
  <2>3. ~Seen(item[d])
    BY <1>2, <2>1 DEF FreshInv
  <2>4. \A j : j = item[d] => ~Seen(j)'
    BY <2>1, <2>2, <2>3
  <2> QED BY <2>1, <2>4
<1>3. ASSUME step'[c] \notin {"idle", "own"}, adder'[item'[c]] = Nobody PROVE ~Seen(item[c])'
  <2>1. CASE step[c] \notin {"own", "idle"} /\ item'[c] = item[c]
    <3>1. ~Seen(item[c])
      BY <1>1, <1>3, <2>1 DEF FreshInv
    <3>2. \A j : j = item[c] => ~Seen(j)'
      BY <1>1, <1>3, <2>1, <3>1
    <3> QED BY <2>1, <3>2
  <2>2. CASE step[c] = "idle" /\ item'[c] \in Menu!Ids
           /\ (adder'[item'[c]] = Nobody => ~Seen(item[c])')
    BY <1>3, <2>2
  <2> QED BY <1>3, <2>1, <2>2
<1> QED BY <1>2, <1>3 DEF FreshInv

\* What is seen changes only with the menus and the entries.
LEMMA SeenSame ==
  ASSUME UNCHANGED <<parent, menus, win>>
  PROVE  \A j : Seen(j)' = Seen(j)
<1>1. \A g : MenuEntries(g)' = MenuEntries(g)
  BY DEF MenuEntries
<1>2. \A g, j : Has(g, j)' = Has(g, j)
  BY <1>1 DEF Has
<1> QED BY <1>2 DEF Seen

\* Nothing is seen that was not there, but for item i.
LEMMA SeenLess ==
  ASSUME Menu!MenuAssumption, Menu!TypeOK, UNCHANGED <<parent, menus>>, NEW i,
         \A h \in 1..MaxMenus : \A x \in MenuEntries(h)' : x.id = i
               \/ \E y \in MenuEntries(h) : y.id = x.id
  PROVE  \A j \in Menu!Ids : Seen(j)' => Seen(j) \/ j = i
<1> TAKE j \in Menu!Ids
<1>1. menus[parent[j]] \in 0..MaxMenus /\ menus'[parent'[j]] = menus[parent[j]]
  BY DEF Menu!TypeOK
<1>2. \A h \in 0..MaxMenus : Has(h, j)' => Has(h, j) \/ j = i
  <2>1. \A h \in 0..MaxMenus : h # 0 => h \in 1..MaxMenus
    BY MenuNumbers
  <2> QED BY <2>1 DEF Has
<1>3. Has(menus[parent[j]], j)' => Has(menus[parent[j]], j) \/ j = i
  BY <1>1, <1>2
<1> QED BY <1>3 DEF Seen

\* A step between two others ...
LEMMA FreshGoes ==
  ASSUME Menu!MenuAssumption, MenuInv, FreshInv, Menu!TypeOK', NEW c \in Callers, NEW to,
         step[c] \notin {"idle", "own"}, step' = [step EXCEPT ![c] = to],
         UNCHANGED <<item, parent, menus, win, adder>>
  PROVE  FreshInv'
<1>1. \A j \in Menu!Ids : Seen(j)' => Seen(j)
  BY SeenSame
<1>2. \A d \in Callers \ {c} : step'[d] = step[d] /\ item'[d] = item[d]
  BY DEF MenuInv, Menu!TypeOK
<1> QED BY <1>1, <1>2, FreshKept

\* ... the end of a call ...
LEMMA FreshReturns ==
  ASSUME Menu!MenuAssumption, MenuInv, FreshInv, Menu!TypeOK', NEW c \in Callers, Menu!Returns(c),
         UNCHANGED <<parent, menus, win>>
  PROVE  FreshInv'
<1>1. \A j \in Menu!Ids : Seen(j)' => Seen(j)
  BY SeenSame
<1>2. /\ \A d \in Callers \ {c} : step'[d] = step[d] /\ item'[d] = item[d]
      /\ step'[c] = "idle"
      /\ \A j \in Menu!Ids : adder'[j] = Nobody => adder[j] = Nobody
  BY DEF MenuInv, Menu!TypeOK, Menu!Returns, Menu!Leave, Menu!Goto, Menu!Put
<1> QED BY <1>1, <1>2, FreshKept

\* ... and the beginning keep FreshInv.
LEMMA FreshCalls ==
  ASSUME Menu!MenuAssumption, Private, MenuInv, FreshInv, Menu!TypeOK', NEW c \in Callers,
         Menu!Calls(c)
  PROVE  FreshInv'
<1>1. ASSUME NEW op, NEW par \in 0..MaxId, NEW to, Menu!New(c, op, par, to) PROVE FreshInv'
  <2> DEFINE k == currentID + 1
  <2>1. /\ step[c] = "idle" /\ step' = [step EXCEPT ![c] = to] /\ item' = [item EXCEPT ![c] = k]
        /\ parent' = [parent EXCEPT ![k] = par]
        /\ menus' = menus /\ win' = win /\ adder' = adder
    BY <1>1 DEF Menu!New, Menu!Goto, Menu!Put, Menu!winVars
  <2>2. k \in Menu!Ids /\ k \in Nat /\ currentID \in Nat /\ k > currentID
    BY <1>1, MenuNumbers DEF Menu!New, MenuInv, Menu!TypeOK
  <2> HIDE DEF k
  <2>3. /\ \A d \in Callers \ {c} : step'[d] = step[d] /\ item'[d] = item[d]
        /\ item'[c] = k /\ parent'[k] = par /\ \A j \in Menu!Ids \ {k} : parent'[j] = parent[j]
    BY <2>1, <2>2 DEF MenuInv, Menu!TypeOK
  <2>4. \A g \in 0..MaxMenus : \A j : j = k => ~Has(g, j)'
    <3>1. \A g \in 1..MaxMenus : \A e \in MenuEntries(g) : e.id <= currentID /\ e.id \in Nat
      BY EntryTypes, MenuNumbers DEF MenuInv, OwnEntryInv
    <3>2. \A g \in 1..MaxMenus : \A e \in MenuEntries(g) : e.id # k
      BY <2>2, <3>1
    <3>3. \A g : MenuEntries(g)' = MenuEntries(g)
      BY <2>1 DEF MenuEntries
    <3>4. \A g \in 0..MaxMenus : g # 0 => g \in 1..MaxMenus
      BY MenuNumbers
    <3> QED BY <3>2, <3>3, <3>4 DEF Has
  <2>5. \A j : j = k => ~Seen(j)'
    <3> TAKE j
    <3>1. SUFFICES ASSUME j = k PROVE ~Seen(j)'
      OBVIOUS
    <3>2. menus'[parent'[j]] \in 0..MaxMenus
      <4>1. parent'[j] = par
        BY <2>3, <3>1
      <4>2. \A q \in 0..MaxId : menus[q] \in 0..MaxMenus
        BY DEF MenuInv, Menu!TypeOK
      <4> QED BY <1>1, <2>1, <4>1, <4>2
    <3>3. ~Has(menus[parent[j]], j)'
      BY <2>4, <3>1, <3>2
    <3> QED BY <3>3 DEF Seen
  <2>6. \A j \in Menu!Ids : j # k => (Seen(j)' <=> Seen(j))
    <3>1. \A g : MenuEntries(g)' = MenuEntries(g)
      BY <2>1 DEF MenuEntries
    <3>2. \A g, j : Has(g, j)' <=> Has(g, j)
      BY <3>1 DEF Has
    <3> TAKE j \in Menu!Ids
    <3>3. j # k => (Has(menus[parent[j]], j)' <=> Has(menus[parent[j]], j))
      BY <2>1, <2>3, <3>2
    <3> QED BY <3>3 DEF Seen
  <2>7. ~Seen(item[c])'
    BY <2>3, <2>5
  <2> QED BY <2>1, <2>2, <2>3, <2>5, <2>6, <2>7, FreshKept
<1>2. ASSUME NEW op, NEW i \in Menu!Ids, NEW to, Menu!On(c, op, i, to) PROVE FreshInv'
  <2>1. /\ step[c] = "idle" /\ adder[i] = c /\ c # Nobody
        /\ step' = [step EXCEPT ![c] = to] /\ item' = [item EXCEPT ![c] = i]
        /\ UNCHANGED <<parent, menus, win, adder>>
    BY <1>2, MenuNumbers DEF Menu!On, Menu!Goto, Menu!Put, Menu!Known, Menu!trayVars, Menu!winVars
  <2>2. /\ \A d \in Callers \ {c} : step'[d] = step[d] /\ item'[d] = item[d]
        /\ item'[c] = i
    BY <2>1 DEF MenuInv, Menu!TypeOK
  <2>3. \A j \in Menu!Ids : Seen(j)' => Seen(j)
    BY <2>1, SeenSame
  <2>4. adder'[item'[c]] # Nobody /\ item'[c] \in Menu!Ids
    BY <2>1, <2>2
  <2> QED BY <2>1, <2>2, <2>3, <2>4, FreshKept
<1>3. 0 \in 0..MaxId /\ Menu!Ids \subseteq 0..MaxId
  BY MenuNumbers
<1>4. CASE Menu!AddMenuItem(c) \/ Menu!AddSeparator(c)
  BY <1>1, <1>3, <1>4 DEF Menu!AddMenuItem, Menu!AddSeparator
<1>5. CASE Menu!AddSubMenuItem(c)
  BY <1>1, <1>3, <1>5 DEF Menu!AddSubMenuItem, Menu!Known
<1>6. CASE Menu!Update(c) \/ Menu!Hide(c) \/ Menu!Show(c)
  BY <1>2, <1>6 DEF Menu!Update, Menu!Hide, Menu!Show
<1> QED BY <1>4, <1>5, <1>6 DEF Menu!Calls

\* The ids of the entries are what they were when a menu is attached.
LEMMA AttachIs ==
  ASSUME Menu!MenuAssumption, Menu!TypeOK, NEW g \in 1..MaxMenus, NEW n \in DOMAIN win[g], NEW m,
         win' = [win EXCEPT ![g][n].sub = m]
  PROVE  \A h \in 1..MaxMenus : \A x \in MenuEntries(h)' : \E y \in MenuEntries(h) : y.id = x.id
<1> DEFINE e == win[g][n]
           f == [e EXCEPT !.sub = m]
<1>1. e \in Menu!Entry
  BY WinTypes
<1>2. f.id = e.id
  BY <1>1 DEF Menu!Entry
<1> HIDE DEF f
<1>3. win' = [win EXCEPT ![g] = [win[g] EXCEPT ![n] = f]]
  BY DEF f
<1>4. \A h \in 1..MaxMenus : \A k \in DOMAIN win'[h] :
         k \in DOMAIN win[h] /\ win'[h][k].id = win[h][k].id
  BY <1>2, <1>3 DEF Menu!TypeOK
<1>5. \A h \in 1..MaxMenus : \A x \in MenuEntries(h)' : \E k \in DOMAIN win'[h] : x = win'[h][k]
  BY DEF MenuEntries, Menu!Range
<1>6. \A h \in 1..MaxMenus : \A k \in DOMAIN win[h] : win[h][k] \in MenuEntries(h)
  BY DEF MenuEntries, Menu!Range
<1>7. ASSUME NEW h \in 1..MaxMenus, NEW x \in MenuEntries(h)'
      PROVE  \E y \in MenuEntries(h) : y.id = x.id
  <2>1. PICK k \in DOMAIN win'[h] : x = win'[h][k]
    BY <1>5, <1>7
  <2>2. k \in DOMAIN win[h] /\ win[h][k].id = x.id
    BY <1>4, <2>1
  <2>3. win[h][k] \in MenuEntries(h)
    BY <1>6, <2>2
  <2> QED BY <2>2, <2>3
<1> QED BY <1>7

\* A menu that has only now been recorded is empty.
LEMMA FreshRecord ==
  ASSUME Menu!MenuAssumption, MenuInv, FreshInv, Menu!TypeOK', NEW c \in Callers, Menu!Record(c)
  PROVE  FreshInv'
<1> DEFINE P == Menu!Parent(c)
           m == handle[c]
<1>1. /\ step[c] = "record" /\ step' = [step EXCEPT ![c] = "addvis"]
      /\ menus' = [menus EXCEPT ![P] = m]
      /\ item' = item /\ parent' = parent /\ win' = win /\ adder' = adder
  BY DEF Menu!Record, Menu!At, Menu!Goto, Menu!Put, Menu!winVars
<1>2. /\ P \in 0..MaxId /\ m \in 1..MaxMenus /\ \A q \in 0..MaxId : menus[q] # m
  BY <1>1, CallFacts, LiveIs DEF MenuInv, HandleInv, HandleOK, Hanging
<1>3. \A x \in MenuEntries(m) : FALSE
  <2>1. \A x \in MenuEntries(m) : menus[parent[x.id]] = m /\ parent[x.id] \in 0..MaxId
    <3>1. \A x \in MenuEntries(m) : x.id \in Menu!Ids
      BY <1>2, EntryTypes DEF MenuInv
    <3> QED BY <1>2, <3>1 DEF MenuInv, OwnEntryInv, Menu!TypeOK
  <2> QED BY <1>2, <2>1
<1>4. \A g : MenuEntries(g)' = MenuEntries(g)
  BY <1>1 DEF MenuEntries
<1> HIDE DEF P, m
<1>5. \A g, j : (Has(g, j)' <=> Has(g, j)) /\ (g = m => ~Has(g, j))
  BY <1>3, <1>4 DEF Has
<1>6. \A j \in Menu!Ids : Seen(j)' => Seen(j)
  <2> TAKE j \in Menu!Ids
  <2>1. menus'[parent'[j]] = m \/ menus'[parent'[j]] = menus[parent[j]]
    BY <1>1, <1>2 DEF MenuInv, Menu!TypeOK
  <2>2. Has(menus[parent[j]], j)' => Has(menus[parent[j]], j)
    BY <1>5, <2>1
  <2> QED BY <2>2 DEF Seen
<1>7. /\ \A d \in Callers \ {c} : step'[d] = step[d] /\ item'[d] = item[d]
      /\ step[c] \notin {"own", "idle"} /\ item'[c] = item[c]
  BY <1>1 DEF MenuInv, Menu!TypeOK
<1> QED BY <1>1, <1>6, <1>7, FreshKept

\* ... and those of the item that the call inserts.
LEMMA FreshInsert ==
  ASSUME Menu!MenuAssumption, MenuInv, NEW c \in Callers, step[c] # "idle",
         handle[c] \in 1..MaxMenus,
         NEW t \in {"string", "separator"}, Menu!Insert(c, t)
  PROVE  \A h \in 1..MaxMenus : \A x \in MenuEntries(h)' :
            x.id = item[c] \/ \E y \in MenuEntries(h) : y.id = x.id
<1> DEFINE e == [id |-> item[c], type |-> t, sub |-> 0]
<1>1. /\ win' = [win EXCEPT ![handle[c]] = win'[handle[c]]]
      /\ Menu!Range(win'[handle[c]]) = MenuEntries(handle[c]) \cup {e}
  BY InsertIs
<1>2. e.id = item[c]
  OBVIOUS
<1> HIDE DEF e
<1>3. \A h \in 1..MaxMenus : h # handle[c] => win'[h] = win[h]
  BY <1>1 DEF MenuInv, Menu!TypeOK
<1> QED BY <1>1, <1>2, <1>3 DEF MenuEntries

\* Every step of a call keeps FreshInv.
LEMMA FreshGo ==
  ASSUME Menu!MenuAssumption, Private, MenuInv, FreshInv, Menu!TypeOK', NEW c \in Callers,
         Menu!Goes(c)
  PROVE  FreshInv'
<1> USE DEF Menu!At, Menu!Goto, Menu!Put, Menu!trayVars, Menu!winVars
<1>1. Menu!TypeOK
  BY DEF MenuInv
<1>2. CASE \/ Menu!Store(c) \/ Menu!Lookup(c) \/ Menu!Check(c) \/ Menu!Position(c)
                 \/ Menu!SeparatorPosition(c) \/ Menu!HideLookup(c)
  BY <1>2, FreshGoes DEF Menu!Store, Menu!Lookup, Menu!Check, Menu!Position,
     Menu!SeparatorPosition, Menu!HideLookup
<1>3. CASE Menu!Create(c) \/ Menu!AddToVisible(c) \/ Menu!SeparatorVisible(c)
  BY <1>3, FreshGoes DEF Menu!Create, Menu!AddToVisible, Menu!SeparatorVisible, Menu!AddVisible
<1>4. CASE Menu!Set(c)
  BY <1>4, FreshGoes, FreshReturns DEF Menu!Set
<1>5. CASE Menu!Own(c) \/ Menu!DelFromVisible(c)
  BY <1>5, FreshReturns DEF Menu!Own, Menu!DelFromVisible
<1>6. ASSUME step[c] \in Menu!Steps, NEW to, step' = [step EXCEPT ![c] = to],
             to \in {"own", "idle"} \/ (item'[c] = item[c] /\ step[c] # "own"),
             \A d \in Callers \ {c} : item'[d] = item[d],
             UNCHANGED <<parent, menus, adder>>,
             \A h \in 1..MaxMenus : \A x \in MenuEntries(h)' :
                \/ x.id = item[c] /\ to \in {"own", "idle"}
                \/ \E y \in MenuEntries(h) : y.id = x.id
      PROVE  FreshInv'
  <2>1. step'[c] = to /\ \A d \in Callers \ {c} : step'[d] = step[d]
    BY <1>1, <1>6 DEF Menu!TypeOK
  <2>2. \A j \in Menu!Ids : Seen(j)' => Seen(j) \/ (j = item[c] /\ to \in {"own", "idle"})
    <3>1. CASE to \in {"own", "idle"}
      <4>1. \A h \in 1..MaxMenus : \A x \in MenuEntries(h)' :
               x.id = item[c] \/ \E y \in MenuEntries(h) : y.id = x.id
        BY <1>6
      <4> QED BY <1>1, <1>6, <3>1, <4>1, SeenLess
    <3>2. CASE to \notin {"own", "idle"}
      <4>1. \A h \in 1..MaxMenus : \A x \in MenuEntries(h)' : x.id = 0
               \/ \E y \in MenuEntries(h) : y.id = x.id
        BY <1>6, <3>2
      <4>2. \A j \in Menu!Ids : Seen(j)' => Seen(j) \/ j = 0
        BY <1>1, <1>6, <4>1, SeenLess
      <4> QED BY <4>2, MenuNumbers
    <3> QED BY <3>1, <3>2
  <2>3. step[c] # "idle"
    BY <1>6 DEF Menu!Steps
  <2> QED BY <1>6, <2>1, <2>2, <2>3, FreshKept
<1>7. CASE Menu!Record(c)
  BY <1>7, FreshRecord
<1>8. CASE Menu!InsertItem(c)
  <2>1. CASE handle[c] \in live
    <3>1. handle[c] \in 1..MaxMenus /\ Menu!Insert(c, "string") /\ step[c] = "insert"
          /\ step' = [step EXCEPT ![c] = "own"] /\ UNCHANGED <<item, parent, menus, adder>>
      BY <1>8, <2>1, LiveIs DEF Menu!InsertItem
    <3>2. \A h \in 1..MaxMenus : \A x \in MenuEntries(h)' :
             x.id = item[c] \/ \E y \in MenuEntries(h) : y.id = x.id
      BY <3>1, FreshInsert
    <3> QED BY <1>6, <3>1, <3>2 DEF Menu!Steps
  <2>2. CASE handle[c] \notin live
    BY <1>8, <2>2, FreshGoes DEF Menu!InsertItem
  <2> QED BY <2>1, <2>2
<1>9. CASE Menu!InsertSeparator(c)
  <2>1. /\ Menu!Insert(c, "separator") /\ step[c] = "sepinsert"
              /\ step' = [step EXCEPT ![c] = "idle"]
        /\ item' = [item EXCEPT ![c] = 0] /\ UNCHANGED <<parent, menus, adder>>
    BY <1>9 DEF Menu!InsertSeparator, Menu!Leave
  <2>2. handle[c] \in 1..MaxMenus
    BY <2>1, LiveIs DEF MenuInv, HandleInv, HandleOK, CallsInv, CallOK, Separating, MenusInv
  <2>3. \A h \in 1..MaxMenus : \A x \in MenuEntries(h)' :
           x.id = item[c] \/ \E y \in MenuEntries(h) : y.id = x.id
    BY <2>1, <2>2, FreshInsert
  <2>4. \A d \in Callers \ {c} : item'[d] = item[d]
    BY <1>1, <2>1 DEF Menu!TypeOK
  <2> QED BY <1>6, <2>1, <2>3, <2>4 DEF Menu!Steps
<1>10. CASE Menu!Attach(c)
  <2>1. CASE Menu!Returns(c) /\ UNCHANGED <<Menu!trayVars, Menu!winVars>>
    BY <2>1, FreshReturns
  <2>2. ASSUME NEW p \in Menu!Places(menuOf[Menu!Parent(c)], Menu!Parent(c)),
               win' = [win EXCEPT ![p[1]][p[2]].sub = handle[c]], step[c] = "attach",
               step' = [step EXCEPT ![c] = "record"], UNCHANGED <<item, parent, menus, adder>>
        PROVE  FreshInv'
    <3>1. Menu!Parent(c) \in Menu!Ids /\ menuOf[Menu!Parent(c)] \in 0..MaxMenus
      <4>1. Menu!Parent(c) # 0
        BY <2>2 DEF MenuInv, HandleInv, HandleOK, Making
      <4>2. Menu!Parent(c) \in 0..MaxId
        BY <1>1, <2>2, CallFacts DEF MenuInv
      <4>3. Menu!Parent(c) \in Menu!Ids
        BY <4>1, <4>2, MenuNumbers
      <4> QED BY <1>1, <4>3 DEF Menu!TypeOK
    <3>2. p[1] \in 1..MaxMenus /\ p[2] \in DOMAIN win[p[1]]
      BY <2>2, <3>1, PlacesIs
    <3>3. \A h \in 1..MaxMenus : \A x \in MenuEntries(h)' : \E y \in MenuEntries(h) : y.id = x.id
      BY <1>1, <2>2, <3>2, AttachIs
    <3> QED BY <1>6, <2>2, <3>3 DEF Menu!Steps
  <2> QED BY <1>10, <2>1, <2>2 DEF Menu!Attach
<1>11. CASE Menu!Delete(c)
  <2>1. CASE Menu!Returns(c) /\ UNCHANGED <<Menu!trayVars, Menu!winVars>>
    BY <2>1, FreshReturns
  <2>2. ASSUME NEW p \in Menu!Places(handle[c], item[c]),
               win' = [win EXCEPT ![p[1]] = Menu!RemoveAt(win[p[1]], p[2])], step[c] = "delete",
               step' = [step EXCEPT ![c] = "delvis"], UNCHANGED <<item, parent, menus, adder>>
        PROVE  FreshInv'
    <3>1. item[c] \in Menu!Ids /\ handle[c] \in 0..MaxMenus
      BY <1>1, <2>2, CallFacts DEF MenuInv, Menu!TypeOK
    <3>2. p[1] \in 1..MaxMenus /\ p[2] \in DOMAIN win[p[1]]
      BY <2>2, <3>1, PlacesIs
    <3>3. /\ \A h \in 1..MaxMenus : h # p[1] => win'[h] = win[h]
          /\ \A h : h = p[1] => \A x \in MenuEntries(h)' : x \in MenuEntries(p[1])
      BY <2>2, <3>2, DeleteIs
    <3>4. \A h \in 1..MaxMenus : \A x \in MenuEntries(h)' : x \in MenuEntries(h)
      BY <3>3 DEF MenuEntries
    <3> QED BY <1>6, <2>2, <3>4 DEF Menu!Steps
  <2> QED BY <1>11, <2>1, <2>2 DEF Menu!Delete
<1> QED BY <1>2, <1>3, <1>4, <1>5, <1>7, <1>8, <1>9, <1>10, <1>11 DEF Menu!Goes

-----------------------------------------------------------------------------
(* Every step.                                                             *)

\* At the start.
LEMMA MenuStarts ==
  ASSUME Menu!MenuAssumption, Menu!Init
  PROVE  MenuInv /\ FreshInv
<1>1. /\ MaxId \in Nat /\ MaxMenus \in Nat /\ 1 \in 1..MaxMenus /\ 0 \notin Menu!Ids
            /\ Menu!Ids \subseteq 0..MaxId
      /\ 0 \in 0..MaxId
  BY DEF Menu!MenuAssumption, Menu!Ids
<1>2. /\ \A c \in Callers : step[c] = "idle" /\ item[c] = 0 /\ handle[c] = 0 /\ pos[c] = 0
      /\ \A i \in Menu!Ids : parent[i] = 0 /\ menus[i] = 0 /\ menuOf[i] = 0 /\ adder[i] = Nobody
                        /\ hides[i] = "never"
      /\ \A p \in 0..MaxId : visible[p] = << >>
      /\ \A p \in 0..MaxId : menus[p] = IF p = 0 THEN 1 ELSE 0
      /\ \A h \in 1..MaxMenus : win[h] = << >>
      /\ currentID = 0 /\ menuItems = {} /\ live = {1} /\ made = 1
  BY <1>1 DEF Menu!Init, Menu!Root
<1>3. \A h \in 1..MaxMenus : Menu!MenuIds(h) = << >> /\ MenuEntries(h) = {}
  <2> TAKE h \in 1..MaxMenus
  <2>1. win[h] = << >> /\ DOMAIN win[h] = {}
    BY <1>2
  <2> QED BY <2>1 DEF Menu!MenuIds, MenuEntries, Menu!Range
<1>4. Menu!TypeOK
  <2>1. /\ step \in [Callers -> {"idle"} \cup Menu!Steps]
        /\ item \in [Callers -> 0..MaxId] /\ handle \in [Callers -> 0..MaxMenus]
        /\ pos \in [Callers -> Nat] /\ currentID \in 0..MaxId /\ menuItems \subseteq Menu!Ids
    BY <1>1 DEF Menu!Init
  <2>2. /\ parent \in [Menu!Ids -> 0..MaxId] /\ menuOf \in [Menu!Ids -> 0..MaxMenus]
        /\ menus \in [0..MaxId -> 0..MaxMenus]
    BY <1>1 DEF Menu!Init, Menu!Root
  <2>3. visible \in [0..MaxId -> Seq(Menu!Ids)] /\ win \in [1..MaxMenus -> Seq(Menu!Entry)]
    BY DEF Menu!Init
  <2>4. /\ live \subseteq 1..made /\ made \in 1..MaxMenus
        /\ adder \in [Menu!Ids -> Callers \cup {Nobody}]
        /\ hides \in [Menu!Ids -> {"never", "hidden", "shown"}]
    BY <1>1 DEF Menu!Init, Menu!Root
  <2> QED BY <2>1, <2>2, <2>3, <2>4 DEF Menu!TypeOK
<1>5. CallsInv /\ AloneInv /\ ItemsInv
  BY <1>1, <1>2 DEF CallsInv, CallOK, AloneInv, ItemsInv, Hiding, Separating, Menu!Steps
<1>6. MenusInv /\ HandleInv /\ NewInv
  BY <1>1, <1>2 DEF MenusInv, HandleInv, HandleOK, NewInv, Making, Hanging, Adding, Menu!Root
<1>7. OwnEntryInv
  BY <1>3 DEF OwnEntryInv
<1>8. OnceInv
  BY <1>3 DEF OnceInv, Distinct
<1>9. LeadsInv /\ LostInv
  <2>1. \A q \in Menu!Ids : menus[q] = 0 /\ menus[q] \notin live
    BY <1>2
  <2>2. \A c \in Callers : step[c] # "record"
    BY <1>2
  <2>3. LeadsInv
    BY <2>1, <2>2 DEF LeadsInv
  <2> QED BY <2>1, <2>3 DEF LostInv
<1>10. VisibleInv
  BY <1>2 DEF VisibleInv, Rising, Lists, In
<1>11. MirrorInv
  <2>1. \A p \in 0..MaxId : menus[p] \in live => menus[p] = 1
    BY <1>2
  <2>2. \A p \in 0..MaxId : menus[p] \in live => \A i : ~Has(menus[p], i)
    BY <1>1, <1>3, <2>1 DEF Has
  <2>3. \A p \in 0..MaxId : Distinct(visible[p]) /\ \A i : ~Lists(p, i)
    BY <1>2 DEF Distinct, Lists, In
  <2> QED BY <2>2, <2>3 DEF MirrorInv
<1>12. CallerInv /\ PlaceInv /\ FreshInv
  BY <1>2 DEF CallerInv, CallerOK, PlaceInv, PlaceOK, FreshInv, Placing
<1>13. RestInv
  <2>1. \A p \in 0..MaxId : menus[p] \in live => Menu!MenuIds(menus[p]) = visible[p]
    BY <1>1, <1>2, <1>3
  <2> QED BY <2>1 DEF RestInv
<1>14. SeenInv
  BY <1>2 DEF SeenInv
<1> QED BY <1>4, <1>5, <1>6, <1>7, <1>8, <1>9, <1>10, <1>11, <1>12, <1>13, <1>14 DEF MenuInv

\* A step in which nothing happens.
LEMMA MenuStays ==
  ASSUME MenuInv, FreshInv, UNCHANGED Menu!vars
  PROVE  MenuInv' /\ FreshInv'
<1>1. UNCHANGED <<step, item, handle, pos, currentID, menuItems, parent, menus, menuOf, visible,
                  win, live, made, adder, hides>>
  BY DEF Menu!vars, Menu!callVars, Menu!trayVars, Menu!winVars
<1>2. Menu!TypeOK' /\ CallsInv' /\ AloneInv' /\ ItemsInv'
  BY <1>1 DEF MenuInv, Menu!TypeOK, CallsInv, CallOK, Menu!Parent, AloneInv, ItemsInv
<1>3. MenusInv' /\ HandleInv' /\ NewInv'
  BY <1>1 DEF MenuInv, MenusInv, HandleInv, HandleOK, Menu!Parent, NewInv
<1>4. OwnEntryInv' /\ OnceInv'
  BY <1>1 DEF MenuInv, OwnEntryInv, SubInv, Menu!Parent, MenuEntries, OnceInv, Menu!MenuIds
<1>5. LeadsInv' /\ VisibleInv'
  BY <1>1 DEF MenuInv, LeadsInv, Leads, Menu!Parent, MenuEntries, VisibleInv, Lists
<1>6. MirrorInv' /\ CallerInv'
  BY <1>1 DEF MenuInv, MirrorInv, Lists, Has, MenuEntries, CallerInv, CallerOK, Menu!Parent
<1>7. RestInv' /\ PlaceInv'
  <2>1. /\ \A h : Menu!MenuIds(h)' = Menu!MenuIds(h)
        /\ \A c : Menu!Parent(c)' = Menu!Parent(c) /\ Menu!Index(c)' = Menu!Index(c)
        /\ \A p : Menu!Sole(p)' = Menu!Sole(p)
    BY <1>1 DEF Menu!MenuIds, Menu!Parent, Menu!Index, Menu!Sole
  <2>2. RestInv'
    BY <1>1, <2>1 DEF MenuInv, RestInv
  <2>3. \A c \in Callers : PlaceOK(c)'
    BY <1>1, <2>1 DEF MenuInv, PlaceInv, PlaceOK
  <2> QED BY <2>2, <2>3 DEF PlaceInv
<1>8. LostInv' /\ SeenInv' /\ FreshInv'
  BY <1>1 DEF MenuInv, LostInv, Safe, SeenInv, FreshInv, Seen, Has, MenuEntries
<1> QED BY <1>2, <1>3, <1>4, <1>5, <1>6, <1>7, <1>8 DEF MenuInv

\* A step of a call.
LEMMA MenuGoes ==
  ASSUME Menu!MenuAssumption, Private, MenuInv, FreshInv, NEW c \in Callers, Menu!Goes(c)
  PROVE  MenuInv'
<1>1. Menu!TypeOK'
  BY MenuTypes
<1>2. CASE Menu!Store(c) \/ Menu!Lookup(c) \/ Menu!Create(c) \/ Menu!Record(c) \/ Menu!Check(c)
         \/ Menu!Set(c)
  BY <1>1, <1>2, StoreStep, LookupStep, CreateStep, RecordStep, CheckStep, SetStep
<1>3. CASE Menu!AddToVisible(c)
  BY <1>1, <1>3, AddVisibleStep DEF Menu!AddToVisible
<1>4. CASE Menu!SeparatorVisible(c)
  BY <1>1, <1>4, AddVisibleStep DEF Menu!SeparatorVisible
<1>5. CASE Menu!Position(c) \/ Menu!InsertItem(c) \/ Menu!Own(c) \/ Menu!DelFromVisible(c)
  BY <1>1, <1>5, PositionStep, InsertItemStep, OwnStep, DelFromVisibleStep
<1>6. CASE Menu!SeparatorPosition(c) \/ Menu!InsertSeparator(c) \/ Menu!HideLookup(c)
  BY <1>1, <1>6, SeparatorPositionStep, InsertSeparatorStep, HideLookupStep
<1>7. CASE Menu!Attach(c)
  <2>1. CASE Menu!Places(menuOf[Menu!Parent(c)], Menu!Parent(c)) = {} /\ Menu!Returns(c)
             /\ UNCHANGED <<Menu!trayVars, Menu!winVars>>
    BY <1>1, <1>7, <2>1, AttachNoneStep DEF Menu!Attach, Menu!At
  <2>2. ASSUME NEW p \in Menu!Places(menuOf[Menu!Parent(c)], Menu!Parent(c)),
               win' = [win EXCEPT ![p[1]][p[2]].sub = handle[c]],
               live' = live \ Menu!Below(win[p[1]][p[2]].sub), Menu!Goto(c, "record"),
               UNCHANGED <<item, handle, pos, Menu!trayVars, made, adder>>
        PROVE  MenuInv'
    <3>1. step[c] = "attach" /\ UNCHANGED hides
      BY <1>7 DEF Menu!Attach, Menu!At
    <3>2. step' = [step EXCEPT ![c] = "record"]
      BY <2>2 DEF Menu!Goto, Menu!Put
    <3> QED BY <1>1, <2>2, <3>1, <3>2, AttachFoundStep
  <2> QED BY <1>7, <2>1, <2>2 DEF Menu!Attach
<1>8. CASE Menu!Delete(c)
  <2>1. CASE Menu!Returns(c) /\ UNCHANGED Menu!winVars
    BY <1>1, <1>8, <2>1, DeleteNoneStep DEF Menu!Delete, Menu!At
  <2>2. ASSUME NEW p \in Menu!Places(handle[c], item[c]),
               win' = Menu!Put(win, p[1], Menu!RemoveAt(win[p[1]], p[2])),
               live' = live \ Menu!Below(win[p[1]][p[2]].sub), Menu!Goto(c, "delvis"),
               UNCHANGED <<item, handle, pos, made, adder>>
        PROVE  MenuInv'
    <3>1. step[c] = "delete" /\ UNCHANGED <<hides, Menu!trayVars>>
      BY <1>8 DEF Menu!Delete, Menu!At
    <3>2. /\ step' = [step EXCEPT ![c] = "delvis"]
          /\ win' = [win EXCEPT ![p[1]] = Menu!RemoveAt(win[p[1]], p[2])]
      BY <2>2 DEF Menu!Goto, Menu!Put
    <3> QED BY <1>1, <2>2, <3>1, <3>2, DeleteFoundStep
  <2> QED BY <1>8, <2>1, <2>2 DEF Menu!Delete
<1> QED BY <1>2, <1>3, <1>4, <1>5, <1>6, <1>7, <1>8 DEF Menu!Goes

\* In all reachable states, if goroutines keep to their own items.
THEOREM MenuInvariant ==
  ASSUME Menu!MenuAssumption, Private
  PROVE  Menu!Spec => [](MenuInv /\ FreshInv)
<1>1. Menu!Init => MenuInv /\ FreshInv
  BY MenuStarts
<1>2. (MenuInv /\ FreshInv) /\ [Menu!Next]_(Menu!vars) => (MenuInv /\ FreshInv)'
  <2> SUFFICES ASSUME MenuInv, FreshInv, [Menu!Next]_(Menu!vars) PROVE MenuInv' /\ FreshInv'
    OBVIOUS
  <2>1. ASSUME NEW c \in Callers, Menu!Calls(c)
        PROVE  MenuInv' /\ FreshInv'
    <3>1. Menu!TypeOK'
      BY <2>1, MenuTypes
    <3> QED BY <2>1, <3>1, CallStep, FreshCalls
  <2>2. ASSUME NEW c \in Callers, Menu!Goes(c)
        PROVE  MenuInv' /\ FreshInv'
    <3>1. Menu!TypeOK'
      BY <2>2, MenuTypes
    <3> QED BY <2>2, <3>1, MenuGoes, FreshGo
  <2>3. CASE UNCHANGED Menu!vars
    BY <2>3, MenuStays
  <2> QED BY <2>1, <2>2, <2>3 DEF Menu!Next
<1> QED BY <1>1, <1>2, PTL DEF Menu!Spec

-----------------------------------------------------------------------------
(* The properties of the menu follow.                                      *)

\* What an item is below: the item it was added to, and what that is below.
LEMMA AboveIs ==
  ASSUME Menu!MenuAssumption, Menu!TypeOK, ItemsInv, NEW i \in Menu!Ids
  PROVE  /\ Menu!Above(i) \subseteq Menu!Ids
         /\ parent[i] # 0 => parent[i] \in Menu!Above(i)
         /\ \A j \in Menu!Above(i) : parent[j] # 0 => parent[j] \in Menu!Above(i)
<1>1. /\ MaxId \in Nat /\ Menu!Ids = 1..MaxId /\ i \in 1..MaxId
      /\ \A j \in Menu!Ids : parent[j] \in 0..MaxId /\ parent[j] < j
  BY MenuNumbers DEF Menu!TypeOK, ItemsInv
<1> DEFINE ups(S) == {parent[j] : j \in S \ {0}}
           G == [S \in SUBSET (0..MaxId) |-> ups(S)]
           up(f) == [d \in 0..MaxId |-> IF d = 0 THEN {i} ELSE {parent[j] : j \in f[d - 1] \ {0}}]
           f == CHOOSE f : f = up(f)
<1>2. f = up(f)
  <2>1. \A S \in SUBSET (0..MaxId) : ups(S) \in SUBSET (0..MaxId)
    BY <1>1
  <2>2. G \in [SUBSET (0..MaxId) -> SUBSET (0..MaxId)]
    BY <2>1
  <2>3. {i} \in SUBSET (0..MaxId)
    BY <1>1
  <2>4. PICK y \in [0..MaxId -> SUBSET (0..MaxId)] :
           y[0] = {i} /\ \A d \in 1..MaxId : y[d] = G[y[d - 1]]
    <3> HIDE DEF G
    <3>1. PICK y : Recurs(y, MaxId, 0..MaxId, {i}, G)
      BY <1>1, <2>2, <2>3, Recursion
    <3> QED BY <3>1 DEF Recurs
  <2>5. \A d \in 0..MaxId : d # 0 => d \in 1..MaxId /\ d - 1 \in 0..MaxId
    BY <1>1
  <2>6. \A d \in 0..MaxId : d # 0 => G[y[d - 1]] = ups(y[d - 1])
    <3>1. \A d \in 0..MaxId : d # 0 => y[d - 1] \in SUBSET (0..MaxId)
      BY <2>4, <2>5
    <3>2. \A S \in SUBSET (0..MaxId) : G[S] = ups(S)
      OBVIOUS
    <3> HIDE DEF G, ups
    <3> QED BY <3>1, <3>2
  <2>7. y = [d \in 0..MaxId |-> IF d = 0 THEN {i} ELSE ups(y[d - 1])]
    <3>1. y = [d \in 0..MaxId |-> y[d]]
      BY <2>4
    <3> HIDE DEF G, ups
    <3>2. \A d \in 0..MaxId : y[d] = IF d = 0 THEN {i} ELSE ups(y[d - 1])
      BY <2>4, <2>5, <2>6
    <3> QED BY <3>1, <3>2
  <2>8. y = up(y)
    BY <2>7
  <2> QED BY <2>8
<1>3. Menu!Above(i) = (UNION {f[d] : d \in 1..MaxId}) \ {0}
  BY DEF Menu!Above
<1>4. f[0] = {i} /\ \A d \in 1..MaxId : f[d] = ups(f[d - 1])
  <2>1. 0 \in 0..MaxId /\ \A d \in 1..MaxId : d \in 0..MaxId /\ d # 0
    BY <1>1
  <2> HIDE DEF f
  <2> QED BY <1>2, <2>1
<1>5. \A S : \A x : x \in ups(S) <=> \E j \in S : j # 0 /\ x = parent[j]
  OBVIOUS
<1> HIDE DEF f, ups, G
<1>6. \A x : x \in Menu!Above(i) <=> x # 0 /\ \E d \in 1..MaxId : x \in f[d]
  <2>1. \A x : x \in (UNION {f[d] : d \in 1..MaxId}) \ {0} <=> x # 0
           /\ \E d \in 1..MaxId : x \in f[d]
    OBVIOUS
  <2> QED BY <1>3, <2>1
\* What is found d steps up is at least d below i.
<1>7. \A d \in 0..MaxId : \A x \in f[d] : x \in 0..MaxId /\ (x # 0 => x + d <= i)
  <2> DEFINE T == {d \in 0..MaxId : \A x \in f[d] : x \in 0..MaxId /\ (x # 0 => x + d <= i)}
  <2>1. 0 \in T
    BY <1>1, <1>4
  <2>2. ASSUME NEW d \in 0..MaxId - 1, d \in T PROVE d + 1 \in T
    <3>1. d \in 0..MaxId /\ d + 1 \in 1..MaxId /\ d + 1 \in 0..MaxId /\ (d + 1) - 1 = d
      BY <1>1
    <3>2. ASSUME NEW x \in f[d + 1]
          PROVE  x \in 0..MaxId /\ (x # 0 => x + (d + 1) <= i)
      <4>1. PICK j \in f[d] : j # 0 /\ x = parent[j]
        BY <1>4, <1>5, <3>1, <3>2
      <4>2. j \in 0..MaxId /\ j + d <= i
        BY <2>2, <4>1
      <4>3. j \in Menu!Ids
        BY <1>1, <4>1, <4>2
      <4>4. x \in 0..MaxId /\ x < j
        BY <1>1, <4>1, <4>3
      <4> QED BY <1>1, <3>1, <4>2, <4>4
    <3> QED BY <3>1, <3>2
  <2> HIDE DEF T
  <2>3. \A d \in 0..MaxId : d \in T
    BY <1>1, <2>1, <2>2, UpTo
  <2> QED BY <2>3 DEF T
<1>8. \A x \in Menu!Above(i) : x \in Menu!Ids
  <2> TAKE x \in Menu!Above(i)
  <2>1. PICK d \in 1..MaxId : x # 0 /\ x \in f[d]
    BY <1>6
  <2>2. d \in 0..MaxId
    BY <1>1
  <2>3. x \in 0..MaxId
    BY <1>7, <2>1, <2>2
  <2> QED BY <1>1, <2>1, <2>3
<1>9. parent[i] # 0 => parent[i] \in Menu!Above(i)
  <2>1. i \in f[0] /\ i # 0
    BY <1>1, <1>4
  <2>2. 1 \in 1..MaxId /\ 1 - 1 = 0
    BY <1>1
  <2>3. f[1] = ups(f[0])
    BY <1>4, <2>2
  <2>4. parent[i] \in f[1]
    BY <1>5, <2>1, <2>3
  <2> QED BY <1>6, <2>2, <2>4
<1>10. \A j \in Menu!Above(i) : parent[j] # 0 => parent[j] \in Menu!Above(i)
  <2> TAKE j \in Menu!Above(i)
  <2>1. PICK d \in 1..MaxId : j # 0 /\ j \in f[d]
    BY <1>6
  <2>2. d \in 0..MaxId
    BY <1>1
  <2>3. j \in 0..MaxId /\ j + d <= i
    BY <1>7, <2>1, <2>2
  <2>4. d + 1 \in 1..MaxId /\ (d + 1) - 1 = d
    BY <1>1, <2>1, <2>3
  <2>5. f[d + 1] = ups(f[d])
    BY <1>4, <2>4
  <2>6. parent[j] \in f[d + 1]
    BY <1>5, <2>1, <2>5
  <2> QED BY <1>6, <2>4, <2>6
<1> QED BY <1>8, <1>9, <1>10

\* Where none of these was ever hidden, all is safe.
LEMMA KeptSafe ==
  ASSUME Menu!MenuAssumption, Menu!TypeOK, ItemsInv, NEW i \in Menu!Ids, Menu!Kept(Menu!Above(i))
  PROVE  /\ parent[i] # 0 => Safe(parent[i])
         /\ hides[i] = "never" => Safe(i)
<1>1. /\ Menu!Above(i) \subseteq Menu!Ids
      /\ parent[i] # 0 => parent[i] \in Menu!Above(i)
      /\ \A j \in Menu!Above(i) : parent[j] # 0 => parent[j] \in Menu!Above(i)
  BY AboveIs
<1>2. \A j \in Menu!Above(i) : hides[j] = "never"
  BY DEF Menu!Kept
<1> DEFINE A == Menu!Above(i)
<1> HIDE DEF A
<1>3. A = Menu!Above(i)
  BY DEF A
<1>4. parent[i] # 0 => Safe(parent[i])
  BY <1>1, <1>2, <1>3 DEF Safe
<1>5. ASSUME hides[i] = "never" PROVE Safe(i)
  <2> DEFINE B == A \cup {i}
  <2>1. B \in SUBSET Menu!Ids /\ i \in B
    BY <1>1, <1>3
  <2>2. \A j \in B : hides[j] = "never" /\ (parent[j] = 0 \/ parent[j] \in B)
    BY <1>1, <1>2, <1>3, <1>5
  <2> HIDE DEF B
  <2> QED BY <2>1, <2>2 DEF Safe
<1> QED BY <1>4, <1>5

\* A menu that is the library's and has not been destroyed is below the root.
LEMMA MenusReach ==
  ASSUME Menu!MenuAssumption, MenuInv
  PROVE  \A p \in 0..MaxId : menus[p] \in live => menus[p] \in Menu!Below(Menu!Root)
<1>1. MaxId \in Nat /\ Menu!Ids = 1..MaxId /\ Menu!Root \in 0..MaxMenus /\ Menu!Root \in live
  BY MenuNumbers DEF MenuInv, MenusInv
<1>2. /\ Menu!Root \in Menu!Below(Menu!Root)
      /\ \A g \in Menu!Below(Menu!Root) : \A e \in MenuEntries(g) : e.sub \in live
            => e.sub \in Menu!Below(Menu!Root)
  BY <1>1, MenusBelow
<1> DEFINE T == {n \in 0..MaxId : \A q \in 0..n : menus[q] \in live
         => menus[q] \in Menu!Below(Menu!Root)}
<1>3. 0 \in T
  <2>1. 0 \in 0..MaxId /\ \A q \in 0..0 : q = 0
    BY <1>1
  <2>2. menus[0] = Menu!Root
    BY DEF MenuInv, MenusInv
  <2> QED BY <1>2, <2>1, <2>2
<1>4. ASSUME NEW n \in 0..MaxId - 1, n \in T PROVE n + 1 \in T
  <2>1. n + 1 \in Menu!Ids /\ n + 1 \in 0..MaxId /\ \A q \in 0..n + 1 : q \in 0..n \/ q = n + 1
    BY <1>1
  <2>2. ASSUME menus[n + 1] \in live PROVE menus[n + 1] \in Menu!Below(Menu!Root)
    <3>1. /\ menus[parent[n + 1]] \in live
          /\ \E e \in MenuEntries(menus[parent[n + 1]]) : e.sub = menus[n + 1]
      BY <2>1, <2>2 DEF MenuInv, LeadsInv, Leads
    <3>2. parent[n + 1] \in 0..MaxId /\ parent[n + 1] < n + 1
      BY <2>1 DEF MenuInv, Menu!TypeOK, ItemsInv
    <3>3. parent[n + 1] \in 0..n
      BY <1>1, <3>2
    <3>4. menus[parent[n + 1]] \in Menu!Below(Menu!Root)
      BY <1>4, <3>1, <3>3
    <3> QED BY <1>2, <2>2, <3>1, <3>4
  <2> QED BY <1>4, <2>1, <2>2
<1> HIDE DEF T
<1>5. \A n \in 0..MaxId : n \in T
  BY <1>1, <1>3, <1>4, UpTo
<1>6. \A p \in 0..MaxId : p \in 0..p
  BY <1>1
<1> QED BY <1>5, <1>6 DEF T

\* No call is under way: no item is any caller's.
LEMMA QuietIs ==
  ASSUME Menu!MenuAssumption, MenuInv, Menu!Quiet
  PROVE  \A c \in Callers : step[c] = "idle" /\ item[c] = 0
  BY DEF Menu!Quiet, MenuInv, CallsInv, CallOK

\* The properties, one by one: the books mirror the menu ...
LEMMA MirrorsHold ==
  ASSUME Menu!MenuAssumption, MenuInv
  PROVE  Menu!MenuMirrors
<1> SUFFICES ASSUME Menu!Quiet, NEW p \in 0..MaxId, menus[p] # 0,
                    Menu!Kept((Menu!Above(p) \cup {p}) \ {0})
             PROVE  LET shown == Menu!MenuIds(menus[p]) IN
                    /\ Menu!Range(shown) = Menu!Range(visible[p]) /\ Len(shown) = Len(visible[p])
                    /\ Menu!Sole(p) => shown = Menu!Sort(shown)
  BY DEF Menu!MenuMirrors
<1> DEFINE shown == Menu!MenuIds(menus[p])
<1>1. Menu!TypeOK /\ ItemsInv
  BY DEF MenuInv
<1>2. menus[p] \in live
  <2>1. CASE p = 0
    BY <2>1 DEF MenuInv, MenusInv
  <2>2. CASE p # 0
    <3>1. p \in Menu!Ids
      BY <2>2, MenuNumbers
    <3>2. Menu!Above(p) \subseteq Menu!Ids
      BY <1>1, <3>1, AboveIs
    <3>3. Menu!Kept(Menu!Above(p)) /\ hides[p] = "never"
      BY <2>2, <3>2, MenuNumbers DEF Menu!Kept
    <3>4. Safe(p)
      BY <1>1, <3>1, <3>3, KeptSafe
    <3> QED BY <3>4, DeadMenu
  <2> QED BY <2>1, <2>2
<1>3. menus[p] \in 1..MaxMenus
  BY <1>2, LiveIs
<1>4. \A c \in Callers : step[c] \notin Placing
  BY QuietIs DEF Placing
<1>5. shown \in Seq(Menu!Ids) /\ visible[p] \in Seq(Menu!Ids) /\ visible[p] \in Seq(Nat)
  BY <1>1, <1>3, WinTypes, VisibleTypes
<1>6. Distinct(shown) /\ Distinct(visible[p])
  BY <1>2, <1>3 DEF MenuInv, OnceInv, MirrorInv
<1>7. \A i \in Menu!Ids : In(shown, i) <=> In(visible[p], i)
  <2>1. \A i \in Menu!Ids : Has(menus[p], i) <=> Lists(p, i)
    BY <1>2, <1>4 DEF MenuInv, MirrorInv
  <2>2. \A i : Has(menus[p], i) <=> In(shown, i)
    BY <1>1, <1>3, HasIs
  <2> HIDE DEF shown
  <2> QED BY <2>1, <2>2 DEF Lists
<1>8. Menu!Sole(p) => shown = visible[p]
  BY <1>2, <1>4 DEF MenuInv, RestInv
<1>9. Menu!Sort(visible[p]) = visible[p]
  <2>1. Rising(visible[p])
    BY DEF MenuInv, VisibleInv
  <2>2. Strict(visible[p])
    BY <1>5, <1>6, <2>1, StrictIs
  <2> QED BY <1>5, <2>2, SortedAlready
<1> HIDE DEF shown
<1>10. Menu!Range(shown) = Menu!Range(visible[p]) /\ Len(shown) = Len(visible[p])
  BY <1>5, <1>6, <1>7, SameLength
<1>11. Menu!Sole(p) => shown = Menu!Sort(shown)
  BY <1>8, <1>9
<1> QED BY <1>10, <1>11 DEF shown

\* ... what was added is shown ...
LEMMA AddedHold ==
  ASSUME Menu!MenuAssumption, MenuInv
  PROVE  Menu!AddedShown
<1> SUFFICES ASSUME Menu!Quiet, NEW i \in Menu!Ids, adder[i] # Nobody, hides[i] # "hidden",
                    Menu!Kept(Menu!Above(i))
             PROVE  i \in Menu!Shown
  BY DEF Menu!AddedShown
<1>1. Menu!TypeOK /\ ItemsInv
  BY DEF MenuInv
<1>2. parent[i] # 0 => Safe(parent[i])
  BY <1>1, KeptSafe
<1>3. \A c \in Callers : item[c] # i
  BY QuietIs, MenuNumbers
<1>4. Has(menus[parent[i]], i)
  BY <1>2, <1>3 DEF MenuInv, SeenInv, Seen
<1>5. parent[i] \in 0..MaxId /\ menus[parent[i]] # 0
  BY <1>1, <1>4 DEF Menu!TypeOK, Has
<1>6. menus[parent[i]] \in live
  <2>1. CASE parent[i] = 0
    BY <2>1 DEF MenuInv, MenusInv
  <2>2. CASE parent[i] # 0
    BY <1>2, <1>5, <2>2, DeadMenu
  <2> QED BY <2>1, <2>2
<1>7. menus[parent[i]] \in Menu!Below(Menu!Root)
  BY <1>5, <1>6, MenusReach
<1>8. menus[parent[i]] \in 1..MaxMenus
  BY <1>6, LiveIs
<1>9. In(Menu!MenuIds(menus[parent[i]]), i)
  BY <1>1, <1>4, <1>8, HasIs
<1>10. i \in Menu!Range(Menu!MenuIds(menus[parent[i]]))
  BY <1>9 DEF In, Menu!Range
<1> QED BY <1>7, <1>10 DEF Menu!Shown

\* ... each item once ...
LEMMA OnceHolds ==
  ASSUME Menu!MenuAssumption, MenuInv
  PROVE  Menu!EachOnce
<1> SUFFICES ASSUME NEW h \in live, NEW m \in DOMAIN win[h], NEW n \in DOMAIN win[h], m # n
             PROVE  win[h][m].id # win[h][n].id
  BY DEF Menu!EachOnce
<1>1. h \in 1..MaxMenus /\ Menu!TypeOK
  BY LiveIs DEF MenuInv
<1>2. Distinct(Menu!MenuIds(h))
  BY <1>1 DEF MenuInv, OnceInv
<1> QED BY <1>1, <1>2, WinTypes DEF Distinct

\* ... and clicks find their items.
LEMMA ClickHolds ==
  ASSUME Menu!MenuAssumption, MenuInv
  PROVE  Menu!ClickFindsItem
<1> SUFFICES ASSUME NEW h \in Menu!Below(Menu!Root), NEW n \in DOMAIN win[h],
                    win[h][n].type = "string"
             PROVE  win[h][n].id \in menuItems
  BY DEF Menu!ClickFindsItem
<1>1. Menu!Root \in 0..MaxMenus
  BY MenuNumbers
<1>2. h \in 1..MaxMenus
  BY <1>1, MenusBelow, LiveIs
<1>3. win[h][n] \in MenuEntries(h)
  BY DEF MenuEntries, Menu!Range
<1> QED BY <1>2, <1>3 DEF MenuInv, OwnEntryInv

\* All of it.
LEMMA MenuInvRight ==
  ASSUME Menu!MenuAssumption, MenuInv
  PROVE  Menu!MenuRight
  BY MirrorsHold, AddedHold, OnceHolds, ClickHolds DEF Menu!MenuRight, MenuInv

-----------------------------------------------------------------------------
(* The desktop.                                                            *)

\* A behaviour of the desktop is one of UserEnv, and one of the menu, that stands
\* still while the other moves.
THEOREM DesktopIsBoth == DesktopSpec => Spec /\ Menu!Spec
<1>1. DesktopInit => Init /\ Menu!Init
  BY DEF DesktopInit
<1>2. [InEnv(Next) \/ InMenu(Menu!Next)]_allVars => [Next]_vars /\ [Menu!Next]_(Menu!vars)
  BY DEF InEnv, InMenu, allVars, menuVars, Menu!vars, Menu!callVars, Menu!trayVars, Menu!winVars
<1> QED BY <1>1, <1>2, PTL DEF DesktopSpec, Spec, Menu!Spec

\* Whatever goroutines add, change, hide and show items of their own, and however
\* the steps of their calls fall: the books mirror the menu when no call is under
\* way, nothing that was added is lost, no item is there twice and every click finds
\* its item (systray_windows.go:427-875).
THEOREM MenuRightCorrect == ASSUME Private PROVE DesktopSpec => []MenuRight
<1>1. MenuInv => Menu!MenuRight
  BY MenuConstants, MenuInvRight
<1>2. Menu!Spec => [](MenuInv /\ FreshInv)
  BY MenuConstants, MenuInvariant
<1> QED BY <1>1, <1>2, DesktopIsBoth, PTL DEF MenuRight
=============================================================================
