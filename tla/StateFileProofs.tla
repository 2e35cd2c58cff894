-------------------------- MODULE StateFileProofs --------------------------
(***************************************************************************)
(* Under Watcher.mu a save of the state file is atomic, for any number of  *)
(* goroutines, whatever system call fails and wherever the daemon stops:   *)
(* StateFile implements CursorStore.                                       *)
(***************************************************************************)
EXTENDS StateFile, TLAPS

\* While a goroutine writes, what it has marshalled is what is in memory, for all
\* of the repos: nobody sets a cursor without the mutex.
Marshalled ==
    \A r \in Repos : pc[r] \in {"open", "write", "rename"} => raw[r] = cursors

\* What is about to be renamed is what was marshalled.
TmpReady == \A r \in Repos : pc[r] = "rename" => tmp = raw[r]

\* The file is whole, and holds no setting of a cursor that memory has not.
FileBehind ==
    /\ file \in Tables \cup {Absent}
    /\ \A r \in Repos : Load(file)[r].nth <= cursors[r].nth

\* A goroutine that is to set its cursor has not done so for the last time.
SetToCome == \A r \in Repos : pc[r] = "set" => cursors[r].nth < MaxSets

Inv == TypeOK /\ Marshalled /\ TmpReady /\ FileBehind /\ SetToCome

LEMMA ZeroTable == Zero \in Tables /\ Fresh \in Cursor
  BY ConstantsAssumption DEF Zero, Fresh, Tables, Cursor

LEMMA LoadWhole ==
    ASSUME NEW f \in Tables \cup {Absent}
    PROVE  /\ Load(f) \in Tables
           /\ f \in Tables => Load(f) = f
  BY ConstantsAssumption, ContentAssumption, ZeroTable DEF Load

LEMMA NthIsNat ==
    ASSUME NEW t \in Tables, NEW r \in Repos
    PROVE  t[r].nth \in Nat
  BY ConstantsAssumption DEF Tables, Cursor

LEMMA InvInit == Init => Inv
  BY ConstantsAssumption, ContentAssumption, ZeroTable
  DEF Init, Inv, TypeOK, Marshalled, TmpReady, FileBehind, SetToCome, Load, Zero, Fresh, Content, Labels

LEMMA InvStep == Inv /\ [Next]_vars => Inv'
  <1> SUFFICES ASSUME Inv, [Next]_vars PROVE Inv'
    OBVIOUS
  <1> USE DEF Inv
  <1>1. ASSUME NEW r \in Repos, Work(r) PROVE Inv'
    BY <1>1 DEF Work, Goto, TypeOK, Marshalled, TmpReady, FileBehind, SetToCome, Labels
  <1>2. ASSUME NEW r \in Repos, Set(r) PROVE Inv'
    <2>1. TypeOK'
      <3>1. PICK i \in 0..MaxCursor :
              cursors' = [cursors EXCEPT ![r] = [id |-> i, nth |-> @.nth + 1]]
        BY <1>2 DEF Set
      <3>2. cursors[r].nth + 1 \in 0..MaxSets
        BY <1>2, ConstantsAssumption DEF Set, TypeOK, SetToCome, Tables, Cursor
      <3>3. cursors' \in Tables
        BY <3>1, <3>2 DEF TypeOK, Tables, Cursor
      <3> QED
        BY <1>2, <3>3, ConstantsAssumption DEF Set, Goto, TypeOK, Labels
    <2>2. Marshalled' /\ TmpReady' /\ SetToCome'
      BY <1>2, ConstantsAssumption, ContentAssumption DEF Set, Goto, TypeOK, Marshalled, TmpReady, SetToCome
    <2>3. FileBehind'
      <3>1. Load(file) \in Tables
        BY LoadWhole DEF FileBehind
      <3>2. file' = file
        BY <1>2 DEF Set
      <3>3. \A s \in Repos : /\ cursors[s].nth \in Nat /\ cursors'[s].nth \in Nat
                             /\ cursors[s].nth <= cursors'[s].nth
        BY <1>2, ConstantsAssumption DEF Set, TypeOK, Tables, Cursor
      <3>4. \A s \in Repos : Load(file)[s].nth \in Nat /\ Load(file)[s].nth <= cursors'[s].nth
        BY <3>1, <3>3, ConstantsAssumption DEF FileBehind, Tables, Cursor
      <3> QED
        BY <3>2, <3>4 DEF FileBehind
    <2> QED
      BY <2>1, <2>2, <2>3
  <1>3. ASSUME NEW r \in Repos, Lock(r) PROVE Inv'
    BY <1>3, ConstantsAssumption, ContentAssumption DEF Lock, Goto, TypeOK, Marshalled, TmpReady, FileBehind, SetToCome, Labels
  <1>4. ASSUME NEW r \in Repos, Marshal(r) PROVE Inv'
    BY <1>4 DEF Marshal, Goto, TypeOK, Marshalled, TmpReady, FileBehind, SetToCome, Labels
  <1>5. ASSUME NEW r \in Repos, Open(r) PROVE Inv'
    BY <1>5 DEF Open, Goto, TypeOK, Marshalled, TmpReady, FileBehind, SetToCome, Labels, Content
  <1>6. ASSUME NEW r \in Repos, Write(r) PROVE Inv'
    BY <1>6 DEF Write, Goto, TypeOK, Marshalled, TmpReady, FileBehind, SetToCome, Labels, Content
  <1>7. ASSUME NEW r \in Repos, Rename(r) PROVE Inv'
    <2>1. tmp = cursors /\ tmp \in Tables /\ tmp # Absent
      BY <1>7, ConstantsAssumption, ContentAssumption DEF Rename, TypeOK, Marshalled, TmpReady
    <2>2. TypeOK'
      BY <1>7, <2>1 DEF Rename, Goto, TypeOK, Labels, Content
    <2>3. Marshalled' /\ TmpReady' /\ SetToCome'
      BY <1>7 DEF Rename, Goto, TypeOK, Marshalled, TmpReady, SetToCome
    <2>4. FileBehind'
      <3>1. CASE file' = tmp
        <4>1. Load(tmp) = tmp
          BY <2>1, LoadWhole
        <4> QED
          BY <1>7, <2>1, <3>1, <4>1, NthIsNat DEF Rename, FileBehind
      <3>2. CASE file' = file
        BY <1>7, <3>2 DEF Rename, FileBehind
      <3> QED
        BY <1>7, <3>1, <3>2 DEF Rename
    <2> QED
      BY <2>2, <2>3, <2>4
  <1>8. ASSUME NEW r \in Repos, Unlock(r) PROVE Inv'
    BY <1>8, ConstantsAssumption, ContentAssumption DEF Unlock, Goto, TypeOK, Marshalled, TmpReady, FileBehind, SetToCome, Labels
  <1>9. CASE Restart
    <2>1. Load(file) \in Tables
      BY LoadWhole DEF FileBehind
    <2>2. TypeOK'
      BY <1>9, <2>1, ZeroTable, ConstantsAssumption DEF Restart, TypeOK, Labels
    <2>3. Marshalled' /\ TmpReady' /\ SetToCome'
      BY <1>9 DEF Restart, Marshalled, TmpReady, SetToCome
    <2>4. FileBehind'
      BY <1>9, <2>1, NthIsNat DEF Restart, FileBehind
    <2> QED
      BY <2>2, <2>3, <2>4
  <1>10. CASE UNCHANGED vars
    BY <1>10 DEF vars, TypeOK, Marshalled, TmpReady, FileBehind, SetToCome
  <1> QED
    BY <1>1, <1>2, <1>3, <1>4, <1>5, <1>6, <1>7, <1>8, <1>9, <1>10 DEF Next, Save

\* The mutex excludes, and no rename ever finds its tmp file gone.
THEOREM TypeCorrect == Spec => []TypeOK
  <1>1. Inv => TypeOK
    BY DEF Inv
  <1> QED
    BY InvInit, InvStep, <1>1, PTL DEF Spec

\* Only a rename changes the file, and it makes it the cursors of that moment.
LEMMA SaveIsAtomic ==
    ASSUME Inv, [Next]_vars, file' # file
    PROVE  file' = cursors /\ cursors' = cursors /\ Load(file') = cursors
  <1>1. PICK r \in Repos : Rename(r)
    BY DEF Next, Save, Work, Set, Lock, Marshal, Open, Write, Unlock, Restart, vars
  <1>2. tmp = cursors /\ cursors \in Tables
    BY <1>1 DEF Rename, Inv, TypeOK, Marshalled, TmpReady
  <1> QED
    BY <1>1, <1>2, LoadWhole DEF Rename

\* Step by step: a rename that works is the save, a critical section of setCursor()
\* sets one cursor, and all other calls change nothing that a restart would see.
LEMMA StoreStep ==
    ASSUME Inv, Inv', [Next]_vars PROVE [Store!Next]_Store!vars
  <1> USE DEF Store!Next, Store!vars
  <1>1. CASE file' # file
    BY <1>1, SaveIsAtomic DEF Store!Save
  <1>2. ASSUME file' = file, NEW r \in Repos, Set(r) PROVE Store!SetCursor(r)
    <2>1. cursors \in Tables /\ cursors' \in Tables
      BY DEF Inv, TypeOK
    <2>2. PICK c : cursors' = [cursors EXCEPT ![r] = c]
      BY <1>2 DEF Set
    <2>3. cursors'[r] \in Cursor /\ cursors' = [cursors EXCEPT ![r] = cursors'[r]]
      BY <2>1, <2>2 DEF Tables
    <2> QED
      BY <1>2, <2>3 DEF Store!SetCursor
  <1>3. ASSUME Restart PROVE Store!Restart
    BY <1>3 DEF Restart, Store!Restart
  <1>4. ASSUME NEW r \in Repos, Work(r) \/ Save(r) PROVE cursors' = cursors
    BY <1>4 DEF Save, Work, Lock, Marshal, Open, Write, Rename, Unlock
  <1>5. UNCHANGED vars => cursors' = cursors
    BY DEF vars
  <1> QED
    BY <1>1, <1>2, <1>3, <1>4, <1>5 DEF Next

\* Through its system calls, whichever fail and wherever the daemon stops, the
\* state file is the store that EventTail takes it to be.
THEOREM StateFileIsStore == Spec => ImplementsStore
  <1>1. Init => Store!Init
    BY ConstantsAssumption, ContentAssumption DEF Init, Zero, Load, Store!Init, Store!Afresh
  <1>2. Inv /\ Inv' /\ [Next]_vars => [Store!Next]_Store!vars
    BY StoreStep
  <1> QED
    BY <1>1, <1>2, InvInit, InvStep, PTL DEF Spec, ImplementsStore, Store!Spec

\* No goroutine's save undoes a later setting of a cursor, an advance or a reset.
THEOREM NoSaveUndoes == Spec => NeverBackwards
  <1>1. Inv /\ [Next]_vars => [\A r \in Repos : Load(file')[r].nth >= Load(file)[r].nth]_vars
    <2> SUFFICES ASSUME Inv, [Next]_vars, NEW r \in Repos
                 PROVE  Load(file')[r].nth >= Load(file)[r].nth
      OBVIOUS
    <2>1. Load(file)[r].nth \in Nat /\ Load(file)[r].nth <= cursors[r].nth
      BY LoadWhole, NthIsNat DEF Inv, FileBehind
    <2>2. CASE file' = file
      BY <2>1, <2>2
    <2>3. CASE file' # file
      <3>1. Load(file') = cursors /\ cursors[r].nth \in Nat
        BY <2>3, SaveIsAtomic, NthIsNat DEF Inv, TypeOK
      <3> QED
        BY <2>1, <3>1
    <2> QED
      BY <2>2, <2>3
  <1> QED
    BY InvInit, InvStep, <1>1, PTL DEF Spec, NeverBackwards
=============================================================================
