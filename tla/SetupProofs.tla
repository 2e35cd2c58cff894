--------------------------- MODULE SetupProofs ---------------------------
(***************************************************************************)
(* Proofs about Setup: for any number of runs what is installed and what   *)
(* runs, and under what condition the lock directory keeps runs apart,     *)
(* which two runs always meet and three may not.                           *)
(***************************************************************************)
EXTENDS Setup, TLAPS

\* Whoever clears a dead run's lock finds it still the dead run's: nobody else has
\* taken the lock since it was judged.  Any number of runs may judge it, clear it and
\* try for it at the same time.
ClearsDeadLock ==
    \A r, q \in Runs : pc[r] = "clear" /\ q # r => pc[q] \notin {"pid"} \cup Inside

\* The lock directory is that of the one run past it, or about to be.
Holds ==
    /\ \A r \in Runs : pc[r] \in Inside => lock = r
    /\ \A r \in Runs : pc[r] = "pid" => lock = NoPid
    /\ \A r, q \in Runs : pc[r] = "pid" /\ pc[q] = "pid" => r = q

\* A pid that was written is that of a run past it, whoever has read it; and a run
\* clears the lock of a run that has ended.
Unread   == {"ready"} \cup Acquiring
PidsPast ==
    /\ \A q \in Runs : lock = q => pc[q] \notin Unread \cup {"ended"}
    /\ \A r, q \in Runs : seen[r] = q => pc[q] \notin Unread
    /\ \A r \in Runs : pc[r] \in {"clear", "retake"} => seen[r] \in Runs /\ ~Alive(seen[r])

\* The types of all but the lock's last conjunct, which PidsPast gives.
Types ==
    /\ pc \in [Runs -> {"ready", "refused", "ended", "killed"} \cup Acquiring \cup Inside]
    /\ lock \in Runs \cup {NoLock, NoPid}
    /\ seen \in [Runs -> Runs \cup {NoPid}]
    /\ goal \in [Runs -> Whole]
    /\ disk \in [Parts -> Version \cup {Torn}] /\ running \in Whole \cup {Stopped}
    /\ changed \in [Runs -> SUBSET {"binary", "unit"}]
    /\ outcome \in [Runs -> {"none", "ok", "warned"}]
    /\ started \in SUBSET Runs /\ installer \in Runs \cup {NoPid}

\* The binary is that of the last run through install_binary, but for a copy since;
\* the run between that and its end is this last run.
Installed ==
    \A r \in Runs :
        /\ outcome[r] # "none" => pc[r] \in {"cleanup", "ended", "killed"}
        /\ pc[r] \in {"config", "units", "start", "verify"} =>
             installer = r /\ disk["binary"] = goal[r]["binary"]
        /\ installer = r => disk["binary"] \in {goal[r]["binary"], Torn}
        /\ outcome[r] = "ok" /\ installer = r /\ running # Stopped =>
             running["binary"] = goal[r]["binary"]

\* What is stale is the change of a run that has not come to its start.
StaleHasCause ==
    /\ \A r \in started : pc[r] \in {"verify", "cleanup", "ended", "killed"}
    /\ UpgradeTakesEffect

-----------------------------------------------------------------------------
LEMMA InitTypes == Init => Types /\ PidsPast /\ Holds /\ Installed /\ StaleHasCause
  <1> SUFFICES ASSUME Init PROVE Types /\ PidsPast /\ Holds /\ Installed /\ StaleHasCause
    OBVIOUS
  <1>1. Types
    BY NamesAssumption DEF Init, Types, Parts, Version, Whole
  <1>2. PidsPast /\ Holds /\ Installed
    BY NamesAssumption DEF Init, PidsPast, Holds, Installed, Acquiring, Inside, Unread
  <1>3. StaleHasCause
    BY DEF Init, StaleHasCause, UpgradeTakesEffect, Parts
  <1> QED
    BY <1>1, <1>2, <1>3

LEMMA TypesStep == Types /\ [Next]_vars => Types'
  <1> SUFFICES ASSUME Types, [Next]_vars PROVE Types'
    OBVIOUS
  <1> USE DEF Types, Goto, boxVars, history
  <1>1. ASSUME NEW r \in Runs, Begin(r) \/ AcquireLock(r) PROVE Types'
    BY <1>1 DEF Begin, AcquireLock, Mkdir, WritePid, Peek, Probe, Clear, Acquiring, Inside
  <1>2. ASSUME NEW r \in Runs, Binary(r) PROVE Types'
    BY <1>2 DEF Binary, Parts, Acquiring, Inside
  <1>3. ASSUME NEW r \in Runs, Copy(r) PROVE Types'
    BY <1>3 DEF Copy, Write, Parts, Whole, Acquiring, Inside
  <1>4. ASSUME NEW r \in Runs, Config(r) \/ Units(r) PROVE Types'
    BY <1>4 DEF Config, Units, Write, Parts, Whole, Acquiring, Inside
  <1>5. ASSUME NEW r \in Runs, Start(r) \/ Verify(r) \/ Die(r) \/ Cleanup(r) \/ Kill(r)
        PROVE  Types'
    BY <1>5 DEF Start, Launched, Verify, Die, Cleanup, Kill, Acquiring, Inside
  <1>6. DaemonStops \/ DaemonStarts \/ UNCHANGED vars => Types'
    BY DEF DaemonStops, DaemonStarts, Launched, vars
  <1> QED
    BY <1>1, <1>2, <1>3, <1>4, <1>5, <1>6 DEF Next, Main

\* Every run only ever goes forward, and what it has read stays.
LEMMA PidsStep == Types /\ PidsPast /\ [Next]_vars => PidsPast'
  <1> SUFFICES ASSUME Types, PidsPast, [Next]_vars PROVE PidsPast'
    OBVIOUS
  <1> USE NamesAssumption DEF Types, PidsPast, Goto, boxVars, Unread, Acquiring, Inside, Alive
  <1>1. ASSUME NEW r \in Runs, Begin(r) PROVE PidsPast'
    BY <1>1 DEF Begin
  <1>2. ASSUME NEW r \in Runs, Mkdir(r) PROVE PidsPast'
    BY <1>2 DEF Mkdir
  <1>3. ASSUME NEW r \in Runs, WritePid(r) PROVE PidsPast'
    BY <1>3 DEF WritePid
  <1>4. ASSUME NEW r \in Runs, Peek(r) PROVE PidsPast'
    BY <1>4 DEF Peek
  <1>5. ASSUME NEW r \in Runs, Probe(r) PROVE PidsPast'
    BY <1>5 DEF Probe
  <1>6. ASSUME NEW r \in Runs, Clear(r) PROVE PidsPast'
    BY <1>6 DEF Clear
  <1>7. ASSUME NEW r \in Runs, Binary(r) \/ Copy(r) \/ Config(r) \/ Units(r) PROVE PidsPast'
    BY <1>7 DEF Binary, Copy, Config, Units
  <1>8. ASSUME NEW r \in Runs, Start(r) \/ Verify(r) PROVE PidsPast'
    BY <1>8 DEF Start, Verify
  <1>9. ASSUME NEW r \in Runs, Die(r) \/ Cleanup(r) \/ Kill(r) PROVE PidsPast'
    BY <1>9 DEF Die, Cleanup, Kill
  <1>10. DaemonStops \/ DaemonStarts \/ UNCHANGED vars => PidsPast'
    BY DEF DaemonStops, DaemonStarts, vars
  <1> QED
    BY <1>1, <1>2, <1>3, <1>4, <1>5, <1>6, <1>7, <1>8, <1>9, <1>10 DEF Next, AcquireLock, Main

LEMMA TypesHold == Spec => [](Types /\ PidsPast)
  BY InitTypes, TypesStep, PidsStep, PTL DEF Spec

\* Every variable keeps its type, and a run that has ended has left no lock behind.
THEOREM TypeCorrect == Spec => []TypeOK
  <1>1. Types /\ PidsPast => TypeOK
    BY DEF Types, PidsPast, TypeOK
  <1> QED
    BY <1>1, TypesHold, PTL

-----------------------------------------------------------------------------
(* The lock directory.                                                     *)

\* A takeover of a lock that is still the dead run's keeps it that of the one inside.
LEMMA HoldsStep == Types /\ Holds /\ ClearsDeadLock /\ [Next]_vars => Holds'
  <1> SUFFICES ASSUME Types, Holds, ClearsDeadLock, [Next]_vars PROVE Holds'
    OBVIOUS
  <1> USE NamesAssumption DEF Types, Holds, Goto, boxVars, Acquiring, Inside
  <1>1. ASSUME NEW r \in Runs, Begin(r) \/ Peek(r) \/ Probe(r) PROVE Holds'
    BY <1>1 DEF Begin, Peek, Probe
  <1>2. ASSUME NEW r \in Runs, Mkdir(r) PROVE Holds'
    BY <1>2 DEF Mkdir
  <1>3. ASSUME NEW r \in Runs, WritePid(r) PROVE Holds'
    BY <1>3 DEF WritePid
  <1>4. ASSUME NEW r \in Runs, Clear(r) PROVE Holds'
    BY <1>4 DEF Clear, ClearsDeadLock
  <1>5. ASSUME NEW r \in Runs, Binary(r) \/ Copy(r) \/ Config(r) \/ Units(r) PROVE Holds'
    BY <1>5 DEF Binary, Copy, Config, Units
  <1>6. ASSUME NEW r \in Runs, Start(r) \/ Verify(r) \/ Die(r) \/ Kill(r) PROVE Holds'
    BY <1>6 DEF Start, Verify, Die, Kill
  <1>7. ASSUME NEW r \in Runs, Cleanup(r) PROVE Holds'
    BY <1>7 DEF Cleanup
  <1>8. DaemonStops \/ DaemonStarts \/ UNCHANGED vars => Holds'
    BY DEF DaemonStops, DaemonStarts, vars
  <1> QED
    BY <1>1, <1>2, <1>3, <1>4, <1>5, <1>6, <1>7, <1>8 DEF Next, AcquireLock, Main

LEMMA HoldsHold == Spec /\ []ClearsDeadLock => []Holds
  <1>1. Init => Holds
    BY InitTypes
  <1> QED
    BY <1>1, TypesHold, HoldsStep, PTL DEF Spec

\* What a run is refused for, while the lock is that of the one inside.
LEMMA Causes ==
    ASSUME Types, PidsPast, Holds, [Next]_vars,
           NEW r \in Runs, pc[r] # "refused", pc'[r] = "refused"
    PROVE  \/ lock = NoPid \/ seen[r] = NoPid
           \/ \E q \in Runs \ {r} : Alive(q)
           \/ pc[r] = "retake" /\ \E q \in Runs : lock = q
  <1> USE DEF Types, Goto
  <1>1. ASSUME NEW s \in Runs, Mkdir(s) \/ WritePid(s)
        PROVE  \/ lock = NoPid \/ pc'[r] = pc[r]
               \/ pc[r] = "retake" /\ \E q \in Runs : lock = q
    BY <1>1, NamesAssumption DEF Mkdir, WritePid, Holds
  <1>2. ASSUME NEW s \in Runs, Probe(s)
        PROVE  seen[r] = NoPid \/ (\E q \in Runs \ {r} : Alive(q)) \/ pc'[r] = pc[r]
    <2>1. s # r => pc'[r] = pc[r]
      BY <1>2 DEF Probe
    <2>2. ASSUME s = r, seen[r] # NoPid PROVE seen[r] \in Runs \ {r} /\ Alive(seen[r])
      <3>1. seen[r] \in Runs /\ pc[r] = "probe"
        BY <1>2, <2>2 DEF Probe
      <3>2. seen[r] # r
        BY <3>1 DEF PidsPast, Unread, Acquiring
      <3>3. Alive(seen[r])
        BY <1>2, <2>2 DEF Probe
      <3> QED
        BY <3>1, <3>2, <3>3
    <2> QED
      BY <2>1, <2>2
  <1>3. ASSUME NEW s \in Runs, Begin(s) \/ Peek(s) \/ Clear(s) \/ Main(s) \/ Kill(s)
        PROVE  pc'[r] = pc[r] \/ pc'[r] # "refused"
    BY <1>3 DEF Begin, Peek, Clear, Main, Binary, Copy, Config, Units, Start, Verify, Die, Cleanup, Kill
  <1>4. DaemonStops \/ DaemonStarts \/ UNCHANGED vars => pc'[r] = pc[r]
    BY DEF DaemonStops, DaemonStarts, vars
  <1> QED
    BY <1>1, <1>2, <1>3, <1>4 DEF Next, AcquireLock

\* Any number of runs, killed at any step and taking over at the same time: as long
\* as none clears a lock that was taken since it was judged, no two are past
\* acquire_lock at once.
THEOREM OneAtATimeIfDeadLock == Spec /\ []ClearsDeadLock => []OneAtATime
  <1>1. Holds => OneAtATime
    BY DEF Holds, OneAtATime
  <1> QED
    BY <1>1, HoldsHold, PTL

\* Refused for cause, or overtaken: the lock this run has just cleared was taken by
\* another run before it got to it, which may be dead by then.
RefusedOrOvertaken ==
    [][\A r \in Runs : pc[r] # "refused" /\ pc'[r] = "refused" =>
          \/ lock = NoPid \/ seen[r] = NoPid
          \/ \E q \in Runs \ {r} : Alive(q)
          \/ pc[r] = "retake" /\ \E q \in Runs : lock = q]_vars

\* Under the same condition a run is refused for cause, or because it was overtaken.
THEOREM RefusedIfDeadLock == Spec /\ []ClearsDeadLock => RefusedOrOvertaken
  <1>1. Types /\ PidsPast /\ Holds /\ [Next]_vars =>
          [\A r \in Runs : pc[r] # "refused" /\ pc'[r] = "refused" =>
              \/ lock = NoPid \/ seen[r] = NoPid
              \/ \E q \in Runs \ {r} : Alive(q)
              \/ pc[r] = "retake" /\ \E q \in Runs : lock = q]_vars
    BY Causes
  <1> QED
    BY <1>1, TypesHold, HoldsHold, PTL DEF RefusedOrOvertaken, Spec

\* Two runs clear dead locks only, and none overtakes: the dead run is the other one.
Retakes == \A r \in Runs : pc[r] = "retake" => lock = NoLock
AtMostTwo == \A p, q, r \in Runs : p = q \/ q = r \/ p = r

LEMMA OtherIsDead ==
    ASSUME Types, PidsPast, AtMostTwo,
           NEW r \in Runs, NEW q \in Runs, pc[r] \in {"clear", "retake"}, q # r
    PROVE  pc[q] \in {"refused", "ended", "killed"}
  <1>1. seen[r] \in Runs /\ ~Alive(seen[r]) /\ pc[seen[r]] \notin Unread
    BY DEF PidsPast
  <1>2. seen[r] # r
    BY <1>1 DEF Unread, Acquiring
  <1>3. seen[r] = q
    BY <1>1, <1>2 DEF AtMostTwo
  <1> QED
    BY <1>1, <1>3 DEF Types, Alive, Unread

LEMMA RetakesStep == Types /\ PidsPast /\ AtMostTwo /\ Retakes /\ [Next]_vars => Retakes'
  <1> SUFFICES ASSUME Types, PidsPast, AtMostTwo, Retakes, [Next]_vars, NEW r \in Runs,
                      pc'[r] = "retake"
               PROVE  lock' = NoLock
    BY DEF Retakes
  <1> USE DEF Types, Goto, boxVars
  <1>1. ASSUME NEW s \in Runs, Clear(s) PROVE lock' = NoLock
    BY <1>1 DEF Clear
  <1>2. ASSUME pc[r] = "retake", NEW s \in Runs, Begin(s) \/ AcquireLock(s) \/ Main(s) \/ Kill(s)
        PROVE  lock' = NoLock
    <2>1. lock = NoLock
      BY <1>2 DEF Retakes
    <2>2. CASE s = r
      BY <1>2, <2>1, <2>2
      DEF Begin, AcquireLock, Mkdir, WritePid, Peek, Probe, Clear, Main, Binary, Copy, Config,
          Units, Start, Verify, Die, Cleanup, Kill, Inside
    <2>3. CASE s # r
      <3>1. pc[s] \in {"refused", "ended", "killed"}
        BY <1>2, <2>3, OtherIsDead
      <3> QED
        BY <1>2, <3>1
        DEF Begin, AcquireLock, Mkdir, WritePid, Peek, Probe, Clear, Main, Binary, Copy, Config,
            Units, Start, Verify, Die, Cleanup, Kill, Alive, Acquiring, Inside
    <2> QED
      BY <2>2, <2>3
  <1>3. ASSUME pc[r] # "retake", NEW s \in Runs, Begin(s) \/ AcquireLock(s) \/ Main(s) \/ Kill(s)
        PROVE  Clear(s)
    BY <1>3
    DEF Begin, AcquireLock, Mkdir, WritePid, Peek, Probe, Main, Binary, Copy, Config,
        Units, Start, Verify, Die, Cleanup, Kill
  <1>4. ASSUME DaemonStops \/ DaemonStarts \/ UNCHANGED vars PROVE lock' = NoLock
    BY <1>4 DEF DaemonStops, DaemonStarts, vars, Retakes
  <1> QED
    BY <1>1, <1>2, <1>3, <1>4 DEF Next

\* Two runs, whatever kills either: they are never past acquire_lock at once, and
\* are refused for cause.
THEOREM TwoRunsOneAtATime ==
    ASSUME AtMostTwo
    PROVE  Spec => []OneAtATime /\ RefusedForCause
  <1>1. Types /\ PidsPast => ClearsDeadLock
    BY OtherIsDead DEF ClearsDeadLock, Inside
  <1>2. Init => Retakes
    BY DEF Init, Retakes
  <1>3. Types /\ PidsPast /\ Retakes /\ [Next]_vars => Retakes'
    BY RetakesStep
  <1>4. Types /\ PidsPast /\ Holds /\ Retakes /\ [Next]_vars =>
          [\A r \in Runs : pc[r] # "refused" /\ pc'[r] = "refused" =>
              lock = NoPid \/ seen[r] = NoPid \/ \E q \in Runs \ {r} : Alive(q)]_vars
    BY Causes, NamesAssumption DEF Retakes
  <1> QED
    BY <1>1, <1>2, <1>3, <1>4, TypesHold, HoldsHold, OneAtATimeIfDeadLock, PTL
    DEF RefusedForCause, Spec

-----------------------------------------------------------------------------
(* What is installed, and what runs.                                       *)

LEMMA InstalledStep == Types /\ Holds /\ Installed /\ [Next]_vars => Installed'
  <1> SUFFICES ASSUME Types, Holds, Installed, [Next]_vars PROVE Installed'
    OBVIOUS
  <1> USE NamesAssumption DEF Types, Installed, Goto, boxVars, history
  <1>1. ASSUME NEW r \in Runs, Begin(r) \/ AcquireLock(r) PROVE Installed'
    BY <1>1 DEF Begin, AcquireLock, Mkdir, WritePid, Peek, Probe, Clear
  <1>2. ASSUME NEW r \in Runs, Binary(r) PROVE Installed'
    BY <1>2 DEF Binary, Parts, Holds, Inside
  <1>3. ASSUME NEW r \in Runs, Copy(r) PROVE Installed'
    BY <1>3 DEF Copy, Write, Parts, Holds, Inside
  <1>4. ASSUME NEW r \in Runs, Config(r) \/ Units(r) PROVE Installed'
    BY <1>4 DEF Config, Units, Write, Parts
  <1>5. ASSUME NEW r \in Runs, Start(r) PROVE Installed'
    BY <1>5 DEF Start, Launched, Whole, Version, Torn, Parts
  <1>6. ASSUME NEW r \in Runs, Verify(r) PROVE Installed'
    BY <1>6 DEF Verify, Whole, Version, Torn, Parts
  <1>7. ASSUME NEW r \in Runs, Die(r) \/ Cleanup(r) \/ Kill(r) PROVE Installed'
    BY <1>7 DEF Die, Cleanup, Kill, Alive, Acquiring, Inside
  <1>8. DaemonStops \/ DaemonStarts \/ UNCHANGED vars => Installed'
    BY DEF DaemonStops, DaemonStarts, Launched, Whole, Version, Torn, Parts, vars
  <1> QED
    BY <1>1, <1>2, <1>3, <1>4, <1>5, <1>6, <1>7, <1>8 DEF Next, Main

\* Any number of runs, under the condition that keeps them apart: one that ends well
\* leaves its release's binary installed, and no other one running, until another run
\* gets through install_binary.
THEOREM WellEndedIsInstalled == Spec /\ []ClearsDeadLock => []InstalledRuns
  <1>1. Installed => InstalledRuns
    BY DEF Installed, InstalledRuns
  <1> QED
    BY <1>1, InitTypes, TypesHold, HoldsHold, InstalledStep, PTL DEF Spec

LEMMA StaleStep == Types /\ StaleHasCause /\ [Next]_vars => StaleHasCause'
  <1> SUFFICES ASSUME Types, StaleHasCause, [Next]_vars PROVE StaleHasCause'
    OBVIOUS
  <1> USE DEF Types, StaleHasCause, UpgradeTakesEffect, Goto, boxVars, history
  <1>1. ASSUME NEW r \in Runs, \/ Begin(r) \/ AcquireLock(r) \/ Verify(r) \/ Die(r)
                               \/ Cleanup(r) \/ Kill(r)
        PROVE  StaleHasCause'
    <2>1. UNCHANGED <<disk, running, changed, started>>
      BY <1>1 DEF Begin, AcquireLock, Mkdir, WritePid, Peek, Probe, Clear, Verify, Die,
                  Cleanup, Kill
    <2>2. \A s \in started : pc'[s] \in {"verify", "cleanup", "ended", "killed"}
      BY <1>1 DEF Begin, AcquireLock, Mkdir, WritePid, Peek, Probe, Clear, Verify, Die,
                  Cleanup, Kill, Acquiring
    <2> QED
      BY <2>1, <2>2
  <1>2. ASSUME NEW r \in Runs, Binary(r) PROVE StaleHasCause'
    BY <1>2 DEF Binary, Parts
  <1>3. ASSUME NEW r \in Runs, Copy(r) PROVE StaleHasCause'
    BY <1>3 DEF Copy, Write, Parts
  <1>4. ASSUME NEW r \in Runs, Config(r) PROVE StaleHasCause'
    BY <1>4 DEF Config, Parts
  <1>5. ASSUME NEW r \in Runs, Units(r) PROVE StaleHasCause'
    BY <1>5 DEF Units, Write, Parts
  <1>6. ASSUME NEW r \in Runs, Start(r) PROVE StaleHasCause'
    BY <1>6 DEF Start, Launched
  <1>7. DaemonStops \/ DaemonStarts \/ UNCHANGED vars => StaleHasCause'
    BY DEF DaemonStops, DaemonStarts, Launched, vars
  <1> QED
    BY <1>1, <1>2, <1>3, <1>4, <1>5, <1>6, <1>7 DEF Next, Main

\* Any number of runs, in any order, dying and declining as they like, and whatever
\* becomes of the lock: a binary or a unit that is installed and not running is the
\* change of a run that has not come to its start.
THEOREM ChangesAreLoaded == Spec => []UpgradeTakesEffect
  <1>1. StaleHasCause => UpgradeTakesEffect
    BY DEF StaleHasCause
  <1> QED
    BY <1>1, InitTypes, TypesHold, StaleStep, PTL DEF Spec
=============================================================================
