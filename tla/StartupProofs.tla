-------------------------- MODULE StartupProofs --------------------------
(***************************************************************************)
(* Proofs about Startup, for any configs, paths and start limit: the types,*)
(* and that nothing a process serves from has two repos of one name.       *)
(***************************************************************************)
EXTENDS Startup, TLAPS

\* A watcher of each entry, wherever it has got to.
Watchers == [Entries -> {"off", "resolve"} \cup Places]

LEMMA ConfigEntries ==
    ASSUME NEW c \in Configs PROVE DOMAIN c.repos \subseteq Entries
  BY DEF Entries

LEMMA AllOffIsOne == AllOff \in Watchers
  BY DEF AllOff, Watchers

LEMMA InitTypes == Init => TypeOK
  BY ConfigsAssumption, AllOffIsOne DEF Init, TypeOK, Watchers

\* A process that goes down has loaded nothing and watches nothing.
LEMMA ExitStep ==
    ASSUME TypeOK, Exit, UNCHANGED <<file, broken, at, starts>> PROVE TypeOK'
  BY AllOffIsOne DEF TypeOK, Exit, Watchers

LEMMA LoadStep == TypeOK /\ Load => TypeOK'
  <1> SUFFICES ASSUME TypeOK, Load PROVE TypeOK'
    OBVIOUS
  <1>1. CASE Refused(file)
    BY <1>1, ExitStep DEF Load
  <1>2. CASE ~Refused(file)
    <2>1. /\ unit = "load" /\ unit' = "bind" /\ cfg' = file /\ errs' = Unservable(file)
          /\ UNCHANGED <<bell, tail, file, broken, at, starts>>
      BY <1>2 DEF Load
    <2>2. file \in Configs /\ file # NoConfig
      BY ConfigsAssumption DEF TypeOK
    <2>3. errs' \subseteq DOMAIN file.repos /\ errs' \subseteq Entries
      BY <2>1, <2>2, ConfigEntries DEF Unservable
    <2>4. \A i, j \in DOMAIN file.repos :
             NameOf(file.repos[i]) = NameOf(file.repos[j]) => i = j
      BY <1>2 DEF Refused, Typo
    <2> QED
      BY <2>1, <2>2, <2>3, <2>4 DEF TypeOK
  <1> QED
    BY <1>1, <1>2

LEMMA WatchStep == TypeOK /\ Watch => TypeOK'
  <1> SUFFICES ASSUME TypeOK, Watch PROVE TypeOK'
    OBVIOUS
  <1>1. CASE "notify" \in broken /\ cfg.notify # NoNotify
    BY <1>1, ExitStep DEF Watch
  <1>2. CASE ~("notify" \in broken /\ cfg.notify # NoNotify)
    <2>1. /\ unit = "watch" /\ unit' = "serving"
          /\ UNCHANGED <<cfg, errs, file, broken, at, starts>>
          /\ bell' = [i \in Entries |-> IF i \in DOMAIN cfg.repos THEN "resolve" ELSE "off"]
          /\ tail' = [i \in Entries |-> IF i \in NotifyRepos THEN "resolve" ELSE "off"]
      BY <1>2 DEF Watch
    <2>2. bell' \in Watchers /\ tail' \in Watchers
      BY <2>1 DEF Watchers
    <2> QED
      BY <2>1, <2>2 DEF TypeOK, Watchers
  <1> QED
    BY <1>1, <1>2

LEMMA NextTypes == TypeOK /\ [Next]_vars => TypeOK'
  <1> SUFFICES ASSUME TypeOK, [Next]_vars PROVE TypeOK'
    OBVIOUS
  <1>1. Bind => TypeOK'
    <2>1. Bind /\ "bind" \in broken => TypeOK'
      BY ExitStep DEF Bind
    <2>2. Bind /\ "bind" \notin broken => TypeOK'
      BY DEF Bind, TypeOK
    <2> QED
      BY <2>1, <2>2
  <1>2. Launch \/ Interval => TypeOK'
    <2>1. Launch \/ Interval => starts' \in 0..Burst
      BY ConfigsAssumption DEF Launch, Interval, TypeOK
    <2>2. Launch => TypeOK'
      BY <2>1 DEF Launch, TypeOK
    <2>3. Interval => TypeOK'
      BY <2>1 DEF Interval, TypeOK
    <2> QED
      BY <2>2, <2>3
  <1>3. Crash => TypeOK'
    BY ExitStep DEF Crash
  <1>4. Start => TypeOK'
    BY ConfigsAssumption, AllOffIsOne DEF Start, TypeOK, Watchers
  <1>5. Edit \/ Break => TypeOK'
    BY DEF Edit, Break, TypeOK
  <1>6. ASSUME NEW i \in Entries, BellResolve(i) PROVE TypeOK'
    <2>1. bell' \in Watchers
      BY <1>6 DEF BellResolve, TypeOK, Watchers
    <2>2. unit = "serving"
      BY <1>6 DEF BellResolve, TypeOK, AllOff
    <2> QED
      BY <1>6, <2>1, <2>2 DEF BellResolve, TypeOK, Watchers
  <1>7. ASSUME NEW i \in Entries, TailResolve(i) PROVE TypeOK'
    <2>1. tail' \in Watchers
      BY <1>7 DEF TailResolve, TypeOK, Watchers
    <2>2. unit = "serving"
      BY <1>7 DEF TailResolve, TypeOK, AllOff
    <2> QED
      BY <1>7, <2>1, <2>2 DEF TailResolve, TypeOK, Watchers
  <1>8. ASSUME NEW p \in Paths, Move(p) PROVE TypeOK'
    BY <1>8 DEF Move, TypeOK
  <1>9. UNCHANGED vars => TypeOK'
    BY DEF vars, TypeOK
  <1> QED
    BY <1>1, <1>2, <1>3, <1>4, <1>5, <1>6, <1>7, <1>8, <1>9, LoadStep, WatchStep DEF Next, Begin

\* Every variable keeps its type, a process that is not up holds no config and no
\* watcher, and of what is loaded a name is one repo: through every edit of the
\* file, every move of a checkout, and every failed and restarted start.
THEOREM TypeCorrect == Spec => []TypeOK
  BY InitTypes, NextTypes, PTL DEF Spec

-----------------------------------------------------------------------------
\* The entries a serving process watches are those its config gave at the start:
\* a doorbell for each repo, a tail for each of NotifyRepos() and for no other.
Watched ==
    unit = "serving" =>
        \A i \in Entries : /\ bell[i] # "off" <=> i \in DOMAIN cfg.repos
                           /\ tail[i] # "off" <=> i \in NotifyRepos

LEMMA WatchedStep == TypeOK /\ Watched /\ [Next]_vars => Watched'
  <1> SUFFICES ASSUME TypeOK, Watched, [Next]_vars PROVE Watched'
    OBVIOUS
  <1>1. unit' # "serving" => Watched'
    BY DEF Watched
  <1>2. Load \/ Bind \/ Launch \/ Crash \/ Start => unit' # "serving"
    BY DEF Load, Bind, Launch, Crash, Start, Exit
  <1>3. Watch => Watched'
    <2>1. Watch /\ unit' = "serving" =>
            /\ cfg' = cfg /\ NotifyRepos' = NotifyRepos
            /\ bell' = [i \in Entries |-> IF i \in DOMAIN cfg.repos THEN "resolve" ELSE "off"]
            /\ tail' = [i \in Entries |-> IF i \in NotifyRepos THEN "resolve" ELSE "off"]
      BY DEF Watch, Exit, NotifyRepos, Wanted
    <2> QED
      BY <1>1, <2>1 DEF Watched
  <1>4. ASSUME UNCHANGED <<unit, cfg, errs, bell, tail>> PROVE Watched'
    BY <1>4 DEF Watched, NotifyRepos, Wanted
  <1>5. ASSUME NEW i \in Entries, BellResolve(i) PROVE Watched'
    <2>1. /\ UNCHANGED <<unit, cfg, errs, tail>> /\ bell[i] # "off" /\ bell'[i] # "off"
          /\ \A j \in Entries \ {i} : bell'[j] = bell[j]
      BY <1>5, ConfigsAssumption DEF BellResolve, TypeOK
    <2> QED
      BY <2>1 DEF Watched, NotifyRepos, Wanted
  <1>6. ASSUME NEW i \in Entries, TailResolve(i) PROVE Watched'
    <2>1. /\ UNCHANGED <<unit, cfg, errs, bell>> /\ tail[i] # "off" /\ tail'[i] # "off"
          /\ \A j \in Entries \ {i} : tail'[j] = tail[j]
      BY <1>6, ConfigsAssumption DEF TailResolve, TypeOK
    <2> QED
      BY <2>1 DEF Watched, NotifyRepos, Wanted
  <1>7. Interval \/ Edit \/ Break \/ (\E p \in Paths : Move(p)) \/ UNCHANGED vars =>
          UNCHANGED <<unit, cfg, errs, bell, tail>>
    BY DEF Interval, Edit, Break, Move, vars
  <1> QED
    BY <1>1, <1>2, <1>3, <1>4, <1>5, <1>6, <1>7 DEF Next, Begin

\* While a process serves, no edit, move or failure adds a watcher or takes one
\* away: a repo absent at the start has a doorbell, and no tail until a restart.
THEOREM WatchersFixedAtStart == Spec => []Watched
  <1>1. Init => Watched
    BY DEF Init, Watched
  <1> QED
    BY <1>1, TypeCorrect, WatchedStep, PTL DEF Spec
=============================================================================
