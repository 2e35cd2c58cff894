--------------------------- MODULE DaemonProofs ---------------------------
(***************************************************************************)
(* Proofs about Daemon, for any number of processes: type correctness      *)
(* whatever overlaps, and for starts and stops one at a time that whoever  *)
(* serves keeps the path and that only a live daemon refuses a start.      *)
(***************************************************************************)
EXTENDS Daemon, TLAPS

\* No process has run yet.
LEMMA InitType == Init => TypeOK
  BY DEF Init, TypeOK, Gone

\* A step of any process keeps the types.
LEMMA NextType == TypeOK /\ [Next]_vars => TypeOK'
  <1> SUFFICES ASSUME TypeOK, [Next]_vars PROVE TypeOK'
    OBVIOUS
  <1> USE DEF TypeOK, Goto, Gone, Starting, Stopping
  <1>1. ASSUME NEW p \in Procs, ListenSocket(p) PROVE TypeOK'
    <2>1. CASE Stat(p) \/ Dial(p)
      BY <2>1 DEF Stat, Dial
    <2>2. CASE Remove(p) \/ Bind(p)
      BY <2>2 DEF Remove, Bind
    <2>3. CASE Listen(p)
      BY <2>3 DEF Listen
    <2>4. CASE Chmod(p)
      BY <2>4 DEF Chmod
    <2> QED
      BY <1>1, <2>1, <2>2, <2>3, <2>4 DEF ListenSocket
  <1>2. ASSUME NEW p \in Procs, Run(p) PROVE TypeOK'
    <2>1. CASE Serve(p) \/ Drain(p)
      BY <2>1 DEF Serve, Drain
    <2>2. CASE StartFails(p) \/ Unlink(p)
      BY <2>2 DEF StartFails, Unlink
    <2> QED
      BY <1>2, <2>1, <2>2 DEF Run
  <1>3. ASSUME NEW p \in Procs, Outside(p) PROVE TypeOK'
    <2>1. CASE Start(p)
      BY <2>1 DEF Start
    <2>2. CASE Open(p) \/ Close(p)
      BY <2>2 DEF Open, Close
    <2>3. CASE Term(p)
      BY <2>3 DEF Term
    <2>4. CASE ServeFails(p)
      BY <2>4 DEF ServeFails
    <2>5. CASE Crash(p)
      BY <2>5 DEF Crash
    <2> QED
      BY <1>3, <2>1, <2>2, <2>3, <2>4, <2>5 DEF Outside
  <1>4. CASE UNCHANGED vars
    BY <1>4 DEF vars
  <1> QED
    BY <1>1, <1>2, <1>3, <1>4 DEF Next

\* A process that takes connections has a listener, one that serves takes them.
THEOREM TypeCorrect == Spec => []TypeOK
  BY InitType, NextType, PTL DEF Spec

-----------------------------------------------------------------------------
(* Starts and stops one at a time.                                         *)

\* Once past the dial, or on its way out, a process is alone.
Alone(p) ==
    pc[p] \in {"remove", "bind", "listen", "chmod", "bound"} \cup Stopping =>
        \A q \in Procs \ {p} : pc[q] \in Gone

\* While a process starts the others are gone, or serve.
StartsAlone(p) ==
    pc[p] \in Starting => \A q \in Procs \ {p} : pc[q] \in Gone \cup {"serving"}

\* What the path names at each place of a start, and of a daemon that serves.
PathByPlace(p) ==
    /\ pc[p] \in {"dial", "remove"} => path # NoSocket
    /\ pc[p] = "bind" => path = NoSocket
    /\ pc[p] \in {"listen", "chmod", "bound", "serving"} => path = p

Serial == \A p \in Procs : Alone(p) /\ StartsAlone(p) /\ PathByPlace(p)

Inv == TypeOK /\ Serial

\* A step of one process p keeps, of any process q, what Serial says of it.
LEMMA SerialStep ==
    ASSUME Overlaps = {}, ~DialFails, Inv, TypeOK', NEW p \in Procs,
           ListenSocket(p) \/ Run(p) \/ Outside(p), NEW q \in Procs
    PROVE  Alone(q)' /\ StartsAlone(q)' /\ PathByPlace(q)'
  <1> USE NoSocketAssumption DEF Inv, Serial, Alone, StartsAlone, PathByPlace, Goto, Gone, Starting, Stopping
  <1>1. CASE Stat(p)
    BY <1>1 DEF Stat, TypeOK
  <1>2. CASE Dial(p)
    BY <1>2 DEF Dial, TypeOK
  <1>3. CASE Remove(p)
    BY <1>3 DEF Remove, TypeOK
  <1>4. CASE Bind(p)
    BY <1>4 DEF Bind, TypeOK
  <1>5. CASE Listen(p)
    BY <1>5 DEF Listen, TypeOK
  <1>6. CASE Chmod(p)
    BY <1>6 DEF Chmod, TypeOK
  <1>7. CASE Serve(p)
    BY <1>7 DEF Serve, TypeOK
  <1>8. CASE StartFails(p)
    BY <1>8 DEF StartFails, TypeOK
  <1>9. CASE Drain(p)
    BY <1>9 DEF Drain, TypeOK
  <1>10. CASE Unlink(p)
    BY <1>10 DEF Unlink, TypeOK
  <1>11. CASE Start(p)
    BY <1>11 DEF Start, Others, TypeOK
  <1>12. CASE Open(p) \/ Close(p)
    BY <1>12 DEF Open, Close, TypeOK
  <1>13. CASE Term(p)
    BY <1>13 DEF Term, Others, TypeOK
  <1>14. CASE ServeFails(p)
    BY <1>14 DEF ServeFails, Others, TypeOK
  <1>15. CASE Crash(p)
    BY <1>15 DEF Crash, TypeOK
  <1> QED
    BY <1>1, <1>2, <1>3, <1>4, <1>5, <1>6, <1>7, <1>8, <1>9, <1>10, <1>11, <1>12, <1>13,
       <1>14, <1>15 DEF ListenSocket, Run, Outside

\* The inductive invariant, when nothing overlaps and a live daemon answers.
LEMMA SerialInv ==
    ASSUME Overlaps = {}, ~DialFails
    PROVE  Spec => []Inv
  <1>1. Init => Inv
    BY InitType DEF Init, Inv, Serial, Alone, StartsAlone, PathByPlace, Starting, Stopping
  <1>2. Inv /\ [Next]_vars => Inv'
    <2> SUFFICES ASSUME Inv, [Next]_vars PROVE Inv'
      OBVIOUS
    <2>1. TypeOK'
      BY NextType DEF Inv
    <2>2. CASE UNCHANGED vars
      BY <2>1, <2>2 DEF Inv, Serial, Alone, StartsAlone, PathByPlace, vars
    <2>3. CASE Next
      BY <2>1, <2>3, SerialStep DEF Next, Inv, Serial
    <2> QED
      BY <2>2, <2>3
  <1> QED
    BY <1>1, <1>2, PTL DEF Spec

\* When starts and stops are one at a time and a live daemon answers a dial, the
\* path of a daemon that serves is its own, wherever the others crash and whatever they leave behind.
THEOREM ServingIsReachable ==
    ASSUME Overlaps = {}, ~DialFails
    PROVE  Spec => []Reachable
  <1>1. Inv => Reachable
    BY DEF Inv, Serial, PathByPlace, Reachable
  <1> QED
    BY <1>1, SerialInv, PTL

\* And a start is refused over the path only by a daemon that listens.
THEOREM StaleNeverRefuses ==
    ASSUME Overlaps = {}, ~DialFails
    PROVE  Spec => RefusedByLiveOnly
  <1>1. ASSUME Inv, [Next]_vars, NEW p \in Procs, pc[p] # "refused", pc'[p] = "refused"
        PROVE  accepting \ {p} # {}
    <2>1. PICK q \in Procs : ListenSocket(q) \/ Run(q) \/ Outside(q)
      BY <1>1 DEF Next, vars
    <2>2. q = p
      BY <1>1, <2>1 DEF Inv, TypeOK, Goto, ListenSocket, Run, Outside, Stat, Dial, Remove, Bind,
         Listen, Chmod, Serve, StartFails, Drain, Unlink, Start, Open, Close, Term, ServeFails, Crash
    <2>3. Dial(p) \/ Remove(p) \/ Bind(p) \/ Chmod(p)
      BY <1>1, <2>1, <2>2 DEF Inv, TypeOK, Goto, ListenSocket, Run, Outside, Stat,
         Listen, Serve, StartFails, Drain, Unlink, Start, Open, Close, Term, ServeFails, Crash
    <2>4. Dial(p) /\ path \in accepting
      BY <1>1, <2>3, NoSocketAssumption
         DEF Inv, TypeOK, Serial, PathByPlace, Goto, Dial, Remove, Bind, Chmod
    <2> QED
      BY <1>1, <2>4 DEF Inv, TypeOK, Dial
  <1>2. Inv /\ [Next]_vars =>
          [\A p \in Procs :
             pc[p] # "refused" /\ pc'[p] = "refused" => accepting \ {p} # {}]_vars
    BY <1>1
  <1> QED
    BY <1>2, SerialInv, PTL DEF Spec, RefusedByLiveOnly
-----------------------------------------------------------------------------
(* Starts and stops that overlap as they like.                             *)

\* Nobody is between its dial and its os.Remove, or on its way out, while another
\* is anywhere from its bind to its signal.
RemovesAlone ==
    \A p, q \in Procs :
        pc[p] \in {"remove"} \cup Stopping /\ q # p =>
            pc[q] \notin {"listen", "chmod", "bound", "serving"}

\* Whoever has bound the path, and is not stopping, is what it names.
OwnsPath ==
    \A p \in Procs : pc[p] \in {"listen", "chmod", "bound", "serving"} => path = p

LEMMA OwnsPathStep == TypeOK /\ RemovesAlone /\ OwnsPath /\ [Next]_vars => OwnsPath'
  <1> SUFFICES ASSUME TypeOK, RemovesAlone, OwnsPath, [Next]_vars PROVE OwnsPath'
    OBVIOUS
  <1> USE NoSocketAssumption DEF TypeOK, RemovesAlone, OwnsPath, Goto, Stopping, Gone
  <1>1. ASSUME NEW p \in Procs, Stat(p) \/ Dial(p) \/ Listen(p) \/ Chmod(p) PROVE OwnsPath'
    BY <1>1 DEF Stat, Dial, Listen, Chmod
  <1>2. ASSUME NEW p \in Procs, Remove(p) PROVE OwnsPath'
    BY <1>2 DEF Remove
  <1>3. ASSUME NEW p \in Procs, Bind(p) PROVE OwnsPath'
    BY <1>3 DEF Bind
  <1>4. ASSUME NEW p \in Procs, Serve(p) \/ Drain(p) PROVE OwnsPath'
    BY <1>4 DEF Serve, Drain
  <1>5. ASSUME NEW p \in Procs, StartFails(p) PROVE OwnsPath'
    BY <1>5 DEF StartFails
  <1>6. ASSUME NEW p \in Procs, Unlink(p) PROVE OwnsPath'
    BY <1>6 DEF Unlink
  <1>7. ASSUME NEW p \in Procs, Start(p) \/ Open(p) \/ Close(p) \/ Crash(p) PROVE OwnsPath'
    BY <1>7 DEF Start, Open, Close, Crash
  <1>8. ASSUME NEW p \in Procs, Term(p) \/ ServeFails(p) PROVE OwnsPath'
    BY <1>8 DEF Term, ServeFails
  <1>9. UNCHANGED vars => OwnsPath'
    BY DEF vars
  <1> QED
    BY <1>1, <1>2, <1>3, <1>4, <1>5, <1>6, <1>7, <1>8, <1>9
       DEF Next, ListenSocket, Run, Outside

\* A daemon that serves loses its path in two windows only, whatever overlaps and
\* whatever a dial says: that of a start which took its socket, or the one before
\* it, for stale, and that of a stop which drains after the next one's bind.  A
\* crash, a failed start or a second bind never takes it.
THEOREM ReachableIfRemovedAlone == Spec /\ []RemovesAlone => []Reachable
  <1>1. Init => OwnsPath
    BY DEF Init, OwnsPath
  <1>2. OwnsPath => Reachable
    BY DEF OwnsPath, Reachable
  <1> QED
    BY <1>1, <1>2, TypeCorrect, OwnsPathStep, PTL DEF Spec
=============================================================================
