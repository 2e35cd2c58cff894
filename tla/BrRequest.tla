----------------------------- MODULE BrRequest -----------------------------
(***************************************************************************)
(* POST /v1/repos/{repo}/br: handleBr of src/internal/server/server.go and *)
(* Runner.Run of src/internal/brexec/brexec.go, for concurrent requests to *)
(* one repo whose checkout comes and goes.                                 *)
(*                                                                         *)
(* br is external: a writer takes .beads/.write.lock, commits and exits;   *)
(* any br may fail, or hang.  Output, formats and wording are left out: an *)
(* answer is its status and, in X-Br-Exit, br's exit code.                 *)
(***************************************************************************)
EXTENDS Invocation, FiniteSets

CONSTANTS
    Asks,       \* what requests may ask
    WriteCommands, \* the subcommands of br that take the write lock
    ParentEnv,  \* the daemon's own environment
    LeavesChildren, \* whether br may leave a child that holds its output open
    Requests,   \* concurrent requests
    NoRequest,  \* the holder of a free lock
    NoExit      \* X-Br-Exit of an answer that has none

Exits == {"ok", "failed"}  \* zero, and br's typed codes
Signal == "-1"             \* ExitCode() of a process that a signal ended
Ends  == Exits \cup {"killed", "died"}  \* by the daemon, or by someone else
Code(e) == IF e \in Exits THEN e ELSE Signal

ASSUME NamesAssumption == NoRequest \notin Requests /\ NoExit \notin Exits \cup {Signal}

\* A request names a repo, well or not, and has a body that can be decoded, or
\* not, with an actor that is valid, or not, and the arguments of br.
Ask == [fault : {"none", "unknown repo", "bad body", "bad actor"},
        args : Seq(Words), actor : {""} \cup Plain]
ASSUME AsksAssumption ==
    /\ Asks \subseteq Ask /\ Asks # {}
    /\ WriteCommands \subseteq Plain /\ LeavesChildren \in BOOLEAN

VARIABLES
    dir,        \* whether the repo's path is a directory
    lock,       \* whose br holds .write.lock
    pc,         \* where each handler is
    input,      \* what each request asks
    done,       \* whether each request's context is done: deadline or client
    br,         \* each request's br: none, running, locked, or how it ended
    pipe,       \* the requests whose br left its output open when it ended
    committed,  \* history: the requests whose br has committed its write
    answer      \* each answer: [status, exit]

vars == <<dir, lock, pc, input, done, br, pipe, committed, answer>>

\* What handleBr refuses a request with once it has the body; 0 when it runs br.
Refusal(ask) == IF ask.fault \in {"bad body", "bad actor"} THEN 400 ELSE PolicyStatus(ask.args)
Writes(r) == Head(input[r].args).name \in WriteCommands
AnyAsk == CHOOSE a \in Asks : TRUE  \* of an idle connection
NoAnswer == [status |-> 0, exit |-> NoExit]
BrAlive(r) == br[r] \in {"running", "locked"}

Init ==
    /\ dir = TRUE
    /\ lock = NoRequest
    /\ pc = [r \in Requests |-> "idle"]
    /\ input = [r \in Requests |-> AnyAsk]
    /\ done = [r \in Requests |-> FALSE]
    /\ br = [r \in Requests |-> "none"]
    /\ pipe = {}
    /\ committed = {}
    /\ answer = [r \in Requests |-> NoAnswer]

Goto(r, l) == pc' = [pc EXCEPT ![r] = l]
Answer(r, status, exit) ==
    /\ answer' = [answer EXCEPT ![r] = [status |-> status, exit |-> exit]]
    /\ Goto(r, "answered")
Error(r, status) == Answer(r, status, NoExit)

-----------------------------------------------------------------------------
(* handleBr.                                                               *)

\* A request arrives: Lookup, then Probe.
Receive(r) ==
    /\ pc[r] = "idle"
    /\ \E a \in Asks :
         /\ input' = [input EXCEPT ![r] = a]
         /\ IF a.fault = "unknown repo" THEN Error(r, 404)
            ELSE IF ~dir THEN Error(r, 503)
            ELSE Goto(r, "body") /\ UNCHANGED answer
    /\ UNCHANGED <<dir, lock, done, br, pipe, committed>>

\* Bug: a request off the allowlist is answered, and run.
ParseMutant(r) ==
    /\ pc[r] = "body"
    /\ IF Refusal(input[r]) = 0
         THEN Goto(r, "fork") /\ UNCHANGED answer
         ELSE answer' = [answer EXCEPT ![r] = [status |-> Refusal(input[r]), exit |-> NoExit]]
              /\ Goto(r, "fork")
    /\ UNCHANGED <<dir, lock, input, done, br, pipe, committed>>

\* The body has arrived, as slowly as the client sent it: it is decoded, the
\* actor screened, the argv built; then the caller is identified.
Parse(r) ==
    /\ pc[r] = "body"
    /\ IF Refusal(input[r]) = 0
         THEN Goto(r, "fork") /\ UNCHANGED answer
         ELSE Error(r, Refusal(input[r]))
    /\ UNCHANGED <<dir, lock, input, done, br, pipe, committed>>

\* Bug: a br that could not start is answered as one that ran and failed.
ForkMutant(r) ==
    /\ pc[r] = "fork" /\ ~done[r]
    /\ IF ~dir THEN Answer(r, 200, "failed") /\ UNCHANGED br
       ELSE /\ br' = [br EXCEPT ![r] = "running"]
            /\ Goto(r, "wait")
            /\ UNCHANGED answer
    /\ UNCHANGED <<dir, lock, input, done, pipe, committed>>

\* context.WithTimeout and cmd.Start: a context that is done already, or a
\* checkout that has left since the probe, and there is no process.
Fork(r) ==
    /\ pc[r] = "fork"
    /\ IF done[r] THEN Error(r, 504) /\ UNCHANGED br
       ELSE IF ~dir THEN Error(r, 500) /\ UNCHANGED br
       ELSE /\ br' = [br EXCEPT ![r] = "running"]
            /\ Goto(r, "wait")
            /\ UNCHANGED answer
    /\ UNCHANGED <<dir, lock, input, done, pipe, committed>>

\* The deadline passes, or the client goes away; before there is a deadline,
\* the client goes away.
Expire(r) ==
    /\ pc[r] = "wait" /\ ~done[r]
    /\ done' = [done EXCEPT ![r] = TRUE]
    /\ UNCHANGED <<dir, lock, pc, input, br, pipe, committed, answer>>
Hangup(r) ==
    /\ pc[r] = "fork" /\ ~done[r]
    /\ done' = [done EXCEPT ![r] = TRUE]
    /\ UNCHANGED <<dir, lock, pc, input, br, pipe, committed, answer>>

\* Bug: the handler answers at the deadline and leaves br running.
KillMutant(r) ==
    /\ pc[r] = "wait" /\ done[r] /\ BrAlive(r)
    /\ Error(r, 504)
    /\ UNCHANGED <<dir, lock, input, done, br, pipe, committed>>

\* Bug: a br that is at its write is left to finish it.
PatientMutant(r) ==
    /\ pc[r] = "wait" /\ done[r] /\ br[r] = "running"
    /\ br' = [br EXCEPT ![r] = "killed"]
    /\ UNCHANGED <<dir, lock, pc, input, done, pipe, committed, answer>>

\* br ends; a child of its own that it leaves behind holds its output open.
EndBr(r, how) ==
    /\ br' = [br EXCEPT ![r] = how]
    /\ lock' = IF lock = r THEN NoRequest ELSE lock
    /\ pipe' \in {pipe} \cup (IF LeavesChildren THEN {pipe \cup {r}} ELSE {})

\* CommandContext kills br, which gives the lock up.
Kill(r) ==
    /\ pc[r] = "wait" /\ done[r] /\ BrAlive(r)
    /\ EndBr(r, "killed")
    /\ UNCHANGED <<dir, pc, input, done, committed, answer>>

\* Bug: whatever ended br is looked at before the context.
CollectMutant(r) ==
    /\ pc[r] = "wait" /\ br[r] \in Ends /\ r \notin pipe
    /\ Answer(r, 200, Code(br[r]))
    /\ UNCHANGED <<dir, lock, input, done, br, pipe, committed>>

\* cmd.Run returns once br has ended and its output is closed; no WaitDelay
\* bounds the wait.  Without an error it is br's success; with one, a context
\* that is done makes it a timeout whatever br's own exit was.  Of a br that
\* exited with zero, Wait may report the context's end instead.
Collect(r) ==
    /\ pc[r] = "wait" /\ br[r] \in Ends /\ r \notin pipe
    /\ \/ (br[r] = "ok" \/ ~done[r]) /\ Answer(r, 200, Code(br[r]))
       \/ done[r] /\ Error(r, 504)
    /\ UNCHANGED <<dir, lock, input, done, br, pipe, committed>>

\* The connection's next request.
Again(r) ==
    /\ pc[r] = "answered" /\ ~BrAlive(r)
    /\ Goto(r, "idle")
    /\ done' = [done EXCEPT ![r] = FALSE]
    /\ br' = [br EXCEPT ![r] = "none"]
    /\ committed' = committed \ {r}
    /\ answer' = [answer EXCEPT ![r] = NoAnswer]
    /\ input' = [input EXCEPT ![r] = AnyAsk]
    /\ pipe' = pipe \ {r}
    /\ UNCHANGED <<dir, lock>>

-----------------------------------------------------------------------------
(* br, and the box.                                                        *)

\* A write waits for .write.lock, up to --lock-timeout.
Acquire(r) ==
    /\ br[r] = "running" /\ Writes(r) /\ lock = NoRequest /\ r \notin committed
    /\ lock' = r
    /\ br' = [br EXCEPT ![r] = "locked"]
    /\ UNCHANGED <<dir, pc, input, done, pipe, committed, answer>>

Commit(r) ==
    /\ br[r] = "locked" /\ r \notin committed
    /\ committed' = committed \cup {r}
    /\ UNCHANGED <<dir, lock, pc, input, done, br, pipe, answer>>

\* A read, or a write that has committed, exits with zero; a br that has not
\* committed may fail: on the lock, on its input, for want of the checkout.
Exit(r) ==
    /\ BrAlive(r)
    /\ \/ (~Writes(r) \/ r \in committed) /\ EndBr(r, "ok")
       \/ r \notin committed /\ EndBr(r, "failed")
    /\ UNCHANGED <<dir, pc, input, done, committed, answer>>

\* Something else than the daemon kills br.
Die(r) ==
    /\ BrAlive(r)
    /\ EndBr(r, "died")
    /\ UNCHANGED <<dir, pc, input, done, committed, answer>>

\* The checkout is moved away, or cloned.
Checkout ==
    /\ dir' = ~dir
    /\ UNCHANGED <<lock, pc, input, done, br, pipe, committed, answer>>

-----------------------------------------------------------------------------
Handle(r) == Parse(r) \/ Fork(r) \/ Kill(r) \/ Collect(r)
BrSteps(r) == Acquire(r) \/ Commit(r) \/ Exit(r) \/ Die(r)

Next ==
    \/ \E r \in Requests : Receive(r) \/ Handle(r) \/ Expire(r) \/ Hangup(r) \/ Again(r)
                             \/ BrSteps(r)
    \/ Checkout

Spec == Init /\ [][Next]_vars

\* The handler runs and its deadline passes.  Nothing is assumed of br, which
\* may hang with the lock in its hand, nor of a client that sends its body.
Fairness ==
    \A r \in Requests : WF_vars(Fork(r)) /\ WF_vars(Kill(r)) /\ WF_vars(Collect(r))
                          /\ WF_vars(Expire(r))

FairSpec == Spec /\ Fairness

-----------------------------------------------------------------------------
TypeOK ==
    /\ dir \in BOOLEAN /\ lock \in Requests \cup {NoRequest}
    /\ pc \in [Requests -> {"idle", "body", "fork", "wait", "answered"}]
    /\ input \in [Requests -> Asks] /\ done \in [Requests -> BOOLEAN]
    /\ br \in [Requests -> {"none", "running", "locked"} \cup Ends]
    /\ committed \subseteq Requests /\ pipe \subseteq Requests
    /\ answer \in [Requests -> [status : {0, 200, 400, 403, 404, 500, 503, 504},
                                exit : Exits \cup {Signal, NoExit}]]
    /\ \A r \in Requests : pc[r] = "answered" <=> answer[r].status # 0

\* "X-Br-Exit present means br ran, and the body is br's own output": an answer
\* that carries an exit code carries the one br itself ended with, never that of
\* a br the daemon killed; and a write that says zero is in the database.
ExitIsBrsOwn ==
    \A r \in Requests : answer[r].exit # NoExit =>
        /\ answer[r].status = 200 /\ br[r] \in Ends \ {"killed"}
        /\ answer[r].exit = Code(br[r])
        /\ answer[r].exit = "ok" /\ Writes(r) => r \in committed

\* What the daemon refuses, it has not run: an error other than a timeout leaves
\* nothing written, now or later.  What it runs keeps "a promise the URL makes"
\* of the repo and the actor, by its arguments and its environment, is told how
\* long to wait for the lock, and answers in the format of its label.
RunsWhatItMay ==
    \A r \in Requests :
        /\ answer[r].status \in {400, 403, 404, 500, 503} => br[r] = "none" /\ r \notin committed
        /\ br[r] # "none" =>
             /\ Promised(input[r].args, ParentEnv, input[r].actor)
             /\ Bounded(input[r].args) /\ Labelled(input[r].args)

\* "br did not finish within": once a request is answered its br is gone, so that
\* nothing is committed after the answer and no lock is left held for the next
\* writer to wait on.
NothingRunsOn ==
    /\ \A r \in Requests : pc[r] = "answered" => ~BrAlive(r) /\ lock # r
    /\ lock # NoRequest => br[lock] = "locked"

\* One hung br, lock in hand, does not hold up the others' answers or its own.
EveryRequestAnswered ==
    \A r \in Requests : pc[r] \in {"fork", "wait"} ~> pc[r] = "answered"

\* "X-Br-Exit [...] Absent means the daemon failed before br spoke": where it is
\* absent, br has written nothing.
AbsentMeansNothingDone ==
    \A r \in Requests : pc[r] = "answered" /\ answer[r].exit = NoExit =>
        r \notin committed

\* "ExitCode is br's own typed exit code [...]: 0 ok, 2 database, [...] 8 I/O":
\* the end of a br by a signal is not passed off as one.
ExitIsTyped ==
    \A r \in Requests : answer[r].exit \in Exits \cup {NoExit}
=============================================================================
