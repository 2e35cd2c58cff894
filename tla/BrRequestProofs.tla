-------------------------- MODULE BrRequestProofs --------------------------
(***************************************************************************)
(* What a br request promises, for any number of concurrent requests and   *)
(* whatever they ask: the exit code is br's own, what is refused has not   *)
(* run, what runs keeps the promises of the URL, and nothing runs on.      *)
(***************************************************************************)
EXTENDS BrRequest, WellFoundedInduction, TLAPS

-----------------------------------------------------------------------------
(* The argv policy and the environment, for every argument vector.         *)

\* The daemon puts up to three words in front, none of them a denied flag.
LEMMA GlobalsAre ==
    ASSUME NEW args \in Seq(Words)
    PROVE  /\ Globals(args) \in Seq(Words)
           /\ \A i \in DOMAIN Globals(args) :
                Globals(args)[i].name \in {"--lock-timeout", "5000", "--json"}
  <1>1. {Word("--lock-timeout"), Word("5000"), Word("--json")} \subseteq Words
    <2>1. {"--lock-timeout", "5000", "--json"} \subseteq Text
      BY WordsAssumption DEF Text, Formats
    <2> QED
      BY <2>1 DEF Words, Word
  <1> QED
    BY <1>1 DEF Globals, Word

\* A word of a vector that is not one of those in front is one of those behind.
LEMMA Behind ==
    ASSUME NEW g \in Seq(Words), NEW args \in Seq(Words),
           NEW i \in DOMAIN (g \o args), i \notin DOMAIN g
    PROVE  \E j \in DOMAIN args : i = Len(g) + j /\ (g \o args)[i] = args[j]
  <1>1. i \in 1..(Len(g) + Len(args)) /\ i > Len(g)
    OBVIOUS
  <1>2. i - Len(g) \in DOMAIN args
    BY <1>1
  <1>3. (g \o args)[i] = args[i - Len(g)]
    BY <1>1
  <1> QED
    BY <1>2, <1>3

\* The code's loop stops at the first choice: there is one when there is any.
LEMMA FirstChoiceExists ==
    ASSUME NEW args \in Seq(Words), Choices(args) # {}
    PROVE  FirstChoice(args) \in Choices(args)
  <1>1. Choices(args) \subseteq Nat
    BY DEF Choices
  <1>2. \E i \in Choices(args) : \A j \in Choices(args) : i <= j
    <2> DEFINE Less == {ss \in Nat \X Nat : ss[1] < ss[2]}
    <2>1. IsWellFoundedOn(Less, Nat)
      BY NatLessThanWellFounded DEF OpToRel
    <2>2. PICK i \in Choices(args) : \A j \in Choices(args) : <<j, i>> \notin Less
      BY <1>1, <2>1, WFMin
    <2>3. \A j \in Choices(args) : ~(j < i)
      BY <1>1, <2>2
    <2> QED
      BY <1>1, <2>3
  <1> QED
    BY <1>2 DEF FirstChoice

\* The environment defines no workspace, and no actor but the caller's.
LEMMA EnvironmentIsClean ==
    ASSUME NEW parent, NEW actor, NEW d \in ChildEnv(parent, actor)
    PROVE  /\ d.name \notin {"BEADS_DIR", "BD_DB", "BD_DATABASE"}
           /\ d.name = "BD_ACTOR" => d.value = actor
  <1>1. CASE d \in parent /\ d.name \notin Hostile
    BY <1>1 DEF Hostile
  <1>2. CASE d = [name |-> "RUST_LOG", value |-> "error"]
    BY <1>2
  <1>3. CASE d = [name |-> "BD_ACTOR", value |-> actor]
    BY <1>3
  <1> QED
    BY <1>1, <1>2, <1>3 DEF ChildEnv

\* "--db and --actor are rejected anywhere in args": no vector that the policy
\* lets through, and no environment the daemon was itself started in, gives br
\* another workspace or another actor; and the caller's words arrive unchanged.
THEOREM ServedKeepsPromises ==
    ASSUME NEW args \in Seq(Words), NEW parent, NEW actor, PolicyStatus(args) = 0
    PROVE  Promised(args, parent, actor)
  <1> DEFINE g == Globals(args)  argv == g \o args
  <1>1. \A i \in DOMAIN args : args[i].name \notin DeniedFlags
    BY DEF PolicyStatus, DeniedFlag
  <1>2. /\ g \in Seq(Words)
        /\ \A i \in DOMAIN g : g[i].name \in {"--lock-timeout", "5000", "--json"}
    BY GlobalsAre
  <1> HIDE DEF g
  <1>3. ASSUME NEW i \in DOMAIN argv PROVE argv[i].name \notin DeniedFlags
    <2>1. CASE i \in DOMAIN g
      BY <1>2, <2>1 DEF DeniedFlags
    <2>2. CASE i \notin DOMAIN g
      BY <1>1, <1>2, <2>2, Behind
    <2> QED
      BY <2>1, <2>2
  <1>4. SubSeq(argv, Len(argv) - Len(args) + 1, Len(argv)) = args
    BY <1>2
  <1>5. BuildArgv(args) = argv
    BY DEF BuildArgv, g
  <1> QED
    BY <1>3, <1>4, <1>5, EnvironmentIsClean DEF Promised, Options

\* A vector whose words all stand before br's "--" is answered in the format of
\* its label, and waits for the lock no longer than it was told to.
THEOREM LabelledUnlessDashed ==
    ASSUME NEW args \in Seq(Words), PolicyStatus(args) = 0,
           \A i \in DOMAIN args : args[i] # Word("--")
    PROVE  Labelled(args) /\ Bounded(args)
  <1> DEFINE g == Globals(args)  argv == g \o args
  <1>1. /\ g \in Seq(Words)
        /\ \A i \in DOMAIN g : g[i].name \in {"--lock-timeout", "5000", "--json"}
    BY GlobalsAre
  <1>2. BuildArgv(args) = argv
    BY DEF BuildArgv
  <1>3. ~HasFlag(args, "--lock-timeout") =>
            1 \in DOMAIN g /\ g[1] = Word("--lock-timeout")
    BY DEF Globals
  <1>4. Choices(args) = {} /\ InjectJSON => Len(g) \in DOMAIN g /\ g[Len(g)] = Word("--json")
    BY DEF Globals
  <1>5. Choices(args) = {} /\ ~InjectJSON =>
            \A i \in DOMAIN g : g[i].name \in {"--lock-timeout", "5000"}
    BY DEF Globals, Word
  <1> HIDE DEF g
  <1>6. \A i \in DOMAIN g : i \in DOMAIN argv /\ argv[i] = g[i]
    BY <1>1
  <1>7. \A i \in DOMAIN args : Len(g) + i \in DOMAIN argv /\ argv[Len(g) + i] = args[i]
    BY <1>1
  <1>8. ASSUME NEW i \in DOMAIN argv PROVE argv[i] # Word("--")
    <2>1. CASE i \in DOMAIN g
      BY <1>1, <1>6, <2>1 DEF Word
    <2>2. CASE i \notin DOMAIN g
      BY <1>1, <2>2, Behind
    <2> QED
      BY <2>1, <2>2
  <1>9. \A i \in DOMAIN argv : argv[i].name \in Dashed => i \in Options(argv)
    <2>1. \A i \in DOMAIN argv : 1..i \subseteq DOMAIN argv
      BY <1>1
    <2> QED
      BY <1>8, <2>1 DEF Options
  <1>10. Bounded(args)
    <2>1. \E i \in DOMAIN argv : argv[i].name = "--lock-timeout"
      <3>1. CASE HasFlag(args, "--lock-timeout")
        BY <1>7, <3>1 DEF HasFlag
      <3>2. CASE ~HasFlag(args, "--lock-timeout")
        BY <1>3, <1>6, <3>2 DEF Word
      <3> QED
        BY <3>1, <3>2
    <2> QED
      BY <2>1, <1>2, <1>9, WordsAssumption DEF Bounded
  <1>11. \A i \in Choices(argv) : i \in Options(argv)
    <2>1. \A i \in Choices(argv) : i \in DOMAIN argv /\ argv[i].name \in Formats
      BY DEF Choices, ChoosesFormat, Formats, Word
    <2> QED
      BY <1>9, <2>1, WordsAssumption
  <1>12. ASSUME NEW i \in Choices(argv), NEW f, f = FormatAt(argv, i),
                ContentType(args) = ContentTypeFor(f)
         PROVE  Labelled(args)
    BY <1>2, <1>11, <1>12 DEF Labelled, Told
  <1>13. CASE Choices(args) # {}
    <2> DEFINE i == FirstChoice(args)
    <2>1. i \in Choices(args)
      BY <1>13, FirstChoiceExists
    <2> HIDE DEF i
    <2>2. i \in 1..Len(args) /\ Len(g) + i \in DOMAIN argv /\ argv[Len(g) + i] = args[i]
      BY <1>7, <2>1 DEF Choices
    <2>3. Len(g) + i \in Choices(argv)
      BY <2>1, <2>2 DEF Choices
    <2>4. FormatAt(argv, Len(g) + i) = FormatAt(args, i)
      <3>1. i < Len(args) => argv[Len(g) + i + 1] = args[i + 1]
        BY <1>1, <2>2
      <3>2. Len(g) + i < Len(argv) <=> i < Len(args)
        BY <1>1, <2>2
      <3> QED
        BY <2>2, <3>1, <3>2 DEF FormatAt
    <2>5. ContentType(args) = ContentTypeFor(FormatAt(args, i))
      BY <1>13 DEF ContentType, i
    <2> QED
      BY <1>10, <1>12, <2>3, <2>4, <2>5
  <1>14. CASE Choices(args) = {} /\ InjectJSON
    <2>1. Len(g) \in DOMAIN argv /\ argv[Len(g)] = Word("--json")
      BY <1>4, <1>6, <1>14
    <2>2. Len(g) \in Choices(argv) /\ FormatAt(argv, Len(g)) = Word("json")
      BY <2>1 DEF Choices, ChoosesFormat, FormatAt, Word
    <2>3. ContentType(args) = ContentTypeFor(Word("json"))
      BY <1>14 DEF ContentType, ContentTypeFor, Word
    <2> QED
      BY <1>10, <1>12, <2>2, <2>3
  <1>15. CASE Choices(args) = {} /\ ~InjectJSON
    <2>1. ASSUME NEW i \in Choices(argv) PROVE FALSE
      <3>1. CASE i \in DOMAIN g
        BY <1>5, <1>6, <1>15, <3>1, <2>1 DEF Choices, ChoosesFormat, Word
      <3>2. CASE i \notin DOMAIN g
        BY <1>1, <1>15, <3>2, <2>1, Behind DEF Choices
      <3> QED
        BY <3>1, <3>2
    <2>2. Told(argv) = {Word("text")}
      BY <2>1 DEF Told
    <2>3. ContentType(args) = ContentTypeFor(Word("text"))
      BY <1>15 DEF ContentType, ContentTypeFor, Word
    <2> QED
      BY <1>2, <1>10, <2>2, <2>3 DEF Labelled
  <1> QED
    BY <1>13, <1>14, <1>15

-----------------------------------------------------------------------------
(* The requests.                                                           *)


\* Where there is a br, by the place of its handler: before the fork there is
\* none, a live one is waited for, and only what was let through is run.
BrByPlace ==
    \A r \in Requests :
        /\ pc[r] \in {"idle", "body", "fork"} => br[r] = "none"
        /\ pc[r] = "wait" => br[r] # "none"
        /\ BrAlive(r) => pc[r] = "wait"
        /\ pc[r] = "fork" \/ br[r] # "none" => Refusal(input[r]) = 0
        /\ br[r] = "none" => r \notin committed
        /\ br[r] = "killed" => done[r]

\* The write lock is held by a live writer; a writer that says ok has committed.
LockByWriter ==
    /\ \A r \in Requests : br[r] = "locked" <=> lock = r
    /\ \A r \in Requests : br[r] = "ok" /\ Writes(r) => r \in committed

\* What each answer knows of its br.
AnswerByBr ==
    \A r \in Requests :
        /\ answer[r].status \in {400, 403, 404, 500, 503} => br[r] = "none"
        /\ answer[r].exit # NoExit => /\ answer[r].status = 200
                                      /\ br[r] \in Ends \ {"killed"}
                                      /\ answer[r].exit = Code(br[r])

Inv == TypeOK /\ BrByPlace /\ LockByWriter /\ AnswerByBr

LEMMA RefusalIs ==
    ASSUME NEW ask \in Asks
    PROVE  /\ Refusal(ask) \in {0, 400, 403}
           /\ Refusal(ask) = 0 => ask.args \in Seq(Words) /\ PolicyStatus(ask.args) = 0
  <1>1. ask.args \in Seq(Words)
    BY AsksAssumption DEF Ask
  <1>2. PolicyStatus(ask.args) \in {0, 400, 403}
    BY DEF PolicyStatus
  <1>3. CASE ask.fault \in {"bad body", "bad actor"}
    <2>1. Refusal(ask) = 400
      BY <1>3 DEF Refusal
    <2> QED
      BY <2>1
  <1>4. CASE ask.fault \notin {"bad body", "bad actor"}
    <2>1. Refusal(ask) = PolicyStatus(ask.args)
      BY <1>4 DEF Refusal
    <2> QED
      BY <1>1, <1>2, <2>1
  <1> QED
    BY <1>3, <1>4

LEMMA SetFlag ==
    ASSUME NEW f \in [Requests -> BOOLEAN], NEW r \in Requests, NEW b \in BOOLEAN
    PROVE  [f EXCEPT ![r] = b] \in [Requests -> BOOLEAN]
  OBVIOUS

LEMMA AnyAskIs == AnyAsk \in Asks
  BY AsksAssumption DEF AnyAsk

LEMMA InvInit == Init => Inv
  BY AnyAskIs, NamesAssumption
    DEF Init, Inv, TypeOK, BrByPlace, LockByWriter, AnswerByBr, NoAnswer, BrAlive, Exits

LEMMA InvStep == Inv /\ [Next]_vars => Inv'
  <1> SUFFICES ASSUME Inv, [Next]_vars PROVE Inv'
    OBVIOUS
  <1> USE DEF Inv, Goto, BrAlive
  <1>1. ASSUME NEW r \in Requests, Receive(r) PROVE Inv'
    <2>1. PICK a \in Asks :
            /\ input' = [input EXCEPT ![r] = a]
            /\ IF a.fault = "unknown repo" THEN Error(r, 404)
               ELSE IF ~dir THEN Error(r, 503)
               ELSE Goto(r, "body") /\ UNCHANGED answer
      BY <1>1 DEF Receive
    <2>2. pc[r] = "idle" /\ UNCHANGED <<dir, lock, done, br, pipe, committed>>
      BY <1>1 DEF Receive
    <2>3. \/ Error(r, 404) \/ Error(r, 503)
          \/ Goto(r, "body") /\ UNCHANGED answer
      BY <2>1
    <2>4. input' = [input EXCEPT ![r] = a] /\ a \in Asks
      BY <2>1
    <2>5. TypeOK'
      BY <2>2, <2>3, <2>4, NamesAssumption, SMTT(60) DEF Error, Answer, TypeOK
    <2>6. BrByPlace'
      BY <2>2, <2>3, <2>4 DEF Error, Answer, TypeOK, BrByPlace
    <2>7. LockByWriter'
      BY <2>2, <2>4 DEF TypeOK, BrByPlace, LockByWriter, Writes
    <2>8. AnswerByBr'
      BY <2>2, <2>3, <2>4 DEF Error, Answer, TypeOK, BrByPlace, AnswerByBr
    <2> QED
      BY <2>5, <2>6, <2>7, <2>8
  <1>2. ASSUME NEW r \in Requests, Parse(r) PROVE Inv'
    <2>1. TypeOK'
      <3>1. Refusal(input[r]) \in {0, 400, 403}
        BY RefusalIs DEF TypeOK
      <3> QED
        BY <1>2, <3>1, NamesAssumption DEF Parse, Error, Answer, TypeOK
    <2>2. BrByPlace'
      BY <1>2, RefusalIs, NamesAssumption DEF Parse, Error, Answer, TypeOK, BrByPlace, Exits, Ends
    <2>3. LockByWriter'
      BY <1>2, RefusalIs, NamesAssumption DEF Parse, Error, Answer, TypeOK, BrByPlace, LockByWriter, Exits, Ends, Writes
    <2>4. AnswerByBr'
      BY <1>2, RefusalIs, NamesAssumption DEF Parse, Error, Answer, TypeOK, BrByPlace, AnswerByBr, Exits, Ends, Code
    <2> QED
      BY <2>1, <2>2, <2>3, <2>4
  <1>3. ASSUME NEW r \in Requests, Fork(r) PROVE Inv'
    <2>1. TypeOK'
      BY <1>3, NamesAssumption, SMTT(60) DEF Fork, Error, Answer, TypeOK, BrByPlace, Exits, Ends, Code
    <2>2. BrByPlace'
      BY <1>3, NamesAssumption DEF Fork, Error, Answer, TypeOK, BrByPlace, Exits, Ends
    <2>3. LockByWriter'
      BY <1>3, NamesAssumption DEF Fork, Error, Answer, TypeOK, BrByPlace, LockByWriter, Exits, Ends, Writes
    <2>4. AnswerByBr'
      BY <1>3, NamesAssumption DEF Fork, Error, Answer, TypeOK, BrByPlace, AnswerByBr, Exits, Ends, Code
    <2> QED
      BY <2>1, <2>2, <2>3, <2>4
  <1>4. ASSUME NEW r \in Requests, Kill(r) PROVE Inv'
    <2>1. TypeOK'
      BY <1>4, NamesAssumption DEF Kill, EndBr, TypeOK, BrByPlace, Exits, Ends, Code
    <2>2. BrByPlace'
      BY <1>4, NamesAssumption DEF Kill, EndBr, TypeOK, BrByPlace, Exits, Ends
    <2>3. LockByWriter'
      BY <1>4, NamesAssumption DEF Kill, EndBr, TypeOK, BrByPlace, LockByWriter, Exits, Ends, Writes
    <2>4. AnswerByBr'
      BY <1>4, NamesAssumption DEF Kill, EndBr, TypeOK, BrByPlace, AnswerByBr, Exits, Ends, Code
    <2> QED
      BY <2>1, <2>2, <2>3, <2>4
  <1>5. ASSUME NEW r \in Requests, Collect(r) PROVE Inv'
    <2>1. TypeOK'
      <3>1. Code(br[r]) \in Exits \cup {Signal}
        BY DEF Code
      <3>2. CASE Answer(r, 200, Code(br[r]))
        BY <1>5, <3>1, <3>2 DEF Collect, Answer, TypeOK
      <3>3. CASE Answer(r, 504, NoExit)
        BY <1>5, <3>3 DEF Collect, Answer, TypeOK
      <3> QED
        BY <1>5, <3>2, <3>3 DEF Collect, Error
    <2>2. BrByPlace'
      BY <1>5, NamesAssumption DEF Collect, Error, Answer, TypeOK, BrByPlace, Exits, Ends
    <2>3. LockByWriter'
      BY <1>5, NamesAssumption DEF Collect, Error, Answer, TypeOK, BrByPlace, LockByWriter, Exits, Ends, Writes
    <2>4. AnswerByBr'
      BY <1>5, NamesAssumption DEF Collect, Error, Answer, TypeOK, BrByPlace, AnswerByBr, Exits, Ends, Code
    <2> QED
      BY <2>1, <2>2, <2>3, <2>4
  <1>6. ASSUME NEW r \in Requests, Expire(r) \/ Hangup(r) PROVE Inv'
    <2>0. done' \in [Requests -> BOOLEAN]
      <3>1. done \in [Requests -> BOOLEAN] /\ done' = [done EXCEPT ![r] = TRUE]
        BY <1>6 DEF Expire, Hangup, TypeOK
      <3> QED
        BY <3>1, SetFlag
    <2>1. TypeOK'
      BY <1>6, <2>0, NamesAssumption, SMTT(60) DEF Expire, Hangup, TypeOK, BrByPlace, Exits, Ends, Code
    <2>2. BrByPlace'
      BY <1>6, NamesAssumption DEF Expire, Hangup, TypeOK, BrByPlace, Exits, Ends
    <2>3. LockByWriter'
      BY <1>6, NamesAssumption DEF Expire, Hangup, TypeOK, BrByPlace, LockByWriter, Exits, Ends, Writes
    <2>4. AnswerByBr'
      BY <1>6, NamesAssumption DEF Expire, Hangup, TypeOK, BrByPlace, AnswerByBr, Exits, Ends, Code
    <2> QED
      BY <2>1, <2>2, <2>3, <2>4
  <1>7. ASSUME NEW r \in Requests, Again(r) PROVE Inv'
    <2>0. done' \in [Requests -> BOOLEAN]
      <3>1. done \in [Requests -> BOOLEAN] /\ done' = [done EXCEPT ![r] = FALSE]
        BY <1>7 DEF Again, TypeOK
      <3> QED
        BY <3>1, SetFlag
    <2>1. TypeOK'
      BY <1>7, <2>0, AnyAskIs, NamesAssumption DEF Again, NoAnswer, TypeOK
    <2>2. BrByPlace'
      BY <1>7, NamesAssumption DEF Again, NoAnswer, TypeOK, BrByPlace, Exits, Ends
    <2>3. LockByWriter'
      BY <1>7, NamesAssumption DEF Again, NoAnswer, TypeOK, BrByPlace, LockByWriter, Exits, Ends, Writes
    <2>4. AnswerByBr'
      BY <1>7, NamesAssumption DEF Again, NoAnswer, TypeOK, BrByPlace, AnswerByBr, Exits, Ends, Code
    <2> QED
      BY <2>1, <2>2, <2>3, <2>4
  <1>8. ASSUME NEW r \in Requests, Acquire(r) PROVE Inv'
    <2>1. TypeOK'
      BY <1>8, NamesAssumption DEF Acquire, TypeOK, BrByPlace, Exits, Ends, Code
    <2>2. BrByPlace'
      BY <1>8, NamesAssumption DEF Acquire, TypeOK, BrByPlace, Exits, Ends
    <2>3. LockByWriter'
      BY <1>8, NamesAssumption DEF Acquire, TypeOK, BrByPlace, LockByWriter, Exits, Ends, Writes
    <2>4. AnswerByBr'
      BY <1>8, NamesAssumption DEF Acquire, TypeOK, BrByPlace, AnswerByBr, Exits, Ends, Code
    <2> QED
      BY <2>1, <2>2, <2>3, <2>4
  <1>9. ASSUME NEW r \in Requests, Commit(r) PROVE Inv'
    <2>1. TypeOK'
      BY <1>9, NamesAssumption DEF Commit, TypeOK, BrByPlace, Exits, Ends, Code
    <2>2. BrByPlace'
      BY <1>9, NamesAssumption DEF Commit, TypeOK, BrByPlace, Exits, Ends
    <2>3. LockByWriter'
      BY <1>9, NamesAssumption DEF Commit, TypeOK, BrByPlace, LockByWriter, Exits, Ends, Writes
    <2>4. AnswerByBr'
      BY <1>9, NamesAssumption DEF Commit, TypeOK, BrByPlace, AnswerByBr, Exits, Ends, Code
    <2> QED
      BY <2>1, <2>2, <2>3, <2>4
  <1>10. ASSUME NEW r \in Requests, Exit(r) PROVE Inv'
    <2>1. TypeOK'
      BY <1>10, NamesAssumption, SMTT(60) DEF Exit, EndBr, TypeOK, BrByPlace, Exits, Ends, Code
    <2>2. BrByPlace'
      BY <1>10, NamesAssumption DEF Exit, EndBr, TypeOK, BrByPlace, Exits, Ends
    <2>3. LockByWriter'
      BY <1>10, NamesAssumption DEF Exit, EndBr, TypeOK, BrByPlace, LockByWriter, Exits, Ends, Writes
    <2>4. AnswerByBr'
      BY <1>10, NamesAssumption DEF Exit, EndBr, TypeOK, BrByPlace, AnswerByBr, Exits, Ends, Code
    <2> QED
      BY <2>1, <2>2, <2>3, <2>4
  <1>11. ASSUME NEW r \in Requests, Die(r) PROVE Inv'
    <2>1. TypeOK'
      BY <1>11, NamesAssumption DEF Die, EndBr, TypeOK, BrByPlace, Exits, Ends, Code
    <2>2. BrByPlace'
      BY <1>11, NamesAssumption DEF Die, EndBr, TypeOK, BrByPlace, Exits, Ends
    <2>3. LockByWriter'
      BY <1>11, NamesAssumption DEF Die, EndBr, TypeOK, BrByPlace, LockByWriter, Exits, Ends, Writes
    <2>4. AnswerByBr'
      BY <1>11, NamesAssumption DEF Die, EndBr, TypeOK, BrByPlace, AnswerByBr, Exits, Ends, Code
    <2> QED
      BY <2>1, <2>2, <2>3, <2>4
  <1>12. CASE Checkout
    BY <1>12 DEF Checkout, TypeOK, BrByPlace, LockByWriter, AnswerByBr, Writes
  <1>13. CASE UNCHANGED vars
    BY <1>13 DEF vars, TypeOK, BrByPlace, LockByWriter, AnswerByBr, Writes
  <1> QED
    BY <1>1, <1>2, <1>3, <1>4, <1>5, <1>6, <1>7, <1>8, <1>9, <1>10, <1>11, <1>12, <1>13
    DEF Next, Handle, BrSteps

LEMMA Invariant == Spec => []Inv
  BY InvInit, InvStep, PTL DEF Spec

\* A handler's place and its answer agree, whatever br and the client do.
THEOREM TypeCorrect == Spec => []TypeOK
  <1>1. Inv => TypeOK
    BY DEF Inv
  <1> QED
    BY Invariant, <1>1, PTL

\* An answer with an exit code carries the one that br itself ended with, and a
\* write that says zero is in the database.
THEOREM OwnExit == Spec => []ExitIsBrsOwn
  <1>1. Inv => ExitIsBrsOwn
    <2> SUFFICES ASSUME Inv, NEW r \in Requests, answer[r].exit # NoExit
                 PROVE  /\ answer[r].status = 200 /\ br[r] \in Ends \ {"killed"}
                        /\ answer[r].exit = Code(br[r])
                        /\ answer[r].exit = "ok" /\ Writes(r) => r \in committed
      BY DEF ExitIsBrsOwn
    <2>1. Code(br[r]) = "ok" => br[r] = "ok"
      BY DEF Code, Signal
    <2> QED
      BY <2>1 DEF Inv, AnswerByBr, LockByWriter
  <1> QED
    BY Invariant, <1>1, PTL

\* Requests whose words all stand before br's "--".
NoDashes == \A a \in Asks : \A i \in DOMAIN a.args : a.args[i] # Word("--")

\* What is refused leaves nothing written; what is run keeps the promises that the
\* URL makes, whatever the request asks and the daemon's own environment holds.
THEOREM RunsNoMore ==
    ASSUME NoDashes
    PROVE  Spec => []RunsWhatItMay
  <1>1. Inv => RunsWhatItMay
    <2> SUFFICES ASSUME Inv, NEW r \in Requests
                 PROVE  /\ answer[r].status \in {400, 403, 404, 500, 503} =>
                              br[r] = "none" /\ r \notin committed
                        /\ br[r] # "none" =>
                             /\ Promised(input[r].args, ParentEnv, input[r].actor)
                             /\ Bounded(input[r].args) /\ Labelled(input[r].args)
      BY DEF RunsWhatItMay
    <2>1. answer[r].status \in {400, 403, 404, 500, 503} => br[r] = "none" /\ r \notin committed
      BY DEF Inv, AnswerByBr, BrByPlace
    <2>2. ASSUME br[r] # "none"
          PROVE  /\ Promised(input[r].args, ParentEnv, input[r].actor)
                 /\ Bounded(input[r].args) /\ Labelled(input[r].args)
      <3>1. input[r] \in Asks /\ Refusal(input[r]) = 0
        BY <2>2 DEF Inv, TypeOK, BrByPlace
      <3>2. input[r].args \in Seq(Words) /\ PolicyStatus(input[r].args) = 0
        BY <3>1, RefusalIs
      <3>3. \A i \in DOMAIN input[r].args : input[r].args[i] # Word("--")
        BY <3>1 DEF NoDashes
      <3> QED
        BY <3>2, <3>3, ServedKeepsPromises, LabelledUnlessDashed
    <2> QED
      BY <2>1, <2>2
  <1> QED
    BY Invariant, <1>1, PTL

\* Once a request is answered its br is gone, and the lock is no dead br's.
THEOREM NothingLeft == Spec => []NothingRunsOn
  <1>1. Inv => NothingRunsOn
    BY NamesAssumption DEF Inv, TypeOK, BrByPlace, LockByWriter, NothingRunsOn, BrAlive
  <1> QED
    BY Invariant, <1>1, PTL

\* The two promises about X-Br-Exit that a run breaks, and all that breaks them: a
\* missing one hides a write only behind a timeout, and one that is no exit code of
\* br's says that something other than the daemon has ended br by a signal.
ExitsExplained ==
    \A r \in Requests : pc[r] = "answered" =>
        /\ answer[r].exit = NoExit /\ r \in committed =>
              answer[r].status = 504 /\ done[r]
        /\ answer[r].exit \notin Exits \cup {NoExit} => br[r] = "died" /\ ~done[r]

\* What a client may conclude from X-Br-Exit, whatever ends br and whenever.
THEOREM OddExits == Spec => []ExitsExplained
  <1> DEFINE EInv == Inv /\ ExitsExplained
  <1>1. Init => EInv
    BY InvInit DEF Init, ExitsExplained
  <1>2. EInv /\ [Next]_vars => EInv'
    <2> SUFFICES ASSUME EInv, [Next]_vars PROVE ExitsExplained'
      BY InvStep
    <2>1. ASSUME NEW r \in Requests, Receive(r) \/ Parse(r) \/ Fork(r) PROVE ExitsExplained'
      <3>1. \/ \E s : Error(r, s)
            \/ (\E l \in {"body", "fork", "wait"} : Goto(r, l)) /\ UNCHANGED answer
        <4>1. \/ Error(r, 404) \/ Error(r, 503) \/ Error(r, Refusal(input[r]))
              \/ Error(r, 504) \/ Error(r, 500)
              \/ (\E l \in {"body", "fork", "wait"} : Goto(r, l)) /\ UNCHANGED answer
          BY <2>1 DEF Receive, Parse, Fork
        <4> QED
          BY <4>1
      <3>2. UNCHANGED <<done, committed>> /\ (br' = br \/ br' = [br EXCEPT ![r] = "running"])
        BY <2>1 DEF Receive, Parse, Fork
      <3>3. r \notin committed
        BY <2>1 DEF Receive, Parse, Fork, Inv, BrByPlace
      <3> QED
        BY <3>1, <3>2, <3>3 DEF Error, Answer, Goto, ExitsExplained, Inv, TypeOK
    <2> USE DEF Inv, TypeOK, ExitsExplained, Goto
    <2>2. ASSUME NEW r \in Requests, Expire(r) \/ Hangup(r) PROVE ExitsExplained'
      BY <2>2 DEF Expire, Hangup
    <2>3. ASSUME NEW r \in Requests, Kill(r) \/ Acquire(r) \/ Exit(r) \/ Die(r) \/ Commit(r)
          PROVE  ExitsExplained'
      BY <2>3 DEF Kill, Acquire, Exit, Die, Commit, EndBr, BrAlive, BrByPlace
    <2>4. ASSUME NEW r \in Requests, Collect(r) PROVE ExitsExplained'
      BY <2>4, NamesAssumption DEF Collect, Error, Answer, Code, Ends, Exits, BrByPlace
    <2>5. ASSUME NEW r \in Requests, Again(r) PROVE ExitsExplained'
      BY <2>5 DEF Again
    <2>6. Checkout \/ UNCHANGED vars => ExitsExplained'
      BY DEF Checkout, vars
    <2> QED
      BY <2>1, <2>2, <2>3, <2>4, <2>5, <2>6 DEF Next, Handle, BrSteps
  <1> QED
    BY <1>1, <1>2, PTL DEF Spec
=============================================================================
