---------------------------- MODULE Invocation ----------------------------
(***************************************************************************)
(* What br is run with: the argv policy (buildArgv and its helpers in      *)
(* src/internal/server/server.go) and br's environment (childEnv in        *)
(* src/internal/brexec/brexec.go).                                         *)
(*                                                                         *)
(* A word of an argument vector is the part before its first "=" and the   *)
(* part behind it; the code compares whole words and "flag=" prefixes, and *)
(* needs no more.  How br reads the vector is external: a word that begins *)
(* with a dash is an option up to the word "--", and plain behind it.      *)
(***************************************************************************)
EXTENDS Sequences, Integers

CONSTANTS
    Plain,       \* texts that do not begin with a dash
    Dashed,      \* texts that do
    NoValue,     \* the value of a word without "="
    Allow,       \* Config.Allow: the permitted subcommands
    InjectJSON   \* Config.InjectJSON

DeniedFlags == {"--db", "--actor"}
Formats     == {"--json", "--robot", "--format"}

ASSUME WordsAssumption ==
    /\ DeniedFlags \cup Formats \cup {"--lock-timeout", "--"} \subseteq Dashed
    /\ Plain \cap Dashed = {} /\ NoValue \notin Plain
    /\ {"json", "csv", "5000", ""} \subseteq Plain
    /\ Allow \subseteq Plain /\ InjectJSON \in BOOLEAN

Text  == Plain \cup Dashed
Words == [name : Text, value : Text \cup {NoValue}]
Word(text) == [name |-> text, value |-> NoValue]

-----------------------------------------------------------------------------
(* The policy.                                                             *)

\* Bug: a denied flag is looked for as a whole word only.
DeniedFlagMutant(w) == w.name \in DeniedFlags /\ w.value = NoValue

\* deniedFlag(): the flag itself, or "flag=...".
DeniedFlag(w) == w.name \in DeniedFlags

HasFlag(args, flag) == \E i \in DOMAIN args : args[i].name = flag

\* The words requestedFormat() takes for a choice of format.
ChoosesFormat(w) == w.name = "--format" \/ w \in {Word("--json"), Word("--robot")}
Choices(args) == {i \in DOMAIN args : ChoosesFormat(args[i])}

\* The format that the word at i asks for.
FormatAt(args, i) ==
    IF args[i].name # "--format" THEN Word("json")
    ELSE IF args[i].value # NoValue THEN Word(args[i].value)
    ELSE IF i < Len(args) THEN args[i + 1]
    ELSE Word("")

\* requestedFormat(): the first choice counts.
FirstChoice(args) == CHOOSE i \in Choices(args) : \A j \in Choices(args) : i <= j

ContentTypeFor(format) ==
    CASE format = Word("json") -> "application/json"
      [] format = Word("csv")  -> "text/csv"
      [] OTHER                 -> "text/plain"

ContentType(args) ==
    IF Choices(args) # {} THEN ContentTypeFor(FormatAt(args, FirstChoice(args)))
    ELSE IF InjectJSON THEN "application/json" ELSE "text/plain"

\* The status buildArgv() refuses args with; 0 when it does not.
PolicyStatus(args) ==
    IF args = <<>> \/ Head(args).name \in Dashed THEN 400
    ELSE IF \/ Head(args) \notin {Word(c) : c \in Allow}
            \/ \E i \in DOMAIN args : DeniedFlag(args[i])
         THEN 403
    ELSE 0

\* The global flags the daemon puts in front.
Globals(args) ==
    (IF HasFlag(args, "--lock-timeout") THEN <<>> ELSE <<Word("--lock-timeout"), Word("5000")>>)
        \o (IF Choices(args) = {} /\ InjectJSON THEN <<Word("--json")>> ELSE <<>>)

BuildArgv(args) == Globals(args) \o args

-----------------------------------------------------------------------------
(* The environment: a set of definitions.                                  *)

Hostile == {"BEADS_DIR", "BD_DB", "BD_DATABASE", "BD_ACTOR", "BR_OUTPUT_FORMAT",
            "TOON_DEFAULT_FORMAT", "RUST_LOG"}

\* Bug: only the workspace variables are scrubbed.
ChildEnvMutant(parent, actor) ==
    {d \in parent : d.name \notin {"BEADS_DIR", "BD_DB", "BD_DATABASE", "RUST_LOG"}}
        \cup {[name |-> "RUST_LOG", value |-> "error"]}
        \cup (IF actor = "" THEN {} ELSE {[name |-> "BD_ACTOR", value |-> actor]})

ChildEnv(parent, actor) ==
    {d \in parent : d.name \notin Hostile}
        \cup {[name |-> "RUST_LOG", value |-> "error"]}
        \cup (IF actor = "" THEN {} ELSE {[name |-> "BD_ACTOR", value |-> actor]})

-----------------------------------------------------------------------------
(* How br reads what it is given, and what the daemon promises of it.      *)

Options(argv) ==
    {i \in DOMAIN argv : argv[i].name \in Dashed
                         /\ \A j \in 1..i : argv[j] # Word("--")}

\* The formats br has been told to answer in; its own choice is text.
Told(argv) ==
    LET chosen == Choices(argv) \cap Options(argv)
    IN IF chosen = {} THEN {Word("text")} ELSE {FormatAt(argv, i) : i \in chosen}

\* "[E]ach one breaks a promise the URL makes": br is not told another workspace
\* or another actor, neither by an option nor by its environment; and what the
\* caller asked is all there, behind the daemon's own words.
Promised(args, parent, actor) ==
    LET argv == BuildArgv(args)
        env  == ChildEnv(parent, actor)
    IN /\ \A i \in Options(argv) : argv[i].name \notin DeniedFlags
       /\ SubSeq(argv, Len(argv) - Len(args) + 1, Len(argv)) = args
       /\ \A d \in env : d.name \notin {"BEADS_DIR", "BD_DB", "BD_DATABASE"}
       /\ \A d \in env : d.name = "BD_ACTOR" => d.value = actor

\* br is told how long to wait for the lock.
Bounded(args) ==
    LET argv == BuildArgv(args)
    IN \E i \in Options(argv) : argv[i].name = "--lock-timeout"

\* The answer is labelled as a format that br was told to answer in.
Labelled(args) ==
    \E f \in Told(BuildArgv(args)) : ContentType(args) = ContentTypeFor(f)
=============================================================================
