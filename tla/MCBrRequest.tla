---------------------------- MODULE MCBrRequest ----------------------------
(* Concurrent requests to one repo, over the vectors that the policy tells *)
(* apart.                                                                  *)
EXTENDS BrRequest, TLC

CONSTANTS q1, q2, q3

PlainTexts  == {"ready", "create", "comments", "delete", "json", "csv", "toon", "5000", "", "text",
                "amy", "error", "/x"}
DashedTexts == {"--db", "--actor", "--json", "--robot", "--format", "--lock-timeout", "--"}
Served      == {"ready", "create", "comments"}
Writers     == {"create", "comments", "delete"}

Env == {[name |-> n, value |-> "/x"] : n \in {"HOME", "BEADS_DIR", "BD_ACTOR", "RUST_LOG"}}

Asked(args) == [fault |-> "none", args |-> args, actor |-> "amy"]
Faulty(f) == [fault |-> f, args |-> <<>>, actor |-> ""]

Read       == Asked(<<Word("ready"), Word("--format"), Word("csv"), Word("--json")>>)
Write      == Asked(<<Word("create"), [name |-> "--lock-timeout", value |-> "5000"]>>)
Refusable  == {<<>>, <<Word("--json"), Word("ready")>>, <<Word("delete")>>,
               <<Word("ready"), [name |-> "--db", value |-> "/x"]>>,
               <<Word("create"), Word("--actor"), Word("amy")>>}
OwnFormat  == [Asked(<<Word("ready")>>) EXCEPT !.actor = ""]
Dashes     == Asked(<<Word("comments"), Word("--"), Word("--json")>>)

AllAsks    == {Read, Write, OwnFormat} \cup {Asked(a) : a \in Refusable}
                  \cup {Faulty(f) : f \in {"unknown repo", "bad body", "bad actor"}}
JustWrite  == {Write}
JustDashes == {Dashes}

Symmetric == Permutations(Requests)
=============================================================================
