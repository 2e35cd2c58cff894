----------------------------- MODULE MCStartup -----------------------------
(* One unit, two paths, and a config file that is edited.                  *)
EXTENDS Startup

CONSTANTS p, q, x, y

BaseOf == [h \in {p, q} |-> IF h = p THEN "a" ELSE "b"]

Named(n, h) == [name |-> n, path |-> h]
Both       == [repos |-> <<Named("a", p), Named("b", q)>>, notify |-> {}]
OnlyFirst  == [repos |-> <<Named("", p), Named("b", q)>>, notify |-> {"a"}]
SameName   == [repos |-> <<Named("", p), Named("a", q)>>, notify |-> {}]
Unserved   == [repos |-> <<Named("b", q)>>, notify |-> {"a"}]
Quiet      == [repos |-> <<Named("b", q)>>, notify |-> NoNotify]

AllConfigs == {OnlyFirst, SameName, Unserved, Quiet}
JustBoth   == {Both}
=============================================================================
