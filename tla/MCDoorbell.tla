---------------------------- MODULE MCDoorbell ----------------------------
(* One or two repos, up to three clients, channels of one event.           *)
EXTENDS Doorbell

CONSTANTS r1, r2, c1, c2, c3

\* The first repo is written twice, so that a write can come between any two
\* steps of what the one before it set off; the second is written once.
WritesOf == [r \in Repos |-> IF r = r1 THEN 2 ELSE 1]

\* The second client asks for all repos, as with no ?repo= at all, or for the
\* first; the others always for the same.
QueriesOf == [c \in Clients |->
                CASE c = c1 -> {Repos}
                  [] c = c2 -> {Repos, {r1}}
                  [] OTHER  -> {Repos \ {r1}}]
=============================================================================
