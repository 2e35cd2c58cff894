--------------------------- MODULE MCEventTail ---------------------------
(* The instances of EventTail that TLC checks.                             *)
EXTENDS EventTail, TLC

CONSTANTS a, b

\* Row 2 is an assignment, row 1 creates an issue, the others route nowhere.
AssignedIds == {2}
CreatedIds == {1}

\* What a row may hold: a short text; one of 240 runes of three bytes each; a
\* long one whose title is changed before or after the query reads it; an
\* assignee of 80 letters.
Short == [fields |-> {[bytes |-> 20, runes |-> 20], [bytes |-> 900, runes |-> 900]}, assignee |-> 5]
Wide  == [fields |-> {[bytes |-> 20, runes |-> 20], [bytes |-> 720, runes |-> 240]}, assignee |-> 5]
Named == [Short EXCEPT !.assignee = 80]
ShortTexts == [i \in 1..MaxId |-> {Short}]
ThirdMayBeWide == [i \in 1..MaxId |-> IF i = 3 THEN {Short, Wide} ELSE {Short}]
SecondIsWide == [i \in 1..MaxId |-> IF i = 2 THEN {Wide} ELSE {Short}]
SecondIsNamed == [i \in 1..MaxId |-> IF i = 2 THEN {Named} ELSE {Short}]

\* At most two rows over both repos: one drains a batch of two while the
\* other resolves and saves, or each drains one.
TwoRows == nextId[a] + nextId[b] <= 4

RepoSymmetry == Permutations({a, b})
=============================================================================
