----------------------------- MODULE EventText -----------------------------
(***************************************************************************)
(* The texts of an event (src/internal/events/publish.go): what truncate() *)
(* makes of a long field and sanitizeTag() of a value.  A text is its      *)
(* size: bytes, which the cap is compared with, and runes, which the cut   *)
(* is made in.  UTF-8 gives every rune one to four bytes.                  *)
(***************************************************************************)
EXTENDS Integers

Size == {s \in [bytes : Nat, runes : Nat] : s.runes <= s.bytes /\ s.bytes <= 4 * s.runes}

FieldCap == 700
Kept     == (FieldCap \div 4) * 3

\* How many runes []rune(s) has room for: the allocator rounds its 4 n bytes up
\* to a size class.  The classes around Kept are 2048 and 2304 bytes; a shorter
\* text is given no more than the first.
Capacity(n) == IF n <= 512 THEN 512 ELSE IF n <= 576 THEN 576 ELSE n

TooLong(s) == s.bytes > FieldCap

\* truncate(): slicing past the capacity panics.
TruncatePanics(s) == TooLong(s) /\ Capacity(s.runes) < Kept

\* Slicing past the length and within the capacity makes the text longer: the
\* rest of the array is zero, and string() writes each zero as a NUL.
Padded(s) == TooLong(s) /\ ~TruncatePanics(s) /\ s.runes < Kept

\* t is what truncate() leaves of s, when it returns.
IsTruncated(t, s) ==
    /\ t \in Size
    /\ IF TooLong(s) THEN t.runes = Kept /\ t.bytes <= s.bytes + (IF Padded(s) THEN Kept - s.runes ELSE 0)
                     ELSE t = s

TagCap   == 60
TopicMax == 64  \* validTopic

\* The length of sanitizeTag() of n runes: one byte for each.
TagLen(n) == IF n = 0 THEN 1 ELSE IF n > TagCap THEN TagCap ELSE n

\* publishEvent(): the dispatch topic is the prefix and the sanitized assignee.
DispatchLen(prefix, n) == prefix + TagLen(n)

\* The broker takes a message on a topic of at most TopicMax characters.
TopicOk(n) == n \in 1..TopicMax
=============================================================================
