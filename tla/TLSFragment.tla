---------------------------- MODULE TLSFragment -----------------------------
(***************************************************************************)
(* The split of a ClientHello record into four smaller records             *)
(* (tls_fragment.go with the defaults handleTLSFragment passes: 4 records, *)
(* 1 segment, no OOB data).  A record is [len, pos, name, dots]: its bytes *)
(* with the header, the index and the length of the server name, and the   *)
(* indices of the bytes that hold a '.'.  A range <<i, j>> stands for the  *)
(* bytes i .. j - 1 of it.                                                 *)
(***************************************************************************)
EXTENDS Integers, Sequences, SequencesExt, FiniteSetsExt

HeaderLen == 5

\* The loop begins one byte behind the name and reads downwards.
LastDot(h) == {i \in h.dots : h.pos <= i /\ i <= h.pos + h.name}
findLastDot(h) ==
    IF LastDot(h) = {} THEN h.pos + h.name \div 2 ELSE Max(LastDot(h))

\* That first byte may lie behind the record: an index out of range.
Panics(h) == h.pos + h.name >= h.len

\* A mutant: the rest of the division is dropped.
splitAndAppendDropsRest(from, to, n) ==
    IF to - from < n THEN <<<<from, to>>>>
    ELSE LET base == (to - from) \div n
         IN  [i \in 1 .. n |-> <<from + (i - 1) * base, from + i * base>>]

\* splitAndAppend: n parts of equal length, the last one takes the rest.
splitAndAppend(from, to, n) ==
    IF to - from < n THEN <<<<from, to>>>>
    ELSE LET base == (to - from) \div n
         IN  [i \in 1 .. n |->
                 <<from + (i - 1) * base,
                   IF i = n THEN to ELSE from + i * base>>]

\* The payloads of the records sendRecords writes, in order.
sendRecords(h) ==
    LET cut == findLastDot(h)
    IN  splitAndAppend(HeaderLen, cut, 2) \o splitAndAppend(cut, h.len, 2)
=============================================================================
