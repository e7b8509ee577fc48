------------------------------ MODULE RangeMap ------------------------------
(* The map of half-open runs of keys to values that numbers forwarded RTP  *)
(* packets (pkg/sfu/utils/rangemap.go): closed ranges, then one open range *)
(* that has no end.  A key between two ranges has been excluded, a key     *)
(* before the first is too old.  Values are offsets; the code's unsigned   *)
(* arithmetic wraps, so that a negative offset here is the same offset.    *)
EXTENDS Integers, Sequences

\* ClearAndResetValue.
Reset(start, value) == <<[start |-> start, end |-> 0, value |-> value]>>

OpenRange(R) == R[Len(R)]

Closed(R) == 1..(Len(R) - 1)

\* GetValue finds a value, and the value it finds.
Has(R, key) ==
  key >= OpenRange(R).start \/ \E i \in Closed(R) : key \in R[i].start..R[i].end
ValueAt(R, key) ==
  IF key >= OpenRange(R).start THEN OpenRange(R).value
  ELSE R[CHOOSE i \in Closed(R) : key \in R[i].start..R[i].end].value

\* The oldest ranges go when there are more than size closed ones.
Prune(R, size) == IF Len(R) > size + 1 THEN SubSeq(R, Len(R) - size, Len(R)) ELSE R

\* The open range ends at end, and another begins at start with the value.
Split(R, size, end, start, value) ==
  Prune(Append([R EXCEPT ![Len(R)].end = end],
               [start |-> start, end |-> 0, value |-> value]), size)

\* Mutant: the value changes for the keys before end too.
MutDecValue(R, size, end, dec) == [R EXCEPT ![Len(R)].value = @ - dec]

\* Take dec from the value of everything after end.
DecValue(R, size, end, dec) ==
  IF OpenRange(R).start > end THEN [R EXCEPT ![Len(R)].value = @ - dec]
  ELSE Split(R, size, end, end + 1, OpenRange(R).value - dec)

\* The keys from..to have no value, and those after it a value that skips them.
\* (An exclusion before the open range is an error and changes nothing.)
ExcludeRange(R, size, from, to) ==
  LET value == OpenRange(R).value + (to - from + 1) IN
  IF OpenRange(R).start > from THEN R
  ELSE IF OpenRange(R).start = from
       THEN [R EXCEPT ![Len(R)] = [start |-> to + 1, end |-> 0, value |-> value]]
       ELSE Split(R, size, from - 1, to + 1, value)

=============================================================================
