------------------------------ MODULE WebText ------------------------------
(* Pure helpers of the web front end: winlin.utility.js and the filters and  *)
(* $sc_utility of the console. A text is a sequence of characters. The ratio *)
(* between two units is a constant (1024 and 1000 in the code).              *)
EXTENDS Integers, Sequences, SequencesExt

CONSTANTS FileBase, RateBase

ASSUME BaseAssumption == {FileBase, RateBase} \subseteq Nat \ {0, 1}

-----------------------------------------------------------------------------
(* Mutant: the element that moved up is skipped.                             *)
RECURSIVE SkipRemoveFrom(_, _, _)
SkipRemoveFrom(arr, elem, i) ==
  IF i > Len(arr) THEN arr
  ELSE SkipRemoveFrom(IF arr[i] = elem THEN RemoveAt(arr, i) ELSE arr, elem, i + 1)
SkippingRemove(arr, elem) == SkipRemoveFrom(arr, elem, 1)

(* Arrays: one occurrence after the other is spliced out, the search going   *)
(* on where the last one was.                                                *)
RECURSIVE RemoveFrom(_, _, _)
RemoveFrom(arr, elem, i) ==
  IF i > Len(arr) THEN arr
  ELSE IF arr[i] = elem THEN RemoveFrom(RemoveAt(arr, i), elem, i)
  ELSE RemoveFrom(arr, elem, i + 1)
system_array_remove(arr, elem) == RemoveFrom(arr, elem, 1)

system_array_contains(arr, elem) == SelectInSeq(arr, LAMBDA e : e = elem) # 0

array_actual_equals(a, b) ==
  /\ \A i \in DOMAIN a : system_array_contains(b, a[i])
  /\ \A i \in DOMAIN b : system_array_contains(a, b[i])

-----------------------------------------------------------------------------
(* Texts. indexOf is the first place of flag, -1 (here: no value) without.   *)
At(str, flag, i) == SubSeq(str, i, i + Len(flag) - 1) = flag
indexOf(str, flag) == SelectInSeq([i \in 1 .. Len(str) - Len(flag) + 1 |-> i],
                                  LAMBDA i : At(str, flag, i))

system_string_startswith(str, flag) ==
  str # <<>> /\ flag # <<>> /\ Len(str) >= Len(flag) /\ indexOf(str, flag) = 1

(* The first place of flag is compared with the end.                         *)
system_string_endswith(str, flag) ==
  /\ str # <<>> /\ flag # <<>> /\ Len(str) >= Len(flag)
  /\ indexOf(str, flag) = Len(str) - Len(flag) + 1

RECURSIVE TrimStart(_, _)
TrimStart(str, flag) ==
  IF system_string_startswith(str, flag) THEN TrimStart(SubSeq(str, Len(flag) + 1, Len(str)), flag)
  ELSE str
RECURSIVE TrimEnd(_, _)
TrimEnd(str, flag) ==
  IF system_string_endswith(str, flag) THEN TrimEnd(SubSeq(str, 1, Len(str) - Len(flag)), flag)
  ELSE str
system_string_trim(str, flag) == TrimEnd(TrimStart(str, flag), flag)

(* padding(number, length, prefix)                                           *)
RECURSIVE padding(_, _, _)
padding(digits, length, prefix) ==
  IF Len(digits) >= length THEN digits ELSE padding(<<prefix>> \o digits, length, prefix)

RECURSIVE Digits(_)
Digits(n) == IF n < 10 THEN <<n>> ELSE Append(Digits(n \div 10), n % 10)

(* The time of day of that second of 1970.                                   *)
relative_seconds_to_HHMMSS(s) ==
  padding(Digits((s \div 3600) % 24), 2, 0) \o padding(Digits((s \div 60) % 60), 2, 0)
    \o padding(Digits(s % 60), 2, 0)

-----------------------------------------------------------------------------
(* Sizes and rates: the largest unit v exceeds, and the number shown, in     *)
(* units of 1 / scale, rounded as toFixed does.                              *)
UnitOf(v, base) ==
  IF v > base ^ 4 THEN 4 ELSE IF v > base ^ 3 THEN 3 ELSE IF v > base ^ 2 THEN 2
  ELSE IF v > base THEN 1 ELSE 0
toFixed(v, unit, scale) == (2 * v * scale + unit) \div (2 * unit)
Shown(v, base, scale) ==
  LET k == UnitOf(v, base) IN [unit |-> k, number |-> toFixed(v, base ^ k, scale)]

sc_filter_filesize_k(v) == Shown(v, FileBase, 100)
sc_filter_filesize_k2(v) == Shown(v, FileBase, 1)
sc_filter_filerate_k(v) == Shown(v, FileBase, 100)
sc_filter_filerate_k2(v) == Shown(v, FileBase, 1)
sc_filter_bitrate_k(v) == Shown(v, RateBase, 100)
sc_filter_bitrate_k2(v) == Shown(v, RateBase, 1)

=============================================================================
