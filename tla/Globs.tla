-------------------------------- MODULE Globs -------------------------------
(***************************************************************************)
(* The wildcard of a scope's target names, twice: the Python package makes *)
(* a regular expression of the pattern, the TypeScript one searches for    *)
(* its literal parts from left to right. A pattern and a name are          *)
(* sequences of characters; "*" is the only wildcard.                      *)
(***************************************************************************)
EXTENDS Integers, Sequences, SequencesExt

\* Characters that `.` of a regular expression does not match.
LineEnds == {"\n"}

\* `re.fullmatch` of the pattern with `.*` for each star: m[i, j] says that the pattern from i
\* on matches the value from j on.
GlobMatch(pattern, value) ==
    LET m[i \in 1..Len(pattern) + 1, j \in 1..Len(value) + 1] ==
            IF i > Len(pattern) THEN j > Len(value)
            ELSE IF pattern[i] = "*"
                 THEN \E k \in j..Len(value) + 1 :
                        /\ \A l \in j..k - 1 : value[l] \notin LineEnds
                        /\ m[i + 1, k]
                 ELSE j <= Len(value) /\ pattern[i] = value[j] /\ m[i + 1, j + 1]
    IN  m[1, 1]

\* `pattern.split("*")`: one more part than there are stars.
Parts(pattern) ==
    LET Split(acc, c) == IF c = "*" THEN Append(acc, <<>>)
                         ELSE [acc EXCEPT ![Len(acc)] = Append(@, c)]
    IN  FoldLeft(Split, << <<>> >>, pattern)

\* `value.indexOf(part, from)` as the number of characters before the first find; -1 if none.
IndexOf(value, part, from) ==
    LET finds == {i \in from..Len(value) - Len(part) :
                    SubSeq(value, i + 1, i + Len(part)) = part}
    IN  IF finds = {} THEN -1 ELSE CHOOSE i \in finds : \A j \in finds : i <= j

\* Mutant: the last part is looked for at the end, also where an earlier part lies.
GlobSearchOverlap(pattern, value) ==
    LET parts == Parts(pattern)
        Step(position, i) ==
            LET found == IndexOf(value, parts[i], position)
            IN  IF position < 0 \/ found < 0 THEN -1 ELSE found + Len(parts[i])
        reached == FoldLeft(Step, Len(parts[1]), [i \in 1..Len(parts) - 2 |-> i + 1])
    IN  IF Len(parts) = 1 THEN pattern = value
        ELSE IsPrefix(parts[1], value) /\ reached >= 0 /\ IsSuffix(Last(parts), value)

\* `globMatch` of the TypeScript package: the first part at the start, each further part at its
\* first place after the one before, the last one at the end and past the others.
GlobSearch(pattern, value) ==
    LET parts == Parts(pattern)
        Step(position, i) ==
            LET found == IndexOf(value, parts[i], position)
            IN  IF position < 0 \/ found < 0 THEN -1 ELSE found + Len(parts[i])
        reached == FoldLeft(Step, Len(parts[1]), [i \in 1..Len(parts) - 2 |-> i + 1])
    IN  IF Len(parts) = 1 THEN pattern = value
        ELSE /\ IsPrefix(parts[1], value)
             /\ reached >= 0 /\ Len(value) - reached >= Len(Last(parts))
             /\ IsSuffix(Last(parts), value)
=============================================================================
