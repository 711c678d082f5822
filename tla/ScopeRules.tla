----------------------------- MODULE ScopeRules -----------------------------
(***************************************************************************)
(* The structured scope of a delegation: which records it forbids and when *)
(* one scope lies within another. A scope has `targets` and `locations`,   *)
(* each None or a set, `denied`, a set of labels, and `max`, None or a     *)
(* number. A target, in a record or a pattern, is a function from some of  *)
(* the fields type, name, provider and location.                           *)
(***************************************************************************)
EXTENDS NoValue, Integers, Sequences, FiniteSets

CONSTANT Matches  \* the pairs <<pattern, name>> that glob_match accepts

StructuralKinds == {"run_start", "run_end", "anchor", "tombstone"}
DataTargetTypes == {"model", "tool", "memory"}

\* `Scope.parse` of a delegation without a scope.
NoScope == [targets |-> None, locations |-> None, denied |-> {}, max |-> None]

\* `Scope.parse` takes it: no pattern is empty and a limit is positive.
ScopeParses(scope) ==
    /\ scope.targets # None => \A pattern \in scope.targets : DOMAIN pattern # {}
    /\ scope.max # None => scope.max > 0

\* One target against a pattern, and one pattern against a wider one

TargetMatches(pattern, target) ==
    \A f \in DOMAIN pattern :
        /\ f \in DOMAIN target
        /\ IF f = "name" THEN <<pattern.name, target.name>> \in Matches
           ELSE pattern[f] = target[f]

\* Mutant: a field the narrower pattern leaves open is not compared.
PatternCoversOpen(wide, narrow) ==
    \A f \in DOMAIN wide \cap DOMAIN narrow :
        \/ wide[f] = narrow[f]
        \/ f = "name" /\ <<wide.name, narrow.name>> \in Matches

\* `_covers`
PatternCovers(wide, narrow) ==
    \A f \in DOMAIN wide :
        /\ f \in DOMAIN narrow
        /\ wide[f] = narrow[f] \/ (f = "name" /\ <<wide.name, narrow.name>> \in Matches)

\* `scope_within` finds nothing to object to.
ScopeWithin(child, parent) ==
    /\ parent.targets # None =>
        /\ child.targets # None
        /\ \A narrow \in child.targets : \E wide \in parent.targets : PatternCovers(wide, narrow)
    /\ parent.locations # None => child.locations # None /\ child.locations \subseteq parent.locations
    /\ parent.denied \subseteq child.denied
    /\ parent.max # None => child.max # None /\ child.max <= parent.max
-----------------------------------------------------------------------------
\* `Scope.findings` of one record, one part for each check

LocationOf(target) == IF "location" \in DOMAIN target THEN target.location ELSE "unknown"

OutsideTargets(scope, x) ==
    scope.targets # None /\ \A pattern \in scope.targets : ~TargetMatches(pattern, x.target)

OutsideLocations(scope, x) ==
    /\ scope.locations # None
    /\ x.target.type \in DataTargetTypes
    /\ LocationOf(x.target) \notin scope.locations

\* Mutant: every record past the limit is reported.
ScopeFindingsAllPast(scope, x, count) ==
    {c \in {"scope.max_records", "scope.target", "scope.location", "scope.label"} :
        \/ c = "scope.max_records" /\ scope.max # None /\ count > scope.max
        \/ /\ x.kind \notin StructuralKinds
           /\ \/ c = "scope.target" /\ OutsideTargets(scope, x)
              \/ c = "scope.location" /\ OutsideLocations(scope, x)
              \/ c = "scope.label" /\ scope.denied \cap x.labels # {}}

ScopeFindings(scope, x, count) ==
    {c \in {"scope.max_records", "scope.target", "scope.location", "scope.label"} :
        \/ c = "scope.max_records" /\ scope.max # None /\ count = scope.max + 1
        \/ /\ x.kind \notin StructuralKinds
           /\ \/ c = "scope.target" /\ OutsideTargets(scope, x)
              \/ c = "scope.location" /\ OutsideLocations(scope, x)
              \/ c = "scope.label" /\ scope.denied \cap x.labels # {}}
=============================================================================
