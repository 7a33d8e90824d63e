------------------------------- MODULE EqlArray -------------------------------
(***************************************************************************)
(* The EQL function arrayContains (internal/pkg/eql/methods_array.go),     *)
(* evaluated on every argument list up to a bound and compared with what   *)
(* it promises: whether any of the later arguments is a member of the      *)
(* array given first.  An EQL array is a sequence; null is its own value.  *)
(***************************************************************************)
EXTENDS Naturals, SequencesExt

CONSTANTS Scalars,   \* EQL scalar values
          Null,      \* the EQL null value (*null)
          MaxLen     \* the longest array and argument list enumerated

Arrays == BoundedSeq(Scalars, MaxLen)
Values == Scalars \cup {Null} \cup Arrays

VARIABLES args,    \* the argument list
          result   \* what arrayContains returned, <<>> before it is called

vars == <<args, result>>

\* A return of arrayContains: an error, or a boolean.
Error == [err |-> TRUE, val |-> FALSE]
Bool(b) == [err |-> FALSE, val |-> b]

-----------------------------------------------------------------------------
\* The inner loop: reflect.DeepEqual of each element with check.
RECURSIVE InArray(_, _)
InArray(a, check) ==
    IF a = <<>> THEN FALSE ELSE Head(a) = check \/ InArray(Tail(a), check)

\* Plausible bug: the outer loop looks at the first check only.
ContainsAnyFirstOnly(a, checks) == checks # <<>> /\ InArray(a, Head(checks))

\* The outer loop over args[1:].
RECURSIVE ContainsAny(_, _)
ContainsAny(a, checks) ==
    IF checks = <<>> THEN FALSE
    ELSE InArray(a, Head(checks)) \/ ContainsAny(a, Tail(checks))

\* arrayContains: fewer than 2 arguments or a first argument that is not an
\* array is an error; null contains nothing.
ArrayContains(as) ==
    CASE Len(as) < 2       -> Error
      [] as[1] = Null      -> Bool(FALSE)
      [] as[1] \in Arrays  -> Bool(ContainsAny(as[1], Tail(as)))
      [] OTHER             -> Error

\* What the function promises, by sets.
Expected(as) ==
    IF Len(as) < 2 \/ as[1] \notin Arrays \cup {Null} THEN Error
    ELSE Bool(as[1] # Null /\ \E k \in 2..Len(as) : as[k] \in ToSet(as[1]))

-----------------------------------------------------------------------------
Init == args \in BoundedSeq(Values, MaxLen) /\ result = <<>>

\* The EQL evaluator calls arrayContains with the argument list.
Evaluate ==
    /\ result = <<>>
    /\ result' = ArrayContains(args)
    /\ UNCHANGED args

Spec == Init /\ [][Evaluate]_vars

\* arrayContains returns true exactly when some argument after the first is
\* an element of the first, false for null or no match, and an error for a
\* short list or a non-array first argument.
MatchesReference == result # <<>> => result = Expected(args)

=============================================================================
