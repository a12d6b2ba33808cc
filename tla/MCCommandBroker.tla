--------------------------- MODULE MCCommandBroker ---------------------------
(* Values for the constants of CommandBroker, for TLC. *)
EXTENDS CommandBroker, TLC

\* The kinds of intent that the callers of async_submit build.
Ordinary == [explicit |-> FALSE, safety |-> FALSE, recovery |-> FALSE, held |-> FALSE,
             timed |-> TRUE]
HeldBack == [Ordinary EXCEPT !.held = TRUE]
Explicit == [Ordinary EXCEPT !.explicit = TRUE]
Recovery == [Explicit EXCEPT !.recovery = TRUE]
Safety == [Explicit EXCEPT !.safety = TRUE]
Guarding == [Safety EXCEPT !.timed = FALSE]

FeedbackKinds == {HeldBack, Recovery, Guarding}
OneKind == {Explicit}
ClockedAndNot == {Explicit, Guarding}

ValueSymmetry == Permutations(Val)
Symmetry == Permutations(Task) \union Permutations(Val)
=============================================================================
