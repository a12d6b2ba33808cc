------------------------------ MODULE AbstractStore ------------------------------
(* What the control store of a zone promises: a value that was acknowledged is    *)
(* in the file, or a later one of the same field is, through failed writes and    *)
(* restarts.  Of the display snapshot it promises less: it never goes back, but   *)
(* one that was acknowledged may be missing, if it is older than one whose write  *)
(* has failed.  The values of a field are numbered in the order of their time.    *)
EXTENDS Naturals

CONSTANTS
  Field,
  Shown     \* the field of the display snapshot

VARIABLES
  wanted,   \* number of the newest value of each field that was asked for
  kept,     \* newest value of each field whose write was acknowledged
  failed,   \* newest snapshot whose write was reported as failed
  file      \* value of each field that a restart would find

vars == <<wanted, kept, failed, file>>

Zero == [f \in Field |-> 0]
Init == wanted = Zero /\ kept = Zero /\ failed = 0 /\ file = Zero

Ask ==
  /\ wanted' \in [Field -> Nat] /\ \A f \in Field : wanted[f] <= wanted'[f]
  /\ UNCHANGED <<kept, failed, file>>

\* The file changes as a whole; whatever a failed write leaves there was asked for, and
\* is no older than what is safe.
Write ==
  /\ file' \in [Field -> Nat]
  /\ \A f \in Field : /\ file'[f] <= wanted[f]
                       /\ IF f = Shown THEN file[f] <= file'[f] ELSE kept[f] <= file'[f]
  /\ UNCHANGED <<wanted, kept, failed>>

\* The caller is told that its value is safe.
Acknowledge ==
  /\ kept' \in [Field -> Nat] /\ \A f \in Field : kept[f] <= kept'[f]
  /\ \A f \in Field : \/ kept'[f] \in {kept[f]} \union 0 .. file[f]
                      \/ f = Shown /\ kept'[f] < failed
  /\ UNCHANGED <<wanted, failed, file>>

\* A caller is told that its write has failed: the snapshot in it may not be in the file.
Fail ==
  /\ failed' \in failed .. wanted[Shown]
  /\ UNCHANGED <<wanted, kept, file>>

Next == Ask \/ Write \/ Acknowledge \/ Fail
Spec == Init /\ [][Next]_vars
=============================================================================
