------------------------------ MODULE AbstractZone ------------------------------
(* What a zone promises to whoever reads its sensors: what it shows is computed *)
(* from one state of the sources, it never goes back to an earlier state, and   *)
(* once the sources are quiet it shows the latest.  A zone that is closed shows *)
(* nothing new; one that is opened again starts without a result.               *)
EXTENDS Naturals

CONSTANT Zone

VARIABLES
  world,   \* version of the sources and settings of each zone
  shown,   \* version that the zone's last published result was computed from
  open     \* whether the zone is set up

vars == <<world, shown, open>>

Init ==
  /\ world = [z \in Zone |-> 1]
  /\ shown = [z \in Zone |-> 0]
  /\ open = [z \in Zone |-> TRUE]

\* A source reports or a setting is changed.
Change(z) ==
  /\ world' = [world EXCEPT ![z] = @ + 1]
  /\ UNCHANGED <<shown, open>>

\* A result is published, of a version at least as new as the one shown.
Show(z) ==
  /\ open[z]
  /\ \E v \in shown[z] .. world[z] : shown' = [shown EXCEPT ![z] = v]
  /\ UNCHANGED <<world, open>>

Close(z) ==
  /\ open[z] /\ open' = [open EXCEPT ![z] = FALSE]
  /\ UNCHANGED <<world, shown>>

Reopen(z) ==
  /\ ~open[z] /\ open' = [open EXCEPT ![z] = TRUE]
  /\ shown' = [shown EXCEPT ![z] = 0]
  /\ UNCHANGED world

Next == \E z \in Zone : Change(z) \/ Show(z) \/ Close(z) \/ Reopen(z)

\* An open zone catches up with its sources or the sources change again.
CatchesUp ==
  \A z \in Zone : []<>(open[z] => shown[z] = world[z]) \/ []<><<Change(z)>>_vars

SafeSpec == Init /\ [][Next]_vars
Spec == SafeSpec /\ CatchesUp
=============================================================================
