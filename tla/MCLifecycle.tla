------------------------------ MODULE MCLifecycle ------------------------------
(* ZoneController, ControlStore, TargetLeases and TimedModes for TLC, side by   *)
(* side: the initial state chooses the part that moves, the others stand still. *)
EXTENDS ZoneController, ControlStore, TargetLeases, TimedModes

VARIABLE part

lifeVars == <<part, controllerVars, storeVars, leaseVars, modesVars>>

LifeInit ==
  /\ part \in {"controller", "store", "leases", "modes"}
  /\ ControllerInit /\ StoreInit /\ LeaseInit /\ ModesInit
  /\ part # "leases" => \A z \in Household : configured[z] = {}
  /\ part # "modes" => occupancy = "on"

LifeNext ==
  /\ UNCHANGED part
  /\ \/ /\ part = "controller" /\ ControllerNext /\ UNCHANGED <<storeVars, leaseVars, modesVars>>
     \/ /\ part = "store" /\ StoreNext /\ UNCHANGED <<controllerVars, leaseVars, modesVars>>
     \/ /\ part = "leases" /\ LeaseNext /\ UNCHANGED <<controllerVars, storeVars, modesVars>>
     \/ /\ part = "modes" /\ ModesNext /\ UNCHANGED <<controllerVars, storeVars, leaseVars>>

\* The fairness is that of the controller, the only part with a liveness property.
LifeSpec == LifeInit /\ [][LifeNext]_lifeVars /\ ControllerFairness

\* The type invariants of all parts: what the controllers, the store, the leases and the
\* timed modes keep is what the code can put there.
LifeTypeOK == ControllerTypeOK /\ StoreTypeOK /\ LeaseTypeOK /\ ModesTypeOK

-----------------------------------------------------------------------------
MCMaxWorld == LET busy == CHOOSE z \in Zone : TRUE
              IN [z \in Zone |-> IF z = busy THEN 4 ELSE 1]
=============================================================================
