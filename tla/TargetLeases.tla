------------------------------ MODULE TargetLeases ------------------------------
(* Which zone may drive a climate entity: the registry of leases that all zones *)
(* share (TargetLeaseRegistry) and the life of a zone's config entry around it  *)
(* (async_start, async_set_control_enabled, async_unload, the reload that a     *)
(* reconfiguration asks for).                                                   *)
EXTENDS Naturals, FiniteSets

CONSTANTS
  Household,             \* the config entries (zones)
  Climate,               \* the climate entities
  Unleased,              \* no owner
  MaxLeaseSteps          \* bound: reconfigurations, loads and switches

ASSUME LeaseAssumption == Unleased \notin Household /\ MaxLeaseSteps \in Nat

VARIABLES
  configured,  \* entry.data["targets"] of a zone: written by the config flow
  life,        \* stage of the zone's config entry
  enabled,     \* control_enabled, in the options and in the running object
  owner,       \* TargetLeaseRegistry._owners
  owned,       \* targets that a zone has enabled and not disabled since
  gateOpen,    \* the zone's broker accepts commands
  spent        \* steps of the user so far

leaseVars == <<configured, life, enabled, owner, owned, gateOpen, spent>>

Stages == {"out", "starting", "up", "leaving", "left"}

LeaseInit ==
  /\ configured \in [Household -> SUBSET Climate]
  /\ life = [z \in Household |-> "out"]
  /\ enabled = [z \in Household |-> FALSE]
  /\ owner = [t \in Climate |-> Unleased]
  /\ owned = [z \in Household |-> {}]
  /\ gateOpen = [z \in Household |-> FALSE]
  /\ spent = 0

UserStep == spent < MaxLeaseSteps /\ spent' = spent + 1

-----------------------------------------------------------------------------
(* The registry *)

\* acquire refuses a target that another zone holds.
Taken(z, t) == owner[t] \notin {Unleased, z}

Acquired(z, targets) == [t \in Climate |-> IF t \in targets THEN z ELSE owner[t]]

\* release that does not look at the owner, with a bug.
ReleasedBlindly(z, targets) == [t \in Climate |-> IF t \in targets THEN Unleased ELSE owner[t]]

\* release by a zone that is not the owner does nothing.
Released(z, targets) ==
  [t \in Climate |-> IF t \in targets /\ owner[t] = z THEN Unleased ELSE owner[t]]

-----------------------------------------------------------------------------
(* The life of a zone *)

\* async_start up to the leases.  An enabled zone takes all of them before any
\* target is enabled.
StartZone(z) ==
  /\ UserStep /\ life[z] = "out"
  /\ enabled[z] => \A t \in configured[z] : ~Taken(z, t)
  /\ life' = [life EXCEPT ![z] = "starting"]
  /\ owner' = IF enabled[z] THEN Acquired(z, configured[z]) ELSE owner
  /\ owned' = [owned EXCEPT ![z] = IF enabled[z] THEN configured[z] ELSE {}]
  /\ gateOpen' = [gateOpen EXCEPT ![z] = TRUE]
  /\ UNCHANGED <<configured, enabled>>

\* A target is another zone's: what was acquired before it, in the order of the
\* configuration, is given back, and the setup fails.
StartRefused(z) ==
  /\ UserStep /\ life[z] = "out" /\ enabled[z]
  /\ \E t \in configured[z] : Taken(z, t)
  /\ \E before \in SUBSET {t \in configured[z] : ~Taken(z, t)} :
       owner' = Released(z, before)
  /\ UNCHANGED <<configured, life, enabled, owned, gateOpen>>

\* The rest of async_start (history, listeners, first calculation) and the
\* setup of the platforms.
StartEnds(z) ==
  /\ life[z] = "starting" /\ life' = [life EXCEPT ![z] = "up"]
  /\ UNCHANGED <<configured, enabled, owner, owned, gateOpen, spent>>

\* It raises: the entry is not loaded, and nothing calls async_unload.
StartFails(z) ==
  /\ UserStep /\ life[z] = "starting" /\ life' = [life EXCEPT ![z] = "out"]
  /\ owned' = [owned EXCEPT ![z] = {}] /\ gateOpen' = [gateOpen EXCEPT ![z] = FALSE]
  /\ UNCHANGED <<configured, enabled, owner>>

\* The dialogs look at the claims of other zones while they are open, and write
\* the entry at their end.
ReconfigureIdle(z) ==
  /\ UserStep /\ life[z] = "out"
  /\ \E targets \in SUBSET Climate \ {configured[z]} : configured' = [configured EXCEPT ![z] = targets]
  /\ UNCHANGED <<life, enabled, owner, owned, gateOpen>>

\* Of a running zone: the entry is written, and async_unload starts at once for
\* the reload.
Reconfigure(z) ==
  /\ UserStep /\ life[z] = "up" /\ life' = [life EXCEPT ![z] = "leaving"]
  /\ \E targets \in SUBSET Climate \ {configured[z]} : configured' = [configured EXCEPT ![z] = targets]
  /\ gateOpen' = [gateOpen EXCEPT ![z] = FALSE]
  /\ UNCHANGED <<enabled, owner, owned>>

\* async_unload up to its first await: the gate is closed.
UnloadBegins(z) ==
  /\ UserStep /\ life[z] = "up" /\ life' = [life EXCEPT ![z] = "leaving"]
  /\ gateOpen' = [gateOpen EXCEPT ![z] = FALSE]
  /\ UNCHANGED <<configured, enabled, owner, owned>>

\* ... and once its tasks have ended: the leases of the targets that the entry
\* names by now.
UnloadEnds(z) ==
  /\ life[z] = "leaving" /\ life' = [life EXCEPT ![z] = "left"]
  /\ owner' = Released(z, configured[z])
  /\ UNCHANGED <<configured, enabled, owned, gateOpen, spent>>

\* The platforms, and with them the switch, are unloaded after the zone.
PlatformsGone(z) ==
  /\ life[z] = "left" /\ life' = [life EXCEPT ![z] = "out"]
  /\ owned' = [owned EXCEPT ![z] = {}]
  /\ UNCHANGED <<configured, enabled, owner, gateOpen, spent>>

-----------------------------------------------------------------------------
(* The control switch *)

HasSwitch(z) == life[z] \in {"up", "leaving", "left"}

\* async_set_control_enabled(True), possible until the platforms are gone.
TurnOn(z) ==
  /\ UserStep /\ HasSwitch(z) /\ ~enabled[z]
  /\ \A t \in configured[z] : ~Taken(z, t)
  /\ owner' = Acquired(z, configured[z])
  /\ enabled' = [enabled EXCEPT ![z] = TRUE]
  /\ owned' = [owned EXCEPT ![z] = @ \cup configured[z]]
  /\ UNCHANGED <<configured, life, gateOpen>>

TurnOnRefused(z) ==
  /\ UserStep /\ HasSwitch(z) /\ ~enabled[z]
  /\ \E t \in configured[z] : Taken(z, t)
  /\ \E before \in SUBSET {t \in configured[z] : ~Taken(z, t)} : owner' = Released(z, before)
  /\ UNCHANGED <<configured, life, enabled, owned, gateOpen>>

\* async_set_control_enabled(False)
TurnOff(z) ==
  /\ UserStep /\ HasSwitch(z) /\ enabled[z]
  /\ enabled' = [enabled EXCEPT ![z] = FALSE]
  /\ owner' = Released(z, configured[z])
  /\ owned' = [owned EXCEPT ![z] = @ \ configured[z]]
  /\ UNCHANGED <<configured, life, gateOpen>>

LeaseNext ==
  \E z \in Household :
    \/ StartZone(z) \/ StartRefused(z) \/ StartEnds(z) \/ StartFails(z)
    \/ ReconfigureIdle(z) \/ Reconfigure(z)
    \/ UnloadBegins(z) \/ UnloadEnds(z) \/ PlatformsGone(z)
    \/ TurnOn(z) \/ TurnOnRefused(z) \/ TurnOff(z)

LeaseSpec == LeaseInit /\ [][LeaseNext]_leaseVars

-----------------------------------------------------------------------------
(* Properties *)

LeaseTypeOK ==
  /\ configured \in [Household -> SUBSET Climate]
  /\ life \in [Household -> Stages] /\ enabled \in [Household -> BOOLEAN]
  /\ owner \in [Climate -> Household \cup {Unleased}]
  /\ owned \in [Household -> SUBSET Climate] /\ gateOpen \in [Household -> BOOLEAN]
  /\ spent \in Nat

\* The targets that the broker of z would be allowed to command: its preflight
\* asks for the lease, an enabled target that the entry names, and an open gate.
Drives(z) ==
  IF gateOpen[z] THEN {t \in configured[z] \cap owned[z] : owner[t] = z} ELSE {}

\* A zone that runs with control enabled may command every target that its entry
\* names: no other zone's start, stop,
\* failed setup or switch takes a lease away from it (the refusal of the second
\* zone gives back only what that zone took).  With the single owner of a lease,
\* two zones never drive one climate entity.
LeaseKept ==
  \A z \in Household :
    (life[z] = "up" /\ enabled[z]) => configured[z] \subseteq Drives(z)

=============================================================================
