--------------------------- MODULE MissionLifecycle ---------------------------
(***************************************************************************)
(* What the management service promises about each mission, without how it *)
(* keeps the promise: the order of the states a client can observe with    *)
(* GET /missions/{id}, and what each of them says about the resources of   *)
(* the mission. Every step concerns one mission, so a mission's resources  *)
(* change only while that mission itself is deployed or torn down.         *)
(***************************************************************************)
CONSTANT Id

VARIABLES
    phase,      \* mission -> the state a client observes
    footprint,  \* mission -> "none", "part" or "whole" of its resources exist
    reliable    \* whether libvirt's errors have all been noticed

lifecycleVars == <<phase, footprint, reliable>>

\* The forward path of a deployment.
Successor == [Pending |-> "DeployingNetworks",
              DeployingNetworks |-> "CloningStorage",
              CloningStorage |-> "DefiningVMs",
              DefiningVMs |-> "Validating",
              Validating |-> "Running"]

Enter(m, p) == phase' = [phase EXCEPT ![m] = p]

LInit == /\ phase = [m \in Id |-> "absent"]
         /\ footprint = [m \in Id |-> "none"]
         /\ reliable = TRUE

Accept(m) ==
    phase[m] = "absent" /\ Enter(m, "Pending") /\ UNCHANGED <<footprint, reliable>>

\* A mission is reported Running only when all of its resources exist.
Advance(m) ==
    /\ phase[m] \in DOMAIN Successor
    /\ phase[m] = "Validating" => footprint[m] = "whole"
    /\ Enter(m, Successor[phase[m]])
    /\ UNCHANGED <<footprint, reliable>>

Build(m) ==
    /\ phase[m] \in {"DeployingNetworks", "CloningStorage", "DefiningVMs"}
    /\ footprint[m] # "whole"
    /\ footprint' \in {[footprint EXCEPT ![m] = f] : f \in {"part", "whole"}}
    /\ UNCHANGED <<phase, reliable>>

Fail(m) ==
    /\ phase[m] \in {"DeployingNetworks", "CloningStorage", "DefiningVMs",
                     "Validating", "Destroying"}
    /\ Enter(m, "Error")
    /\ UNCHANGED <<footprint, reliable>>

Delete(m) ==
    phase[m] # "absent" /\ Enter(m, "Destroying") /\ UNCHANGED <<footprint, reliable>>

Dismantle(m) ==
    /\ phase[m] = "Destroying"
    /\ footprint[m] # "none"
    /\ footprint' \in {[footprint EXCEPT ![m] = f] : f \in {"part", "none"}}
    /\ UNCHANGED <<phase, reliable>>

\* A mission is reported Destroyed only when none of its resources exists, as far as libvirt
\* could be relied on, and never when it still has all of them.
Gone(m) ==
    /\ phase[m] = "Destroying"
    /\ footprint[m] # "whole"
    /\ reliable => footprint[m] = "none"
    /\ Enter(m, "Destroyed")
    /\ UNCHANGED <<footprint, reliable>>

\* An error goes unnoticed.
Hide == reliable' = FALSE /\ UNCHANGED <<phase, footprint>>

\* A crash forgets every mission and touches no resource.
Crash == phase' = [m \in Id |-> "absent"] /\ UNCHANGED <<footprint, reliable>>

LNext ==
    \/ \E m \in Id : \/ Accept(m) \/ Advance(m) \/ Build(m) \/ Fail(m)
                     \/ Delete(m) \/ Dismantle(m) \/ Gone(m)
    \/ Hide \/ Crash

LSpec == LInit /\ [][LNext]_lifecycleVars
==============================================================================
