------------------------------ MODULE Placement ------------------------------
(***************************************************************************)
(* The capacity check of management/core/placement.py, which              *)
(* register_mission runs before it accepts a mission.                      *)
(*                                                                         *)
(* A mission specification is a record with at least the fields            *)
(*   vms        the sequence of VM names, in the order of the mission file *)
(*   placement  VM name -> host name                                       *)
(*   cpu, memory_mb   VM name -> amount                                    *)
(*   gpu        the set of VMs that ask for a GPU                          *)
(* and an inventory maps each known host to a record [cpus, memory_mb,     *)
(* gpus].                                                                  *)
(***************************************************************************)
EXTENDS Naturals, Sequences, FiniteSetsExt

VmSet(spec) == Range(spec.vms)

\* What the VMs placed on host h ask for in total, when v asks for need[v].
Load(spec, need, h) ==
    MapThenSumSet(LAMBDA v : need[v], {v \in VmSet(spec) : spec.placement[v] = h})

GpuLoad(spec, h) == Cardinality({v \in VmSet(spec) \cap spec.gpu : spec.placement[v] = h})

UnknownHosts(spec, hosts) == {spec.placement[v] : v \in VmSet(spec)} \ DOMAIN hosts

\* A variant without the GPU check, which the runs must reject.
ViolationsButGpus(spec, hosts) ==
    {<<h, "cpu">> : h \in {g \in DOMAIN hosts : Load(spec, spec.cpu, g) > hosts[g].cpus}}

\* The violations validate_placement reports. Unknown hosts hide the others:
\* the totals of a host that is not in the inventory cannot be compared.
Violations(spec, hosts) ==
    IF UnknownHosts(spec, hosts) # {}
      THEN UnknownHosts(spec, hosts) \X {"unknown_host"}
      ELSE    {<<h, "cpu">> : h \in {g \in DOMAIN hosts :
                                       Load(spec, spec.cpu, g) > hosts[g].cpus}}
         \cup {<<h, "memory_mb">> : h \in {g \in DOMAIN hosts :
                                       Load(spec, spec.memory_mb, g) > hosts[g].memory_mb}}
         \cup {<<h, "gpus">> : h \in {g \in DOMAIN hosts :
                                       GpuLoad(spec, g) > hosts[g].gpus}}

Feasible(spec, hosts) == Violations(spec, hosts) = {}
==============================================================================
