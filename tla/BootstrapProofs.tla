---------------------------- MODULE BootstrapProofs ----------------------------
(***************************************************************************)
(* Theorems about Bootstrap, for any services, bridges and bounds: its     *)
(* types, what no run takes back, that a run that ends with exit code 0    *)
(* leaves a ready host, and that a run fails only by a fault.              *)
(***************************************************************************)
EXTENDS BootstrapProperties, TLAPS

----------------------------------------------------------------------------
(* Type correctness.                                                        *)

\* In a loop over a sequence the current element is one of the sequence's.
LEMMA LoopElements ==
    ASSUME NEW k \in Nat \ {0}
    PROVE  /\ k <= Len(Services) => Services[k] \in Range(Services)
           /\ k <= Len(Bridges) => Bridges[k] \in Range(Bridges)
  BY ServicesAssumption, BridgesAssumption DEF Range

\* The services the script names are services of cluster.yaml.
LEMMA ServicesKnown ==
    {"libvirtd", "openvswitch", "ovn-controller", "cockpit.socket"} \subseteq Range(Services)
  <1> DEFINE needed == <<"libvirtd", "openvswitch", "ovn-controller", "cockpit.socket">>
  <1>1. /\ needed[1] = "libvirtd" /\ needed[2] = "openvswitch"
        /\ needed[3] = "ovn-controller" /\ needed[4] = "cockpit.socket"
        /\ DOMAIN needed = 1 .. 4
    OBVIOUS
  <1>2. \A k \in 1 .. 4 : needed[k] \in Range(needed)
    BY <1>1 DEF Range
  <1> QED BY <1>1, <1>2, ServicesAssumption

\* What a command makes of a host is a host: services,
LEMMA ServiceTypes ==
    ASSUME host \in HostState, NEW s \in Range(Services)
    PROVE  WithService(s) \in HostState /\ [host EXCEPT !.active = @ \ {s}] \in HostState
  BY DEF HostState, WithService

\* pools,
LEMMA PoolTypes ==
    ASSUME host \in HostState, NEW p \in {"default", "ceph-pool"}, NEW f \in PoolFlag
    PROVE  WithPool(p, f) \in HostState
  BY DEF HostState, WithPool

\* networking,
LEMMA NetworkTypes ==
    ASSUME host \in HostState
    PROVE  /\ \A b \in Range(Bridges) : [host EXCEPT !.bridges = @ \cup {b}] \in HostState
           /\ [host EXCEPT !.fabric = @ \cup {"remote"}] \in HostState
           /\ [host EXCEPT !.fabric = @ \cup {"encap"}] \in HostState
  BY DEF HostState

\* packages, kernel arguments and modules.
LEMMA FlagTypes ==
    ASSUME host \in HostState
    PROVE  /\ [host EXCEPT !.packages = TRUE] \in HostState
           /\ [host EXCEPT !.grub_file = TRUE] \in HostState
           /\ [host EXCEPT !.grub_cfg = host.grub_file] \in HostState
           /\ [host EXCEPT !.vfio = @ \cup {"loaded"}] \in HostState
           /\ [host EXCEPT !.vfio = @ \cup {"persisted"}] \in HostState
  BY DEF HostState

\* A boot makes a host of a host.
LEMMA BootTypes == host \in HostState => Booted \in HostState
  <1> SUFFICES ASSUME host \in HostState PROVE Booted \in HostState
    OBVIOUS
  <1> DEFINE pools == [p \in DOMAIN host.pools |->
                         IF ~Defined(p) THEN {}
                         ELSE IF "autostart" \in host.pools[p] THEN host.pools[p] \cup {"active"}
                         ELSE {"defined"}]
             vfio == IF "persisted" \in host.vfio THEN {"loaded", "persisted"} ELSE {}
  <1>1. pools \in [{"default", "ceph-pool"} -> SUBSET PoolFlag]
    BY DEF HostState, PoolFlag
  <1>2. vfio \in SUBSET {"loaded", "persisted"}
    OBVIOUS
  <1>3. Booted = [host EXCEPT !.active = host.enabled, !.pools = pools,
                              !.booted = host.grub_cfg, !.vfio = vfio]
    BY DEF Booted, HostState
  <1> HIDE DEF pools, vfio
  <1> QED BY <1>1, <1>2, <1>3 DEF HostState

\* A fresh host and a script that has not been started have their types.
LEMMA InitTypes == Init => TypeOK
  <1>1. FreshHost \in HostState
    BY DEF FreshHost, HostState
  <1>2. Init => rados \in BOOLEAN
    BY DEF Init
  <1> QED BY <1>1, <1>2 DEF Init, TypeOK

\* The part of TypeOK that is about the run.
RunTypes ==
    /\ target \in Target
    /\ pc \in Step \cup {"idle"}
    /\ i \in Nat \ {0}
    /\ mode \in {"apply", "dry_run", "check_only"}
    /\ rados \in BOOLEAN /\ passed \in BOOLEAN
    /\ exit \in {"none", "ok", "failed", "invalid"}
    /\ faults \in Nat /\ kills \in Nat

\* The commands of the script: packages, libvirt, networking.
LEMMA SetupTypes ==
    ASSUME host \in HostState, RunTypes,
           Packages \/ EnableServices \/ Libvirtd \/ DefaultPool \/ OvsBridges \/ JoinFabric
    PROVE  host' \in HostState /\ RunTypes'
  <1> USE DEF Command, Look, Goto, Exit
  <1>1. CASE Packages
    <2>1. host' \in HostState
      BY <1>1, FlagTypes DEF Packages
    <2>2. RunTypes'
      BY <1>1 DEF Packages, RunTypes, Step
    <2> QED BY <2>1, <2>2
  <1>2. CASE EnableServices
    <2>1. host' \in HostState
      <3>1. i <= Len(Services) => Services[i] \in Range(Services)
        BY LoopElements DEF RunTypes
      <3>2. CASE i <= Len(Services)
        BY <1>2, <3>1, <3>2, ServiceTypes DEF EnableServices, EnableNow
      <3>3. CASE ~(i <= Len(Services))
        BY <1>2, <3>3 DEF EnableServices, EnableNow
      <3> QED BY <3>2, <3>3
    <2>2. RunTypes'
      BY <1>2 DEF EnableServices, EnableNow, RunTypes, Step
    <2> QED BY <2>1, <2>2
  <1>3. CASE Libvirtd
    <2>1. host' \in HostState
      BY <1>3, ServicesKnown, ServiceTypes DEF Libvirtd, EnableNow
    <2>2. RunTypes'
      BY <1>3 DEF Libvirtd, EnableNow, RunTypes, Step
    <2> QED BY <2>1, <2>2
  <1>4. CASE DefaultPool
    <2>1. host' \in HostState
      BY <1>4, PoolTypes DEF DefaultPool, Virsh, PoolFlag
    <2>2. RunTypes'
      BY <1>4 DEF DefaultPool, Virsh, PoolFlag, RunTypes, Step
    <2> QED BY <2>1, <2>2
  <1>5. CASE OvsBridges
    <2>1. host' \in HostState
      <3>1. i <= Len(Bridges) => Bridges[i] \in Range(Bridges)
        BY LoopElements DEF RunTypes
      <3> QED BY <1>5, <3>1, NetworkTypes DEF OvsBridges, AddBridge, OvsVsctl
    <2>2. RunTypes'
      BY <1>5 DEF OvsBridges, AddBridge, OvsVsctl, RunTypes, Step
    <2> QED BY <2>1, <2>2
  <1>6. CASE JoinFabric
    <2>1. host' \in HostState
      BY <1>6, ServicesKnown, ServiceTypes, NetworkTypes DEF JoinFabric, OvsVsctl, EnableNow
    <2>2. RunTypes'
      BY <1>6 DEF JoinFabric, OvsVsctl, EnableNow, RunTypes, Step
    <2> QED BY <2>1, <2>2
  <1> QED BY <1>1, <1>2, <1>3, <1>4, <1>5, <1>6

\* Storage, GPUs, Cockpit.
LEMMA DeviceTypes ==
    ASSUME host \in HostState, RunTypes,
           Storage \/ RbdPool \/ LocalPool \/ KernelArgs \/ Vfio \/ Cockpit
    PROVE  host' \in HostState /\ RunTypes'
  <1> USE DEF Command, Look, Goto, Exit
  <1>0. AfterStorage \in {"gpu", "cockpit"}
    BY DEF AfterStorage
  <1>1. CASE Storage
    <2>1. host' \in HostState
      BY <1>1 DEF Storage
    <2>2. RunTypes'
      BY <1>1 DEF Storage, RunTypes, Step
    <2> QED BY <2>1, <2>2
  <1>2. CASE RbdPool
    <2>1. host' \in HostState
      BY <1>2, PoolTypes DEF RbdPool, PoolFlag
    <2>2. RunTypes'
      BY <1>2, <1>0 DEF RbdPool, PoolFlag, RunTypes, Step
    <2> QED BY <2>1, <2>2
  <1>3. CASE LocalPool
    <2>1. host' \in HostState
      BY <1>3, PoolTypes DEF LocalPool, Virsh, PoolFlag
    <2>2. RunTypes'
      BY <1>3, <1>0 DEF LocalPool, Virsh, PoolFlag, RunTypes, Step
    <2> QED BY <2>1, <2>2
  <1>4. CASE KernelArgs
    <2>1. host' \in HostState
      BY <1>4, FlagTypes DEF KernelArgs
    <2>2. RunTypes'
      BY <1>4 DEF KernelArgs, RunTypes, Step
    <2> QED BY <2>1, <2>2
  <1>5. CASE Vfio
    <2>1. host' \in HostState
      BY <1>5, FlagTypes DEF Vfio
    <2>2. RunTypes'
      BY <1>5 DEF Vfio, RunTypes, Step
    <2> QED BY <2>1, <2>2
  <1>6. CASE Cockpit
    <2>1. host' \in HostState
      BY <1>6, ServicesKnown, ServiceTypes DEF Cockpit, EnableNow
    <2>2. RunTypes'
      BY <1>6 DEF Cockpit, EnableNow, RunTypes, Step
    <2> QED BY <2>1, <2>2
  <1> QED BY <1>1, <1>2, <1>3, <1>4, <1>5, <1>6

\* validate_host.
LEMMA CheckTypes ==
    ASSUME host \in HostState, RunTypes,
           CheckServices \/ CheckVirsh \/ CheckBridges \/ CheckCeph \/ CheckIommu
    PROVE  host' \in HostState /\ RunTypes'
  <1>1. UNCHANGED <<host, target, mode, rados, kills>>
    BY DEF CheckServices, CheckVirsh, CheckBridges, CheckCeph, CheckIommu, Check, Look, Goto
  <1>2. faults' \in Nat
    BY DEF CheckServices, CheckVirsh, CheckBridges, CheckCeph, CheckIommu, Check, Look, Goto,
           RunTypes
  <1>3. pc' \in Step \cup {"idle"} /\ i' \in Nat \ {0}
    BY DEF CheckServices, CheckVirsh, CheckBridges, CheckCeph, CheckIommu, Check, Look, Goto,
           RunTypes, Step
  <1>4. passed' \in BOOLEAN
    BY DEF CheckServices, CheckVirsh, CheckBridges, CheckCeph, CheckIommu, Check, Look, Goto,
           RunTypes
  <1>5. exit' \in {"none", "ok", "failed", "invalid"}
    BY DEF CheckServices, CheckVirsh, CheckBridges, CheckCeph, CheckIommu, Check, Look, Goto,
           RunTypes
  <1> QED BY <1>1, <1>2, <1>3, <1>4, <1>5 DEF RunTypes

\* Every step keeps the types.
LEMMA StepTypes == TypeOK /\ [Next]_vars => TypeOK'
  <1> SUFFICES ASSUME TypeOK, [Next]_vars PROVE TypeOK'
    OBVIOUS
  <1>1. CASE \E how \in {"apply", "dry_run", "check_only"} : Start(how)
    BY <1>1 DEF Start, TypeOK, HostState, Step
  <1>2. CASE Script
    <2>1. host \in HostState /\ RunTypes
      BY DEF TypeOK, RunTypes
    <2>2. host' \in HostState /\ RunTypes'
      BY <1>2, <2>1, SetupTypes, DeviceTypes, CheckTypes DEF Script
    <2> QED BY <2>2 DEF TypeOK, RunTypes
  <1>3. CASE Reboot
    BY <1>3, BootTypes DEF Reboot, TypeOK
  <1>4. CASE Interrupted
    BY <1>4, BootTypes DEF Interrupted, TypeOK
  <1>5. CASE ServiceStops
    <2>1. host.active \subseteq Range(Services)
      BY DEF TypeOK, HostState
    <2> QED BY <1>5, <2>1, ServiceTypes DEF ServiceStops, TypeOK, run
  <1>6. CASE UNCHANGED vars
    BY <1>6 DEF vars, run, TypeOK
  <1> QED BY <1>1, <1>2, <1>3, <1>4, <1>5, <1>6 DEF Next

\* Every variable keeps its type.
THEOREM TypesHold == Spec => []TypeOK
  BY InitTypes, StepTypes, PTL DEF Spec

----------------------------------------------------------------------------
(* --dry-run and --check-only.                                              *)

CheckStep == {"check_services", "check_virsh", "check_bridges", "check_ceph", "check_iommu"}

\* A check-only run is never at a step that sets something up.
CheckOnlyChecks == mode = "check_only" => pc \in CheckStep \cup {"idle"}

\* A step that sets something up is not one of a check-only run, and changes nothing in
\* a dry run.
LEMMA SetupHarmless ==
    ASSUME CheckOnlyChecks,
           Packages \/ EnableServices \/ Libvirtd \/ DefaultPool \/ OvsBridges \/ JoinFabric
    PROVE  mode # "check_only" /\ mode' = mode /\ (mode = "dry_run" => host' = host)
  <1> USE DEF CheckOnlyChecks, CheckStep, Command, Look, Goto, Exit
  <1>1. CASE Packages
    BY <1>1 DEF Packages
  <1>2. CASE EnableServices
    BY <1>2 DEF EnableServices, EnableNow
  <1>3. CASE Libvirtd
    BY <1>3 DEF Libvirtd, EnableNow
  <1>4. CASE DefaultPool
    BY <1>4 DEF DefaultPool, Virsh
  <1>5. CASE OvsBridges
    BY <1>5 DEF OvsBridges, AddBridge, OvsVsctl
  <1>6. CASE JoinFabric
    BY <1>6 DEF JoinFabric, OvsVsctl, EnableNow
  <1> QED BY <1>1, <1>2, <1>3, <1>4, <1>5, <1>6

\* The same for storage, GPUs and Cockpit.
LEMMA DevicesHarmless ==
    ASSUME CheckOnlyChecks, Storage \/ RbdPool \/ LocalPool \/ KernelArgs \/ Vfio \/ Cockpit
    PROVE  mode # "check_only" /\ mode' = mode /\ (mode = "dry_run" => host' = host)
  <1> USE DEF CheckOnlyChecks, CheckStep, Command, Look, Goto, Exit
  <1>1. CASE Storage
    BY <1>1 DEF Storage
  <1>2. CASE RbdPool
    BY <1>2 DEF RbdPool
  <1>3. CASE LocalPool
    BY <1>3 DEF LocalPool, Virsh
  <1>4. CASE KernelArgs
    BY <1>4 DEF KernelArgs
  <1>5. CASE Vfio
    BY <1>5 DEF Vfio
  <1>6. CASE Cockpit
    BY <1>6 DEF Cockpit, EnableNow
  <1> QED BY <1>1, <1>2, <1>3, <1>4, <1>5, <1>6

\* validate_host only looks, and goes on looking.
LEMMA ChecksHarmless ==
    ASSUME CheckServices \/ CheckVirsh \/ CheckBridges \/ CheckCeph \/ CheckIommu
    PROVE  host' = host /\ mode' = mode /\ pc' \in CheckStep \cup {"idle"}
  BY DEF CheckServices, CheckVirsh, CheckBridges, CheckCeph, CheckIommu, Check, Look, Goto,
         CheckStep

\* A check-only run goes from check to check.
LEMMA StepCheckOnly == TypeOK /\ CheckOnlyChecks /\ [Next]_vars => CheckOnlyChecks'
  <1> SUFFICES ASSUME TypeOK, CheckOnlyChecks, [Next]_vars PROVE CheckOnlyChecks'
    OBVIOUS
  <1>1. CASE \E how \in {"apply", "dry_run", "check_only"} : Start(how)
    BY <1>1 DEF Start, CheckOnlyChecks, CheckStep
  <1>2. CASE Script
    BY <1>2, SetupHarmless, DevicesHarmless, ChecksHarmless DEF Script, CheckOnlyChecks
  <1>3. CASE Reboot \/ Interrupted
    BY <1>3 DEF Reboot, Interrupted, CheckOnlyChecks
  <1>4. CASE ServiceStops \/ UNCHANGED vars
    BY <1>4 DEF ServiceStops, CheckOnlyChecks, vars, run
  <1> QED BY <1>1, <1>2, <1>3, <1>4 DEF Next

\* A dry run and a check-only run never change the host.
THEOREM DryRunsHarmless == Spec => DryRunHarmless
  <1>1. Init => CheckOnlyChecks
    BY DEF Init, CheckOnlyChecks
  <1>2. TypeOK /\ CheckOnlyChecks /\ [Next]_vars
          => [mode # "apply" /\ Script => host' = host]_vars
    <2> SUFFICES ASSUME TypeOK, CheckOnlyChecks, mode # "apply", Script
                 PROVE  host' = host
      OBVIOUS
    <2>1. mode \in {"dry_run", "check_only"}
      BY DEF TypeOK
    <2> QED BY <2>1, SetupHarmless, DevicesHarmless, ChecksHarmless DEF Script
  <1> QED BY <1>1, <1>2, StepCheckOnly, TypesHold, PTL DEF Spec, DryRunHarmless

----------------------------------------------------------------------------
(* What is done stays done.                                                 *)

\* A run has no exit code before it ends; what the kernel was booted with is in the boot
\* configuration; grub2-mkconfig runs over a file that holds the arguments; the rbd pool
\* is transient.
HostInv ==
    /\ pc # "idle" => exit = "none"
    /\ host.booted => host.grub_cfg
    /\ pc = "mkconfig" /\ mode # "dry_run" => host.grub_file
    /\ host.pools["ceph-pool"] \subseteq {"active"}

\* Nothing takes back what a run has set up, apart from what is lost in a reboot.
Grows ==
    /\ host.packages => host'.packages
    /\ host.enabled \subseteq host'.enabled
    /\ host.bridges \subseteq host'.bridges
    /\ host.fabric \subseteq host'.fabric
    /\ "persisted" \in host.vfio => "persisted" \in host'.vfio
    /\ host.grub_file => host'.grub_file
    /\ host.grub_cfg => host'.grub_cfg

\* The same, and the pools stay as well, and the kernel runs on.
ScriptGrows ==
    /\ Grows
    /\ host.booted = host'.booted
    /\ host.active \subseteq host'.active
    /\ host.pools["default"] \subseteq host'.pools["default"]
    /\ host.pools["ceph-pool"] \subseteq host'.pools["ceph-pool"]
    /\ host'.pools["ceph-pool"] \subseteq {"active"}

\* Enabling a service adds to the host.
LEMMA ServiceGrows ==
    ASSUME TypeOK, HostInv, NEW s, host' = host \/ host' = WithService(s)
    PROVE  ScriptGrows
  <1>1. CASE host' = host
    BY <1>1 DEF HostInv, ScriptGrows, Grows
  <1>2. CASE host' = WithService(s)
    <2>1. /\ host'.enabled = host.enabled \cup {s} /\ host'.active = host.active \cup {s}
          /\ host'.packages = host.packages /\ host'.bridges = host.bridges
          /\ host'.fabric = host.fabric /\ host'.pools = host.pools
          /\ host'.grub_file = host.grub_file /\ host'.grub_cfg = host.grub_cfg
          /\ host'.booted = host.booted /\ host'.vfio = host.vfio
      BY <1>2 DEF TypeOK, HostState, WithService
    <2> QED BY <2>1 DEF HostInv, ScriptGrows, Grows
  <1> QED BY <1>1, <1>2

\* Packages, services, libvirt and networking add to the host.
LEMMA SetupGrows ==
    ASSUME TypeOK, HostInv,
           Packages \/ EnableServices \/ Libvirtd \/ DefaultPool \/ OvsBridges \/ JoinFabric
    PROVE  ScriptGrows
  <1> USE DEF Command, Look
  <1>1. CASE Packages
    BY <1>1 DEF Packages,
           TypeOK, HostState, HostInv, ScriptGrows, Grows
  <1>2. CASE EnableServices
    <2>1. host' = host \/ host' = WithService(Services[i])
      BY <1>2 DEF EnableServices, EnableNow
    <2> QED BY <2>1, ServiceGrows
  <1>3. CASE Libvirtd
    <2>1. host' = host \/ host' = WithService("libvirtd")
      BY <1>3 DEF Libvirtd, EnableNow
    <2> QED BY <2>1, ServiceGrows
  <1>4. CASE DefaultPool
    BY <1>4 DEF DefaultPool, Virsh, WithPool,
           TypeOK, HostState, HostInv, ScriptGrows, Grows
  <1>5. CASE OvsBridges
    BY <1>5 DEF OvsBridges, AddBridge, OvsVsctl,
           TypeOK, HostState, HostInv, ScriptGrows, Grows
  <1>6. CASE JoinFabric
    <2>1. CASE pc = "ovn_controller"
      <3>1. host' = host \/ host' = WithService("ovn-controller")
        BY <1>6, <2>1 DEF JoinFabric, EnableNow
      <3> QED BY <3>1, ServiceGrows
    <2>2. CASE pc # "ovn_controller"
      BY <1>6, <2>2 DEF JoinFabric, OvsVsctl,
             TypeOK, HostState, HostInv, ScriptGrows, Grows
    <2> QED BY <2>1, <2>2
  <1> QED BY <1>1, <1>2, <1>3, <1>4, <1>5, <1>6

\* Storage, GPUs and Cockpit add to the host.
LEMMA DevicesGrow ==
    ASSUME TypeOK, HostInv, Storage \/ RbdPool \/ LocalPool \/ KernelArgs \/ Vfio \/ Cockpit
    PROVE  ScriptGrows
  <1> USE DEF Command, Look
  <1>1. CASE Storage
    BY <1>1 DEF Storage,
           TypeOK, HostState, HostInv, ScriptGrows, Grows
  <1>2. CASE RbdPool
    BY <1>2 DEF RbdPool, WithPool,
           TypeOK, HostState, HostInv, ScriptGrows, Grows
  <1>3. CASE LocalPool
    BY <1>3 DEF LocalPool, Virsh, WithPool,
           TypeOK, HostState, HostInv, ScriptGrows, Grows
  <1>4. CASE KernelArgs
    BY <1>4 DEF KernelArgs,
           TypeOK, HostState, HostInv, ScriptGrows, Grows
  <1>5. CASE Vfio
    BY <1>5 DEF Vfio,
           TypeOK, HostState, HostInv, ScriptGrows, Grows
  <1>6. CASE Cockpit
    <2>1. host' = host \/ host' = WithService("cockpit.socket")
      BY <1>6 DEF Cockpit, EnableNow
    <2> QED BY <2>1, ServiceGrows
  <1> QED BY <1>1, <1>2, <1>3, <1>4, <1>5, <1>6

----------------------------------------------------------------------------
(* Where a run is, and what it has done by then.                            *)

\* The steps after each stage of main.
AfterPackages == Step \ {"packages"}
AfterServices == AfterPackages \ {"services"}
AfterBridges == AfterServices \ {"libvirtd", "define_default", "start_default",
                                 "autostart_default", "bridges"}
AfterRemote == AfterBridges \ {"ovn_remote"}
AfterEncap == AfterRemote \ {"ovn_encap"}
AfterVfio == CheckStep \cup {"cockpit"}
AfterPool == AfterVfio \cup {"gpu", "grub_write", "mkconfig", "modprobe", "vfio_conf"}
LocalStep == {"local_pool", "local_define", "local_start", "local_autostart"}

\* A script step leads from a step of a stage to one of that stage or the next.
Flows ==
    /\ mode' = mode /\ rados' = rados /\ target' = target
    /\ pc \in Step
    /\ pc' # "idle" => exit' = exit
    /\ exit' = "ok" => exit = "ok" \/ pc = "check_iommu"
    /\ pc' \in AfterServices => pc \in AfterServices \cup {"services"}
    /\ pc' \in AfterBridges => pc \in AfterBridges \cup {"bridges"}
    /\ pc' \in AfterRemote => pc \in AfterRemote \cup {"ovn_remote"}
    /\ pc' \in AfterEncap => pc \in AfterEncap \cup {"ovn_encap"}
    /\ pc' \in LocalStep => pc \in LocalStep \/ target.backend = "local_qcow2"
    /\ pc' \in AfterPool => pc \in AfterPool \cup LocalStep \cup {"rbd_create"}
    /\ pc' \in AfterVfio /\ GpuHost => pc \in AfterVfio \cup {"vfio_conf"}
    /\ pc' = "mkconfig" => pc = "grub_write"
    /\ pc' = "define_default" => pc = "libvirtd"
    /\ pc' = "start_default" => pc = "define_default"
    /\ pc' = "autostart_default" => pc = "start_default"
    /\ faults' \in {faults, faults + 1}
    /\ pc' = "services" => pc \in {"packages", "services"}
    /\ pc' = "bridges" => pc \in {"autostart_default", "bridges"}

\* Each command leads where main leads.
LEMMA ScriptFlows == Script => Flows
  <1> USE DEF Command, Look, Goto, Exit, Flows, AfterPackages, AfterServices, AfterBridges,
              AfterRemote, AfterEncap, AfterVfio, AfterPool, LocalStep, CheckStep, Step
  <1> SUFFICES ASSUME Script PROVE Flows
    OBVIOUS
  <1>1. CASE Packages
    BY <1>1 DEF Packages
  <1>2. CASE EnableServices
    BY <1>2 DEF EnableServices, EnableNow
  <1>3. CASE Libvirtd
    BY <1>3 DEF Libvirtd, EnableNow
  <1>4. CASE DefaultPool
    BY <1>4 DEF DefaultPool, Virsh
  <1>5. CASE OvsBridges
    BY <1>5 DEF OvsBridges, AddBridge, OvsVsctl
  <1>6. CASE JoinFabric
    BY <1>6 DEF JoinFabric, OvsVsctl, EnableNow
  <1>7. CASE Storage
    BY <1>7 DEF Storage
  <1>8. CASE RbdPool
    BY <1>8 DEF RbdPool, AfterStorage, GpuHost
  <1>9. CASE LocalPool
    BY <1>9 DEF LocalPool, Virsh, AfterStorage, GpuHost
  <1>10. CASE KernelArgs
    BY <1>10 DEF KernelArgs
  <1>11. CASE Vfio
    BY <1>11 DEF Vfio
  <1>12. CASE Cockpit
    BY <1>12 DEF Cockpit, EnableNow
  <1>13. CASE CheckServices
    BY <1>13 DEF CheckServices, Check
  <1>14. CASE CheckVirsh
    BY <1>14 DEF CheckVirsh, Check
  <1>15. CASE CheckBridges
    BY <1>15 DEF CheckBridges, Check
  <1>16. CASE CheckCeph
    BY <1>16 DEF CheckCeph, Check
  <1>17. CASE CheckIommu
    BY <1>17 DEF CheckIommu
  <1> QED BY <1>1, <1>2, <1>3, <1>4, <1>5, <1>6, <1>7, <1>8, <1>9,
             <1>10, <1>11, <1>12, <1>13, <1>14, <1>15, <1>16, <1>17 DEF Script

\* Which command a step runs.
LEMMA StepsCommand ==
    ASSUME Script
    PROVE  /\ pc = "packages" => Packages
           /\ pc = "services" => EnableServices
           /\ pc = "libvirtd" => Libvirtd
           /\ pc \in {"define_default", "start_default", "autostart_default"} => DefaultPool
           /\ pc = "bridges" => OvsBridges
           /\ pc \in {"ovn_remote", "ovn_encap"} => JoinFabric
           /\ pc = "rbd_create" => RbdPool
           /\ pc = "grub_write" => KernelArgs
           /\ pc = "vfio_conf" => Vfio
           /\ pc = "check_iommu" => CheckIommu
  BY DEF Script, Packages, EnableServices, Libvirtd, DefaultPool, OvsBridges, JoinFabric, Storage,
         RbdPool, LocalPool, KernelArgs, Vfio, Cockpit,
         CheckServices, CheckVirsh, CheckBridges, CheckCeph, CheckIommu

\* A run that applies the script is in stage S or has ended well.
Reached(S) == mode = "apply" /\ (pc \in S \/ exit = "ok")

\* What is done once each stage is past; inside a loop, up to the current element.
PackagesDone == Reached(AfterPackages) => host.packages

ServicesDone ==
    /\ Reached(AfterServices) => Range(Services) \subseteq host.enabled
    /\ mode = "apply" /\ pc = "services" =>
         \A j \in 1 .. Len(Services) : j < i => Services[j] \in host.enabled

BridgesDone ==
    /\ Reached(AfterBridges) => Range(Bridges) \subseteq host.bridges
    /\ mode = "apply" /\ pc = "bridges" =>
         \A j \in 1 .. Len(Bridges) : j < i => Bridges[j] \in host.bridges

FabricDone ==
    /\ Reached(AfterRemote) => "remote" \in host.fabric
    /\ Reached(AfterEncap) => "encap" \in host.fabric

PoolDone ==
    target.backend = "ceph_rbd" =>
        /\ pc \notin LocalStep
        /\ Reached(AfterPool) => "active" \in host.pools["ceph-pool"]

VfioDone == GpuHost /\ Reached(AfterVfio) => "persisted" \in host.vfio

BootDone == mode = "apply" /\ exit = "ok" => host.booted

Done == /\ PackagesDone /\ ServicesDone /\ BridgesDone /\ FabricDone
        /\ PoolDone /\ VfioDone /\ BootDone

\* A sequence whose elements before k are all in S, k being past its end.
LEMMA LoopDone ==
    ASSUME NEW T, NEW s \in Seq(T), NEW S, NEW k \in Nat, k > Len(s),
           \A j \in 1 .. Len(s) : j < k => s[j] \in S
    PROVE  Range(s) \subseteq S
  BY DEF Range

\* Every step of the script adds to the host.
LEMMA ScriptGrowsAlways ==
    ASSUME TypeOK, HostInv, Script
    PROVE  ScriptGrows
  <1>1. CASE CheckServices \/ CheckVirsh \/ CheckBridges \/ CheckCeph \/ CheckIommu
    <2>1. host' = host
      BY <1>1, ChecksHarmless
    <2> QED BY <2>1 DEF HostInv, ScriptGrows, Grows
  <1> QED BY <1>1, SetupGrows, DevicesGrow DEF Script

\* Every step of the script keeps HostInv.
LEMMA ScriptKeepsHostInv ==
    ASSUME TypeOK, HostInv, Script
    PROVE  HostInv'
  <1>1. ScriptGrows /\ Flows
    BY ScriptGrowsAlways, ScriptFlows
  <1>2. pc' = "mkconfig" /\ mode' # "dry_run" => host'.grub_file
    <2> SUFFICES ASSUME pc' = "mkconfig", mode' # "dry_run" PROVE host'.grub_file
      OBVIOUS
    <2>1. pc = "grub_write" /\ mode # "dry_run"
      BY <1>1 DEF Flows
    <2>2. KernelArgs
      BY <2>1, StepsCommand
    <2>3. host' = [host EXCEPT !.grub_file = TRUE]
      BY <2>1, <2>2 DEF KernelArgs, Command, Goto, Exit, Look
    <2> QED BY <2>3 DEF TypeOK, HostState
  <1>3. pc' # "idle" => exit' = "none"
    BY <1>1 DEF Flows, HostInv, Step
  <1> QED BY <1>1, <1>2, <1>3 DEF HostInv, ScriptGrows, Grows

\* Past the package step, the packages are there.
LEMMA ScriptKeepsPackages ==
    ASSUME TypeOK, HostInv, PackagesDone, Script
    PROVE  PackagesDone'
  <1>1. ScriptGrows /\ Flows
    BY ScriptGrowsAlways, ScriptFlows
  <1>2. CASE pc = "packages"
    <2>1. Packages
      BY <1>2, StepsCommand
    <2>2. mode = "apply" => host'.packages \/ exit' = "failed"
      <3>1. mode = "apply" =>
              \/ host.packages /\ host' = host
              \/ host' = [host EXCEPT !.packages = TRUE]
              \/ exit' = "failed"
        BY <2>1 DEF Packages, Command, Look, Exit
      <3>2. host' = [host EXCEPT !.packages = TRUE] => host'.packages
        BY DEF TypeOK, HostState
      <3> QED BY <3>1, <3>2
    <2>3. exit' = "failed" => pc' = "idle"
      BY <2>1 DEF Packages, Command, Look, Goto, Exit, HostInv, Step
    <2> QED BY <1>1, <2>2, <2>3 DEF PackagesDone, Reached, Flows, AfterPackages, Step
  <1>3. CASE pc # "packages"
    BY <1>1, <1>3 DEF PackagesDone, Reached, Flows, AfterPackages, Step, ScriptGrows, Grows
  <1> QED BY <1>2, <1>3

\* Past the service loop, every service is enabled.
LEMMA ScriptKeepsServices ==
    ASSUME TypeOK, HostInv, ServicesDone, Script
    PROVE  ServicesDone'
  <1>1. ScriptGrows /\ Flows
    BY ScriptGrowsAlways, ScriptFlows
  <1>2. CASE pc = "services" /\ mode = "apply"
    <2>1. EnableServices
      BY <1>2, StepsCommand
    <2>2. CASE i <= Len(Services)
      <3>0. ~(i > Len(Services))
        BY <2>2, ServicesAssumption DEF TypeOK
      <3>1. \/ pc' = "idle" /\ exit' = "failed"
            \/ pc' = "services" /\ i' = i + 1 /\ exit' = exit /\ host' = WithService(Services[i])
        BY <1>2, <2>1, <3>0 DEF EnableServices, EnableNow, Command, Goto, Exit
      <3>2. host' = WithService(Services[i]) => Services[i] \in host'.enabled
        BY DEF TypeOK, HostState, WithService
      <3>3. exit = "none" /\ i \in Nat \ {0}
        BY <1>2 DEF HostInv, TypeOK
      <3>4. ~Reached(AfterServices)'
        BY <3>1, <3>3 DEF Reached, AfterServices, AfterPackages, Step
      <3>5. ASSUME pc' = "services", NEW j \in 1 .. Len(Services), j < i'
            PROVE  Services[j] \in host'.enabled
        <4>1. CASE j = i
          BY <3>1, <3>2, <3>5, <4>1
        <4>2. CASE j # i
          <5>1. j < i
            BY <3>1, <3>3, <3>5, <4>2, ServicesAssumption
          <5> QED BY <1>1, <1>2, <5>1 DEF ServicesDone, ScriptGrows, Grows
        <4> QED BY <4>1, <4>2
      <3> QED BY <3>4, <3>5 DEF ServicesDone
    <2>3. CASE ~(i <= Len(Services))
      <3>1. Range(Services) \subseteq host.enabled
        <4>1. i \in Nat /\ i > Len(Services)
          BY <2>3, ServicesAssumption DEF TypeOK
        <4>2. \A j \in 1 .. Len(Services) : j < i => Services[j] \in host.enabled
          BY <1>2 DEF ServicesDone
        <4> QED BY <4>1, <4>2, LoopDone, ServicesAssumption
      <3>2. pc' # "services"
        BY <2>1, <2>3 DEF EnableServices, Look, Goto
      <3> QED BY <1>1, <3>1, <3>2 DEF ServicesDone, ScriptGrows, Grows
    <2> QED BY <2>2, <2>3
  <1>3. CASE pc = "packages"
    <2>1. Packages
      BY <1>3, StepsCommand
    <2>2. pc' = "services" => i' = 1
      BY <2>1 DEF Packages, Command, Look, Goto, Exit
    <2>3. ~Reached(AfterServices)'
      BY <1>1, <1>3 DEF Reached, Flows, HostInv, AfterServices, AfterPackages, Step
    <2> QED BY <2>2, <2>3 DEF ServicesDone
  <1>4. CASE pc # "packages" /\ ~(pc = "services" /\ mode = "apply")
    <2>1. Reached(AfterServices)' => Reached(AfterServices)
      BY <1>1, <1>4 DEF Reached, Flows, AfterServices, AfterPackages, Step
    <2>2. ~(mode' = "apply" /\ pc' = "services")
      BY <1>1, <1>4 DEF Flows
    <2> QED BY <1>1, <2>1, <2>2 DEF ServicesDone, ScriptGrows, Grows
  <1> QED BY <1>2, <1>3, <1>4

\* Past the bridge loop, every bridge exists.
LEMMA ScriptKeepsBridges ==
    ASSUME TypeOK, HostInv, BridgesDone, Script
    PROVE  BridgesDone'
  <1>1. ScriptGrows /\ Flows
    BY ScriptGrowsAlways, ScriptFlows
  <1>2. CASE pc = "bridges" /\ mode = "apply"
    <2>1. OvsBridges
      BY <1>2, StepsCommand
    <2>2. CASE i <= Len(Bridges)
      <3>1. ~(i > Len(Bridges))
        BY <2>2, BridgesAssumption DEF TypeOK
      <3>2. \/ pc' = "idle" /\ exit' = "failed"
            \/ /\ pc' = "bridges" /\ i' = i + 1 /\ exit' = exit
               /\ \/ Bridges[i] \in host.bridges /\ host' = host
                  \/ host' = [host EXCEPT !.bridges = @ \cup {Bridges[i]}]
        BY <1>2, <2>1, <3>1
           DEF OvsBridges, BridgeSeen, AddBridge, OvsVsctl, Command, Look, Goto, Exit
      <3>3. host' = [host EXCEPT !.bridges = @ \cup {Bridges[i]}] => Bridges[i] \in host'.bridges
        BY DEF TypeOK, HostState
      <3>4. exit = "none" /\ i \in Nat \ {0}
        BY <1>2 DEF HostInv, TypeOK
      <3>5. ~Reached(AfterBridges)'
        BY <3>2, <3>4 DEF Reached, AfterBridges, AfterServices, AfterPackages, Step
      <3>6. ASSUME pc' = "bridges", NEW j \in 1 .. Len(Bridges), j < i'
            PROVE  Bridges[j] \in host'.bridges
        <4>1. CASE j = i
          BY <3>2, <3>3, <3>6, <4>1
        <4>2. CASE j # i
          <5>1. j < i
            BY <3>2, <3>4, <3>6, <4>2, BridgesAssumption
          <5> QED BY <1>1, <1>2, <5>1 DEF BridgesDone, ScriptGrows, Grows
        <4> QED BY <4>1, <4>2
      <3> QED BY <3>5, <3>6 DEF BridgesDone
    <2>3. CASE ~(i <= Len(Bridges))
      <3>1. Range(Bridges) \subseteq host.bridges
        <4>1. i \in Nat /\ i > Len(Bridges)
          BY <2>3, BridgesAssumption DEF TypeOK
        <4>2. \A j \in 1 .. Len(Bridges) : j < i => Bridges[j] \in host.bridges
          BY <1>2 DEF BridgesDone
        <4> QED BY <4>1, <4>2, LoopDone, BridgesAssumption
      <3>2. pc' # "bridges"
        BY <2>1, <2>3 DEF OvsBridges, Look, Goto
      <3> QED BY <1>1, <3>1, <3>2 DEF BridgesDone, ScriptGrows, Grows
    <2> QED BY <2>2, <2>3
  <1>3. CASE pc = "autostart_default"
    <2>1. DefaultPool
      BY <1>3, StepsCommand
    <2>2. pc' = "bridges" => i' = 1
      BY <1>3, <2>1 DEF DefaultPool, Virsh, Command, Goto, Exit
    <2>3. ~Reached(AfterBridges)'
      BY <1>1, <1>3 DEF Reached, Flows, HostInv, AfterBridges, AfterServices, AfterPackages, Step
    <2> QED BY <2>2, <2>3 DEF BridgesDone
  <1>4. CASE pc # "autostart_default" /\ ~(pc = "bridges" /\ mode = "apply")
    <2>1. Reached(AfterBridges)' => Reached(AfterBridges)
      BY <1>1, <1>4 DEF Reached, Flows, AfterBridges, AfterServices, AfterPackages, Step
    <2>2. ~(mode' = "apply" /\ pc' = "bridges")
      BY <1>1, <1>4 DEF Flows
    <2> QED BY <1>1, <2>1, <2>2 DEF BridgesDone, ScriptGrows, Grows
  <1> QED BY <1>2, <1>3, <1>4

\* Past the ovs-vsctl calls, the host knows its fabric.
LEMMA ScriptKeepsFabric ==
    ASSUME TypeOK, HostInv, FabricDone, Script
    PROVE  FabricDone'
  <1> USE DEF AfterEncap, AfterRemote, AfterBridges, AfterServices, AfterPackages, Step
  <1>1. ScriptGrows /\ Flows
    BY ScriptGrowsAlways, ScriptFlows
  <1>2. CASE pc = "ovn_remote"
    <2>1. JoinFabric
      BY <1>2, StepsCommand
    <2>2. mode = "apply" => exit' = "failed" \/ host' = [host EXCEPT !.fabric = @ \cup {"remote"}]
      BY <1>2, <2>1 DEF JoinFabric, OvsVsctl, Command, Exit
    <2>3. host' = [host EXCEPT !.fabric = @ \cup {"remote"}] => "remote" \in host'.fabric
      BY DEF TypeOK, HostState
    <2>4. exit' = "failed" => pc' = "idle"
      BY <1>1, <1>2 DEF Flows, HostInv
    <2>5. pc' \notin AfterEncap /\ exit' # "ok" /\ mode' = mode
      BY <1>1, <1>2 DEF Flows, HostInv
    <2> QED BY <2>2, <2>3, <2>4, <2>5 DEF FabricDone, Reached
  <1>3. CASE pc = "ovn_encap"
    <2>1. JoinFabric
      BY <1>3, StepsCommand
    <2>2. mode = "apply" => exit' = "failed" \/ host' = [host EXCEPT !.fabric = @ \cup {"encap"}]
      BY <1>3, <2>1 DEF JoinFabric, OvsVsctl, Command, Exit
    <2>3. host' = [host EXCEPT !.fabric = @ \cup {"encap"}] => "encap" \in host'.fabric
      BY DEF TypeOK, HostState
    <2>4. exit' = "failed" => pc' = "idle"
      BY <1>1, <1>3 DEF Flows, HostInv
    <2>5. mode = "apply" => "remote" \in host.fabric
      BY <1>3 DEF FabricDone, Reached
    <2>6. mode' = mode /\ exit' # "ok"
      BY <1>1, <1>3 DEF Flows, HostInv
    <2> QED BY <1>1, <2>2, <2>3, <2>4, <2>5, <2>6
            DEF FabricDone, Reached, ScriptGrows, Grows
  <1>4. CASE pc \notin {"ovn_remote", "ovn_encap"}
    <2>1. /\ Reached(AfterRemote)' => Reached(AfterRemote)
          /\ Reached(AfterEncap)' => Reached(AfterEncap)
      BY <1>1, <1>4 DEF Reached, Flows
    <2> QED BY <1>1, <2>1 DEF FabricDone, ScriptGrows, Grows
  <1> QED BY <1>2, <1>3, <1>4

\* Past the storage step, the rbd pool is active.
LEMMA ScriptKeepsPool ==
    ASSUME TypeOK, HostInv, PoolDone, Script
    PROVE  PoolDone'
  <1> USE DEF AfterPool, AfterVfio, CheckStep, LocalStep
  <1> SUFFICES ASSUME target'.backend = "ceph_rbd"
               PROVE  /\ pc' \notin LocalStep
                      /\ Reached(AfterPool)' => "active" \in host'.pools["ceph-pool"]
    BY DEF PoolDone
  <1>1. ScriptGrows /\ Flows
    BY ScriptGrowsAlways, ScriptFlows
  <1>2. target.backend = "ceph_rbd" /\ pc \notin LocalStep /\ pc' \notin LocalStep
    BY <1>1 DEF PoolDone, Flows
  <1>3. CASE pc = "rbd_create"
    <2>1. RbdPool
      BY <1>3, StepsCommand
    <2>2. mode = "apply" => \/ exit' = "failed"
                            \/ host' = host /\ host.pools["ceph-pool"] # {}
                            \/ host' = WithPool("ceph-pool", "active")
      BY <2>1 DEF RbdPool, Look, Command, Exit, Existing
    <2>3. host' = WithPool("ceph-pool", "active") => "active" \in host'.pools["ceph-pool"]
      BY DEF TypeOK, HostState, WithPool
    <2>4. host' = host /\ host.pools["ceph-pool"] # {} => "active" \in host'.pools["ceph-pool"]
      BY DEF HostInv
    <2>5. mode' = mode /\ exit' # "ok" /\ (exit' = "failed" => pc' = "idle")
      BY <1>1, <1>3 DEF Flows, HostInv
    <2> QED BY <1>2, <2>2, <2>3, <2>4, <2>5 DEF Reached
  <1>4. CASE pc # "rbd_create"
    <2>1. Reached(AfterPool)' => Reached(AfterPool)
      BY <1>1, <1>2, <1>4 DEF Reached, Flows
    <2> QED BY <1>1, <1>2, <2>1 DEF PoolDone, ScriptGrows
  <1> QED BY <1>3, <1>4

\* Past the GPU steps of a GPU host, the vfio modules are loaded at boot.
LEMMA ScriptKeepsVfio ==
    ASSUME TypeOK, HostInv, VfioDone, Script
    PROVE  VfioDone'
  <1> USE DEF AfterVfio, CheckStep
  <1>1. ScriptGrows /\ Flows
    BY ScriptGrowsAlways, ScriptFlows
  <1>2. GpuHost' = GpuHost
    BY <1>1 DEF Flows, GpuHost
  <1>3. CASE pc = "vfio_conf"
    <2>1. Vfio
      BY <1>3, StepsCommand
    <2>2. mode = "apply" => exit' = "failed" \/ host' = [host EXCEPT !.vfio = @ \cup {"persisted"}]
      BY <1>3, <2>1 DEF Vfio, Command, Exit
    <2>3. host' = [host EXCEPT !.vfio = @ \cup {"persisted"}] => "persisted" \in host'.vfio
      BY DEF TypeOK, HostState
    <2>4. mode' = mode /\ exit' # "ok" /\ (exit' = "failed" => pc' = "idle")
      BY <1>1, <1>3 DEF Flows, HostInv
    <2> QED BY <2>2, <2>3, <2>4 DEF VfioDone, Reached
  <1>4. CASE pc # "vfio_conf"
    <2>1. GpuHost /\ Reached(AfterVfio)' => Reached(AfterVfio)
      BY <1>1, <1>4 DEF Reached, Flows
    <2> QED BY <1>1, <1>2, <2>1 DEF VfioDone, ScriptGrows, Grows
  <1> QED BY <1>3, <1>4

\* Exit code 0 needs the IOMMU of the running kernel.
LEMMA ScriptKeepsBoot ==
    ASSUME TypeOK, HostInv, BootDone, Script
    PROVE  BootDone'
  <1>1. ScriptGrows /\ Flows
    BY ScriptGrowsAlways, ScriptFlows
  <1>2. CASE pc = "check_iommu"
    <2>1. CheckIommu
      BY <1>2, StepsCommand
    <2> QED BY <1>1, <2>1 DEF CheckIommu, BootDone, Flows
  <1>3. CASE pc # "check_iommu"
    BY <1>1, <1>3 DEF BootDone, Flows, ScriptGrows
  <1> QED BY <1>2, <1>3

----------------------------------------------------------------------------
(* The theorem.                                                             *)

\* Starting, rebooting, killing and stopping a service put no run further than it was.
LEMMA EventKeepsDone ==
    ASSUME TypeOK, HostInv, Done,
           \/ \E how \in {"apply", "dry_run", "check_only"} : Start(how)
           \/ Reboot \/ Interrupted \/ ServiceStops \/ UNCHANGED vars
    PROVE  HostInv' /\ Done'
  <1> USE DEF Done, PackagesDone, ServicesDone, BridgesDone, FabricDone, PoolDone, VfioDone,
              BootDone, Reached, GpuHost, LocalStep
  <1>1. CASE \E how \in {"apply", "dry_run", "check_only"} : Start(how)
    <2>1. PICK how \in {"apply", "dry_run", "check_only"} : Start(how)
      BY <1>1
    <2>2. HostInv'
      BY <2>1 DEF Start, HostInv
    <2>3. /\ target' = target /\ exit' = "none"
          /\ pc' = "packages" \/ (mode' # "apply" /\ pc' = "check_services")
      BY <2>1 DEF Start
    <2>4. \A S \in {AfterPackages, AfterServices, AfterBridges, AfterRemote, AfterEncap,
                   AfterPool, AfterVfio} : "packages" \notin S
      BY DEF AfterPackages, AfterServices, AfterBridges, AfterRemote, AfterEncap, AfterPool,
             AfterVfio, CheckStep
    <2> QED BY <2>2, <2>3, <2>4
  <1>2. CASE Reboot \/ Interrupted
    <2>1. pc' = "idle" /\ exit' = "none" /\ (host' = host \/ host' = Booted)
      BY <1>2 DEF Reboot, Interrupted
    <2>2. /\ Booted.booted = host.grub_cfg /\ Booted.grub_cfg = host.grub_cfg
          /\ Booted.pools["ceph-pool"] \subseteq {"active"}
      BY DEF Booted, Defined, TypeOK, HostState, HostInv
    <2>3. HostInv'
      BY <2>1, <2>2 DEF HostInv
    <2>4. \A S \in {AfterPackages, AfterServices, AfterBridges, AfterRemote, AfterEncap,
                   AfterPool, AfterVfio} : "idle" \notin S
      BY DEF AfterPackages, AfterServices, AfterBridges, AfterRemote, AfterEncap, AfterPool,
             AfterVfio, CheckStep, Step
    <2> QED BY <2>1, <2>3, <2>4
  <1>3. CASE ServiceStops
    <2>1. UNCHANGED <<target, run>> /\ \E s : host' = [host EXCEPT !.active = @ \ {s}]
      BY <1>3 DEF ServiceStops
    <2>2. /\ host'.packages = host.packages /\ host'.enabled = host.enabled
          /\ host'.bridges = host.bridges /\ host'.fabric = host.fabric
          /\ host'.pools = host.pools /\ host'.vfio = host.vfio
          /\ host'.grub_file = host.grub_file /\ host'.grub_cfg = host.grub_cfg
          /\ host'.booted = host.booted
      BY <2>1 DEF TypeOK, HostState
    <2> QED BY <2>1, <2>2 DEF HostInv, run
  <1>4. CASE UNCHANGED vars
    BY <1>4 DEF HostInv, vars, run
  <1> QED BY <1>1, <1>2, <1>3, <1>4

\* Every step keeps what is done.
LEMMA StepDone == TypeOK /\ HostInv /\ Done /\ [Next]_vars => HostInv' /\ Done'
  <1> SUFFICES ASSUME TypeOK, HostInv, Done, [Next]_vars PROVE HostInv' /\ Done'
    OBVIOUS
  <1>1. CASE Script
    BY <1>1, ScriptKeepsHostInv, ScriptKeepsPackages, ScriptKeepsServices, ScriptKeepsBridges,
       ScriptKeepsFabric, ScriptKeepsPool, ScriptKeepsVfio, ScriptKeepsBoot DEF Done
  <1>2. CASE ~Script
    BY <1>2, EventKeepsDone DEF Next
  <1> QED BY <1>1, <1>2

\* Before the first run nothing is claimed.
LEMMA InitDone == Init => HostInv /\ Done
  BY DEF Init, FreshHost, HostInv, Done, PackagesDone, ServicesDone, BridgesDone, FabricDone,
         PoolDone, VfioDone, BootDone, Reached, AfterPackages, AfterServices, AfterBridges,
         AfterRemote, AfterEncap, AfterPool, AfterVfio, LocalStep, CheckStep, Step

\* The rbd pool is made by runs that could import rados alone, so a run that could not, and
\* a host without the packages, has none.
RadosInv ==
    /\ ~host.packages => host.pools["ceph-pool"] = {}
    /\ mode = "apply" /\ ~rados /\ (pc # "idle" \/ exit = "ok") => host.pools["ceph-pool"] = {}
    /\ pc = "rbd_create" /\ mode = "apply" => rados

\* A step of the script makes no rbd pool without rados.
LEMMA ScriptKeepsRados ==
    ASSUME TypeOK, HostInv, PackagesDone, CheckOnlyChecks, RadosInv, Script
    PROVE  RadosInv'
  <1>1. ScriptGrows /\ Flows
    BY ScriptGrowsAlways, ScriptFlows
  <1>2. CASE pc = "rbd_create"
    <2>1. RbdPool
      BY <1>2, StepsCommand
    <2>2. mode = "apply" \/ (mode = "dry_run" /\ host' = host)
      BY <1>1, <2>1, DevicesHarmless DEF TypeOK
    <2>3. mode = "apply" => rados /\ host.packages
      BY <1>2 DEF RadosInv, PackagesDone, Reached, AfterPackages, Step
    <2>4. pc' # "rbd_create"
      BY <2>1 DEF RbdPool, Command, Look, Goto, Exit, AfterStorage
    <2> QED BY <1>1, <2>2, <2>3, <2>4 DEF RadosInv, Flows, ScriptGrows, Grows
  <1>3. CASE pc # "rbd_create"
    <2>1. host'.pools["ceph-pool"] = host.pools["ceph-pool"]
      <3> USE DEF Command, Look
      <3>1. \A s : WithService(s).pools = host.pools
        BY DEF WithService, TypeOK, HostState
      <3>2. \A f : WithPool("default", f).pools["ceph-pool"] = host.pools["ceph-pool"]
        BY DEF WithPool, TypeOK, HostState
      <3>3. CASE EnableServices \/ Libvirtd \/ Cockpit
        BY <3>1, <3>3 DEF EnableServices, Libvirtd, Cockpit, EnableNow
      <3>4. CASE DefaultPool \/ LocalPool
        BY <3>2, <3>4 DEF DefaultPool, LocalPool, Virsh
      <3>5. CASE OvsBridges
        BY <3>5 DEF OvsBridges, AddBridge, OvsVsctl, TypeOK, HostState
      <3>6. CASE JoinFabric
        BY <3>1, <3>6 DEF JoinFabric, OvsVsctl, EnableNow, TypeOK, HostState
      <3>7. CASE Packages \/ Storage \/ KernelArgs \/ Vfio
        BY <3>7 DEF Packages, Storage, KernelArgs, Vfio, TypeOK, HostState
      <3>8. CASE CheckServices \/ CheckVirsh \/ CheckBridges \/ CheckCeph \/ CheckIommu
        BY <3>8, ChecksHarmless
      <3>9. ~RbdPool
        BY <1>3 DEF RbdPool
      <3> QED BY <3>3, <3>4, <3>5, <3>6, <3>7, <3>8, <3>9 DEF Script
    <2>2. pc' = "rbd_create" /\ mode = "apply" => rados
      BY <1>3 DEF Script, Packages, EnableServices, Libvirtd, DefaultPool, OvsBridges,
         JoinFabric, Storage, RbdPool, LocalPool, KernelArgs, Vfio, Cockpit, CheckServices,
         CheckVirsh, CheckBridges, CheckCeph, CheckIommu, EnableNow, Virsh, AddBridge,
         OvsVsctl, Command, Look, Check, Goto, Exit, AfterStorage
    <2>3. pc # "idle"
      BY <1>1 DEF Flows, Step
    <2> QED BY <1>1, <2>1, <2>2, <2>3 DEF RadosInv, Flows, ScriptGrows, Grows
  <1> QED BY <1>2, <1>3

\* A run that starts without rados finds no packages, and a boot leaves no rbd pool.
LEMMA StepRados ==
    TypeOK /\ HostInv /\ Done /\ CheckOnlyChecks /\ RadosInv /\ [Next]_vars => RadosInv'
  <1> SUFFICES ASSUME TypeOK, HostInv, Done, CheckOnlyChecks, RadosInv, [Next]_vars
               PROVE  RadosInv'
    OBVIOUS
  <1>1. CASE Script
    BY <1>1, ScriptKeepsRados DEF Done
  <1>2. CASE \E how \in {"apply", "dry_run", "check_only"} : Start(how)
    BY <1>2 DEF Start, RadosInv
  <1>3. CASE Reboot \/ Interrupted
    <2>1. pc' = "idle" /\ exit' = "none" /\ (host' = host \/ host' = Booted)
      BY <1>3 DEF Reboot, Interrupted
    <2>2. Booted.pools["ceph-pool"] = {}
      BY DEF Booted, Defined, HostInv, TypeOK, HostState
    <2> QED BY <2>1, <2>2 DEF RadosInv
  <1>4. CASE ServiceStops
    <2>1. host'.pools = host.pools /\ host'.packages = host.packages
      BY <1>4 DEF ServiceStops, TypeOK, HostState
    <2> QED BY <1>4, <2>1 DEF ServiceStops, RadosInv, run
  <1>5. CASE UNCHANGED vars
    BY <1>5 DEF RadosInv, vars, run
  <1> QED BY <1>1, <1>2, <1>3, <1>4, <1>5 DEF Next

\* A run of bootstrap.py that ends with exit code 0 leaves a host that has what the
\* management service needs, however many runs before it failed or were killed.
THEOREM ReadyMeansReady == Spec => []ReadyIsReady
  <1>1. TypeOK /\ HostInv /\ Done /\ RadosInv => ReadyIsReady
    <2> SUFFICES ASSUME TypeOK, HostInv, Done, RadosInv, Applied PROVE ReadyIsReady
      BY DEF ReadyIsReady
    <2>1. \A S \in {AfterPackages, AfterServices, AfterBridges, AfterRemote, AfterEncap,
                   AfterPool, AfterVfio} : Reached(S)
      BY DEF Applied, Reached
    <2>2. host.packages /\ Range(Services) \subseteq host.enabled
      BY <2>1 DEF Done, PackagesDone, ServicesDone
    <2>3. host.bridges = Range(Bridges)
      BY <2>1 DEF Done, BridgesDone, TypeOK, HostState
    <2>4. host.fabric = {"remote", "encap"}
      BY <2>1 DEF Done, FabricDone, TypeOK, HostState
    <2>5. /\ target.backend = "ceph_rbd" => "active" \in host.pools["ceph-pool"]
          /\ GpuHost => "persisted" \in host.vfio
      BY <2>1 DEF Done, PoolDone, VfioDone
    <2>6. host.booted /\ host.grub_cfg
      BY DEF Done, BootDone, HostInv, Applied
    <2>7. target.backend = "ceph_rbd" => rados
      BY <2>5 DEF RadosInv, Applied
    <2> QED BY <2>2, <2>3, <2>4, <2>5, <2>6, <2>7 DEF ReadyIsReady
  <1>2. Init => RadosInv /\ CheckOnlyChecks
    BY DEF Init, FreshHost, RadosInv, CheckOnlyChecks
  <1> QED
    BY <1>1, <1>2, InitDone, StepDone, StepRados, StepCheckOnly, TypesHold, PTL DEF Spec

----------------------------------------------------------------------------
(* The local pool, of hosts on which nothing has failed.                    *)

AfterPoolDefined == {"start_default", "autostart_default"}
AfterAutostart == AfterBridges \cup {"bridges"}

\* What a run that applies the script has established of the pool. Nothing but the exit
\* code of "virsh pool-define-as" says that the pool was there before.
LocalPoolDone ==
    faults = 0 =>
        /\ Reached(AfterPoolDefined \cup {"define_default"}) /\ exit # "ok"
              => "libvirtd" \in host.active
        /\ Reached(AfterPoolDefined) => "defined" \in host.pools["default"]
        /\ Reached({"autostart_default"}) => "active" \in host.pools["default"]
        /\ Reached(AfterAutostart) => host.pools["default"] = PoolFlag

\* A virsh call that can work, and does not fail of its own accord, works.
LEMMA VirshWorks ==
    ASSUME TypeOK, NEW works \in BOOLEAN, NEW f \in PoolFlag, NEW next,
           mode = "apply", "libvirtd" \in host.active, faults = 0, faults' = 0,
           Virsh(works, "default", f, next), works \/ f \in host.pools["default"]
    PROVE  f \in host'.pools["default"]
  <1>1. host' = WithPool("default", f) \/ (host' = host /\ ~works)
    BY DEF Virsh, Command, Active
  <1>2. host' = WithPool("default", f) => f \in host'.pools["default"]
    BY DEF WithPool, TypeOK, HostState
  <1> QED BY <1>1, <1>2

\* A step of the script keeps the local pool done.
LEMMA ScriptKeepsLocalPool ==
    ASSUME TypeOK, TypeOK', HostInv, LocalPoolDone, Script
    PROVE  LocalPoolDone'
  <1> USE DEF AfterPoolDefined, AfterAutostart
  <1> SUFFICES ASSUME faults' = 0, mode' = "apply" PROVE LocalPoolDone'
    BY DEF LocalPoolDone, Reached
  <1>1. ScriptGrows /\ Flows
    BY ScriptGrowsAlways, ScriptFlows
  <1>2. faults = 0 /\ mode = "apply" /\ pc \in Step /\ exit = "none"
    BY <1>1 DEF Flows, TypeOK, HostInv, Step
  <1>3. host'.pools["default"] \subseteq PoolFlag
    BY DEF TypeOK, HostState
  <1>4. CASE pc = "libvirtd"
    <2>1. Libvirtd
      BY <1>4, StepsCommand
    <2>2. /\ pc' \in {"define_default", "idle"} /\ exit' # "ok"
          /\ pc' = "define_default" => "libvirtd" \in host.active \/ host' = WithService("libvirtd")
      BY <1>2, <2>1 DEF Libvirtd, EnableNow, Command, Look, Goto, Exit, Active
    <2>3. host' = WithService("libvirtd") => "libvirtd" \in host'.active
      BY DEF WithService, TypeOK, HostState
    <2>4. "define_default" \notin AfterBridges /\ "idle" \notin AfterBridges
      BY DEF AfterBridges, AfterServices, AfterPackages, Step
    <2> QED BY <1>1, <2>2, <2>3, <2>4 DEF LocalPoolDone, Reached, ScriptGrows
  <1>5. CASE pc \in {"define_default", "start_default", "autostart_default"}
    <2>1. DefaultPool
      BY <1>5, StepsCommand
    <2>2. "libvirtd" \in host.active /\ "libvirtd" \in host'.active
      BY <1>1, <1>2, <1>5 DEF LocalPoolDone, Reached, ScriptGrows
    <2>3. CASE pc = "define_default"
      <3>1. Virsh(~Defined("default"), "default", "defined", "start_default")
        BY <2>1, <2>3 DEF DefaultPool
      <3>2. "defined" \in host'.pools["default"]
        BY <1>2, <2>2, <3>1, VirshWorks DEF Defined, PoolFlag
      <3>3. pc' = "start_default" /\ exit' = "none"
        BY <1>2, <3>1 DEF Virsh, Command, Goto
      <3>4. "start_default" \notin AfterBridges
        BY DEF AfterBridges, AfterServices, AfterPackages, Step
      <3> QED BY <2>2, <3>2, <3>3, <3>4 DEF LocalPoolDone, Reached
    <2>4. CASE pc = "start_default"
      <3>1. Virsh(Defined("default"), "default", "active", "autostart_default")
        BY <2>1, <2>4 DEF DefaultPool
      <3>2. "defined" \in host.pools["default"]
        BY <1>2, <2>4 DEF LocalPoolDone, Reached
      <3>3. "active" \in host'.pools["default"] /\ "defined" \in host'.pools["default"]
        BY <1>1, <1>2, <2>2, <3>1, <3>2, VirshWorks DEF Defined, PoolFlag, ScriptGrows
      <3>4. pc' = "autostart_default" /\ exit' = "none"
        BY <1>2, <3>1 DEF Virsh, Command, Goto
      <3>5. "autostart_default" \notin AfterBridges
        BY DEF AfterBridges, AfterServices, AfterPackages, Step
      <3> QED BY <2>2, <3>3, <3>4, <3>5 DEF LocalPoolDone, Reached
    <2>5. CASE pc = "autostart_default"
      <3>1. Virsh(Defined("default"), "default", "autostart", "bridges")
        BY <2>1, <2>5 DEF DefaultPool
      <3>2. {"defined", "active"} \subseteq host.pools["default"]
        BY <1>2, <2>5 DEF LocalPoolDone, Reached
      <3>3. "autostart" \in host'.pools["default"]
        BY <1>2, <2>2, <3>1, <3>2, VirshWorks DEF Defined, PoolFlag
      <3>4. host'.pools["default"] = PoolFlag
        BY <1>1, <1>3, <3>2, <3>3 DEF PoolFlag, ScriptGrows
      <3>5. pc' = "bridges" /\ exit' = "none"
        BY <1>2, <3>1 DEF Virsh, Command, Goto
      <3> QED BY <3>4, <3>5 DEF LocalPoolDone, Reached
    <2> QED BY <1>5, <2>3, <2>4, <2>5
  <1>6. CASE pc \notin {"libvirtd", "define_default", "start_default", "autostart_default"}
    <2>1. pc' \notin AfterPoolDefined \cup {"define_default"}
      BY <1>1, <1>6 DEF Flows
    <2>2. Reached(AfterAutostart)' => Reached(AfterAutostart)
      BY <1>1, <1>2, <1>6 DEF Flows, Reached, AfterBridges, AfterServices, AfterPackages, Step
    <2>3. Reached(AfterAutostart)' => host'.pools["default"] = PoolFlag
      BY <1>1, <1>2, <1>3, <2>2 DEF LocalPoolDone, ScriptGrows
    <2>4. exit' = "ok" => Reached(AfterAutostart)'
      BY DEF Reached
    <2> QED BY <2>1, <2>3, <2>4 DEF LocalPoolDone, Reached, PoolFlag
  <1> QED BY <1>4, <1>5, <1>6

\* Every step keeps what is established of the pool: an event ends the run or is a fault.
LEMMA StepLocalPool ==
    TypeOK /\ TypeOK' /\ HostInv /\ LocalPoolDone /\ [Next]_vars => LocalPoolDone'
  <1> SUFFICES ASSUME TypeOK, TypeOK', HostInv, LocalPoolDone, [Next]_vars PROVE LocalPoolDone'
    OBVIOUS
  <1> USE DEF AfterPoolDefined, AfterAutostart
  <1>1. CASE Script
    BY <1>1, ScriptKeepsLocalPool
  <1>2. CASE \E how \in {"apply", "dry_run", "check_only"} : Start(how)
    <2>1. exit' = "none" /\ (pc' = "packages" \/ mode' # "apply")
      BY <1>2 DEF Start
    <2>2. "packages" \notin AfterBridges
      BY DEF AfterBridges, AfterServices, AfterPackages
    <2> QED BY <2>1, <2>2 DEF LocalPoolDone, Reached
  <1>3. CASE Reboot \/ Interrupted
    <2>1. pc' = "idle" /\ exit' = "none"
      BY <1>3 DEF Reboot, Interrupted
    <2>2. "idle" \notin AfterBridges
      BY DEF AfterBridges, AfterServices, AfterPackages, Step
    <2> QED BY <2>1, <2>2 DEF LocalPoolDone, Reached
  <1>4. CASE ServiceStops
    BY <1>4 DEF ServiceStops, LocalPoolDone, TypeOK
  <1>5. CASE UNCHANGED vars
    BY <1>5 DEF LocalPoolDone, Reached, vars, run
  <1> QED BY <1>1, <1>2, <1>3, <1>4, <1>5 DEF Next

\* As long as nothing has failed, a run of bootstrap.py that ends with exit code 0 leaves
\* the local pool defined, active and started with the host, after any number of runs that
\* were killed, although it looks at no exit code on the way.
THEOREM PoolPresent == Spec => []PoolMissingOnlyByFault
  <1>1. Init => LocalPoolDone
    BY DEF Init, LocalPoolDone, Reached, AfterPoolDefined, AfterAutostart, AfterBridges,
           AfterServices, AfterPackages, Step
  <1>2. LocalPoolDone => PoolMissingOnlyByFault
    BY DEF LocalPoolDone, PoolMissingOnlyByFault, Applied, Reached
  <1> QED BY <1>1, <1>2, InitDone, StepDone, StepLocalPool, TypesHold, PTL DEF Spec

----------------------------------------------------------------------------
(* Hosts on which nothing has failed.                                       *)

\* Services are enabled and started together, and a boot starts what is enabled.
EnabledRun == faults = 0 => host.enabled \subseteq host.active

\* A step of the script starts what it enables.
LEMMA ScriptKeepsEnabledRun ==
    ASSUME TypeOK, EnabledRun, Script
    PROVE  EnabledRun'
  <1> SUFFICES ASSUME faults' = 0 PROVE host'.enabled \subseteq host'.active
    BY DEF EnabledRun
  <1> USE DEF Command, Look
  <1>1. host.enabled \subseteq host.active
    BY ScriptFlows DEF Flows, EnabledRun, TypeOK
  <1>2. \A s : /\ WithService(s).enabled = host.enabled \cup {s}
               /\ WithService(s).active = host.active \cup {s}
    BY DEF WithService, TypeOK, HostState
  <1>3. \A p, f : /\ WithPool(p, f).enabled = host.enabled
                  /\ WithPool(p, f).active = host.active
    BY DEF WithPool, TypeOK, HostState
  <1>4. CASE EnableServices \/ Libvirtd \/ Cockpit
    BY <1>1, <1>2, <1>4 DEF EnableServices, Libvirtd, Cockpit, EnableNow
  <1>5. CASE DefaultPool \/ RbdPool \/ LocalPool
    BY <1>1, <1>3, <1>5 DEF DefaultPool, RbdPool, LocalPool, Virsh
  <1>6. CASE OvsBridges
    BY <1>1, <1>6 DEF OvsBridges, AddBridge, OvsVsctl, TypeOK, HostState
  <1>7. CASE JoinFabric
    BY <1>1, <1>2, <1>7 DEF JoinFabric, OvsVsctl, EnableNow, TypeOK, HostState
  <1>8. CASE Packages \/ Storage \/ KernelArgs \/ Vfio
    BY <1>1, <1>8 DEF Packages, Storage, KernelArgs, Vfio, TypeOK, HostState
  <1>9. CASE CheckServices \/ CheckVirsh \/ CheckBridges \/ CheckCeph \/ CheckIommu
    BY <1>1, <1>9, ChecksHarmless
  <1> QED BY <1>4, <1>5, <1>6, <1>7, <1>8, <1>9 DEF Script

\* A command that ends a run, where none has failed of its own accord, could not work.
LEMMA CommandFails ==
    ASSUME faults \in Nat, exit # "failed", NEW checked \in BOOLEAN, NEW works \in BOOLEAN,
           NEW after, NEW next, NEW k, Command(checked, works, after, next, k),
           exit' = "failed", faults' = 0
    PROVE  mode # "dry_run" /\ ~works
  BY DEF Command, Goto, Exit

\* Where nothing has failed, no step ends a run but that for Ceph without rados.
LEMMA ScriptFailsOnlyByFault ==
    ASSUME TypeOK, HostInv, PackagesDone, ServicesDone, CheckOnlyChecks, EnabledRun, Script,
           exit' = "failed", faults' = 0
    PROVE  target.backend = "ceph_rbd" /\ ~rados
  <1>1. faults = 0 /\ exit = "none" /\ pc \in Step
    BY ScriptFlows DEF Flows, TypeOK, HostInv, Step
  <1>2. pc \in AfterPackages /\ mode = "apply" => host.packages
    BY DEF PackagesDone, Reached
  <1>3. pc \in AfterServices /\ mode = "apply" => Active("libvirtd") /\ Active("openvswitch")
    BY <1>1, ServicesKnown DEF ServicesDone, Reached, EnabledRun, Active
  <1> USE DEF AfterPackages, AfterServices, Step
  <1>4. host.packages \in BOOLEAN /\ \A s : Active(s) \in BOOLEAN
    BY DEF TypeOK, HostState, Active
  <1>5. ASSUME NEW s, NEW next, NEW k, EnableNow(s, next, k), pc \in AfterPackages,
               mode # "check_only"
        PROVE  FALSE
    <2>1. mode # "dry_run" /\ ~host.packages
      BY <1>1, <1>4, <1>5, CommandFails DEF EnableNow
    <2> QED BY <1>2, <1>5, <2>1 DEF TypeOK
  <1>6. ASSUME NEW works \in BOOLEAN, NEW after, NEW next, NEW k,
               OvsVsctl(works, after, next, k), pc \in AfterServices, mode # "check_only",
               mode = "apply" => works
        PROVE  FALSE
    <2>1. mode # "dry_run" /\ ~(Active("openvswitch") /\ works)
      BY <1>1, <1>4, <1>6, CommandFails DEF OvsVsctl
    <2> QED BY <1>3, <1>6, <2>1 DEF TypeOK
  <1>7. CASE Packages \/ KernelArgs \/ Vfio
    BY <1>1, <1>7 DEF Packages, KernelArgs, Vfio, Command, Look, Goto, Exit, TypeOK
  <1>8. CASE EnableServices
    BY <1>1, <1>5, <1>8, SetupHarmless DEF EnableServices, Look, Goto
  <1>9. CASE Libvirtd
    BY <1>1, <1>5, <1>9, SetupHarmless DEF Libvirtd, Look, Goto
  <1>10. CASE DefaultPool \/ LocalPool
    BY <1>1, <1>10 DEF DefaultPool, LocalPool, Virsh, Command, Look, Goto
  <1>11. CASE OvsBridges
    <2>1. mode # "check_only"
      BY <1>11, SetupHarmless
    <2>2. CASE i <= Len(Bridges) /\ ~BridgeSeen(Bridges[i])
                 /\ AddBridge(Bridges[i], "bridges", i + 1)
      <3>1. mode = "apply" => Bridges[i] \notin host.bridges
        BY <1>3, <1>11, <2>2 DEF BridgeSeen, OvsBridges
      <3>2. (Bridges[i] \notin host.bridges) \in BOOLEAN
        OBVIOUS
      <3> QED BY <1>6, <1>11, <2>1, <2>2, <3>1, <3>2 DEF AddBridge, OvsBridges
    <2> QED BY <1>1, <1>11, <2>2 DEF OvsBridges, Look, Goto
  <1>12. CASE JoinFabric
    <2>1. mode # "check_only"
      BY <1>12, SetupHarmless
    <2> QED BY <1>5, <1>6, <1>12, <2>1 DEF JoinFabric
  <1>13. CASE Storage
    <2>1. CASE target.backend = "ceph_rbd" /\ Command(TRUE, rados, host, "rbd_create", 1)
      BY <1>1, <2>1, CommandFails DEF TypeOK
    <2> QED BY <1>1, <1>13, <2>1 DEF Storage, Look, Goto
  <1>14. CASE RbdPool
    <2>1. mode # "check_only" /\ mode \in {"apply", "dry_run", "check_only"}
      BY <1>14, DevicesHarmless DEF TypeOK
    <2>2. mode = "apply" => Active("libvirtd")
      BY <1>3, <1>14 DEF RbdPool
    <2> QED BY <1>1, <1>14, <2>1, <2>2 DEF RbdPool, Command, Look, Goto, TypeOK
  <1>15. CASE Cockpit
    BY <1>1, <1>5, <1>15, DevicesHarmless DEF Cockpit, Look, Goto
  <1>16. CASE CheckServices \/ CheckVirsh \/ CheckBridges \/ CheckCeph \/ CheckIommu
    BY <1>1, <1>16 DEF CheckServices, CheckVirsh, CheckBridges, CheckCeph, CheckIommu,
       Check, Look, Goto
  <1> QED BY <1>7, <1>8, <1>9, <1>10, <1>11, <1>12, <1>13, <1>14, <1>15, <1>16 DEF Script

\* Every step keeps both: only a boot and a stopping service touch what runs, and only a
\* script step makes a run fail.
LEMMA StepFails ==
    ASSUME TypeOK, HostInv, Done, CheckOnlyChecks, EnabledRun, FailsOnlyByFault, [Next]_vars
    PROVE  EnabledRun' /\ FailsOnlyByFault'
  <1>1. CASE Script
    <2>1. EnabledRun'
      BY <1>1, ScriptKeepsEnabledRun
    <2>2. target' = target /\ rados' = rados
      BY <1>1, ScriptFlows DEF Flows
    <2>3. exit' = "failed" /\ faults' = 0 => target.backend = "ceph_rbd" /\ ~rados
      BY <1>1, ScriptFailsOnlyByFault DEF Done
    <2> QED BY <2>1, <2>2, <2>3 DEF FailsOnlyByFault
  <1>2. CASE \E how \in {"apply", "dry_run", "check_only"} : Start(how)
    BY <1>2 DEF Start, EnabledRun, FailsOnlyByFault
  <1>3. CASE Reboot \/ Interrupted
    <2>1. exit' = "none" /\ faults' = faults /\ (host' = host \/ host' = Booted)
      BY <1>3 DEF Reboot, Interrupted
    <2>2. Booted.active = host.enabled /\ Booted.enabled = host.enabled
      BY DEF Booted, TypeOK, HostState
    <2> QED BY <2>1, <2>2 DEF EnabledRun, FailsOnlyByFault
  <1>4. CASE ServiceStops
    BY <1>4 DEF ServiceStops, EnabledRun, FailsOnlyByFault, TypeOK
  <1>5. CASE UNCHANGED vars
    BY <1>5 DEF EnabledRun, FailsOnlyByFault, vars, run
  <1> QED BY <1>1, <1>2, <1>3, <1>4, <1>5 DEF Next

\* Where no command and no service fails of its own accord, a run ends with exit code 1 on
\* hosts of the Ceph backend alone, when it was started before the packages were there.
THEOREM FailuresAreFaults == Spec => []FailsOnlyByFault
  <1>1. Init => EnabledRun /\ FailsOnlyByFault /\ CheckOnlyChecks
    BY DEF Init, FreshHost, EnabledRun, FailsOnlyByFault, CheckOnlyChecks
  <1>2. TypeOK /\ HostInv /\ Done /\ CheckOnlyChecks /\ EnabledRun /\ FailsOnlyByFault
          /\ [Next]_vars => EnabledRun' /\ FailsOnlyByFault'
    BY StepFails
  <1> QED BY <1>1, <1>2, InitDone, StepDone, StepCheckOnly, TypesHold, PTL DEF Spec

----------------------------------------------------------------------------
(* Runs on a configured host.                                               *)

GpuStep == {"gpu", "grub_write", "mkconfig", "modprobe", "vfio_conf"}

\* The vfio modules are stored only after /etc/default/grub has the arguments, and a run
\* that writes the file, or makes the boot configuration from it, comes before that.
DeviceInv ==
    /\ pc = "rbd_create" => target.backend = "ceph_rbd"
    /\ pc \in GpuStep => GpuHost
    /\ "persisted" \in host.vfio => host.grub_file
    /\ pc = "grub_write" => ~host.grub_file
    /\ pc = "mkconfig" => "persisted" \notin host.vfio
    /\ pc \in {"modprobe", "vfio_conf"} /\ mode # "dry_run" => host.grub_file

\* Grub file and vfio modules, where a step of the script may lead to them.
LEMMA ScriptKeepsDevices ==
    ASSUME TypeOK, HostInv, DeviceInv, Script
    PROVE  DeviceInv'
  <1> USE DEF DeviceInv, GpuStep
  <1>1. ScriptGrows /\ Flows
    BY ScriptGrowsAlways, ScriptFlows
  <1>2. mode' = mode /\ target' = target /\ GpuHost' = GpuHost
    BY <1>1 DEF Flows, GpuHost
  <1>3. CASE KernelArgs
    <2> USE DEF KernelArgs, Command, Look, Goto, Exit
    <2>1. CASE pc = "gpu"
      BY <1>2, <1>3, <2>1
    <2>2. CASE pc = "grub_write"
      <3>1. \/ host' = host
            \/ host' = [host EXCEPT !.grub_file = TRUE]
        BY <1>3, <2>2
      <3>2. host'.vfio = host.vfio
        BY <3>1 DEF TypeOK, HostState
      <3>3. pc' \in {"mkconfig", "idle"}
        BY <1>3, <2>2
      <3> QED BY <1>2, <2>2, <3>2, <3>3
    <2>3. CASE pc = "mkconfig"
      <3>1. \/ host' = host
            \/ host' = [host EXCEPT !.grub_cfg = host.grub_file]
        BY <1>3, <2>3
      <3>2. host'.vfio = host.vfio /\ host'.grub_file = host.grub_file
        BY <3>1 DEF TypeOK, HostState
      <3>3. pc' \in {"modprobe", "idle"}
        BY <1>3, <2>3
      <3> QED BY <1>2, <2>3, <3>2, <3>3 DEF HostInv
    <2> QED BY <1>3, <2>1, <2>2, <2>3
  <1>4. CASE Vfio
    <2> USE DEF Vfio, Command, Goto, Exit
    <2>1. host'.grub_file = host.grub_file
      BY <1>4 DEF TypeOK, HostState
    <2>2. CASE pc = "modprobe"
      <3>1. "persisted" \in host'.vfio => "persisted" \in host.vfio
        BY <1>4, <2>2 DEF TypeOK, HostState
      <3>2. pc' = "vfio_conf"
        BY <1>4, <2>2
      <3> QED BY <1>2, <2>1, <2>2, <3>1, <3>2
    <2>3. CASE pc = "vfio_conf"
      <3>1. pc' \in {"cockpit", "idle"}
        BY <1>4, <2>3
      <3>2. "persisted" \in host'.vfio => host.grub_file
        BY <1>4, <2>3
      <3> QED BY <2>1, <3>1, <3>2
    <2> QED BY <1>4, <2>2, <2>3
  <1>5. CASE ~KernelArgs /\ ~Vfio
    <2>1. host'.vfio = host.vfio /\ host'.grub_file = host.grub_file
      <3> USE DEF Command, Look
      <3>1. \A s : /\ WithService(s).vfio = host.vfio
                   /\ WithService(s).grub_file = host.grub_file
        BY DEF WithService, TypeOK, HostState
      <3>2. \A p, f : /\ WithPool(p, f).vfio = host.vfio
                      /\ WithPool(p, f).grub_file = host.grub_file
        BY DEF WithPool, TypeOK, HostState
      <3>3. CASE Packages
        BY <3>3 DEF Packages, TypeOK, HostState
      <3>4. CASE EnableServices \/ Libvirtd \/ Cockpit
        BY <3>1, <3>4 DEF EnableServices, Libvirtd, Cockpit, EnableNow
      <3>5. CASE DefaultPool \/ RbdPool \/ LocalPool
        BY <3>2, <3>5 DEF DefaultPool, RbdPool, LocalPool, Virsh
      <3>6. CASE OvsBridges
        BY <3>6 DEF OvsBridges, AddBridge, OvsVsctl, TypeOK, HostState
      <3>7. CASE JoinFabric
        BY <3>1, <3>7 DEF JoinFabric, OvsVsctl, EnableNow, TypeOK, HostState
      <3>8. CASE Storage
        BY <3>8 DEF Storage
      <3>9. CASE CheckServices \/ CheckVirsh \/ CheckBridges \/ CheckCeph \/ CheckIommu
        BY <3>9, ChecksHarmless
      <3> QED BY <1>5, <3>3, <3>4, <3>5, <3>6, <3>7, <3>8, <3>9 DEF Script
    <2>2. pc' \notin {"grub_write", "mkconfig", "modprobe", "vfio_conf"}
      BY <1>5 DEF Script, Packages, EnableServices, Libvirtd, DefaultPool, OvsBridges,
         JoinFabric, Storage, RbdPool, LocalPool, Cockpit, CheckServices, CheckVirsh,
         CheckBridges, CheckCeph, CheckIommu, EnableNow, Virsh, AddBridge, OvsVsctl,
         Command, Look, Check, Goto, Exit, AfterStorage
    <2>3. pc' = "gpu" => GpuHost
      BY <1>5 DEF Script, Packages, EnableServices, Libvirtd, DefaultPool, OvsBridges,
         JoinFabric, Storage, RbdPool, LocalPool, Cockpit, CheckServices, CheckVirsh,
         CheckBridges, CheckCeph, CheckIommu, EnableNow, Virsh, AddBridge, OvsVsctl,
         Command, Look, Check, Goto, Exit, AfterStorage, GpuHost
    <2>4. pc' = "rbd_create" => target.backend = "ceph_rbd"
      BY <1>5 DEF Script, Packages, EnableServices, Libvirtd, DefaultPool, OvsBridges,
         JoinFabric, Storage, RbdPool, LocalPool, Cockpit, CheckServices, CheckVirsh,
         CheckBridges, CheckCeph, CheckIommu, EnableNow, Virsh, AddBridge, OvsVsctl,
         Command, Look, Check, Goto, Exit, AfterStorage
    <2> QED BY <1>2, <2>1, <2>2, <2>3, <2>4
  <1> QED BY <1>3, <1>4, <1>5

\* What is claimed of the devices outlasts reboots and dying services.
LEMMA StepDevices == TypeOK /\ HostInv /\ DeviceInv /\ [Next]_vars => DeviceInv'
  <1> SUFFICES ASSUME TypeOK, HostInv, DeviceInv, [Next]_vars PROVE DeviceInv'
    OBVIOUS
  <1> USE DEF DeviceInv, GpuStep, GpuHost
  <1>1. CASE Script
    BY <1>1, ScriptKeepsDevices
  <1>2. CASE \E how \in {"apply", "dry_run", "check_only"} : Start(how)
    BY <1>2 DEF Start
  <1>3. CASE Reboot \/ Interrupted
    <2>1. pc' = "idle" /\ (host' = host \/ host' = Booted)
      BY <1>3 DEF Reboot, Interrupted
    <2>2. /\ Booted.grub_file = host.grub_file
          /\ "persisted" \in Booted.vfio => "persisted" \in host.vfio
      BY DEF Booted, TypeOK, HostState
    <2> QED BY <2>1, <2>2
  <1>4. CASE ServiceStops
    <2>1. host'.grub_file = host.grub_file /\ host'.vfio = host.vfio
      BY <1>4 DEF ServiceStops, TypeOK, HostState
    <2> QED BY <1>4, <2>1 DEF ServiceStops, run
  <1>5. CASE UNCHANGED vars
    BY <1>5 DEF vars, run
  <1> QED BY <1>1, <1>2, <1>3, <1>4, <1>5 DEF Next

\* A step that leaves the host alone and fails only by a fault.
Quiet == host' = host /\ (exit' = "failed" => faults' # faults)

\* A look is quiet.
LEMMA LookQuiet ==
    ASSUME exit = "none", NEW next, NEW k, Look(next, k)
    PROVE  Quiet
  BY DEF Look, Goto, Quiet

\* So is a command that would change nothing and, where it is checked, can work.
LEMMA CommandQuiet ==
    ASSUME exit = "none", faults \in Nat, NEW checked \in BOOLEAN, NEW works \in BOOLEAN,
           NEW after, NEW next, NEW k, Command(checked, works, after, next, k),
           mode = "dry_run" \/ after = host \/ ~works,
           mode = "dry_run" \/ works \/ ~checked
    PROVE  Quiet
  BY DEF Command, Goto, Exit, Quiet

\* Adding what is there is no change.
LEMMA NothingToAdd ==
    ASSUME TypeOK
    PROVE  /\ \A s \in host.enabled \cap host.active : WithService(s) = host
           /\ \A p \in {"default", "ceph-pool"} : \A f \in host.pools[p] :
                 WithPool(p, f) = host
           /\ \A f \in host.fabric : [host EXCEPT !.fabric = @ \cup {f}] = host
           /\ \A f \in host.vfio : [host EXCEPT !.vfio = @ \cup {f}] = host
           /\ host.packages => [host EXCEPT !.packages = TRUE] = host
  <1>1. host \in HostState
    BY DEF TypeOK
  <1>2. ASSUME NEW s \in host.enabled \cap host.active PROVE WithService(s) = host
    <2>1. host.enabled \cup {s} = host.enabled /\ host.active \cup {s} = host.active
      BY <1>2
    <2> QED BY <1>1, <2>1 DEF HostState, WithService
  <1>3. ASSUME NEW p \in {"default", "ceph-pool"}, NEW f \in host.pools[p]
        PROVE  WithPool(p, f) = host
    <2>1. host.pools[p] \cup {f} = host.pools[p]
      BY <1>3
    <2>2. [host.pools EXCEPT ![p] = @ \cup {f}] = host.pools
      BY <1>1, <2>1 DEF HostState
    <2> QED BY <1>1, <2>2 DEF HostState, WithPool
  <1>4. ASSUME NEW f \in host.fabric PROVE [host EXCEPT !.fabric = @ \cup {f}] = host
    <2>1. host.fabric \cup {f} = host.fabric
      BY <1>4
    <2> QED BY <1>1, <2>1 DEF HostState
  <1>5. ASSUME NEW f \in host.vfio PROVE [host EXCEPT !.vfio = @ \cup {f}] = host
    <2>1. host.vfio \cup {f} = host.vfio
      BY <1>5
    <2> QED BY <1>1, <2>1 DEF HostState
  <1>6. host.packages => [host EXCEPT !.packages = TRUE] = host
    BY <1>1 DEF HostState
  <1> QED BY <1>2, <1>3, <1>4, <1>5, <1>6

\* On a configured host every step is quiet.
LEMMA ConfiguredQuiet ==
    ASSUME TypeOK, HostInv, DeviceInv, RadosInv, CheckOnlyChecks, Configured, Script
    PROVE  Quiet
  <1>1. exit = "none" /\ faults \in Nat
    BY ScriptFlows DEF Flows, HostInv, TypeOK, Step
  <1>2. \A s \in Range(Services) : WithService(s) = host
    BY NothingToAdd DEF Configured
  <1>3. {"libvirtd", "openvswitch", "ovn-controller", "cockpit.socket"}
          \subseteq Range(Services)
    BY ServicesKnown
  <1>4. /\ host.packages /\ Active("libvirtd") /\ Active("openvswitch")
        /\ Active("cockpit.socket")
    BY <1>3 DEF Configured, Active
  <1>5. host.packages \in BOOLEAN
    BY DEF TypeOK, HostState
  <1>6. \A f \in PoolFlag : WithPool("default", f) = host
    BY NothingToAdd DEF Configured
  <1>7. ASSUME NEW s \in Range(Services), NEW next, NEW k, EnableNow(s, next, k) PROVE Quiet
    BY <1>1, <1>2, <1>4, <1>5, <1>7, CommandQuiet DEF EnableNow
  <1>8. ASSUME NEW works \in BOOLEAN, NEW f \in PoolFlag, NEW next,
               Virsh(works, "default", f, next)
        PROVE  Quiet
    <2>1. Command(FALSE, Active("libvirtd") /\ works, WithPool("default", f), next, 1)
      BY <1>8 DEF Virsh
    <2> QED BY <1>1, <1>6, <2>1, CommandQuiet
  <1>9. CASE Packages
    BY <1>1, <1>4, <1>9, LookQuiet DEF Packages
  <1>10. CASE EnableServices
    <2>1. CASE i <= Len(Services) /\ EnableNow(Services[i], "services", i + 1)
      <3>1. Services[i] \in Range(Services)
        BY <2>1, ServicesAssumption DEF TypeOK, Range
      <3> QED BY <1>7, <2>1, <3>1
    <2> QED BY <1>1, <1>10, <2>1, LookQuiet DEF EnableServices
  <1>11. CASE Libvirtd
    BY <1>1, <1>4, <1>11, LookQuiet DEF Libvirtd
  <1>12. CASE DefaultPool
    <2>1. Defined("default") \in BOOLEAN /\ (~Defined("default")) \in BOOLEAN
      BY DEF Defined
    <2> QED BY <1>8, <1>12, <2>1 DEF DefaultPool, PoolFlag
  <1>13. CASE OvsBridges
    <2>1. CASE i <= Len(Bridges) /\ ~BridgeSeen(Bridges[i])
                 /\ AddBridge(Bridges[i], "bridges", i + 1)
      <3>1. Bridges[i] \in host.bridges
        BY <2>1, BridgesAssumption DEF TypeOK, Range, Configured
      <3>2. mode = "dry_run"
        BY <1>4, <2>1, <3>1 DEF BridgeSeen
      <3> QED BY <1>1, <2>1, <3>2 DEF AddBridge, OvsVsctl, Command, Goto, Exit, Quiet
    <2> QED BY <1>1, <1>13, <2>1, LookQuiet DEF OvsBridges
  <1>14. CASE JoinFabric
    <2>1. /\ [host EXCEPT !.fabric = @ \cup {"remote"}] = host
          /\ [host EXCEPT !.fabric = @ \cup {"encap"}] = host
      BY NothingToAdd DEF Configured
    <2>2. CASE pc = "ovn_remote"
      BY <1>1, <1>4, <1>14, <2>1, <2>2 DEF JoinFabric, OvsVsctl, Command, Goto, Exit, Quiet
    <2>3. CASE pc = "ovn_encap"
      BY <1>1, <1>4, <1>14, <2>1, <2>3 DEF JoinFabric, OvsVsctl, Command, Goto, Exit, Quiet
    <2>4. CASE pc = "ovn_controller"
      BY <1>3, <1>7, <1>14, <2>4 DEF JoinFabric
    <2> QED BY <1>14, <2>2, <2>3, <2>4 DEF JoinFabric
  <1>15. CASE Storage
    <2>1. CASE target.backend = "ceph_rbd" /\ Command(TRUE, rados, host, "rbd_create", 1)
      <3>1. mode = "apply" \/ mode = "dry_run"
        BY <1>15, DevicesHarmless DEF TypeOK
      <3>2. mode = "apply" => rados
        BY <1>15, <2>1 DEF Storage, RadosInv, Configured, Existing
      <3> QED BY <1>1, <2>1, <3>1, <3>2, CommandQuiet DEF TypeOK
    <2> QED BY <1>1, <1>15, <2>1, LookQuiet DEF Storage
  <1>16. CASE RbdPool
    <2>1. Existing("ceph-pool")
      BY <1>16 DEF RbdPool, DeviceInv, Configured
    <2> QED BY <1>1, <1>4, <1>16, <2>1, LookQuiet DEF RbdPool
  <1>17. CASE LocalPool
    <2>1. Defined("default") \in BOOLEAN /\ (~Defined("default")) \in BOOLEAN
      BY DEF Defined
    <2> QED BY <1>1, <1>8, <1>17, <2>1, LookQuiet DEF LocalPool, PoolFlag
  <1>18. CASE KernelArgs
    <2>1. CASE pc = "gpu"
      BY <1>1, <1>18, <2>1, LookQuiet DEF KernelArgs
    <2>2. CASE pc # "gpu"
      BY <1>18, <2>2 DEF KernelArgs, DeviceInv, GpuStep, Configured
    <2> QED BY <2>1, <2>2
  <1>19. CASE Vfio
    <2>1. /\ [host EXCEPT !.vfio = @ \cup {"loaded"}] = host
          /\ [host EXCEPT !.vfio = @ \cup {"persisted"}] = host
      BY <1>19, NothingToAdd DEF Vfio, DeviceInv, GpuStep, Configured
    <2>2. CASE pc = "modprobe"
      BY <1>1, <1>19, <2>1, <2>2 DEF Vfio, Command, Goto, Exit, Quiet
    <2>3. CASE pc = "vfio_conf"
      <3>1. Command(TRUE, TRUE, [host EXCEPT !.vfio = @ \cup {"persisted"}], "cockpit", 1)
        BY <1>19, <2>3 DEF Vfio
      <3> QED BY <1>1, <2>1, <3>1, CommandQuiet
    <2> QED BY <1>19, <2>2, <2>3 DEF Vfio
  <1>20. CASE Cockpit
    BY <1>1, <1>4, <1>20, LookQuiet DEF Cockpit
  <1>21. CASE CheckServices \/ CheckVirsh \/ CheckBridges \/ CheckCeph \/ CheckIommu
    BY <1>1, <1>21 DEF CheckServices, CheckVirsh, CheckBridges, CheckCeph, CheckIommu,
       Check, Look, Goto, Quiet
  <1> QED BY <1>9, <1>10, <1>11, <1>12, <1>13, <1>14, <1>15, <1>16, <1>17, <1>18, <1>19,
             <1>20, <1>21 DEF Script

\* On a host that has everything the script makes, a run changes nothing, whatever runs
\* failed, were killed or half repaired before, and it fails only when a command does.
THEOREM RerunsQuiet == Spec => RerunChangesNothing
  <1>1. Init => DeviceInv /\ RadosInv /\ CheckOnlyChecks
    BY DEF Init, DeviceInv, GpuStep, RadosInv, CheckOnlyChecks, FreshHost
  <1>2. TypeOK /\ HostInv /\ DeviceInv /\ RadosInv /\ CheckOnlyChecks /\ [Next]_vars
          => [Configured /\ Script => Quiet]_vars
    BY ConfiguredQuiet
  <1>3. [Configured /\ Script => Quiet]_vars
          => [Configured /\ Script => host' = host /\ (exit' = "failed" => faults' # faults)]_vars
    BY DEF Quiet
  <1> QED BY <1>1, <1>2, <1>3, InitDone, StepDone, StepDevices, StepRados, StepCheckOnly, TypesHold, PTL
          DEF Spec, RerunChangesNothing
================================================================================
