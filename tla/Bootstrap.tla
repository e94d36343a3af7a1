------------------------------- MODULE Bootstrap -------------------------------
(***************************************************************************)
(* bootstrap.py: the script that turns a fresh server into a compute node. *)
(* It is run again and again on the same host, by hand or by a tool; a     *)
(* command may fail, a run may be killed, the host may reboot in between,  *)
(* and each run decides from what it finds what is left to do. One action  *)
(* is one command or one look at the host; i is the position in a loop.    *)
(*                                                                         *)
(* The audit trail and the report file are left out, and so is the list of *)
(* discovered GPUs, which is only logged. The package transaction is one   *)
(* flag, since dnf installs all or none.                                   *)
(***************************************************************************)
EXTENDS Naturals, Sequences, Functions

CONSTANTS
    Services,   \* the sequence "services" of cluster.yaml
    Bridges,    \* the sequence of its OVS bridges
    MaxFaults,  \* bound: commands that fail though they could work, services that stop
    MaxKills    \* bound: runs that are killed, reboots nobody waited for

ASSUME ServicesAssumption ==
    /\ Services \in Seq(STRING)
    /\ Range(<<"libvirtd", "openvswitch", "ovn-controller", "cockpit.socket">>)
         \subseteq Range(Services)

ASSUME BridgesAssumption == Bridges \in Seq(STRING)

ASSUME BootstrapBounds == MaxFaults \in Nat /\ MaxKills \in Nat

VARIABLES
    target,  \* what hosts.yaml and the command line say of the host
    host,    \* the state of the host
    pc, i,   \* the command the script is about to run, the position in its loop
    mode,    \* how the script was started
    rados,   \* whether python3-rados could be imported then
    passed,  \* whether all validation checks of this run have passed so far
    exit,    \* the exit code of the last run: "ok" is 0, "failed" 1, "invalid" 2
    faults, kills

run == <<pc, i, mode, rados, passed, exit>>
vars == <<target, host, run, faults, kills>>

Target == [gpus : BOOLEAN, skip_gpu : BOOLEAN, backend : {"ceph_rbd", "local_qcow2"}]

\* The services validate_host asks for, and the script depends on.
NeededServices == <<"libvirtd", "openvswitch", "ovn-controller", "cockpit.socket">>

PoolFlag == {"defined", "active", "autostart"}

\* Whether the IOMMU kernel arguments are in /etc/default/grub, in the boot configuration
\* made from it, and in the running kernel's command line. fabric is what ovs-vsctl has
\* stored for ovn-controller.
HostState == [packages : BOOLEAN,
              enabled : SUBSET Range(Services), active : SUBSET Range(Services),
              bridges : SUBSET Range(Bridges), fabric : SUBSET {"remote", "encap"},
              pools : [{"default", "ceph-pool"} -> SUBSET PoolFlag],
              grub_file : BOOLEAN, grub_cfg : BOOLEAN, booted : BOOLEAN,
              vfio : SUBSET {"loaded", "persisted"}]

Step == {"packages", "services", "libvirtd", "define_default", "start_default",
         "autostart_default", "bridges", "ovn_remote", "ovn_encap", "ovn_controller",
         "storage", "rbd_create", "local_pool", "local_define", "local_start",
         "local_autostart", "gpu", "grub_write", "mkconfig", "modprobe", "vfio_conf",
         "cockpit", "check_services", "check_virsh", "check_bridges", "check_ceph",
         "check_iommu"}

TypeOK ==
    /\ target \in Target
    /\ host \in HostState
    /\ pc \in Step \cup {"idle"}
    /\ i \in Nat \ {0}
    /\ mode \in {"apply", "dry_run", "check_only"}
    /\ rados \in BOOLEAN /\ passed \in BOOLEAN
    /\ exit \in {"none", "ok", "failed", "invalid"}
    /\ faults \in Nat /\ kills \in Nat

FreshHost == [packages |-> FALSE, enabled |-> {}, active |-> {}, bridges |-> {},
              fabric |-> {}, pools |-> [p \in {"default", "ceph-pool"} |-> {}],
              grub_file |-> FALSE, grub_cfg |-> FALSE, booted |-> FALSE,
              vfio |-> {}]

Init ==
    /\ target \in Target
    /\ host = FreshHost
    /\ pc = "idle" /\ i = 1 /\ mode = "apply" /\ rados = FALSE /\ passed = TRUE
    /\ exit = "none"
    /\ faults = 0 /\ kills = 0

----------------------------------------------------------------------------
Active(s) == s \in host.active

Goto(step, k) == pc' = step /\ i' = k /\ UNCHANGED <<mode, rados, passed, exit>>

Exit(code) ==
    pc' = "idle" /\ i' = 1 /\ exit' = code /\ UNCHANGED <<mode, rados, passed>>

\* util.run. "works" is whether the host is in a state in which the command can succeed,
\* "after" the host it leaves. A checked command that fails ends the run.
Command(checked, works, after, next, k) ==
    /\ \/ /\ mode = "dry_run" \/ works
          /\ host' = IF mode = "dry_run" THEN host ELSE after
          /\ Goto(next, k)
          /\ UNCHANGED faults
       \/ /\ mode # "dry_run"
          /\ \/ ~works /\ UNCHANGED faults
             \/ works /\ faults < MaxFaults /\ faults' = faults + 1
          /\ UNCHANGED host
          /\ IF checked THEN Exit("failed") ELSE Goto(next, k)
    /\ UNCHANGED <<target, kills>>

Look(next, k) == Goto(next, k) /\ UNCHANGED <<target, host, faults, kills>>

\* A plausible bug: systemctl start instead of enable --now.
StartedOnly(s) == [host EXCEPT !.active = @ \cup {s}]

WithService(s) == [host EXCEPT !.enabled = @ \cup {s}, !.active = @ \cup {s}]

EnableNow(s, next, k) == Command(TRUE, host.packages, WithService(s), next, k)

OvsVsctl(works, after, next, k) ==
    Command(TRUE, Active("openvswitch") /\ works, after, next, k)

BridgeSeen(b) == mode # "dry_run" /\ Active("openvswitch") /\ b \in host.bridges

AddBridge(b, next, k) ==
    OvsVsctl(b \notin host.bridges, [host EXCEPT !.bridges = @ \cup {b}], next, k)

\* A plausible bug: the arguments swapped, the pool's name where the flag belongs.
NameForFlag(p, flag) == [host EXCEPT !.pools[p] = @ \cup {p}]

WithPool(p, flag) == [host EXCEPT !.pools[p] = @ \cup {flag}]

\* virsh, whose exit code is not looked at.
Virsh(works, p, flag, next) ==
    Command(FALSE, Active("libvirtd") /\ works, WithPool(p, flag), next, 1)

Existing(p) == host.pools[p] # {}
Defined(p) == "defined" \in host.pools[p]

----------------------------------------------------------------------------
(* Plausible bugs: variants of definitions below that the runs must reject. *)

\* Bridges are added without br-exists.
OvsBridgesUnseen ==
    /\ pc = "bridges"
    /\ \/ i <= Len(Bridges) /\ AddBridge(Bridges[i], "bridges", i + 1)
       \/ i > Len(Bridges) /\ Look("ovn_remote", 1)

\* pool-define-as with check=True.
DefaultPoolChecked ==
    \/ /\ pc = "define_default"
       /\ Command(TRUE, Active("libvirtd") /\ ~Defined("default"),
                  WithPool("default", "defined"), "start_default", 1)
    \/ /\ pc = "start_default"
       /\ Virsh(Defined("default"), "default", "active", "autostart_default")
    \/ /\ pc = "autostart_default"
       /\ Virsh(Defined("default"), "default", "autostart", "bridges")

\* A pool that is defined is taken for complete.
DefaultPoolOnce ==
    \/ /\ pc = "define_default"
       /\ \/ mode # "dry_run" /\ Defined("default") /\ Look("bridges", 1)
          \/ /\ mode = "dry_run" \/ ~Defined("default")
             /\ Virsh(TRUE, "default", "defined", "start_default")
    \/ /\ pc = "start_default"
       /\ Virsh(Defined("default"), "default", "active", "autostart_default")
    \/ /\ pc = "autostart_default"
       /\ Virsh(Defined("default"), "default", "autostart", "bridges")

\* The file is written in a dry run too.
VfioIgnoringDryRun ==
    \/ /\ pc = "modprobe"
       /\ Command(FALSE, TRUE, [host EXCEPT !.vfio = @ \cup {"loaded"}], "vfio_conf", 1)
    \/ /\ pc = "vfio_conf"
       /\ host' = [host EXCEPT !.vfio = @ \cup {"persisted"}]
       /\ Goto("cockpit", 1)
       /\ UNCHANGED <<target, faults, kills>>

----------------------------------------------------------------------------
(* main: packages, libvirt, networking.                                     *)

\* --check-only goes straight to the validation. The modules are imported here, once for
\* the whole run: storage.rados stays None although the packages may be installed later.
Start(how) ==
    /\ pc = "idle"
    /\ pc' = IF how = "check_only" THEN "check_services" ELSE "packages"
    /\ i' = 1 /\ mode' = how /\ rados' = host.packages /\ passed' = TRUE /\ exit' = "none"
    /\ UNCHANGED <<target, host, faults, kills>>

Packages ==
    /\ pc = "packages"
    /\ \/ host.packages /\ Look("services", 1)
       \/ /\ ~host.packages
          /\ Command(TRUE, TRUE, [host EXCEPT !.packages = TRUE], "services", 1)

EnableServices ==
    /\ pc = "services"
    /\ \/ i <= Len(Services) /\ EnableNow(Services[i], "services", i + 1)
       \/ i > Len(Services) /\ Look("libvirtd", 1)

Libvirtd ==
    /\ pc = "libvirtd"
    /\ \/ (mode = "dry_run" \/ Active("libvirtd")) /\ Look("define_default", 1)
       \/ /\ mode # "dry_run" /\ ~Active("libvirtd")
          /\ EnableNow("libvirtd", "define_default", 1)

DefaultPool ==
    \/ /\ pc = "define_default"
       /\ Virsh(~Defined("default"), "default", "defined", "start_default")
    \/ /\ pc = "start_default"
       /\ Virsh(Defined("default"), "default", "active", "autostart_default")
    \/ /\ pc = "autostart_default"
       /\ Virsh(Defined("default"), "default", "autostart", "bridges")

\* br-exists, then add-br, which fails for a bridge that exists.
OvsBridges ==
    /\ pc = "bridges"
    /\ \/ i <= Len(Bridges) /\ BridgeSeen(Bridges[i]) /\ Look("bridges", i + 1)
       \/ i <= Len(Bridges) /\ ~BridgeSeen(Bridges[i]) /\ AddBridge(Bridges[i], "bridges", i + 1)
       \/ i > Len(Bridges) /\ Look("ovn_remote", 1)

JoinFabric ==
    \/ /\ pc = "ovn_remote"
       /\ OvsVsctl(TRUE, [host EXCEPT !.fabric = @ \cup {"remote"}], "ovn_encap", 1)
    \/ /\ pc = "ovn_encap"
       /\ OvsVsctl(TRUE, [host EXCEPT !.fabric = @ \cup {"encap"}], "ovn_controller", 1)
    \/ /\ pc = "ovn_controller"
       /\ EnableNow("ovn-controller", "storage", 1)

----------------------------------------------------------------------------
(* main: storage, GPUs, Cockpit.                                            *)

AfterStorage == IF target.gpus /\ ~target.skip_gpu THEN "gpu" ELSE "cockpit"

\* verify_ceph_connectivity: without rados the cluster counts as unreachable, and one that
\* does not answer is a command that fails.
Storage ==
    /\ pc = "storage"
    /\ \/ target.backend = "ceph_rbd" /\ Command(TRUE, rados, host, "rbd_create", 1)
       \/ target.backend = "local_qcow2" /\ Look("local_pool", 1)

\* pool-info, then pool-create-as, which makes a transient pool.
RbdPool ==
    /\ pc = "rbd_create"
    /\ \/ /\ mode # "dry_run" => Active("libvirtd") /\ Existing("ceph-pool")
          /\ Look(AfterStorage, 1)
       \/ /\ mode # "dry_run" /\ ~(Active("libvirtd") /\ Existing("ceph-pool"))
          /\ Command(TRUE, Active("libvirtd"), WithPool("ceph-pool", "active"),
                     AfterStorage, 1)

\* The fallback pool has the name of the default pool.
LocalPool ==
    \/ /\ pc = "local_pool"
       /\ \/ /\ mode # "dry_run" => Active("libvirtd") /\ Existing("default")
             /\ Look(AfterStorage, 1)
          \/ /\ mode # "dry_run" /\ ~(Active("libvirtd") /\ Existing("default"))
             /\ Look("local_define", 1)
    \/ pc = "local_define" /\ Virsh(~Defined("default"), "default", "defined", "local_start")
    \/ pc = "local_start" /\ Virsh(Defined("default"), "default", "active", "local_autostart")
    \/ pc = "local_autostart" /\ Virsh(Defined("default"), "default", "autostart", AfterStorage)

\* ensure_iommu_kernel_args looks at /etc/default/grub alone.
KernelArgs ==
    \/ /\ pc = "gpu"
       /\ Look(IF mode = "dry_run" \/ host.grub_file THEN "modprobe" ELSE "grub_write", 1)
    \/ /\ pc = "grub_write"
       /\ Command(TRUE, TRUE, [host EXCEPT !.grub_file = TRUE], "mkconfig", 1)
    \/ /\ pc = "mkconfig"
       /\ Command(TRUE, TRUE, [host EXCEPT !.grub_cfg = host.grub_file], "modprobe", 1)

Vfio ==
    \/ /\ pc = "modprobe"
       /\ Command(FALSE, TRUE, [host EXCEPT !.vfio = @ \cup {"loaded"}], "vfio_conf", 1)
    \/ /\ pc = "vfio_conf"
       /\ Command(TRUE, TRUE, [host EXCEPT !.vfio = @ \cup {"persisted"}], "cockpit", 1)

Cockpit ==
    /\ pc = "cockpit"
    /\ \/ (mode = "dry_run" \/ Active("cockpit.socket")) /\ Look("check_services", 1)
       \/ /\ mode # "dry_run" /\ ~Active("cockpit.socket")
          /\ EnableNow("cockpit.socket", "check_services", 1)

----------------------------------------------------------------------------
(* validate_host: every check is made, and the report is their conjunction. *)

Check(holds, next, k) ==
    /\ pc' = next /\ i' = k
    /\ passed' = (passed /\ (mode = "dry_run" \/ holds))
    /\ UNCHANGED <<target, host, mode, rados, exit, faults, kills>>

CheckServices ==
    /\ pc = "check_services"
    /\ \/ /\ i <= Len(NeededServices)
          /\ Check(Active(NeededServices[i]), "check_services", i + 1)
       \/ i > Len(NeededServices) /\ Look("check_virsh", 1)

CheckVirsh == pc = "check_virsh" /\ Check(Active("libvirtd"), "check_bridges", 1)

CheckBridges ==
    /\ pc = "check_bridges"
    /\ \/ /\ i <= Len(Bridges)
          /\ Check(Active("openvswitch") /\ Bridges[i] \in host.bridges,
                   "check_bridges", i + 1)
       \/ i > Len(Bridges) /\ Look("check_ceph", 1)

\* "ceph health" is asked only of hosts of that backend and may say anything but
\* HEALTH_OK at times.
CheckCeph ==
    /\ pc = "check_ceph"
    /\ \/ Check(host.packages \/ target.backend # "ceph_rbd", "check_iommu", 1)
       \/ /\ target.backend = "ceph_rbd" /\ faults < MaxFaults
          /\ pc' = "check_iommu" /\ i' = 1
          /\ passed' = (passed /\ mode = "dry_run")
          /\ faults' = faults + 1
          /\ UNCHANGED <<target, host, mode, rados, exit, kills>>

\* The IOMMU check is made of every host, whether it has GPUs or not.
CheckIommu ==
    /\ pc = "check_iommu"
    /\ pc' = "idle" /\ i' = 1
    /\ exit' = IF passed /\ (mode = "dry_run" \/ host.booted) THEN "ok" ELSE "invalid"
    /\ UNCHANGED <<target, host, mode, rados, passed, faults, kills>>

Script ==
    \/ Packages \/ EnableServices \/ Libvirtd \/ DefaultPool \/ OvsBridges \/ JoinFabric
    \/ Storage \/ RbdPool \/ LocalPool \/ KernelArgs \/ Vfio \/ Cockpit
    \/ CheckServices \/ CheckVirsh \/ CheckBridges \/ CheckCeph \/ CheckIommu

----------------------------------------------------------------------------
(* The host.                                                                *)

\* What a boot makes of what is stored: enabled services run, pools with autostart are
\* active, transient pools are gone.
Booted == [host EXCEPT
    !.active = host.enabled,
    !.pools = [p \in DOMAIN host.pools |->
                 IF ~Defined(p) THEN {}
                 ELSE IF "autostart" \in host.pools[p] THEN host.pools[p] \cup {"active"}
                 ELSE {"defined"}],
    !.booted = host.grub_cfg,
    !.vfio = IF "persisted" \in @ THEN {"loaded", "persisted"} ELSE {}]

\* The operator reboots the host, as the script tells him to when validation fails.
Reboot ==
    /\ pc = "idle" /\ exit = "invalid"
    /\ host' = Booted
    /\ exit' = "none"
    /\ UNCHANGED <<target, pc, i, mode, rados, passed, faults, kills>>

\* A run is killed, or the power fails.
Interrupted ==
    /\ kills < MaxKills
    /\ kills' = kills + 1
    /\ pc' = "idle" /\ i' = 1 /\ exit' = "none"
    /\ \/ pc # "idle" /\ UNCHANGED host
       \/ host' = Booted
    /\ UNCHANGED <<target, mode, rados, passed, faults>>

ServiceStops ==
    /\ faults < MaxFaults
    /\ faults' = faults + 1
    /\ \E s \in host.active : host' = [host EXCEPT !.active = @ \ {s}]
    /\ UNCHANGED <<target, run, kills>>

Next ==
    \/ \E how \in {"apply", "dry_run", "check_only"} : Start(how)
    \/ Script
    \/ Reboot \/ Interrupted \/ ServiceStops

Spec == Init /\ [][Next]_vars

==============================================================================
