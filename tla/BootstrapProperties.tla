-------------------------- MODULE BootstrapProperties --------------------------
(***************************************************************************)
(* What an operator of bootstrap.py relies on.                             *)
(***************************************************************************)
EXTENDS Bootstrap

GpuHost == target.gpus /\ ~target.skip_gpu

Applied == mode = "apply" /\ exit = "ok"

\* A run with exit code 0 leaves a host that has everything the management service
\* needs, and keeps it over a reboot, however many runs before it were cut short
\* (bootstrap.py 11-12 and 20-23). The rbd pool is not kept: it is transient. And on the
\* Ceph backend it was not the run that installed the packages (storage.py 20-23): "Designed
\* to be run once per host" (bootstrap.py 11) is not enough there.
ReadyIsReady ==
    Applied =>
        /\ host.packages
        /\ Range(Services) \subseteq host.enabled
        /\ host.bridges = Range(Bridges)
        /\ host.fabric = {"remote", "encap"}
        /\ target.backend = "ceph_rbd" => rados /\ "active" \in host.pools["ceph-pool"]
        /\ host.booted /\ host.grub_cfg
        /\ GpuHost => "persisted" \in host.vfio

\* The exit codes of the virsh calls that make the local pool are not looked at, and it is
\* not validated. Still, as long as no command and no service has failed, exit code 0 means
\* that the pool is there, runs and comes back after a reboot: a run completes what an
\* earlier one was killed over (libvirt_checks.py 22: "all safe to re-run").
PoolMissingOnlyByFault ==
    Applied /\ faults = 0 => host.pools["default"] = PoolFlag

\* As long as no command and no service fails of its own accord, a run ends with 1 on hosts
\* of the Ceph backend alone, and there only if it was started before the packages were
\* there, whatever was cut short before it (bootstrap.py 12: "safely re-run"). So the run
\* after the one that installed the packages gets past every step.
FailsOnlyByFault ==
    exit = "failed" /\ faults = 0 => target.backend = "ceph_rbd" /\ ~rados

\* Everything the script makes is there.
Configured ==
    /\ host.packages
    /\ host.enabled = Range(Services) /\ host.active = Range(Services)
    /\ host.bridges = Range(Bridges)
    /\ host.fabric = {"remote", "encap"}
    /\ host.pools["default"] = PoolFlag
    /\ target.backend = "ceph_rbd" => Existing("ceph-pool")
    /\ GpuHost => host.grub_file /\ host.vfio = {"loaded", "persisted"}

\* On a configured host a run changes nothing and fails only with a command that fails of
\* its own accord (tests/test_bootstrap.sh 10-11).
RerunChangesNothing ==
    [][Configured /\ Script =>
         host' = host /\ (exit' = "failed" => faults' # faults)]_vars

\* --dry-run and --check-only never change the host (bootstrap.py 49-50).
DryRunHarmless == [][mode # "apply" /\ Script => host' = host]_vars

\* The boot configuration was not made from the grub file that holds the arguments, and
\* no run will make it any more.
StaleBootConfig == host.grub_file /\ ~host.grub_cfg /\ pc # "mkconfig"

\* Once a run has got past the IOMMU step, what it has found or written in
\* /etc/default/grub is in the boot configuration (gpu.py 22-24).
BootConfigCurrent ==
    mode = "apply" /\ pc \in {"modprobe", "vfio_conf", "cockpit"} => ~StaleBootConfig

\* An operator who applies the script until it exits with 0, and reboots after a failed
\* validation, gets a ready GPU host, whatever failed or was killed before, unless the
\* boot configuration went stale.
Converges ==
    <>(Applied \/ StaleBootConfig \/ ~GpuHost)

OperatorSpec ==
    /\ Spec
    /\ WF_vars(Script)
    /\ SF_vars(~Applied /\ Start("apply"))
    /\ SF_vars(Reboot)
==============================================================================
