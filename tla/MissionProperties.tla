-------------------------- MODULE MissionProperties --------------------------
(***************************************************************************)
(* What the management service should guarantee. The properties of the     *)
(* first group hold whatever clients do; those of the second suppose that  *)
(* a mission is deleted only when nothing works on it (Patient) and that   *)
(* missions share neither their name nor a VM name; the violation runs     *)
(* show what is left of them when the API's own freedom is used.           *)
(***************************************************************************)
EXTENDS MissionService

VmsOf(m) == VmSet(Submitted[m])
NetsOf(m) == Range(Submitted[m].networks)
PortsOf(m) == Range(Submitted[m].ports)
LinkedOf(m) == {v \in VmsOf(m) : Submitted[m].image[v] # NoImage}
PlaceOf(m, v) == Submitted[m].placement[v]

----------------------------------------------------------------------------
(* Whatever clients do.                                                     *)

\* The GPU addresses one deployment hands out on one host are different
\* (workers/deploy.py, _gpu_allocator), at every point of the deployment.
GpusDistinctInMission ==
    \A m \in Id : \A v, w \in VM :
        /\ v # w
        /\ gpuOf[m][v] # NoPci
        /\ PlaceOf(m, v) = PlaceOf(m, w)
        => gpuOf[m][v] # gpuOf[m][w]

\* A deployment that is about to clone finds the golden snapshot protected, also when
\* several deployments create and protect it at once (ensure_golden_snapshot).
SnapshotReady ==
    \A t \in Thread : pc[t] = "clone" => golden[ImageAt(t)] = "protected"

\* The OVN rows of a mission change only by a step of a thread that works on a mission
\* of that name, also when missions share network and VM names (README.md 232-235).
RowsOf(n) == <<n \in routers,
               {p \in routerPorts : p[1] = n}, {p \in switches : p[1] = n},
               {p \in peerPorts : p[1] = n}, {p \in vmPorts : p[1] = n}>>

NetworksIsolated ==
    [][\A n \in Name : RowsOf(n)' # RowsOf(n) =>
          \E t \in Thread : NameOf(t) = n /\ <<pc[t], idx[t]>>' # <<pc[t], idx[t]>>]_vars

\* When no thread works on a registered mission any more, its state is final: however
\* deployments and teardowns overwrite each other's state, the last word is a result.
NotStranded ==
    \A m \in Id : status[m] # "absent" /\ (\A t \in Thread : t[1] = m => Ended(t))
                    => status[m] \in {"Running", "Error", "Destroyed"}

\* Each thread of an accepted request comes to an end: no wait on another thread, no
\* endless loop, whatever the other threads do to the cluster meanwhile.
ThreadsEnd == \A t \in Thread : pc[t] # "idle" ~> Ended(t)

----------------------------------------------------------------------------
(* For patient clients and missions that share neither name nor VM name.    *)

Complete(m) ==
    LET n == Submitted[m].name
    IN  /\ n \in routers
        /\ \A net \in NetsOf(m) : /\ <<n, net>> \in switches
                                  /\ <<n, net>> \in routerPorts
                                  /\ <<n, net>> \in peerPorts
        /\ \A p \in PortsOf(m) : <<n, p[1], p[2]>> \in vmPorts
        /\ \A v \in LinkedOf(m) : clones[v] = Submitted[m].image[v]
        /\ \A v \in VmsOf(m) : /\ OwnedBy(PlaceOf(m, v), v, n)
                               /\ Running(PlaceOf(m, v), v)

RowsGone(m) ==
    LET n == Submitted[m].name
    IN  /\ n \notin routers
        /\ \A p \in routerPorts \cup switches \cup peerPorts \cup vmPorts : p[1] # n

DisksGone(m) == \A v \in LinkedOf(m) : ~CloneExists(v)

Clean(m) ==
    /\ RowsGone(m)
    /\ DisksGone(m)
    /\ \A hv \in Host \X VM : ~OwnedBy(hv[1], hv[2], Submitted[m].name)

\* A mission reported Running has its router, switches, ports, disks made from its
\* own images, and all of its VMs running: validation (workers/deploy.py 101-114)
\* looks at fewer things than this.
RunningIsComplete == \A m \in Id : status[m] = "Running" => Complete(m)

\* While no libvirt error was swallowed (destroy_and_undefine, clients/libvirt_client.py
\* 63-80), a mission reported Destroyed has left nothing behind, also when its deployment
\* failed halfway, an earlier DELETE failed, or the service restarted in between.
DestroyedIsClean == swallowed = 0 => \A m \in Id : status[m] = "Destroyed" => Clean(m)

\* Whatever libvirt errors were swallowed, a mission reported Destroyed has left no OVN row
\* and no disk, and of the domains that may be left of it only PXE VMs run.
DestroyedLeavesDomains ==
    \A m \in Id : status[m] = "Destroyed" =>
        /\ RowsGone(m)
        /\ DisksGone(m)
        /\ \A h \in Host : \A v \in LinkedOf(m) :
              ~(OwnedBy(h, v, Submitted[m].name) /\ Running(h, v))

\* Teardown removes ports, switches and disks only when no VM of the mission runs
\* (workers/teardown.py 2-5), while no libvirt error was swallowed.
NothingAttached ==
    swallowed = 0 =>
        \A t \in TeardownThread :
            pc[t] \in {"remove_vm_port", "remove_switch", "remove_disk", "unlink"} =>
                \A v \in VmsOf(t[1]) : LET h == PlaceOf(t[1], v)
                                       IN  ~(OwnedBy(h, v, NameOf(t)) /\ Running(h, v))

\* A teardown fails only because a backend call fails of its own accord, or at the disk of
\* a VM that a swallowed error left running: what a failed deployment or an earlier
\* teardown left behind never makes one raise ("can be safely retried after a partial
\* failure", workers/teardown.py 4-5).
TeardownFailsOnlyByFault ==
    [][\A t \in TeardownThread :
          pc[t] # "failing" /\ pc'[t] = "failing" =>
              \/ faults' = faults + 1
              \/ swallowed > 0 /\ pc[t] = "remove_disk" /\ InUse(AtVm(t))]_vars

\* An accepted mission finds a GPU for each of its GPU VMs (services/missions.py
\* 82-84), given that "gpus" of a host is the number of its gpu_pci_addresses.
GpuAvailable ==
    \A t \in DeployThread :
        pc[t] = "define" /\ MoreVms(t) /\ AtVm(t) \in SpecOf(t).gpu
            => gpuPool[t[1]][HostAt(t)] # <<>>

\* As long as no backend call fails of its own accord and the service keeps running,
\* no mission ends in Error: deployments do not disturb each other.
NoSpuriousError ==
    faults = 0 /\ swallowed = 0 /\ restarts = 0 => \A m \in Id : status[m] # "Error"

\* No two domains of a host are given the same GPU, whatever missions they are of
\* (workers/deploy.py 28-29: "so two GPU VMs on the same host never get the same PCI
\* device").
GpusExclusive ==
    \A h \in Host : \A v, w \in VM :
        /\ v # w /\ Defined(h, v) /\ Defined(h, w)
        /\ domains[<<h, v>>].pci # NoPci
        => domains[<<h, v>>].pci # domains[<<h, w>>].pci

\* A client that repeats DELETE until the mission is Destroyed gets there, when
\* it may send more requests than backend calls can still fail.
DeleteConverges ==
    \A m \in Id :
        (\E k \in 1 .. MaxDeletes :
            pc[<<m, k>>] = "teardown" /\ MaxDeletes - k >= MaxFaults - faults)
        ~> status[m] = "Destroyed"

\* The client of DeleteConverges: it deletes again after a teardown that failed.
RetryDelete(m) ==
    /\ status[m] = "Error" /\ pc[<<m, 1>>] = "done"
    /\ \E k \in 1 .. MaxDeletes : DeleteMission(m, k)

RetrySpec == FairSpec /\ \A m \in Id : WF_vars(RetryDelete(m))

----------------------------------------------------------------------------
(* The service implements the promise of MissionLifecycle.                  *)

Footprint == [m \in Id |-> IF Clean(m) THEN "none"
                           ELSE IF Complete(m) THEN "whole" ELSE "part"]

Lifecycle == INSTANCE MissionLifecycle WITH phase <- status, footprint <- Footprint,
                                            reliable <- (swallowed = 0)

\* Every step of the service is a step of the promised lifecycle of one mission, or
\* invisible to clients.
ImplementsLifecycle == Lifecycle!LSpec
==============================================================================
