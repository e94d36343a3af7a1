------------------------------ MODULE MCMission ------------------------------
(***************************************************************************)
(* Instances of MissionService for TLC: the missions, hosts and images of  *)
(* the runs.                                                               *)
(***************************************************************************)
EXTENDS MissionProperties, TLC

CONSTANTS m1, m2, alpha, bravo, control, storage, db, gw, app, h1, h2,
          golden1, gpuA, gpuB

AllVms == {db, gw, app}

\* A specification of VMs that cost one CPU and one MiB each.
Mission(n, nets, vms, ports, image, gpu, placement) ==
    [name |-> n, networks |-> nets, vms |-> vms, ports |-> ports, image |-> image,
     gpu |-> gpu, cpu |-> [v \in VM |-> 1], memory_mb |-> [v \in VM |-> 1],
     placement |-> placement]

LinkedOnly(S) == [v \in VM |-> IF v \in S THEN golden1 ELSE NoImage]

\* m1: a linked-clone VM on two networks and a PXE VM, both with a GPU of h1.
\* m2: a GPU VM on a host that has no GPU, to be refused.
OneMission == [m \in {m1, m2} |->
    IF m = m1
      THEN Mission(alpha, <<control, storage>>, <<db, gw>>,
                   << <<db, control>>, <<db, storage>>, <<gw, control>> >>,
                   LinkedOnly({db}), {db, gw}, [v \in VM |-> h1])
      ELSE Mission(bravo, <<control>>, <<app>>, << <<app, control>> >>,
                   LinkedOnly({}), {app}, [v \in VM |-> h2])]

\* One mission of a single linked-clone VM.
SmallMission == [m \in {m1} |->
    Mission(alpha, <<control>>, <<db>>, << <<db, control>> >>, LinkedOnly({db}), {},
            [v \in VM |-> h1])]

\* A PXE VM, then a linked-clone VM with a GPU.
PxeThenGpu == [m \in {m1} |->
    Mission(alpha, <<control>>, <<gw, db>>, << <<db, control>> >>, LinkedOnly({db}), {db},
            [v \in VM |-> h1])]

\* Two missions that share a host and a golden image, but no VM name and no GPU.
DisjointMissions == [m \in {m1, m2} |->
    IF m = m1
      THEN Mission(alpha, <<control>>, <<db, gw>>, << <<db, control>>, <<gw, control>> >>,
                   LinkedOnly({db}), {gw}, [v \in VM |-> h1])
      ELSE Mission(bravo, <<control>>, <<app>>, << <<app, control>> >>,
                   LinkedOnly({app}), {}, [v \in VM |-> h1])]

\* A mission of one linked-clone VM, whose name all such missions share.
Clash(n) == Mission(n, <<control>>, <<db>>, << <<db, control>> >>, LinkedOnly({db}), {},
                    [v \in VM |-> h1])

\* Two of them on the same host. TLC evaluates Clashes once; what a .cfg substitutes for
\* a constant it evaluates at every use.
Clashes == m1 :> Clash(alpha) @@ m2 :> Clash(bravo)
ClashingMissions == Clashes

\* Renaming both missions and their names is a symmetry of ClashingMissions.
SwapMissions == {p \in Permutations({m1, m2, alpha, bravo}) :
    /\ p[m1] \in {m1, m2}
    /\ p[alpha] = IF p[m1] = m1 THEN alpha ELSE bravo}

\* Two missions with one GPU VM each, on the same host.
GpuMissions == [m \in {m1, m2} |->
    IF m = m1
      THEN Mission(alpha, <<control>>, <<gw>>, << <<gw, control>> >>,
                   LinkedOnly({}), {gw}, [v \in VM |-> h1])
      ELSE Mission(bravo, <<control>>, <<app>>, << <<app, control>> >>,
                   LinkedOnly({}), {app}, [v \in VM |-> h1])]

TwoGpus == [h \in {h1} |-> [cpus |-> 3, memory_mb |-> 3, gpus |-> 2]]

\* A second host that has none.
OneGpuHost == [h \in {h1, h2} |-> [cpus |-> 3, memory_mb |-> 3,
                                  gpus |-> IF h = h1 THEN 2 ELSE 0]]

\* gpu_pci_addresses of the host, and a host whose list of them was left out.
Addresses == [h \in Host |-> IF h = h1 THEN <<gpuA, gpuB>> ELSE <<>>]
NoAddresses == [h \in Host |-> <<>>]
==============================================================================
