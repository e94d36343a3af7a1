# Verification of the mission management service and the host bootstrap

The repository has two programs that keep state and have to get an order of steps right:

- **management/**: a REST service that accepts a *mission* (networks, VMs, placement),
  deploys it on an OVN database, a Ceph pool and the libvirt daemons of compute hosts, and
  tears it down again.
- **bootstrap/**: a script that turns a fresh server into a compute host and is meant to be
  run again and again.

They share no state: the service takes a bootstrapped host for granted.

## 1. Inventory

### Components, their state and their operations

| component | state | operations |
|---|---|---|
| REST API (`api/routes.py`) | none | `POST /missions` (capacity check, register, start a deployment), `DELETE /missions/{id}` (start a teardown, in any state), `GET` |
| mission store (`core/state.py`, `core/types.py`) | uuid -> state, error, log; in memory | `create`, `update_state`, `fail`, `log_step` |
| specifications (`api/models.py`, `core/types.py`, `services/missions.py`) | none | `to_core` and its checks, `mission_spec_from_dict`, `register_mission` |
| placement (`core/placement.py`) | none | `validate_placement`, `greedy_place` |
| deployment (`workers/deploy.py`) | GPU pool and GPU assignment of one deployment | networks, ports, storage, VMs, validation, verdict |
| teardown (`workers/teardown.py`) | none | VMs, ports, switches, router, disks |
| networking, storage, compute, validation (`services/`) | none | the loops the workers call |
| OVN, Ceph and libvirt clients (`clients/`) | the rows, images, snapshots and domains behind them | one call each; what raises and what is swallowed |
| names and addresses (`core/xml_render.py`, `core/macs.py`) | none | names of OVN objects, generated and overriding MACs, disk paths, the domain's XML |
| mission generator (`tools/generate_mission.py`) | the mission file, written over an earlier one | place the VMs, make placeholder addresses, write |
| stand-alone validator (`tools/validate_deployment.py`) | none | ask the service for a mission's state |
| host bootstrap (`bootstrap/`) | services, OVS bridges, pools, grub, vfio of a host | about 25 commands and looks in a fixed order; apply, `--dry-run`, `--check-only` |

### How they interact

The API registers a mission in the store and hands `deploy_mission` or `teardown_mission` to
FastAPI's background tasks. Both are synchronous functions, so each runs in a thread of its
own, and **nothing orders two of them**: a DELETE is accepted while the deployment of the same
mission runs, deployments of different missions run side by side, and several DELETEs of one
mission may run at once. What they share is the store and the three backends. The store has a
lock per write, but no operation reads and writes under one lock, and the backends are asked
first and changed later (`list_snaps` then `create_snap`, `os.path.exists` then `os.remove`,
`lookupByName` then `undefine`).

Before that, a mission is a file: the generator writes it for the inventory as it is then, an
operator may edit file and inventory, and a client posts it. Nothing connects these steps but
the file; POST checks what it gets against the inventory as it is by then. What deployment and
teardown call things in the backends is computed from the stored specification each time.

### What is hard here

- interleavings of deployments and teardowns, of the same and of different missions;
- a deployment that stops halfway: nothing is rolled back, so teardown meets any part of it;
- teardown repeated after a teardown that stopped halfway;
- a crash of the service: the store is gone, the cluster is not;
- libvirt errors that are swallowed;
- resources that are told apart by name only, and not all names carry the mission;
- names and addresses computed in several places that have to agree: port names by the OVN
  calls, by teardown and by the domain's XML; addresses by the port and by the domain;
- checks made at one place with what another fills in later;
- bootstrap runs that are cut short, and reboots between them.

`hazards` in `PROJECT.json` lists these at their lines, with the properties that cover them.

### What makes each component correct

- *Workers*: a mission reported `Running` has all it asked for; one reported `Destroyed` has
  left nothing; a failed or repeated teardown can be repeated until it succeeds; nothing is
  removed under a running VM; every thread ends and leaves a final state.
- *Networking*: missions do not touch each other's rows, and a domain's interface finds a port
  that is its own and carries its address.
- *Addresses*: generated addresses are never equal within a mission, whatever was edited.
- *Mission files*: what the generator writes is accepted and deploys as it is; the ways to read
  a file agree; what is accepted can be deployed.
- *Storage*: nothing is cloned from an unprotected snapshot, however many missions race.
- *GPU hand-out*: two VMs of a host never get the same device; an accepted mission finds one.
- *Bootstrap*: exit code 0 means ready, and ready after the next reboot (with the local pool,
  if nothing failed); a run fails only
  because something failed; a rerun on a configured host changes nothing; a dry run never changes anything; repeating converges.

## 2. Modules

| module | stands for |
|---|---|
| `Placement` | `validate_placement` as operators on a mission and an inventory |
| `Cluster` | OVN, Ceph or the directory of qcow2 files, and libvirt, as the clients use them: one operator per call, and when it raises |
| `MissionService` | store, API and both workers; composes `Cluster` and `Placement` |
| `MissionLifecycle` | the abstract specification: the states a client sees and what each says of the mission's resources |
| `MissionProperties` | the properties, and the refinement mapping to `MissionLifecycle` |
| `MCMission` | missions, hosts and inventories for TLC |
| `MissionServiceProofs` | type correctness |
| `MissionSafetyProofs` | no stranded mission, protected snapshots, distinct GPUs, no mission touches another's OVN rows |
| `MissionGpuProofs` | the capacity check leaves a GPU for each VM that asks for one |
| `MissionResourceProofs` | lemmas: which thread is at work on a mission, whose a domain is, and what each step adds to or removes from a mission's resources |
| `MissionPatientProofs` | what `Running` and `Destroyed` mean, undisturbed and repeatable teardown, refinement of `MissionLifecycle` |
| `Naming` | names of OVN objects, MAC assignment and gateways as operators |
| `MissionFile` | generator, mission file, operator, POST, and networking with the real names; composes `Naming` and `Placement` |
| `MissionFileProperties`, `MCMissionFile` | its properties, and its instance for TLC |
| `MissionFileProofs` | joined names and generated addresses are distinct, ports and addresses of deployed missions, agreement of the loaders |
| `GeneratorProofs` | what the generator writes deploys; type correctness of `MissionFile`; sums over sets of VMs |
| `Bootstrap`, `BootstrapProperties`, `MCBootstrap` | `bootstrap.py` and its modules, a host, an operator |
| `BootstrapProofs` | type correctness, dry runs; exit code 0 means ready, with the local pool; reruns change nothing; a run fails only by a fault |

### MissionService and the code

- A thread is a pair: `<<m, 0>>` deploys mission `m`, `<<m, k>>` runs the k-th DELETE of `m`.
  `pc` is the call a thread is about to make, `idx` the position in the loop that call stands
  in. **One action is one access to the store or one call of a backend**, so two threads
  interleave exactly where the code lets them.
- Merged calls: `lsp_add` with `lsp_set_options` or `lsp_set_addresses` right after it (the
  second only decorates the row of the first, and no property looks at the decoration), and
  `lookupByName` with `isActive`/`destroy` in teardown; `undefine` is a step of its own.
- `status` is the `state` field of the store. Log entries and error texts are left out.
- A mission is a record: `networks` and `vms` are sequences because the code walks them in
  order, `ports` lists the interfaces in the order of the two nested loops of `add_vm_ports`,
  `image` says which VMs are linked clones, `gpu` which ask for a GPU.
- OVN objects are named by tuples where the code joins names with `-`. `Naming` has the joined
  names; `MissionFileProofs` shows that they differ where the tuples do if VM and network
  names hold no dash (`DashFree`; mission names may), and that they need not otherwise
  (`DashedNamesCollide`). The code does not check names; the model is about missions with such ones.
- `Fault` is a call that raises for a reason of its own, in every call inside the `try` of a
  worker. `SwallowedError` is a libvirt error that `destroy_and_undefine` hides. Calls that
  raise because of the *state* of the cluster (a snapshot that exists by now, an image in use, a
  second domain of a name, a GPU that is taken, a missing switch) are part of the action of
  the call and are not bounded.
- `Restart` empties the store, ends the threads and keeps the cluster.
- `ConfigFaults` are the two places where `cluster.yaml` is read outside of a `try`:
  "unreadable" strands a mission in the store before its deployment starts, "incomplete" ends
  a worker before it records anything.
- `Patient` restricts *clients*: they delete a mission only when nothing works on it. The API
  has no such rule. Properties that need it are checked with it, and the violation runs show
  what happens without it.
- `UnitsPerMiB` is how libvirt counts the memory it reports (1024: KiB). Real libvirt reports
  KiB, with which no deployment passes validation (run `memory_unit`); every other run takes 1,
  which is the service as its authors mean it, to see past that.
- The operators under "Plausible bugs" are variants of actions that no specification uses.

### MissionFile and the code

`MissionService` has every call and every interleaving, but names that cannot coincide and no
addresses. `MissionFile` is its complement: what is computed from a file, step by step from the
generator to teardown, with each networking function as one step.

- `PlaceVm` is one round of the loop of `greedy_place`: the next VM of the generator's order
  (`PlacedBefore`: GPU VMs by name, then the others by falling CPU count) goes to the fitting host with the most
  CPUs left. The last round is followed by writing the file. `NoFeasibleHost` is its
  `RuntimeError`; the file then stays as it was. `RunGenerator` starts over, with `hosts.yaml` as
  it is by then.
- `OperatorEdits`, `EditHosts` and `Rename` are what people do to file and inventory between two
  programs. They are not code; each edit is one that makes some check or computation of the code
  matter: addresses given, left out or too few, VMs, interfaces and networks dropped, a
  VM added (which moves the index of the others), a VM moved, another VLAN id, other hosts.
- `Post` is `create_mission` up to the answer: the two checks of the specification in the order of
  `to_core`, which fills in the addresses of the `macs` section only after VMs were checked, then
  the capacity check. `LoaderAccepts` and `FromDict` are the other way to read a file.
- `ProvisionNetworks`, `AddVmPorts` and `TeardownNetworking` are the functions of
  `services/networking.py`; `AddVmPorts` raises before it adds anything when addresses cannot
  be assigned.
- A name is the sequence of the pieces its text has between dashes, so that joining is
  concatenation. An address is the octets after `52:54:00`; `Octets` is their number of values.
  The order of texts is `Rank`, the first octet of a SHA-256 digest is `MissionOctet`; the two are
  any functions, the digest's may give two missions one octet. `RouterHash` is the hash in the
  address of a router port.
- `pristine` remembers that a mission's file was posted as it was generated; it has no counterpart
  in the code and no action reads it.

### Bootstrap and the code

One action per command or look, in the order of `main`. `Command` is `util.run`: it fails
if the host is not in a state in which it can work (a service that is down, a bridge or pool that exists) or for a
reason of its own (bounded), ends the run with exit code 1 when checked, and does nothing in
a dry run. Looks (`systemctl is-active`, `br-exists`, `pool-info`, `/etc/default/grub`) decide
what follows. `Start` chooses apply, dry run or check run each time. `Interrupted` is a kill
or power failure anywhere, `Reboot` the reboot an operator makes after failed validation,
`ServiceStops` a service that dies. `Booted` is what a boot restores: enabled services, pools
with autostart, kernel arguments if they reached the boot configuration; the transient
`ceph-pool` is gone. Package installation is one flag. A host starts fresh, with or without
GPUs, on either backend.

Python imports the modules when the script starts, before anything is installed. `rados` remembers
whether `python3-rados`, which comes with the packages, was there at that moment: without it
`modules/storage.py` takes Ceph for unreachable for the rest of the run, and in a run that applies
the script on a host of the Ceph backend the storage step raises.

## 3. Runs

All runs of `MissionService` have a host `h1` with two GPUs (whose list of addresses is empty
in `local_race`); `single` has a second host without a GPU, on which the mission it refuses
wants one. Deadlock is not checked in them: requests are
bounded, and a service without requests waits. In the bootstrap runs it is checked.

| run | instance | shows |
|---|---|---|
| `single` | 1 mission (2 networks, a linked-clone GPU VM, a PXE GPU VM) and one that must be refused; 3 DELETEs, 2 faults, 2 swallowed libvirt errors, 1 restart, both config faults, patient | `TypeOK`, `RunningIsComplete`, `DestroyedIsClean`, `DestroyedLeavesDomains`, `NothingAttached`, `GpusDistinctInMission`, `GpuAvailable`, `TeardownFailsOnlyByFault`, `ImplementsLifecycle` |
| `pair` | 2 missions, one host, one golden image, no common VM name; 2 DELETEs each, 1 fault, patient | `RunningIsComplete`, `DestroyedIsClean`, `ImplementsLifecycle`, `DeleteConverges` |
| `hostile` | 2 missions with the same VM name, a DELETE at any moment, symmetry | `SnapshotReady`, `NotStranded`, `NetworksIsolated` |
| `local_race` | 1 mission on qcow2 files: a PXE VM that starts, then a linked-clone GPU VM that finds no address; 2 DELETEs at any moment, 1 fault, 1 swallowed error | `NotStranded`, `ThreadsEnd` |
| `mission_file` | 3 VMs of the generator and one to add, 2 networks, 3 inventories, 2 missions; 2 runs of the generator, 2 edits; 3 values of an octet | `TypeOK`, `GeneratedDeploys`, `FallbackDistinct`, `PinnedAddresses`, `LoadersAgree` |
| `bootstrap` | any target; 2 failures, 2 kills | `TypeOK`, `ReadyIsReady`, `PoolMissingOnlyByFault`, `FailsOnlyByFault`, `RerunChangesNothing`, `DryRunHarmless`, `Converges` |
| 6 violation runs | one small instance each | see section 5 |

**Bounds.** Two faults are what it takes to let a deployment and the teardown after it both
stop halfway, and the third DELETE of `single` then meets the remains of both. One restart
between any two steps is enough to resubmit over any remains; a second would meet the same
remains. Two missions suffice for every clash between missions, since each resource clashes
pairwise. Two networks, two VMs and three interfaces make every loop run once, more than
once, and (for the PXE VM) past an element; two GPUs and two GPU VMs empty the pool. Two
swallowed errors let both VMs of a mission outlive one teardown, or one VM two of them. In
`bootstrap`, two failures and two kills let three consecutive runs be cut short, for example a run that
fails between two related commands, and a second one that fails while it repairs that.
`hostile` has a symmetry that swaps the two missions together with their names; its
properties are an invariant or an action property that treat the missions alike.

In `mission_file` the inventories have room for all VMs, just enough in one way, and too little
memory for the last of them; one edit of the inventory is enough to meet any of the three with a file
made for another. Three values of an octet are one too few for the VM an operator may add, so
the bound of `macs.py` is met by the third VM and passed by the fourth; the two missions have the same
octet from their names, the worst case. Two edits let one undo or spoil what the other has
done (an address given to a VM, and an interface dropped from it); two missions suffice since
OVN rows clash pairwise. Its symmetry swaps the two names, which everything treats alike. The
deadlock check is off, since generator, edits and requests are bounded and may be over.
`unchecked_macs` takes the real 256.

**Fairness.** `FairSpec` has weak fairness of each thread's own steps: threads are scheduled
by the OS, and every backend call has a result (or raises, after a timeout). There is no
fairness of faults, requests or restarts. The thread pool of the web server is taken to be
larger than the number of missions; no worker waits for another, so a smaller pool only delays.
`RetrySpec` adds that the client of one mission, after a failed teardown, sends DELETE again;
this is the client `workers/teardown.py` 4-5 speaks of. `OperatorSpec` has weak fairness of
the script, and an operator who keeps applying it until it exits with 0 and reboots after a
failed validation; that one is strong, because dry runs and check runs may come in between.

## 4. Theorems

The first six are about `Spec` of `MissionService`, for every set of missions, networks, VMs,
hosts, images, every inventory, placement and bound, under the named assumptions of `Cluster`
and `MissionService` only. The six after them, of `MissionPatientProofs`, are about the same
`Spec` and say in their statements what they suppose of missions and clients. Then come those of
`Naming` and `MissionFile`, for every set of names, hosts, files, inventories and every octet size,
and those of `Bootstrap`, for every list of services and bridges and every bound.

### Any client

- **`TypesHold`**: `Spec => []TypeOK`. `TypeOK` alone is not inductive: that `AtVm(t)` is a VM
  needs that `idx[t]` lies in the loop. The invariant is `TypeInv == TypeOK /\ IndexOK`; `IndexOK` says
  that between the calls of one round of a loop the loop variable is inside its sequence.
  There is one lemma for requests, networks, storage, VMs, teardown and failures each.
- **`NoneStranded`**: `ConfigFaults = {} => (Spec => []NotStranded)`, in the form its statement
  gives. The invariant is `Attended`: every registered mission has a final state or a thread
  that works on it. A step either goes on, and its own thread is the witness, or ends and
  writes a final state (`GoesOn`). The hypothesis is needed: with a config fault the property
  is false (section 5).
- **`SnapshotsReady`**: `Spec => []SnapshotReady`, for any number of concurrent deployments.
  `SnapshotInv` says what a thread knows after each answer of Ceph; `GoldenGrows` (nothing ever
  unprotects or removes a snapshot) is why another thread cannot make that knowledge stale.
- **`GpusDistinct`**: `Spec => []GpusDistinctInMission`, from `PciAssumption` (the addresses of
  a host are different). `GpuInv` relates pool and hand-out: what is left in the pool is
  distinct and was not handed out. It needs `ThreadKinds`, that only the thread of a POST
  deploys and no deployment starts twice, since a start refills the pool.
- **`GpusSuffice`**: `GpusListed => (Spec => []GpuAvailable)`; `GpusListed` says that `hosts.yaml`
  lists an address for each GPU it counts, without which the property is false (in `local_race`
  a VM finds none). The invariant is `CountInv`: of each host, the addresses left in a deployment's
  pool and the VMs that were handed one add up to the list (`Balanced`); those VMs asked for a
  GPU and lie at or before the loop's position (`TakenBehind`); the mission has passed the capacity check
  (`Checked`). So when the loop reaches a VM that asks, those before it are strictly fewer than
  all that ask, these are no more than the GPUs, and the pool is not empty. VMs of a mission have different
  names (`VmsAssumption`: they are keys of a mapping); counted twice, one would break the sum.
- **`Isolation`**: `Spec => NetworksIsolated`. Each step that touches OVN adds or removes
  entries of its own mission's name (`RowsOfOthers` is the set argument) and moves its thread.

### Patient clients, separate missions

The six theorems below have these hypotheses. They are those under which the runs `single` and
`pair` check the properties; both runs satisfy them.

- `Patient`: a mission is deleted only when nothing works on it. Without it `NothingAttached` is
  false (`delete_while_deploying`).
- `Separate`: different missions have different names and no VM name in common; networks,
  hosts and golden images may be shared. With shared VM names `RunningIsComplete` is false
  (`shared_vm_name`).

Faults, swallowed libvirt errors, restarts, config faults, DELETEs and both backends are unrestricted.
What a swallowed error makes false (a domain outlives the teardown that reports `Destroyed`, and may
be running while its ports are removed) the properties claim only while `swallowed = 0`, and say what
remains true after it.

None of the properties is inductive: that all VMs run when validation ends is true because of
what each earlier call did, in a thread that reads nothing of it again. The
invariant is `PatientInv`: `ExtentInv`, which swallowed errors do not disturb, about what deployments make
and about the rows and disks that teardowns remove; and, while `swallowed = 0`, `GoneInv` about the VMs that
teardowns remove. It says

- who works (`ControlInv`): only the thread of a POST deploys, at most one thread works on a
  mission (`Alone`), and the store's state of the mission is the one its label belongs to (`Phased`);
- whose things are: a domain belongs to a mission that has this VM on this host
  (`DomainsOwned`), and in `GoneInv` none has lost its definition (`Persistent`); a mission's switches, ports and
  disks are those of its specification, and a clone of its VM is of its own image (`Contained`),
  which is what teardown's loops, running over the specification, rely on; a domain of a
  linked-clone VM was defined with its disk, and while it runs the disk is there (`DisksHeld`);
- what a thread has achieved (`DeployKnows`, `TidyKnown` of ports, networks and disks; in `GoneInv`
  `TeardownKnows` of VMs): at each label the elements before the loop's position are up, or
  gone, and those of the loops before it all are;
- what the final states mean: `Complete` for `Running`, `Tidy` (no row, no disk) for `Destroyed`; in
  `GoneInv` also `Bare` for `Destroyed`. `Bare` is `Clean` stated per network, port, disk and VM of the mission.

TLC checked it on the instances of `single` and `pair`, and its parts on one with qcow2 files, before it
was proved. The proof asks of a step three things: what it adds to or removes from its own
mission (`Adds`, `Removes`), that it leaves the resources of other missions alone (`Untouched`,
which is where `Separate` is used), and that its thread's knowledge of what it did not touch
survives (`AddsKeep`, `RemovesKeep`).

- **`RunningComplete`**: `Spec => []RunningIsComplete`. The verdict is written by a thread that
  knows networks, ports, disks and VMs to be up; only its own mission's teardown takes them away, and
  that leaves `Running` first. A domain that outlived a teardown does no harm: it is of the same
  mission, and if it still runs, `create()` raises and the mission is not `Running`.
- **`DestroyedClean`**: `Spec => []DestroyedIsClean`. While no error is swallowed, a teardown walks over everything that can be
  there by `Contained` and `DomainsOwned`, whatever left it there: a failed deployment, a failed
  teardown, a deployment forgotten by a restart.
- **`DestroyedLeavesNoData`**: `Spec => []DestroyedLeavesDomains`, whatever libvirt errors are
  swallowed. A teardown whose VM would not go still walks over all rows and disks. A linked-clone VM that
  runs on holds its image, the removal of which then raises, so the mission is in `Error` and not
  `Destroyed`; that is `DisksHeld`. A PXE VM has no disk that could stop the teardown, and may run on.
- **`NoneAttached`**: `Spec => []NothingAttached`. While no error is swallowed, from the moment ports are removed, all VMs of the
  mission are gone, and nobody else starts one.
- **`TeardownsFailOnlyByFault`**: `Spec => TeardownFailsOnlyByFault`. Two calls of a teardown can
  raise because of the state of the cluster: removing an image in use, and removing a file that is gone. The
  first needs a running domain of the VM, which is its own mission's, so a swallowed error left it; the
  second needs a second thread on the mission.
- **`LifecycleImplemented`**: `Spec => ImplementsLifecycle`. Under the invariant the mapped
  `Footprint` is "none" exactly when the mission is `Bare` and "whole" when it is `Complete`
  (`FootprintIsExtent`), so a step that adds is a `Build` or a stutter, one that removes a `Dismantle`
  or a stutter, one that writes the store the step of that name, and a swallowed error a `Hide`, after which
  `Gone` no longer asks for "none" (`StepImplements`).

Assumed of the constants beyond this: `NoDomainAssumption` of `Cluster`, that the value that stands for
no domain is none of the domains.

### Names and mission files

- **`PortNamesDistinct`** and **`DashedNamesCollide`**, of any names, dashes included: two ports
  have one name only if mission, VM and network are the same, or the VM names, or the network
  names, differ in their numbers of dashes (`SameDashes`); and in the second case they can, for any
  names, as a dash may stand on either side of a join. The parts are counted from the end, so the
  mission name may hold any number of dashes (`LastPieces`).
- Under `DashFree`, which excludes the second case and which no code checks, the lemmas
  `SwitchNamesDistinct`, `DashFreePortsDistinct` and `PeersAreNoVmPorts` follow: joined names are equal
  only if their parts are, and a router's peer port is never called like the port of a VM.
  **`AddressesPinned`** rests on them. **`FallbackInjective`**: the index of a VM in the sorted order grows
  strictly, so two generated addresses of a mission are equal only for one interface.
- **`AddressesPinned`**: `Spec => []PinnedAddresses` of `MissionFile`. `StoreInv` says that what is
  stored is a document whose placement covers its VMs and whose interfaces name networks it
  has; `OvnInv` that a mission's switches and its own rows are there from the step that makes
  them until its teardown. Other missions' steps keep them by the theorems on names. The
  invariant is about VMs that list a network once (`NoRepeats`, which generator and edits keep).
- **`FallbacksDistinct`**: `Spec => []FallbackDistinct`, from `FallbackInjective` and that what is
  assigned was computed from the stored specification, which no edit reaches any more.
- **`LoadersAlwaysAgree`**: `Spec => []LoadersAgree`. The converse is false (`unchecked_macs`).
- **`GeneratedAlwaysDeploys`**: `Spec => []GeneratedDeploys`, for any VMs, hosts and capacities, under
  `GeneratorAssumption`: the generator has a network, the number of its VMs is at most that of the values of an octet,
  and the VLAN ids of its networks differ in the octet that gateways take from them. The invariant is
  `Pristine`. `PlanRight` keeps the accounts while VMs are placed: what a host has is what is left of it
  and what its VMs so far ask for, three sums that grow by one VM with each round. So the finished
  plan passes `validate_placement` (`RightPlanIsFeasible`), which adds up the same amounts from the other end.
  `GeneratorInv` and `PristineInv` carry that through the file and the POST to the stored specification: an
  edit or another inventory ends the claim, renaming the mission does not. `RouterInv` says that a
  router's rows are those of its mission's networks.
- **`FileTypeCorrect`**: `Spec => []TypeOK` of `MissionFile`. That what is left of a capacity is a natural
  number needs that VMs are placed only where they fit, which the variant `TakeGpuAlways` breaks.
- **`GeneratorProceeds`**: while VMs are being placed, there is a next one in the order of
  `PlacedBefore`, and a host with the most CPUs left among those that fit, if one fits. It is why
  the generator ends with a file or with its `RuntimeError` and the model never stops in between.

A sum over a set is defined by recursion over the set, and the induction theorems of the library cannot be
applied. The lemmas on sums (`SumRemove`, `SumAdd`, `SumType`) and `FirstOfOrder` take a smallest set for which
the claim fails instead: that one exists is `FS_StrictSubsetOrderingWellFounded` with `WFMin`, neither of
which has an operator as a parameter.

### Bootstrap

- **`TypesHold`** of `Bootstrap`, and **`DryRunsHarmless`**: `Spec => DryRunHarmless`. A dry run
  passes through the commands and skips them; a check-only run is never at a command that
  sets something up (`CheckOnlyChecks`), which is what needs an invariant.
- **`ReadyMeansReady`**: `Spec => []ReadyIsReady`. `Done` says for each stage of `main` what
  a run past it has established, and inside the two loops what it has up to the current
  element. It is kept because nothing in the model takes a setting back (`Grows`, which holds
  of reboots and dying services too) and because control passes from stage to stage (`Flows`).
  `HostInv` is the strengthening: the rbd pool, when there, is active, so "found" is as
  good as "created"; `grub2-mkconfig` only ever runs over a file with the arguments, so the boot
  configuration never loses them; the running kernel's arguments come from it. `RadosInv` adds
  that a run without `rados` has no rbd pool to end well with.
- **`PoolPresent`**: `Spec => []PoolMissingOnlyByFault`. `LocalPoolDone` says what a run has made of
  the local pool at each of the three `virsh` calls while nothing has failed. A call that
  fails because its work was done already loses nothing (`VirshWorks`), which is why the exit
  codes do not matter; that the pool existed before says nothing of its flags, which is
  why a run repeats all three.
- **`FailuresAreFaults`**: `Spec => []FailsOnlyByFault`. Past each stage, what the next commands
  need is there (`Done`), and while nothing has stopped a service, every enabled one runs, also
  after a boot (`EnabledRun`). So a checked command that fails is a fault (`CommandFails`), except
  the storage step of a run that started without `rados`.
- **`RerunsQuiet`**: `Spec => RerunChangesNothing`. Each command finds its work done
  (`NothingToAdd`), or, like `add-br` and `pool-define-as`, is not run or not looked at. Two steps
  need history. Storage: a configured host of the Ceph backend has its pool, which a run that could
  import `rados` has made, so every run since was started with the packages there (`RadosInv`).
  `grub2-mkconfig`: a run that is about to make the boot configuration found no arguments in the
  grub file, and modules are stored only after that file has them, so such a host was not
  configured (`DeviceInv`).

### Only model-checked

Liveness (`ThreadsEnd`, `DeleteConverges`, `Converges`), which is out of the prover's reach. Every
other property of a passing run is stated by a theorem. What the properties of the violation runs
say is false of the code, and nothing is proved of them.

## 5. Where the code and its documentation part

Each is a violation run whose counterexample TLC prints.

- `delete_while_deploying`: DELETE during a deployment removes ports and disks while the VM is
  being defined and started, against the first line of `workers/teardown.py`.
- `gpu_across_missions`: each deployment starts from all GPUs of a host, so two missions are
  given the same device.
- `shared_vm_name`: clones and domains are named by VM only. One mission's teardown stops the
  VM of another that stays `Running`.
- `memory_unit`: validation compares memory without its unit; with KiB every mission ends in `Error`.
- `unchecked_macs`: a `macs` section with too few addresses for a VM passes POST, which fills it in
  after the VM was checked; the deployment fails when it assigns addresses.
- `stale_boot_config`: after `grub2-mkconfig` failed once, no later run makes the boot
  configuration, and the host never validates.

Seen while modelling, without a run of their own:

- On a fresh host of the Ceph backend the first run of `bootstrap.py` always ends with exit code 1 at
  the storage step, although nothing fails: it imported `rados` (`modules/storage.py:21`) before it
  installed `python3-rados` (`bootstrap.py:79`). The header says "Designed to be run once per host"
  (`bootstrap.py:11`). `ReadyIsReady` states, and `ReadyMeansReady` proves, that exit code 0 on the
  Ceph backend takes a run that found the packages when it started; `FailsOnlyByFault` states that
  the storage step of a run that did not is the only thing that ends one with code 1 without a fault.
- With `ConfigFaults # {}` `NotStranded` fails: a mission stays `Pending` (or `Destroying`) for ever.
- Two missions whose first use of one golden image falls together: both see no snapshot, one
  `create_snap` raises, and that mission ends in `Error` although nothing is wrong
  (`clients/ceph_client.py` 91-95).
- On qcow2 files the domain names `<dir>/<vm>.qcow2` (`core/xml_render.py` 163) and the file made is
  that of the clone, so validation or the start fails: `memory_unit.cfg` with
  `Backend = "local_qcow2"` and `UnitsPerMiB = 1` shows it.
- VLAN ids equal modulo 256, such as 100 and 356, give two networks of a mission one gateway and
  subnet, against `services/networking.py` 29-30. The generator's ids are far from that
  (`GeneratedDeploys`); nothing checks those an operator writes. `SubnetsApart(n)` as an
  invariant of `unchecked_macs.cfg`, for every mission `n`, shows it.
- The octet 0xff that marks the addresses of router ports (`services/networking.py` 42) is one that
  mission names hash to ("Mission-36" does); VMs of such a mission with generated addresses
  carry it too.
- `mission_spec_from_dict` says it takes what Pydantic's `.dict()` gives; there `macs` is `None`
  when the file has none, and `.get` of it raises (`services/missions.py` 47, 62). Nothing calls it so.
- The errors of `to_core` are plain `ValueError`s that `routes.py` does not catch: the client gets
  500 where the other refusals are 4xx. The model has one refusal.
- Names with dashes collide: VM `db-x` on network `a` and VM `db` on network `x-a` of one mission get one
  port name, and network `a` of mission `M-x` and network `x-a` of mission `M` one switch name
  (`DashedNamesCollide`). Nothing refuses such names.
- A VM that lists a network twice has one port name for two interfaces, and the second address
  wins (`services/networking.py` 95). Nothing checks it; runs and proofs are about other VMs.
- The stand-alone validator is described as one to run after a host reboot, and reads only the
  state that was stored when the deployment ended.
- With a swallowed libvirt error, a mission is reported `Destroyed` although a domain is left: a
  definition, or a PXE VM that may still run without its ports, and no row or disk
  (`DestroyedLeavesDomains`). `DestroyedIsClean` without its condition `swallowed = 0` fails in `single`.
- `check_iommu_enabled` is asked on hosts without GPUs too, which nothing gave the kernel
  arguments: there no run exits with 0. `Converges` therefore speaks of GPU hosts.
- The rbd pool is transient and validation does not look for it; nor for the local pool, which
  may be missing from a host reported ready after a `virsh` call failed (never otherwise:
  `PoolMissingOnlyByFault`).

## 6. Not modelled, and why

- Texts: log entries, error messages, responses, YAML parsing, XML layout. Pure I/O.
- What validation compares besides existence, owner, GPU and memory (CPU count, disks, NICs):
  the same definition rendered them, so a mismatch is a bad override, that is a `Fault`.
- The notation of PCI addresses in a domain's XML: texts.
- `tools/validate_deployment.py`: it reads the stored state and looks at nothing itself.
- `MissionStatus.error`: set by `fail`, never cleared, only shown.
- `validate_no_duplicate_macs` of `core/macs.py`: only tests call it.
- `clients/nm_client.py`: nothing calls it. Shell scripts of `bootstrap/`: manual equivalents.
- Resubmitting a mission's *name* under a second uuid while the first exists.

## 7. Plan

Done: all modules of section 2, with the runs of section 3 and the theorems of section 4.

Left: two missions of one name in `MissionService`, and repeated networks in a VM's `interfaces`; both are
listed as hazards without a property.
