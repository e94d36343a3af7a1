--------------------------- MODULE MissionGpuProofs ---------------------------
(***************************************************************************)
(* A mission that passed the capacity check finds a GPU for each VM that   *)
(* asks for one, for any missions, inventory and bounds.                   *)
(***************************************************************************)
EXTENDS MissionSafetyProofs, FiniteSetTheorems

\* hosts.yaml lists an address for each GPU it counts.
GpusListed ==
    \A h \in DOMAIN Inventory : /\ Inventory[h].gpus \in Nat
                                /\ Inventory[h].gpus <= Len(PciAddresses[h])

VmSeq(m) == Submitted[m].vms

\* The VMs of mission m on host h that have been handed a GPU.
Taken(m, h) == {v \in VmSet(Submitted[m]) : PlaceOf(m, v) = h /\ gpuOf[m][v] # NoPci}

\* What is left in a pool and what was handed out from it add up to the inventory.
Balanced(m) ==
    \A h \in Host : Len(gpuPool[m][h]) + Cardinality(Taken(m, h)) = Len(PciAddresses[h])

\* The steps of a deployment before its loop over the VMs.
BeforeVms == {"idle", "deploy"} \cup (DeployLabel \ {"define", "start", "check_switches", "check_vm"})

\* A VM that has been handed a GPU asked for it, and the loop has reached or passed it.
TakenBehind(m) ==
    \A v \in VM : gpuOf[m][v] # NoPci =>
        /\ v \in Submitted[m].gpu
        /\ pc[<<m, 0>>] \notin BeforeVms
        /\ \E j \in 1 .. Len(VmSeq(m)) :
              /\ VmSeq(m)[j] = v
              /\ pc[<<m, 0>>] = "define" => j < idx[<<m, 0>>]
              /\ pc[<<m, 0>>] = "start" => j <= idx[<<m, 0>>]

\* Only a mission that passed the check is deployed.
Checked(m) == pc[<<m, 0>>] # "idle" => Feasible(Submitted[m], Inventory)

CountInv == \A m \in Id : Balanced(m) /\ TakenBehind(m) /\ Checked(m)

----------------------------------------------------------------------------
\* The VMs of a mission are finitely many.
LEMMA VmsFinite ==
    ASSUME NEW m \in Id
    PROVE  /\ VmSet(Submitted[m]) \subseteq VM /\ IsFiniteSet(VmSet(Submitted[m]))
           /\ \A j \in 1 .. Len(VmSeq(m)) : VmSeq(m)[j] \in VmSet(Submitted[m])
  <1> DEFINE s == VmSeq(m)
  <1>1. s \in Seq(VM)
    BY SubmittedAssumption DEF VmSeq, MissionSpec
  <1>2. DOMAIN s = 1 .. Len(s) /\ Len(s) \in Nat
    BY <1>1
  <1>3. VmSet(Submitted[m]) = {s[j] : j \in 1 .. Len(s)}
    BY <1>2 DEF VmSet, Range, VmSeq
  <1>4. s \in Surjection(1 .. Len(s), {s[j] : j \in 1 .. Len(s)})
    BY <1>1, <1>2 DEF Surjection
  <1>5. IsFiniteSet(1 .. Len(s))
    BY <1>2, FS_Interval
  <1> QED BY <1>1, <1>2, <1>3, <1>4, <1>5, FS_Surjection

\* So are those that hold a GPU.
LEMMA TakenFinite ==
    ASSUME NEW m \in Id, NEW h
    PROVE  IsFiniteSet(Taken(m, h)) /\ Cardinality(Taken(m, h)) \in Nat
  BY VmsFinite, FS_Subset, FS_CardinalityType DEF Taken

\* Where a thread's step leads: into the loop over the VMs from before it or from the
\* call that starts a VM, and to that call by defining the VM.
LEMMA StepIntoVms ==
    ASSUME TypeInv, NEW t \in Thread, ThreadStep(t) \/ Fault(t) \/ SwallowedError(t)
    PROVE  /\ pc'[t] \in BeforeVms => pc[t] \in BeforeVms
           /\ pc'[t] = "define" =>
                pc[t] \in BeforeVms \/ (pc[t] = "start" /\ idx'[t] = idx[t] + 1)
           /\ pc'[t] = "start" => pc[t] = "define" /\ idx'[t] = idx[t]
  <1> USE DEF BeforeVms, DeployLabel
  <1>1. CASE DeployNetworks(t)
    BY <1>1
       DEF DeployNetworks, DeployBegins, AddRouter, AddSwitch, AddRouterPort, AddPeerPort,
           NetworksDone, AddVmPort, PortsDone, At, Goto, Raise, Finish, TypeInv, TypeOK
  <1>2. CASE DeployStorage(t)
    BY <1>2
       DEF DeployStorage, ListSnaps, CreateSnap, IsProtected, ProtectSnap, ListClones, Clone,
           LocalCloneExists, QemuImgCreate, StorageDone, At, Goto, Raise, TypeInv, TypeOK
  <1>3. CASE DeployVms(t)
    BY <1>3
       DEF DeployVms, NoFreeGpu, DefineVm, StartVm, VmsDone, CheckSwitches, CheckVm, Verdict,
           At, Goto, Raise, Finish, TypeInv, TypeOK
  <1>4. CASE Teardown(t)
    BY <1>4
       DEF Teardown, TeardownBegins, LookupAndStop, UndefineVm, VmsDestroyed, RemoveVmPort,
           RemoveSwitch, RemoveRouter, RemoveClone, LocalDiskExists, Unlink, DisksRemoved,
           At, Goto, Raise, Finish, TypeInv, TypeOK
  <1>5. CASE SkipDiskless(t) \/ RecordFailure(t) \/ Fault(t) \/ SwallowedError(t)
    BY <1>5
       DEF SkipDiskless, RecordFailure, Fault, SwallowedError, Goto, Raise, Finish, TypeInv,
           TypeOK
  <1> QED BY <1>1, <1>2, <1>3, <1>4, <1>5 DEF ThreadStep, Deploy

\* A step that hands out nothing keeps what is said of the VMs behind the loop.
LEMMA NothingTaken ==
    ASSUME TypeInv, GpuInv, NEW t \in Thread, ThreadStep(t) \/ Fault(t) \/ SwallowedError(t),
           NEW m \in Id, TakenBehind(m), NEW v \in VM, gpuOf[m][v] # NoPci,
           gpuOf'[m][v] = gpuOf[m][v]
    PROVE  /\ v \in Submitted[m].gpu
           /\ pc'[<<m, 0>>] \notin BeforeVms
           /\ \E j \in 1 .. Len(VmSeq(m)) :
                 /\ VmSeq(m)[j] = v
                 /\ pc'[<<m, 0>>] = "define" => j < idx'[<<m, 0>>]
                 /\ pc'[<<m, 0>>] = "start" => j <= idx'[<<m, 0>>]
  <1> DEFINE d == <<m, 0>>
  <1>1. d \in Thread /\ idx[d] \in Nat
    BY DEF Thread, DeployThread, TypeInv, TypeOK
  <1>2. OnlyMoves(t)
    BY StepMovesOne DEF TypeInv
  <1>3. /\ v \in Submitted[m].gpu /\ pc[d] \notin BeforeVms
        /\ \E j \in 1 .. Len(VmSeq(m)) :
              /\ VmSeq(m)[j] = v
              /\ pc[d] = "define" => j < idx[d]
              /\ pc[d] = "start" => j <= idx[d]
    BY DEF TakenBehind
  <1>4. Len(VmSeq(m)) \in Nat
    BY SubmittedAssumption DEF VmSeq, MissionSpec
  <1>5. PICK j \in 1 .. Len(VmSeq(m)) : /\ VmSeq(m)[j] = v
                                        /\ pc[d] = "define" => j < idx[d]
                                        /\ pc[d] = "start" => j <= idx[d]
    BY <1>3
  <1>6. CASE t # d
    <2>1. pc'[d] = pc[d] /\ idx'[d] = idx[d]
      BY <1>1, <1>2, <1>6 DEF OnlyMoves
    <2> QED BY <1>3, <2>1
  <1>7. CASE t = d
    <2>1. /\ pc'[d] \in BeforeVms => pc[d] \in BeforeVms
          /\ pc'[d] = "define" =>
                pc[d] \in BeforeVms \/ (pc[d] = "start" /\ idx'[d] = idx[d] + 1)
          /\ pc'[d] = "start" => pc[d] = "define" /\ idx'[d] = idx[d]
      BY <1>7, StepIntoVms
    <2>2. pc'[d] = "define" => j < idx'[d]
      BY <1>1, <1>3, <1>4, <1>5, <2>1
    <2>3. pc'[d] = "start" => j <= idx'[d]
      BY <1>1, <1>4, <1>5, <2>1
    <2> QED BY <1>3, <1>5, <2>1, <2>2, <2>3
  <1> QED BY <1>6, <1>7

\* A quiet step keeps balance and order.
LEMMA QuietKeepsCount ==
    ASSUME TypeInv, GpuInv, CountInv, NEW t \in Thread,
           ThreadStep(t) \/ Fault(t) \/ SwallowedError(t), NEW m \in Id,
           gpuPool'[m] = gpuPool[m], gpuOf'[m] = gpuOf[m]
    PROVE  Balanced(m)' /\ TakenBehind(m)'
  <1>1. Balanced(m)'
    BY DEF CountInv, Balanced, Taken, PlaceOf
  <1>2. TakenBehind(m)'
    <2> SUFFICES ASSUME NEW v \in VM, gpuOf'[m][v] # NoPci
                 PROVE  /\ v \in Submitted[m].gpu
                        /\ pc'[<<m, 0>>] \notin BeforeVms
                        /\ \E j \in 1 .. Len(VmSeq(m)) :
                              /\ VmSeq(m)[j] = v
                              /\ pc'[<<m, 0>>] = "define" => j < idx'[<<m, 0>>]
                              /\ pc'[<<m, 0>>] = "start" => j <= idx'[<<m, 0>>]
      BY DEF TakenBehind, VmSeq
    <2>1. TakenBehind(m)
      BY DEF CountInv
    <2> QED BY <2>1, NothingTaken
  <1> QED BY <1>1, <1>2

\* A deployment begins with a full pool, and nothing handed out.
LEMMA BeginKeepsCount ==
    ASSUME TypeInv, GpuInv, CountInv, NEW t \in Thread, DeployBegins(t), NEW m \in Id
    PROVE  Balanced(m)' /\ TakenBehind(m)'
  <1>1. t[1] \in Id /\ ThreadStep(t)
    BY SpecTypes DEF ThreadStep, Deploy, DeployNetworks
  <1>2. gpuOf' = gpuOf
    BY DEF DeployBegins
  <1>3. CASE m # t[1] \/ UNCHANGED gpuPool
    <2>1. gpuPool'[m] = gpuPool[m]
      BY <1>1, <1>3 DEF DeployBegins, TypeInv, TypeOK
    <2> QED BY <1>1, <1>2, <2>1, QuietKeepsCount
  <1>4. CASE m = t[1] /\ gpuPool' = [gpuPool EXCEPT ![t[1]] = PciAddresses]
    <2>1. t = <<m, 0>>
      BY <1>4 DEF Thread, DeployThread, TeardownThread, DeployBegins, At, GpuInv, ThreadKinds,
                  DeployOnly
    <2>2. \A v \in VM : gpuOf[m][v] = NoPci
      BY <2>1 DEF DeployBegins, At, GpuInv, PoolInv
    <2>3. TakenBehind(m)'
      BY <1>2, <2>2 DEF TakenBehind
    <2>4. \A h \in Host : Taken(m, h)' = {}
      BY <1>2, <2>2, VmsFinite DEF Taken
    <2>5. gpuPool'[m] = PciAddresses
      BY <1>1, <1>4 DEF TypeInv, TypeOK
    <2>6. \A h \in Host : Len(PciAddresses[h]) \in Nat
      BY InventoryAssumption
    <2>7. Cardinality({}) = 0
      BY FS_EmptySet
    <2>8. ASSUME NEW h \in Host
          PROVE  Len(gpuPool'[m][h]) + Cardinality(Taken(m, h)') = Len(PciAddresses[h])
      <3>1. Cardinality(Taken(m, h)') = 0
        BY <2>4, <2>7
      <3> QED BY <2>5, <2>6, <3>1
    <2>9. Balanced(m)'
      BY <2>8 DEF Balanced
    <2> QED BY <2>3, <2>9
  <1> QED BY <1>3, <1>4 DEF DeployBegins

\* A pool loses one address to a VM that had none.
LEMMA PopKeepsBalance ==
    ASSUME NEW n \in Id, NEW h \in Host, NEW v \in VM, Balanced(n),
           v \in VmSet(Submitted[n]), PlaceOf(n, v) = h,
           gpuPool[n][h] \in Seq(Pci), gpuPool[n][h] # <<>>,
           gpuPool'[n][h] = Tail(gpuPool[n][h]),
           \A g \in Host : g # h => gpuPool'[n][g] = gpuPool[n][g],
           gpuOf[n][v] = NoPci, gpuOf'[n][v] # NoPci,
           \A w \in VM : w # v => gpuOf'[n][w] = gpuOf[n][w]
    PROVE  Balanced(n)'
  <1>1. VmSet(Submitted[n]) \subseteq VM
    BY VmsFinite
  <1>2. Taken(n, h)' = Taken(n, h) \cup {v} /\ v \notin Taken(n, h)
    BY <1>1 DEF Taken, PlaceOf
  <1>3. \A g \in Host : g # h => Taken(n, g)' = Taken(n, g)
    BY <1>1 DEF Taken, PlaceOf
  <1>4. /\ Cardinality(Taken(n, h)') = Cardinality(Taken(n, h)) + 1
        /\ Cardinality(Taken(n, h)) \in Nat
    BY <1>2, TakenFinite, FS_AddElement
  <1>5. Len(Tail(gpuPool[n][h])) = Len(gpuPool[n][h]) - 1 /\ Len(gpuPool[n][h]) \in Nat
    OBVIOUS
  <1>6. ASSUME NEW g \in Host
        PROVE  Len(gpuPool'[n][g]) + Cardinality(Taken(n, g)') = Len(PciAddresses[g])
    <2>1. Len(gpuPool[n][g]) + Cardinality(Taken(n, g)) = Len(PciAddresses[g])
      BY DEF Balanced
    <2>2. CASE g = h
      <3>1. Cardinality(Taken(n, g)') = Cardinality(Taken(n, h)')
        BY <2>2
      <3>2. gpuPool'[n][g] = Tail(gpuPool[n][h]) /\ Cardinality(Taken(n, g)) = Cardinality(Taken(n, h))
        BY <2>2
      <3>3. Len(gpuPool[n][h]) + Cardinality(Taken(n, h)) = Len(PciAddresses[g])
        BY <2>1, <2>2
      <3> QED BY <1>4, <1>5, <3>1, <3>2, <3>3
    <2>3. CASE g # h
      <3>1. Cardinality(Taken(n, g)') = Cardinality(Taken(n, g))
        BY <1>3, <2>3
      <3> QED BY <2>1, <2>3, <3>1
    <2> QED BY <2>2, <2>3
  <1> QED BY <1>6 DEF Balanced

\* A VM takes the first address of its host's pool, which it had not done before.
LEMMA DefineKeepsCount ==
    ASSUME TypeInv, GpuInv, CountInv, NEW t \in Thread, DefineVm(t), NEW m \in Id
    PROVE  Balanced(m)' /\ TakenBehind(m)'
  <1> DEFINE n == t[1]
             i == idx[t]
             v == AtVm(t)
             h == HostAt(t)
             s == gpuPool[n][h]
  <1>1. ThreadStep(t)
    BY DEF ThreadStep, Deploy, DeployVms
  <1>2. t = <<n, 0>> /\ n \in Id
    BY SpecTypes DEF Thread, DeployThread, TeardownThread, DefineVm, At, GpuInv, ThreadKinds,
                  DeployOnly, DeployLabel
  <1>3. v \in VM /\ h \in Host
    BY AtVmType DEF DefineVm, TypeInv, TypeOK, IndexOK
  <1>4. h = PlaceOf(n, v)
    BY DEF HostAt, SpecOf, PlaceOf
  <1>5. CASE UNCHANGED <<gpuPool, gpuOf>> \/ m # n
    <2>1. gpuPool'[m] = gpuPool[m] /\ gpuOf'[m] = gpuOf[m]
      BY <1>2, <1>3, <1>5 DEF DefineVm, PopGpu, TypeInv, TypeOK
    <2> QED BY <1>1, <2>1, QuietKeepsCount
  <1>6. CASE /\ m = n /\ v \in SpecOf(t).gpu /\ s # <<>> /\ PopGpu(n, h)
             /\ gpuOf' = [gpuOf EXCEPT ![n][v] = NextGpu(n, h)]
    <2>1. s \in Seq(Pci) /\ gpuPool'[n][h] = Tail(s)
          /\ \A g \in Host : g # h => gpuPool'[n][g] = gpuPool[n][g]
      BY <1>2, <1>3, <1>6 DEF PopGpu, TypeInv, TypeOK
    <2>2. gpuOf'[n][v] # NoPci /\ \A w \in VM : w # v => gpuOf'[n][w] = gpuOf[n][w]
      BY <1>2, <1>3, <1>6, PopTypes, NullAssumption DEF TypeInv, TypeOK
    <2>3. i \in 1 .. Len(VmSeq(n)) /\ VmSeq(n)[i] = v /\ VmSeq(n) \in Seq(VM)
      BY <1>2, SubmittedAssumption
         DEF DefineVm, MoreVms, AtVm, SpecOf, VmSeq, MissionSpec, TypeInv, TypeOK, IndexOK
    <2>4. v \in VmSet(Submitted[n])
      BY <1>2, <2>3, VmsFinite
    <2>5. gpuOf[n][v] = NoPci
      <3> SUFFICES ASSUME gpuOf[n][v] # NoPci PROVE FALSE
        OBVIOUS
      <3>1. PICK j \in 1 .. Len(VmSeq(n)) : VmSeq(n)[j] = v /\ j < i
        BY <1>2, <1>3 DEF CountInv, TakenBehind, DefineVm, At
      <3>2. j = i
        BY <1>2, <2>3, <3>1, VmsAssumption DEF VmSeq
      <3> QED BY <2>3, <3>1, <3>2
    <2>6. Balanced(m)'
      <3>1. Balanced(n)
        BY <1>2 DEF CountInv
      <3> QED BY <1>2, <1>3, <1>4, <1>6, <2>1, <2>2, <2>4, <2>5, <3>1, PopKeepsBalance
    <2>7. pc'[t] \notin BeforeVms /\ pc'[t] # "define" /\ (pc'[t] = "start" => idx'[t] = i)
      BY DEF DefineVm, Goto, Raise, BeforeVms, DeployLabel, TypeInv, TypeOK
    <2>8. ASSUME NEW w \in VM, gpuOf'[n][w] # NoPci
           PROVE  /\ w \in Submitted[n].gpu
                  /\ pc'[<<n, 0>>] \notin BeforeVms
                  /\ \E j \in 1 .. Len(VmSeq(n)) :
                        /\ VmSeq(n)[j] = w
                        /\ pc'[<<n, 0>>] = "define" => j < idx'[<<n, 0>>]
                        /\ pc'[<<n, 0>>] = "start" => j <= idx'[<<n, 0>>]
      <3>1. CASE w = v
        <4>1. i <= i
          BY <1>2 DEF TypeInv, TypeOK
        <4> QED BY <1>2, <1>6, <2>3, <2>7, <3>1, <4>1 DEF SpecOf
      <3>2. CASE w # v
        <4>1. gpuOf'[n][w] = gpuOf[n][w] /\ TakenBehind(n)
          BY <1>2, <2>2, <3>2 DEF CountInv
        <4> QED BY <1>1, <1>2, <2>8, <4>1, NothingTaken
      <3> QED BY <3>1, <3>2
    <2>9. TakenBehind(m)'
      BY <1>6, <2>8 DEF TakenBehind, VmSeq
    <2> QED BY <2>6, <2>9
  <1> QED BY <1>5, <1>6 DEF DefineVm

\* Nothing has been handed out when the service starts.
LEMMA InitCount == ServiceInit => CountInv
  <1> SUFFICES ASSUME ServiceInit, NEW m \in Id
               PROVE  Balanced(m) /\ TakenBehind(m) /\ Checked(m)
    BY DEF CountInv
  <1>1. <<m, 0>> \in Thread
    BY DEF Thread, DeployThread
  <1>2. \A h \in Host : Taken(m, h) = {}
    BY VmsFinite DEF Taken, ServiceInit
  <1>3. Cardinality({}) = 0
    BY FS_EmptySet
  <1>4. \A h \in Host : Len(PciAddresses[h]) \in Nat
    BY InventoryAssumption
  <1>5. ASSUME NEW h \in Host
        PROVE  Len(gpuPool[m][h]) + Cardinality(Taken(m, h)) = Len(PciAddresses[h])
    <2>1. Cardinality(Taken(m, h)) = 0
      BY <1>2, <1>3
    <2>2. gpuPool[m][h] = PciAddresses[h]
      BY DEF ServiceInit
    <2> QED BY <1>4, <2>1, <2>2
  <1> QED BY <1>1, <1>5 DEF Balanced, TakenBehind, Checked, ServiceInit

\* Every step keeps the invariant.
LEMMA StepCount == TypeInv /\ GpuInv /\ CountInv /\ [Next]_vars => CountInv'
  <1> SUFFICES ASSUME TypeInv, GpuInv, CountInv, [Next]_vars PROVE CountInv'
    OBVIOUS
  <1>1. ASSUME NEW k \in Id, CreateMission(k) PROVE CountInv'
    <2>1. UNCHANGED <<gpuPool, gpuOf>> /\ Feasible(Submitted[k], Inventory)
      BY <1>1 DEF CreateMission, locals
    <2>2. \A v \in VM : gpuOf[k][v] = NoPci
      BY <1>1 DEF CreateMission, GpuInv, ThreadKinds, PoolInv, Thread, DeployThread
    <2>3. \A u \in Thread : u # <<k, 0>> => pc'[u] = pc[u] /\ idx'[u] = idx[u]
      BY <1>1 DEF CreateMission, Goto, Finish, TypeInv, TypeOK
    <2> SUFFICES ASSUME NEW m \in Id PROVE Balanced(m)' /\ TakenBehind(m)' /\ Checked(m)'
      BY DEF CountInv
    <2>4. Balanced(m)'
      BY <2>1 DEF CountInv, Balanced, Taken, PlaceOf
    <2>5. CASE m = k
      <3>1. TakenBehind(m)'
        BY <2>1, <2>2, <2>5 DEF TakenBehind
      <3>2. Checked(m)'
        BY <2>1, <2>5 DEF Checked
      <3> QED BY <2>4, <3>1, <3>2
    <2>6. CASE m # k
      <3>1. <<m, 0>> \in Thread /\ <<m, 0>> # <<k, 0>>
        BY <2>6 DEF Thread, DeployThread
      <3>2. pc'[<<m, 0>>] = pc[<<m, 0>>] /\ idx'[<<m, 0>>] = idx[<<m, 0>>]
        BY <2>3, <3>1
      <3>3. TakenBehind(m)'
        BY <2>1, <3>2 DEF CountInv, TakenBehind, VmSeq
      <3>4. Checked(m)'
        BY <3>2 DEF CountInv, Checked
      <3> QED BY <2>4, <3>3, <3>4
    <2> QED BY <2>5, <2>6
  <1>2. ASSUME NEW k \in Id, NEW j \in 1 .. MaxDeletes, DeleteMission(k, j) PROVE CountInv'
    <2>1. UNCHANGED <<gpuPool, gpuOf>>
      BY <1>2 DEF DeleteMission, locals
    <2> SUFFICES ASSUME NEW m \in Id PROVE Balanced(m)' /\ TakenBehind(m)' /\ Checked(m)'
      BY DEF CountInv
    <2>2. <<m, 0>> \in Thread /\ <<m, 0>> # <<k, j>>
      BY DEF Thread, DeployThread
    <2>3. pc'[<<m, 0>>] = pc[<<m, 0>>] /\ idx'[<<m, 0>>] = idx[<<m, 0>>]
      BY <1>2, <2>2 DEF DeleteMission, Goto, TypeInv, TypeOK
    <2>4. Balanced(m)'
      BY <2>1 DEF CountInv, Balanced, Taken, PlaceOf
    <2>5. TakenBehind(m)'
      BY <2>1, <2>3 DEF CountInv, TakenBehind, VmSeq
    <2>6. Checked(m)'
      BY <2>3 DEF CountInv, Checked
    <2> QED BY <2>4, <2>5, <2>6
  <1>3. ASSUME NEW t \in Thread, ThreadStep(t) \/ Fault(t) \/ SwallowedError(t)
        PROVE  CountInv'
    <2>1. OnlyMoves(t) /\ KeepsKind(t) /\ (Quiet(t) \/ DeployBegins(t) \/ DefineVm(t))
      BY <1>3, StepMovesOne, StepQuiet DEF TypeInv
    <2> SUFFICES ASSUME NEW m \in Id PROVE Balanced(m)' /\ TakenBehind(m)' /\ Checked(m)'
      BY DEF CountInv
    <2>2. Balanced(m)' /\ TakenBehind(m)'
      <3>1. CASE Quiet(t)
        <4>1. gpuPool'[m] = gpuPool[m] /\ gpuOf'[m] = gpuOf[m]
          BY <3>1 DEF Quiet
        <4> QED BY <1>3, <4>1, QuietKeepsCount
      <3>2. CASE DeployBegins(t)
        BY <3>2, BeginKeepsCount
      <3>3. CASE DefineVm(t)
        BY <3>3, DefineKeepsCount
      <3> QED BY <2>1, <3>1, <3>2, <3>3
    <2>3. Checked(m)'
      <3>1. <<m, 0>> \in Thread
        BY DEF Thread, DeployThread
      <3>2. pc'[<<m, 0>>] # "idle" => pc[<<m, 0>>] # "idle"
        BY <2>1, <3>1 DEF OnlyMoves, KeepsKind
      <3> QED BY <3>2 DEF CountInv, Checked
    <2> QED BY <2>2, <2>3
  <1>4. CASE Restart
    <2>1. ServiceInit'
      BY <1>4 DEF Restart, ServiceInit
    <2>2. ServiceInit' => CountInv'
      BY InitCount, PTL
    <2> QED BY <2>1, <2>2
  <1>5. CASE UNCHANGED vars
    <2>1. UNCHANGED <<pc, idx, gpuPool, gpuOf>>
      BY <1>5 DEF vars, locals
    <2> SUFFICES ASSUME NEW m \in Id PROVE Balanced(m)' /\ TakenBehind(m)' /\ Checked(m)'
      BY DEF CountInv
    <2>2. Balanced(m)'
      BY <2>1 DEF CountInv, Balanced, Taken, PlaceOf
    <2>3. TakenBehind(m)' /\ Checked(m)'
      BY <2>1 DEF CountInv, TakenBehind, VmSeq, Checked
    <2> QED BY <2>2, <2>3
  <1> QED BY <1>1, <1>2, <1>3, <1>4, <1>5 DEF Next

\* A mission that the capacity check of register_mission accepted finds a GPU for each of
\* its GPU VMs, whatever else the service does, if hosts.yaml lists an address for each GPU
\* it counts.
THEOREM GpusSuffice ==
    ASSUME GpusListed
    PROVE  Spec => []GpuAvailable
  <1>1. ASSUME TypeInv, GpuInv, CountInv PROVE GpuAvailable
    <2> SUFFICES ASSUME NEW t \in DeployThread, pc[t] = "define", MoreVms(t),
                        AtVm(t) \in SpecOf(t).gpu
                 PROVE  gpuPool[t[1]][HostAt(t)] # <<>>
      BY DEF GpuAvailable
    <2> DEFINE m == t[1]
               v == AtVm(t)
               h == HostAt(t)
               asking == {w \in VmSet(Submitted[m]) \cap Submitted[m].gpu :
                            Submitted[m].placement[w] = h}
    <2>1. t \in Thread /\ m \in Id /\ t = <<m, 0>>
      BY DEF Thread, DeployThread
    <2>2. v \in VM /\ h \in Host
      BY <1>1, <2>1, AtVmType DEF TypeInv, TypeOK, IndexOK
    <2>3. /\ idx[t] \in 1 .. Len(VmSeq(m)) /\ VmSeq(m)[idx[t]] = v /\ VmSeq(m) \in Seq(VM)
          /\ h = Submitted[m].placement[v]
      BY <1>1, <2>1, SubmittedAssumption
         DEF MoreVms, AtVm, SpecOf, VmSeq, HostAt, MissionSpec, TypeInv, TypeOK, IndexOK
    <2>4. v \in asking
      BY <2>1, <2>3, VmsFinite DEF SpecOf
    <2>5. gpuOf[m][v] = NoPci
      <3> SUFFICES ASSUME gpuOf[m][v] # NoPci PROVE FALSE
        OBVIOUS
      <3>1. PICK j \in 1 .. Len(VmSeq(m)) : VmSeq(m)[j] = v /\ j < idx[t]
        BY <1>1, <2>1, <2>2 DEF CountInv, TakenBehind
      <3>2. j = idx[t]
        BY <2>1, <2>3, <3>1, VmsAssumption DEF VmSeq
      <3> QED BY <2>3, <3>1, <3>2
    <2>6. Taken(m, h) \subseteq asking /\ v \notin Taken(m, h)
      <3>1. TakenBehind(m)
        BY <1>1, <2>1 DEF CountInv
      <3>2. VmSet(Submitted[m]) \subseteq VM
        BY <2>1, VmsFinite
      <3> QED BY <2>5, <3>1, <3>2 DEF Taken, TakenBehind, PlaceOf
    <2>7. Cardinality(Taken(m, h)) < Cardinality(asking) /\ Cardinality(asking) \in Nat
          /\ Cardinality(Taken(m, h)) \in Nat
      <3>1. IsFiniteSet(asking)
        BY <2>1, VmsFinite, FS_Subset
      <3>2. /\ Cardinality(Taken(m, h)) <= Cardinality(asking)
            /\ Cardinality(Taken(m, h)) = Cardinality(asking) => asking = Taken(m, h)
        BY <2>6, <3>1, FS_Subset
      <3>3. Cardinality(asking) \in Nat /\ Cardinality(Taken(m, h)) \in Nat
        BY <2>1, <3>1, TakenFinite, FS_CardinalityType
      <3> QED BY <2>4, <2>6, <3>2, <3>3
    <2>8. Feasible(Submitted[m], Inventory)
      BY <1>1, <2>1 DEF CountInv, Checked
    <2>0. UnknownHosts(Submitted[m], Inventory) = {}
      <3> SUFFICES ASSUME NEW g \in UnknownHosts(Submitted[m], Inventory) PROVE FALSE
        OBVIOUS
      <3>1. <<g, "unknown_host">> \in Violations(Submitted[m], Inventory)
        BY DEF Violations
      <3> QED BY <2>8, <3>1 DEF Feasible
    <2>9. h \in DOMAIN Inventory
      BY <2>0, <2>3, <2>4 DEF UnknownHosts
    <2>10. ~(Cardinality(asking) > Inventory[h].gpus)
      <3>1. <<h, "gpus">> \notin Violations(Submitted[m], Inventory)
        BY <2>8 DEF Feasible
      <3>2. GpuLoad(Submitted[m], h) = Cardinality(asking)
        BY DEF GpuLoad
      <3> QED BY <2>0, <2>9, <3>1, <3>2 DEF Violations
    <2>11. Inventory[h].gpus \in Nat /\ Inventory[h].gpus <= Len(PciAddresses[h])
      BY <2>9, GpusListed DEF GpusListed
    <2>12. Len(gpuPool[m][h]) + Cardinality(Taken(m, h)) = Len(PciAddresses[h])
      BY <1>1, <2>1, <2>2 DEF CountInv, Balanced
    <2>13. Len(gpuPool[m][h]) \in Nat /\ Len(PciAddresses[h]) \in Nat
      <3>1. gpuPool[m][h] \in Seq(Pci) /\ PciAddresses[h] \in Seq(Pci)
        BY <1>1, <2>1, <2>2, InventoryAssumption DEF TypeInv, TypeOK
      <3> QED BY <3>1
    <2>14. Len(gpuPool[m][h]) # 0
      BY <2>7, <2>10, <2>11, <2>12, <2>13
    <2> QED BY <2>14
  <1>2. Init => GpuInv /\ CountInv
    BY NothingHandedOut, InitCount DEF Init
  <1> QED BY <1>1, <1>2, StepGpus, StepCount, TypeCorrect, PTL DEF Spec
==============================================================================
