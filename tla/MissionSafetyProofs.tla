-------------------------- MODULE MissionSafetyProofs --------------------------
(***************************************************************************)
(* Safety of MissionService whatever clients do, for any missions,         *)
(* inventory and bounds: no mission is stranded, a golden snapshot is      *)
(* protected before it is cloned, one deployment never hands out a GPU     *)
(* twice, and no mission touches the OVN rows of another.                  *)
(***************************************************************************)
EXTENDS MissionServiceProofs

----------------------------------------------------------------------------
(* No mission is stranded.                                                  *)

Final == {"Running", "Error", "Destroyed"}

\* Some thread works on the mission.
Active(m) == \E t \in Thread : t[1] = m /\ ~Ended(t)

\* Every registered mission has a final state or a thread that will give it one.
Attended == \A m \in Id : status[m] # "absent" => Active(m) \/ status[m] \in Final

\* Thread t goes on and leaves the other missions' states alone, or it ends and has
\* the last word on its mission.
GoesOn(t) ==
    /\ \A u \in Thread : u # t => pc'[u] = pc[u]
    /\ pc'[t] \notin {"idle", "done"} \/ status'[t[1]] \in Final
    /\ \A m \in Id : m # t[1] => status'[m] = status[m]

\* Such a step keeps every registered mission attended.
LEMMA GoingOnAttends ==
    ASSUME Attended, NEW t \in Thread, GoesOn(t)
    PROVE  Attended'
  <1> SUFFICES ASSUME NEW m \in Id, status'[m] # "absent"
               PROVE  Active(m)' \/ status'[m] \in Final
    BY DEF Attended
  <1>1. CASE m = t[1]
    BY <1>1 DEF GoesOn, Active, Ended
  <1>2. CASE m # t[1]
    <2>1. status'[m] = status[m]
      BY <1>2 DEF GoesOn
    <2>2. CASE status[m] \in Final
      BY <2>1, <2>2
    <2>3. CASE Active(m)
      <3>1. PICK u \in Thread : u[1] = m /\ ~Ended(u)
        BY <2>3 DEF Active
      <3>2. pc'[u] = pc[u]
        BY <1>2, <3>1 DEF GoesOn
      <3> QED BY <3>1, <3>2 DEF Active, Ended
    <2> QED BY <2>1, <2>2, <2>3 DEF Attended
  <1> QED BY <1>1, <1>2

\* The calls of a deployment go on, when cluster.yaml is in order.
LEMMA DeployGoesOn ==
    ASSUME TypeOK, ConfigFaults = {}, NEW t \in Thread, Deploy(t)
    PROVE  GoesOn(t)
  <1>0. t[1] \in Id
    BY SpecTypes
  <1>1. CASE DeployNetworks(t)
    BY <1>0, <1>1
       DEF DeployNetworks, DeployBegins, AddRouter, AddSwitch, AddRouterPort, AddPeerPort,
           NetworksDone, AddVmPort, PortsDone, Goto, Raise, UpdateState, GoesOn, TypeOK
  <1>2. CASE DeployStorage(t)
    BY <1>0, <1>2
       DEF DeployStorage, ListSnaps, CreateSnap, IsProtected, ProtectSnap, ListClones, Clone,
           LocalCloneExists, QemuImgCreate, StorageDone, Goto, Raise, UpdateState, GoesOn,
           TypeOK
  <1>3. CASE DeployVms(t)
    BY <1>0, <1>3
       DEF DeployVms, NoFreeGpu, DefineVm, StartVm, VmsDone, CheckSwitches, CheckVm, Verdict,
           Goto, Raise, Finish, UpdateState, GoesOn, TypeOK, Final
  <1> QED BY <1>1, <1>2, <1>3 DEF Deploy

\* So do the calls of a teardown, and failures.
LEMMA TeardownGoesOn ==
    ASSUME TypeOK, ConfigFaults = {}, NEW t \in Thread,
           \/ Teardown(t) \/ SkipDiskless(t) \/ RecordFailure(t)
           \/ Fault(t) \/ SwallowedError(t)
    PROVE  GoesOn(t)
  <1>0. t[1] \in Id
    BY SpecTypes
  <1>1. CASE Teardown(t)
    BY <1>0, <1>1
       DEF Teardown, TeardownBegins, LookupAndStop, UndefineVm, VmsDestroyed, RemoveVmPort,
           RemoveSwitch, RemoveRouter, RemoveClone, LocalDiskExists, Unlink, DisksRemoved,
           Goto, Raise, Finish, UpdateState, GoesOn, TypeOK, Final
  <1>2. CASE SkipDiskless(t) \/ RecordFailure(t) \/ Fault(t) \/ SwallowedError(t)
    BY <1>0, <1>2
       DEF SkipDiskless, RecordFailure, Fault, SwallowedError, At, Goto, Raise, Finish,
           UpdateState, GoesOn, TypeOK, Final
  <1> QED BY <1>1, <1>2

\* The initial state strands nothing.
LEMMA InitAttended == Init => Attended
  BY DEF Init, ServiceInit, Attended

\* No step leaves a registered mission without a thread and without a final state.
LEMMA StepAttended ==
    ASSUME ConfigFaults = {}
    PROVE  TypeInv /\ Attended /\ [Next]_vars => Attended'
  <1> SUFFICES ASSUME TypeInv, Attended, [Next]_vars PROVE Attended'
    OBVIOUS
  <1> USE DEF TypeInv
  <1>1. ASSUME NEW m \in Id, CreateMission(m) PROVE Attended'
    <2>1. <<m, 0>> \in Thread
      BY DEF Thread, DeployThread
    <2>2. GoesOn(<<m, 0>>)
      BY <1>1, <2>1 DEF CreateMission, Goto, GoesOn, TypeOK
    <2> QED BY <2>1, <2>2, GoingOnAttends
  <1>2. ASSUME NEW m \in Id, NEW k \in 1 .. MaxDeletes, DeleteMission(m, k) PROVE Attended'
    <2>1. <<m, k>> \in Thread
      BY DEF Thread, TeardownThread
    <2>2. GoesOn(<<m, k>>)
      BY <1>2, <2>1 DEF DeleteMission, Goto, GoesOn, TypeOK
    <2> QED BY <2>1, <2>2, GoingOnAttends
  <1>3. ASSUME NEW t \in Thread, ThreadStep(t) \/ Fault(t) \/ SwallowedError(t)
        PROVE  Attended'
    BY <1>3, DeployGoesOn, TeardownGoesOn, GoingOnAttends DEF ThreadStep
  <1>4. CASE Restart
    BY <1>4 DEF Restart, Attended
  <1>5. CASE UNCHANGED vars
    BY <1>5 DEF vars, Attended, Active, Ended
  <1> QED BY <1>1, <1>2, <1>3, <1>4, <1>5 DEF Next

\* While cluster.yaml is in order, a mission that nothing works on is Running, Error or
\* Destroyed, however its deployment and its teardowns interleave and fail.
THEOREM NoneStranded ==
    ASSUME ConfigFaults = {}
    PROVE  Spec => []NotStranded
  <1>1. Attended => NotStranded
    BY DEF Attended, Active, NotStranded, Final
  <1>2. Init => Attended
    BY InitAttended
  <1>3. TypeInv /\ Attended /\ [Next]_vars => Attended'
    BY StepAttended
  <1> QED BY <1>1, <1>2, <1>3, TypeCorrect, PTL DEF Spec

----------------------------------------------------------------------------
(* A golden snapshot is protected before it is cloned.                      *)

\* What a thread inside ensure_golden_snapshot or after it knows of the snapshot, although
\* it has read it in an earlier step.
SnapshotInv ==
    \A t \in Thread :
        /\ pc[t] \in {"is_protected", "protect_snap"} => golden[ImageAt(t)] # "none"
        /\ pc[t] \in {"list_clones", "clone"} => golden[ImageAt(t)] = "protected"

\* Snapshots are never taken back: this is why what a thread knows stays true.
GoldenGrows ==
    \A i \in Image : /\ golden[i] # "none" => golden'[i] # "none"
                     /\ golden[i] = "protected" => golden'[i] = "protected"

\* Thread t moves, the others stay where they are.
OnlyMoves(t) == \A u \in Thread : u # t => pc'[u] = pc[u] /\ idx'[u] = idx[u]

\* Every step of a thread moves that thread only.
LEMMA StepMovesOne ==
    ASSUME TypeOK, NEW t \in Thread, ThreadStep(t) \/ Fault(t) \/ SwallowedError(t)
    PROVE  OnlyMoves(t)
  <1>1. CASE DeployNetworks(t)
    BY <1>1
       DEF DeployNetworks, DeployBegins, AddRouter, AddSwitch, AddRouterPort, AddPeerPort,
           NetworksDone, AddVmPort, PortsDone, Goto, Raise, Finish, OnlyMoves, TypeOK
  <1>2. CASE DeployStorage(t)
    BY <1>2
       DEF DeployStorage, ListSnaps, CreateSnap, IsProtected, ProtectSnap, ListClones, Clone,
           LocalCloneExists, QemuImgCreate, StorageDone, Goto, Raise, OnlyMoves, TypeOK
  <1>3. CASE DeployVms(t)
    BY <1>3
       DEF DeployVms, NoFreeGpu, DefineVm, StartVm, VmsDone, CheckSwitches, CheckVm, Verdict,
           Goto, Raise, Finish, OnlyMoves, TypeOK
  <1>4. CASE Teardown(t)
    BY <1>4
       DEF Teardown, TeardownBegins, LookupAndStop, UndefineVm, VmsDestroyed, RemoveVmPort,
           RemoveSwitch, RemoveRouter, RemoveClone, LocalDiskExists, Unlink, DisksRemoved,
           Goto, Raise, Finish, OnlyMoves, TypeOK
  <1>5. CASE SkipDiskless(t) \/ RecordFailure(t) \/ Fault(t) \/ SwallowedError(t)
    BY <1>5
       DEF SkipDiskless, RecordFailure, Fault, SwallowedError, Goto, Raise, Finish, OnlyMoves,
           TypeOK
  <1> QED BY <1>1, <1>2, <1>3, <1>4, <1>5 DEF ThreadStep, Deploy

\* Every step keeps or advances the snapshots, and what t knows when it has moved is so.
SnapshotKnown(t) ==
    /\ pc'[t] \in {"is_protected", "protect_snap"} => golden'[ImageAt(t)'] # "none"
    /\ pc'[t] \in {"list_clones", "clone"} => golden'[ImageAt(t)'] = "protected"

\* The four calls of ensure_golden_snapshot and the clone.
LEMMA StorageStepSnapshot ==
    ASSUME TypeInv, SnapshotInv, NEW t \in Thread, DeployStorage(t)
    PROVE  GoldenGrows /\ SnapshotKnown(t)
  <1> USE DEF TypeInv
  <1>0. idx[t] \in Nat /\ idx[t] # 0
    BY DEF TypeOK, IndexOK
  <1> USE DEF GoldenGrows, SnapshotKnown, ImageAt, AtVm, SpecOf
  <1>1. CASE ListSnaps(t)
    BY <1>1 DEF ListSnaps, Goto, TypeOK, cluster, rbd
  <1>2. CASE CreateSnap(t)
    <2>1. MoreVms(t) /\ ImageAt(t) # NoImage
      BY <1>2 DEF CreateSnap, At, IndexOK, DiskLabel
    <2>2. ImageAt(t) \in Image
      BY <1>0, <2>1, AtVmType
    <2> QED BY <1>2, <2>2 DEF CreateSnap, SetGolden, Goto, Raise, TypeOK, ClusterTypeOK
  <1>3. CASE IsProtected(t)
    BY <1>3 DEF IsProtected, At, Goto, TypeOK, cluster, rbd, SnapshotInv
  <1>4. CASE ProtectSnap(t)
    <2>1. MoreVms(t) /\ ImageAt(t) # NoImage
      BY <1>4 DEF ProtectSnap, At, IndexOK, DiskLabel
    <2>2. ImageAt(t) \in Image
      BY <1>0, <2>1, AtVmType
    <2>3. CASE /\ golden' = [golden EXCEPT ![ImageAt(t)] = "protected"]
               /\ Goto(t, "list_clones", idx[t])
      <3>1. ImageAt(t)' = ImageAt(t) /\ pc'[t] = "list_clones"
        BY <2>3 DEF Goto, TypeOK
      <3>2. golden'[ImageAt(t)] = "protected"
        BY <2>2, <2>3 DEF TypeOK, ClusterTypeOK
      <3>3. GoldenGrows
        BY <2>2, <2>3 DEF TypeOK, ClusterTypeOK
      <3> QED BY <3>1, <3>2, <3>3
    <2>4. CASE Raise(t) /\ UNCHANGED golden
      BY <2>4 DEF Raise, Goto, TypeOK
    <2> QED BY <1>4, <2>3, <2>4 DEF ProtectSnap, SetGolden
  <1>5. CASE ListClones(t)
    BY <1>5 DEF ListClones, At, Goto, TypeOK, cluster, rbd, SnapshotInv
  <1>6. CASE Clone(t) \/ QemuImgCreate(t)
    BY <1>6 DEF Clone, QemuImgCreate, Goto, Raise, TypeOK
  <1>7. CASE LocalCloneExists(t) \/ StorageDone(t)
    BY <1>7 DEF LocalCloneExists, StorageDone, Goto, TypeOK, cluster, rbd
  <1> QED BY <1>1, <1>2, <1>3, <1>4, <1>5, <1>6, <1>7 DEF DeployStorage

\* No other step touches snapshots or enters that part of the deployment.
LEMMA OtherStepSnapshot ==
    ASSUME TypeInv, NEW t \in Thread,
           \/ DeployNetworks(t) \/ DeployVms(t) \/ Teardown(t) \/ SkipDiskless(t)
           \/ RecordFailure(t) \/ Fault(t) \/ SwallowedError(t)
    PROVE  GoldenGrows /\ SnapshotKnown(t)
  <1> USE DEF TypeInv, GoldenGrows, SnapshotKnown
  <1>1. CASE DeployNetworks(t)
    BY <1>1
       DEF DeployNetworks, DeployBegins, AddRouter, AddSwitch, AddRouterPort, AddPeerPort,
           NetworksDone, AddVmPort, PortsDone, Goto, Raise, Finish, TypeOK, cluster, rbd
  <1>2. CASE DeployVms(t)
    BY <1>2
       DEF DeployVms, NoFreeGpu, DefineVm, StartVm, VmsDone, CheckSwitches, CheckVm, Verdict,
           Goto, Raise, Finish, TypeOK, cluster, rbd
  <1>3. CASE Teardown(t)
    BY <1>3
       DEF Teardown, TeardownBegins, LookupAndStop, UndefineVm, VmsDestroyed, RemoveVmPort,
           RemoveSwitch, RemoveRouter, RemoveClone, LocalDiskExists, Unlink, DisksRemoved,
           Goto, Raise, Finish, TypeOK, cluster, rbd
  <1>4. CASE SkipDiskless(t) \/ RecordFailure(t) \/ Fault(t) \/ SwallowedError(t)
    BY <1>4
       DEF SkipDiskless, RecordFailure, Fault, SwallowedError, Goto, Raise, Finish, TypeOK,
           cluster, rbd
  <1> QED BY <1>1, <1>2, <1>3, <1>4

\* The other threads' knowledge survives a step of t.
LEMMA KnowledgeStays ==
    ASSUME TypeInv, SnapshotInv, NEW t \in Thread,
           OnlyMoves(t), GoldenGrows, SnapshotKnown(t)
    PROVE  SnapshotInv'
  <1> SUFFICES ASSUME NEW u \in Thread, u # t
               PROVE  SnapshotKnown(u)
    BY DEF SnapshotInv, SnapshotKnown
  <1>1. pc'[u] = pc[u] /\ idx'[u] = idx[u]
    BY DEF OnlyMoves
  <1>2. ImageAt(u)' = ImageAt(u)
    BY <1>1 DEF ImageAt, AtVm, SpecOf
  <1>3. CASE pc[u] \in {"is_protected", "protect_snap", "list_clones", "clone"}
    <2>1. MoreVms(u) /\ ImageAt(u) # NoImage
      BY <1>3 DEF TypeInv, IndexOK, DiskLabel
    <2>2. ImageAt(u) \in Image
      BY <2>1, AtVmType DEF TypeInv, TypeOK, IndexOK
    <2> QED BY <1>1, <1>2, <2>2 DEF SnapshotInv, SnapshotKnown, GoldenGrows
  <1>4. CASE pc[u] \notin {"is_protected", "protect_snap", "list_clones", "clone"}
    BY <1>1, <1>4 DEF SnapshotKnown
  <1> QED BY <1>3, <1>4

\* Every step keeps the invariant.
LEMMA StepSnapshot == TypeInv /\ SnapshotInv /\ [Next]_vars => SnapshotInv'
  <1> SUFFICES ASSUME TypeInv, SnapshotInv, [Next]_vars PROVE SnapshotInv'
    OBVIOUS
  <1>1. ASSUME NEW m \in Id, CreateMission(m) PROVE SnapshotInv'
    BY <1>1 DEF CreateMission, Goto, Finish, SnapshotInv, ImageAt, AtVm, SpecOf, TypeInv,
                TypeOK, Thread, DeployThread, cluster, rbd
  <1>2. ASSUME NEW m \in Id, NEW k \in 1 .. MaxDeletes, DeleteMission(m, k) PROVE SnapshotInv'
    BY <1>2 DEF DeleteMission, Goto, SnapshotInv, ImageAt, AtVm, SpecOf, TypeInv,
                TypeOK, Thread, TeardownThread, cluster, rbd
  <1>3. ASSUME NEW t \in Thread, ThreadStep(t) \/ Fault(t) \/ SwallowedError(t)
        PROVE  SnapshotInv'
    <2>1. OnlyMoves(t)
      BY <1>3, StepMovesOne DEF TypeInv
    <2>2. GoldenGrows /\ SnapshotKnown(t)
      BY <1>3, StorageStepSnapshot, OtherStepSnapshot DEF ThreadStep, Deploy
    <2> QED BY <2>1, <2>2, KnowledgeStays
  <1>4. CASE Restart
    BY <1>4 DEF Restart, SnapshotInv
  <1>5. CASE UNCHANGED vars
    BY <1>5 DEF vars, cluster, rbd, SnapshotInv, ImageAt, AtVm, SpecOf
  <1> QED BY <1>1, <1>2, <1>3, <1>4, <1>5 DEF Next

\* Whatever the number of deployments that prepare the same golden image, and whenever
\* they fail or the service restarts, a deployment clones from a protected snapshot.
THEOREM SnapshotsReady == Spec => []SnapshotReady
  <1>1. Init => SnapshotInv
    BY DEF Init, ServiceInit, SnapshotInv
  <1>2. SnapshotInv => SnapshotReady
    BY DEF SnapshotInv, SnapshotReady
  <1> QED BY <1>1, <1>2, StepSnapshot, TypeCorrect, PTL DEF Spec

----------------------------------------------------------------------------
(* One deployment never hands out a GPU twice.                              *)

DeployOnly == {"deploy"} \cup DeployLabel

\* Only the thread of the POST deploys, and only registered missions have threads.
ThreadKinds ==
    \A t \in Thread : /\ pc[t] \in DeployOnly => t[2] = 0
                      /\ pc[t] # "idle" => status[t[1]] # "absent"

\* What is left in a pool is different addresses, none of which has been handed out; and
\* nothing has been handed out before the deployment begins.
PoolInv(m) ==
    /\ \A h \in Host : \A i, j \in 1 .. Len(gpuPool[m][h]) :
          gpuPool[m][h][i] = gpuPool[m][h][j] => i = j
    /\ \A v \in VM : \A i \in 1 .. Len(gpuPool[m][PlaceOf(m, v)]) :
          gpuPool[m][PlaceOf(m, v)][i] # gpuOf[m][v]
    /\ pc[<<m, 0>>] \in {"idle", "deploy"} => \A v \in VM : gpuOf[m][v] = NoPci
    /\ \A v, w \in VM :
          v # w /\ gpuOf[m][v] # NoPci /\ PlaceOf(m, v) = PlaceOf(m, w)
            => gpuOf[m][v] # gpuOf[m][w]

GpuInv == ThreadKinds /\ \A m \in Id : PoolInv(m)

\* The steps that hand out nothing.
Quiet(t) ==
    /\ UNCHANGED <<gpuPool, gpuOf>>
    /\ pc'[t] \notin {"idle", "deploy"}

\* A step of t neither turns another kind of thread into a deployment nor forgets the
\* mission.
KeepsKind(t) ==
    /\ pc[t] # "idle"
    /\ pc'[t] \in DeployOnly => pc[t] \in DeployOnly
    /\ \A m \in Id : status[m] # "absent" => status'[m] # "absent"

\* All steps of threads but two are quiet, and all keep the kind of the thread.
LEMMA StepQuiet ==
    ASSUME TypeOK, NEW t \in Thread, ThreadStep(t) \/ Fault(t) \/ SwallowedError(t)
    PROVE  /\ KeepsKind(t)
           /\ Quiet(t) \/ DeployBegins(t) \/ DefineVm(t)
  <1> USE DEF KeepsKind, Quiet, DeployOnly, DeployLabel
  <1>0. t[1] \in Id
    BY SpecTypes
  <1>1. CASE DeployNetworks(t)
    BY <1>0, <1>1
       DEF DeployNetworks, DeployBegins, AddRouter, AddSwitch, AddRouterPort, AddPeerPort,
           NetworksDone, AddVmPort, PortsDone, At, Goto, Raise, Finish, UpdateState, TypeOK,
           locals
  <1>2. CASE DeployStorage(t)
    BY <1>0, <1>2
       DEF DeployStorage, ListSnaps, CreateSnap, IsProtected, ProtectSnap, ListClones, Clone,
           LocalCloneExists, QemuImgCreate, StorageDone, At, Goto, Raise, UpdateState, TypeOK,
           locals
  <1>3. CASE DeployVms(t)
    BY <1>0, <1>3
       DEF DeployVms, NoFreeGpu, DefineVm, StartVm, VmsDone, CheckSwitches, CheckVm, Verdict,
           At, Goto, Raise, Finish, UpdateState, TypeOK, locals
  <1>4. CASE Teardown(t)
    BY <1>0, <1>4
       DEF Teardown, TeardownBegins, LookupAndStop, UndefineVm, VmsDestroyed, RemoveVmPort,
           RemoveSwitch, RemoveRouter, RemoveClone, LocalDiskExists, Unlink, DisksRemoved,
           At, Goto, Raise, Finish, UpdateState, TypeOK, locals
  <1>5. CASE SkipDiskless(t) \/ RecordFailure(t) \/ Fault(t) \/ SwallowedError(t)
    BY <1>0, <1>5
       DEF SkipDiskless, RecordFailure, Fault, InCall, SwallowedError, At, Goto, Raise, Finish,
           UpdateState, TypeOK, locals
  <1> QED BY <1>1, <1>2, <1>3, <1>4, <1>5 DEF ThreadStep, Deploy

\* A step of a thread keeps the kinds of all threads.
LEMMA KindsKept ==
    ASSUME ThreadKinds, NEW t \in Thread, OnlyMoves(t), KeepsKind(t)
    PROVE  ThreadKinds'
  BY SpecTypes DEF ThreadKinds, OnlyMoves, KeepsKind

\* A quiet step keeps the pools' invariant.
LEMMA QuietKeepsPools ==
    ASSUME GpuInv, NEW t \in Thread, OnlyMoves(t), Quiet(t), NEW m \in Id
    PROVE  PoolInv(m)'
  <1>1. <<m, 0>> \in Thread
    BY DEF Thread, DeployThread
  <1>2. pc'[<<m, 0>>] \in {"idle", "deploy"} => pc[<<m, 0>>] \in {"idle", "deploy"}
    BY <1>1 DEF OnlyMoves, Quiet
  <1> QED BY <1>2 DEF GpuInv, PoolInv, Quiet, PlaceOf

\* The deployment begins with all addresses of the inventory and nothing handed out.
LEMMA BeginKeepsPools ==
    ASSUME TypeInv, GpuInv, NEW t \in Thread, OnlyMoves(t), DeployBegins(t), NEW m \in Id
    PROVE  PoolInv(m)'
  <1>1. t[1] \in Id /\ <<m, 0>> \in Thread
    BY SpecTypes DEF Thread, DeployThread
  <1>2. t = <<t[1], 0>>
    BY DEF Thread, DeployThread, TeardownThread, DeployBegins, At, GpuInv, ThreadKinds,
           DeployOnly
  <1>3. gpuOf' = gpuOf /\ pc'[t] \notin {"idle", "deploy"}
    BY DEF DeployBegins, Goto, Finish, TypeInv, TypeOK
  <1>4. CASE m = t[1] /\ gpuPool' = [gpuPool EXCEPT ![t[1]] = PciAddresses]
    <2>1. gpuPool'[m] = PciAddresses
      BY <1>1, <1>4 DEF TypeInv, TypeOK
    <2>2. \A v \in VM : gpuOf[m][v] = NoPci
      BY <1>2, <1>4 DEF DeployBegins, At, GpuInv, PoolInv
    <2>3. \A v \in VM : PlaceOf(m, v) \in Host
      BY SubmittedAssumption DEF PlaceOf, MissionSpec
    <2>4. \A h \in Host : PciAddresses[h] \in Seq(Pci)
      BY InventoryAssumption
    <2>5. \A h \in Host : \A i \in 1 .. Len(PciAddresses[h]) : PciAddresses[h][i] # NoPci
      BY <2>4, NullAssumption
    <2>6. \A h \in Host : \A i, j \in 1 .. Len(PciAddresses[h]) :
             PciAddresses[h][i] = PciAddresses[h][j] => i = j
      BY <2>4, PciAssumption
    <2> QED BY <1>3, <2>1, <2>2, <2>3, <2>5, <2>6 DEF PoolInv, PlaceOf
  <1>5. CASE m # t[1] \/ UNCHANGED gpuPool
    <2>1. gpuPool'[m] = gpuPool[m]
      BY <1>1, <1>5 DEF DeployBegins, TypeInv, TypeOK
    <2>2. pc'[<<m, 0>>] \in {"idle", "deploy"} => pc[<<m, 0>>] \in {"idle", "deploy"}
      BY <1>1, <1>3 DEF OnlyMoves
    <2> QED BY <1>3, <2>1, <2>2 DEF GpuInv, PoolInv, PlaceOf
  <1> QED BY <1>4, <1>5 DEF DeployBegins

\* Taking the first of a sequence of different addresses leaves different addresses, and
\* not that one.
LEMMA PopDistinct ==
    ASSUME NEW s \in Seq(Pci), s # <<>>,
           \A i, j \in 1 .. Len(s) : s[i] = s[j] => i = j
    PROVE  /\ \A i, j \in 1 .. Len(Tail(s)) : Tail(s)[i] = Tail(s)[j] => i = j
           /\ \A i \in 1 .. Len(Tail(s)) : Tail(s)[i] # Head(s)
           /\ \A i \in 1 .. Len(Tail(s)) : \E j \in 1 .. Len(s) : Tail(s)[i] = s[j]
           /\ \E j \in 1 .. Len(s) : Head(s) = s[j]
  <1>1. Len(s) \in Nat /\ Len(s) # 0 /\ Len(Tail(s)) = Len(s) - 1 /\ Head(s) = s[1]
    OBVIOUS
  <1>2. \A i \in 1 .. Len(Tail(s)) : Tail(s)[i] = s[i + 1] /\ i + 1 \in 1 .. Len(s) /\ i + 1 # 1
    BY <1>1
  <1>3. \A i, j \in 1 .. Len(Tail(s)) : i + 1 = j + 1 => i = j
    BY <1>1
  <1> QED BY <1>1, <1>2, <1>3

\* A VM takes an address that no VM of the host has.
LEMMA DefineKeepsPools ==
    ASSUME TypeInv, GpuInv, NEW t \in Thread, OnlyMoves(t), DefineVm(t), NEW m \in Id
    PROVE  PoolInv(m)'
  <1> DEFINE n == t[1]
             v == AtVm(t)
             h == HostAt(t)
             s == gpuPool[n][h]
  <1>1. n \in Id /\ <<m, 0>> \in Thread
    BY SpecTypes DEF Thread, DeployThread
  <1>2. v \in VM /\ h \in Host
    BY AtVmType DEF DefineVm, TypeInv, TypeOK, IndexOK
  <1>3. h = PlaceOf(n, v)
    BY DEF HostAt, SpecOf, PlaceOf
  <1>4. pc'[t] \notin {"idle", "deploy"}
    BY DEF DefineVm, Goto, Raise, TypeInv, TypeOK
  <1>5. pc'[<<m, 0>>] \in {"idle", "deploy"} => pc[<<m, 0>>] \in {"idle", "deploy"}
    BY <1>1, <1>4 DEF OnlyMoves
  <1>6. CASE UNCHANGED <<gpuPool, gpuOf>>
    BY <1>5, <1>6 DEF GpuInv, PoolInv, PlaceOf
  <1>7. CASE s # <<>> /\ PopGpu(n, h) /\ gpuOf' = [gpuOf EXCEPT ![n][v] = NextGpu(n, h)]
    <2>1. s \in Seq(Pci)
      BY <1>1, <1>2 DEF TypeInv, TypeOK
    <2>2. /\ gpuPool'[n][h] = Tail(s)
          /\ \A g \in Host : g # h => gpuPool'[n][g] = gpuPool[n][g]
          /\ \A k \in Id : k # n => gpuPool'[k] = gpuPool[k]
      BY <1>1, <1>2, <1>7 DEF PopGpu, TypeInv, TypeOK
    <2>3. /\ gpuOf'[n][v] = Head(s)
          /\ \A w \in VM : w # v => gpuOf'[n][w] = gpuOf[n][w]
          /\ \A k \in Id : k # n => gpuOf'[k] = gpuOf[k]
      BY <1>1, <1>2, <1>7 DEF NextGpu, TypeInv, TypeOK
    <2>4. CASE m # n
      <3>1. gpuPool'[m] = gpuPool[m] /\ gpuOf'[m] = gpuOf[m]
        BY <2>2, <2>3, <2>4
      <3>2. PoolInv(m)
        BY DEF GpuInv
      <3> QED BY ONLY <1>5, <3>1, <3>2 DEF PoolInv, PlaceOf
    <2>5. CASE m = n
      <3>1. PoolInv(n)
        BY <1>1 DEF GpuInv
      <3>2. \A i, j \in 1 .. Len(s) : s[i] = s[j] => i = j
        BY <1>2, <3>1 DEF PoolInv
      <3>3. \A w \in VM : PlaceOf(n, w) = h => \A j \in 1 .. Len(s) : s[j] # gpuOf[n][w]
        BY <3>1 DEF PoolInv
      <3>4. /\ \A i, j \in 1 .. Len(Tail(s)) : Tail(s)[i] = Tail(s)[j] => i = j
            /\ \A i \in 1 .. Len(Tail(s)) : Tail(s)[i] # Head(s)
            /\ \A i \in 1 .. Len(Tail(s)) : \E j \in 1 .. Len(s) : Tail(s)[i] = s[j]
            /\ \E j \in 1 .. Len(s) : Head(s) = s[j]
        BY <1>7, <2>1, <3>2, PopDistinct
      <3>5. \A w \in VM : PlaceOf(n, w) \in Host
        BY <1>1, SubmittedAssumption DEF PlaceOf, MissionSpec
      <3>6. pc'[<<n, 0>>] \notin {"idle", "deploy"}
        <4>1. t = <<n, 0>>
          BY DEF Thread, DeployThread, TeardownThread, DefineVm, At, GpuInv, ThreadKinds,
                 DeployOnly, DeployLabel
        <4> QED BY <1>4, <4>1
      <3>7. ASSUME NEW g \in Host, NEW i \in 1 .. Len(gpuPool'[n][g]),
                   NEW j \in 1 .. Len(gpuPool'[n][g]), gpuPool'[n][g][i] = gpuPool'[n][g][j]
            PROVE  i = j
        BY <2>2, <3>1, <3>4, <3>7 DEF PoolInv
      <3>8. ASSUME NEW w \in VM, NEW i \in 1 .. Len(gpuPool'[n][PlaceOf(n, w)])
            PROVE  gpuPool'[n][PlaceOf(n, w)][i] # gpuOf'[n][w]
        <4>1. CASE w = v
          BY <1>3, <2>2, <2>3, <3>4, <3>8, <4>1
        <4>2. CASE w # v /\ PlaceOf(n, w) = h
          <5>1. i \in 1 .. Len(Tail(s)) /\ gpuPool'[n][PlaceOf(n, w)][i] = Tail(s)[i]
            BY <2>2, <3>8, <4>2
          <5>2. PICK j \in 1 .. Len(s) : Tail(s)[i] = s[j]
            BY <3>4, <5>1
          <5>3. s[j] # gpuOf[n][w]
            BY ONLY <3>3, <3>8, <4>2, <5>2
          <5> QED BY <2>3, <3>8, <4>2, <5>1, <5>2, <5>3
        <4>3. CASE w # v /\ PlaceOf(n, w) # h
          BY <2>2, <2>3, <3>1, <3>5, <3>8, <4>3 DEF PoolInv
        <4> QED BY <4>1, <4>2, <4>3
      <3>9. ASSUME NEW w \in VM, NEW x \in VM, w # x, gpuOf'[n][w] # NoPci,
                   PlaceOf(n, w) = PlaceOf(n, x)
            PROVE  gpuOf'[n][w] # gpuOf'[n][x]
        <4>1. CASE w = v
          BY <1>3, <2>3, <3>3, <3>4, <3>9, <4>1
        <4>2. CASE x = v
          BY <1>3, <2>3, <3>3, <3>4, <3>9, <4>2
        <4>3. CASE w # v /\ x # v
          BY <2>3, <3>1, <3>9, <4>3 DEF PoolInv
        <4> QED BY <4>1, <4>2, <4>3
      <3>10. \A g \in Host : \A i, j \in 1 .. Len(gpuPool'[n][g]) :
                gpuPool'[n][g][i] = gpuPool'[n][g][j] => i = j
        BY <3>7
      <3>11. \A w \in VM : \A i \in 1 .. Len(gpuPool'[n][PlaceOf(n, w)]) :
                gpuPool'[n][PlaceOf(n, w)][i] # gpuOf'[n][w]
        BY <3>8
      <3>12. \A w, x \in VM :
                w # x /\ gpuOf'[n][w] # NoPci /\ PlaceOf(n, w) = PlaceOf(n, x)
                  => gpuOf'[n][w] # gpuOf'[n][x]
        BY <3>9
      <3>13. PoolInv(n)'
        BY ONLY <3>6, <3>10, <3>11, <3>12 DEF PoolInv, PlaceOf
      <3> QED BY <2>5, <3>13
    <2> QED BY <2>4, <2>5
  <1> QED BY <1>6, <1>7 DEF DefineVm

\* The initial state, and the state after a restart, in which nothing is handed out.
LEMMA NothingHandedOut == ServiceInit => GpuInv
  <1> SUFFICES ASSUME ServiceInit PROVE GpuInv
    OBVIOUS
  <1>1. ThreadKinds
    BY DEF ServiceInit, ThreadKinds, DeployOnly, DeployLabel
  <1>2. ASSUME NEW m \in Id PROVE PoolInv(m)
    <2>1. gpuPool[m] = PciAddresses /\ \A v \in VM : gpuOf[m][v] = NoPci
      BY DEF ServiceInit
    <2>2. \A v \in VM : PlaceOf(m, v) \in Host
      BY SubmittedAssumption DEF PlaceOf, MissionSpec
    <2>3. \A h \in Host : PciAddresses[h] \in Seq(Pci)
      BY InventoryAssumption
    <2>4. \A h \in Host : \A i \in 1 .. Len(PciAddresses[h]) : PciAddresses[h][i] # NoPci
      BY <2>3, NullAssumption
    <2>5. \A h \in Host : \A i, j \in 1 .. Len(PciAddresses[h]) :
             PciAddresses[h][i] = PciAddresses[h][j] => i = j
      BY <2>3, PciAssumption
    <2> QED BY <2>1, <2>2, <2>4, <2>5 DEF PoolInv
  <1> QED BY <1>1, <1>2 DEF GpuInv

\* Every step keeps the invariant.
LEMMA StepGpus == TypeInv /\ GpuInv /\ [Next]_vars => GpuInv'
  <1> SUFFICES ASSUME TypeInv, GpuInv, [Next]_vars PROVE GpuInv'
    OBVIOUS
  <1>1. ASSUME NEW m \in Id, CreateMission(m) PROVE GpuInv'
    <2>1. <<m, 0>> \in Thread /\ pc[<<m, 0>>] = "idle"
      BY <1>1 DEF CreateMission, Thread, DeployThread, GpuInv, ThreadKinds
    <2>2. /\ UNCHANGED <<gpuPool, gpuOf>>
          /\ \A u \in Thread : u # <<m, 0>> => pc'[u] = pc[u]
          /\ \A k \in Id : status[k] # "absent" => status'[k] # "absent"
          /\ status'[m] # "absent"
      BY <1>1, <2>1 DEF CreateMission, Goto, Finish, TypeInv, TypeOK, locals
    <2>3. ThreadKinds'
      BY <2>2, SpecTypes DEF GpuInv, ThreadKinds
    <2>4. ASSUME NEW k \in Id PROVE PoolInv(k)'
      <3>1. <<k, 0>> \in Thread /\ PoolInv(k) /\ PoolInv(m)
        BY DEF Thread, DeployThread, GpuInv
      <3> QED BY <2>1, <2>2, <3>1 DEF PoolInv, PlaceOf
    <2> QED BY <2>3, <2>4 DEF GpuInv
  <1>2. ASSUME NEW m \in Id, NEW k \in 1 .. MaxDeletes, DeleteMission(m, k) PROVE GpuInv'
    <2>1. <<m, k>> \in Thread /\ <<m, k>>[2] # 0
      BY DEF Thread, TeardownThread
    <2>2. /\ UNCHANGED <<status, gpuPool, gpuOf>>
          /\ pc'[<<m, k>>] = "teardown"
          /\ \A u \in Thread : u # <<m, k>> => pc'[u] = pc[u]
          /\ status[m] # "absent"
      BY <1>2, <2>1 DEF DeleteMission, Goto, TypeInv, TypeOK, locals
    <2>3. ThreadKinds'
      BY <2>1, <2>2 DEF GpuInv, ThreadKinds, DeployOnly, DeployLabel
    <2>4. ASSUME NEW n \in Id PROVE PoolInv(n)'
      <3>1. <<n, 0>> \in Thread /\ <<n, 0>> # <<m, k>> /\ PoolInv(n)
        BY DEF Thread, DeployThread, GpuInv
      <3> QED BY <2>2, <3>1 DEF PoolInv, PlaceOf
    <2> QED BY <2>3, <2>4 DEF GpuInv
  <1>3. ASSUME NEW t \in Thread, ThreadStep(t) \/ Fault(t) \/ SwallowedError(t)
        PROVE  GpuInv'
    <2>1. OnlyMoves(t)
      BY <1>3, StepMovesOne DEF TypeInv
    <2>2. KeepsKind(t) /\ (Quiet(t) \/ DeployBegins(t) \/ DefineVm(t))
      BY <1>3, StepQuiet DEF TypeInv
    <2>3. ThreadKinds'
      BY <2>1, <2>2, KindsKept DEF GpuInv
    <2>4. ASSUME NEW m \in Id PROVE PoolInv(m)'
      BY <2>1, <2>2, QuietKeepsPools, BeginKeepsPools, DefineKeepsPools
    <2> QED BY <2>3, <2>4 DEF GpuInv
  <1>4. CASE Restart
    <2>1. ServiceInit'
      BY <1>4 DEF Restart, ServiceInit
    <2>2. ServiceInit' => GpuInv'
      BY NothingHandedOut, PTL
    <2> QED BY <2>1, <2>2
  <1>5. CASE UNCHANGED vars
    BY <1>5 DEF vars, locals, GpuInv, ThreadKinds, PoolInv, PlaceOf
  <1> QED BY <1>1, <1>2, <1>3, <1>4, <1>5 DEF Next

\* The GPU addresses of the VMs of one mission that share a host are different, at any
\* point of its deployment and whatever else the service does.
THEOREM GpusDistinct == Spec => []GpusDistinctInMission
  <1>1. Init => GpuInv
    BY NothingHandedOut DEF Init
  <1>2. GpuInv => GpusDistinctInMission
    BY DEF GpuInv, PoolInv, GpusDistinctInMission
  <1> QED BY <1>1, <1>2, StepGpus, TypeCorrect, PTL DEF Spec

----------------------------------------------------------------------------
(* Missions do not touch each other's OVN rows.                              *)

\* The step of thread t leaves the rows of other names alone, and when it changes rows
\* the thread moves.
StaysWithin(t) ==
    /\ \A n \in Name : n # NameOf(t) => RowsOf(n)' = RowsOf(n)
    /\ UNCHANGED ovn \/ pc'[t] # pc[t] \/ idx'[t] # idx[t]

\* Rows change only through the five variables of OVN.
LEMMA RowsFollowOvn == UNCHANGED ovn => \A n \in Name : RowsOf(n)' = RowsOf(n)
  BY DEF ovn, RowsOf

\* A step that leaves OVN alone leaves all rows alone.
LEMMA QuietStaysWithin ==
    ASSUME NEW t \in Thread, UNCHANGED ovn
    PROVE  StaysWithin(t)
  BY RowsFollowOvn DEF StaysWithin

\* Adding to or removing from one of the sets entries of one name.
LEMMA RowsOfOthers ==
    ASSUME NEW n \in Name, NEW k \in Name, k # n,
           routers' \in {routers, routers \cup {n}, routers \ {n}},
           \A p : p[1] # n => (p \in routerPorts' <=> p \in routerPorts),
           \A p : p[1] # n => (p \in switches' <=> p \in switches),
           \A p : p[1] # n => (p \in peerPorts' <=> p \in peerPorts),
           \A p : p[1] # n => (p \in vmPorts' <=> p \in vmPorts)
    PROVE  RowsOf(k)' = RowsOf(k)
  <1>1. (k \in routers') = (k \in routers)
    OBVIOUS
  <1>2. /\ {p \in routerPorts' : p[1] = k} = {p \in routerPorts : p[1] = k}
        /\ {p \in switches' : p[1] = k} = {p \in switches : p[1] = k}
        /\ {p \in peerPorts' : p[1] = k} = {p \in peerPorts : p[1] = k}
        /\ {p \in vmPorts' : p[1] = k} = {p \in vmPorts : p[1] = k}
    OBVIOUS
  <1> QED BY <1>1, <1>2 DEF RowsOf

\* provision_networks and add_vm_ports.
LEMMA AddingStaysWithin ==
    ASSUME TypeInv, NEW t \in Thread,
           AddRouter(t) \/ AddSwitch(t) \/ AddRouterPort(t) \/ AddPeerPort(t) \/ AddVmPort(t)
    PROVE  StaysWithin(t)
  <1> DEFINE n == NameOf(t)
  <1>1. n \in Name
    BY SpecTypes
  <1>2. pc'[t] # pc[t] \/ idx'[t] # idx[t]
    BY DEF AddRouter, AddSwitch, AddRouterPort, AddPeerPort, AddVmPort, At, Goto, Raise,
           TypeInv, TypeOK
  <1>3. /\ routers' \in {routers, routers \cup {n}, routers \ {n}}
        /\ \A p : p[1] # n => (p \in routerPorts' <=> p \in routerPorts)
        /\ \A p : p[1] # n => (p \in switches' <=> p \in switches)
        /\ \A p : p[1] # n => (p \in peerPorts' <=> p \in peerPorts)
        /\ \A p : p[1] # n => (p \in vmPorts' <=> p \in vmPorts)
    <2>1. CASE AddRouter(t)
      BY <2>1 DEF AddRouter, LrAdd
    <2>2. CASE AddSwitch(t)
      BY <2>2 DEF AddSwitch, LsAdd
    <2>3. CASE AddRouterPort(t)
      BY <2>3 DEF AddRouterPort, LrpAdd
    <2>4. CASE AddPeerPort(t)
      BY <2>4 DEF AddPeerPort, PeerAdd
    <2>5. CASE AddVmPort(t)
      BY <2>5 DEF AddVmPort, LspAdd
    <2> QED BY <2>1, <2>2, <2>3, <2>4, <2>5
  <1> QED BY <1>1, <1>2, <1>3, RowsOfOthers DEF StaysWithin

\* teardown_mission_networking.
LEMMA RemovingStaysWithin ==
    ASSUME TypeInv, NEW t \in Thread, RemoveVmPort(t) \/ RemoveSwitch(t) \/ RemoveRouter(t)
    PROVE  StaysWithin(t)
  <1> DEFINE n == NameOf(t)
  <1>1. n \in Name
    BY SpecTypes
  <1>2. pc'[t] # pc[t] \/ idx'[t] # idx[t]
    BY DEF RemoveVmPort, RemoveSwitch, RemoveRouter, At, Goto, TypeInv, TypeOK
  <1>3. /\ routers' \in {routers, routers \cup {n}, routers \ {n}}
        /\ \A p : p[1] # n => (p \in routerPorts' <=> p \in routerPorts)
        /\ \A p : p[1] # n => (p \in switches' <=> p \in switches)
        /\ \A p : p[1] # n => (p \in peerPorts' <=> p \in peerPorts)
        /\ \A p : p[1] # n => (p \in vmPorts' <=> p \in vmPorts)
    <2>1. CASE RemoveVmPort(t)
      BY <2>1 DEF RemoveVmPort, LspDel
    <2>2. CASE RemoveSwitch(t)
      BY <2>2 DEF RemoveSwitch, LsDel
    <2>3. CASE RemoveRouter(t)
      BY <2>3 DEF RemoveRouter, LrDel
    <2> QED BY <2>1, <2>2, <2>3
  <1> QED BY <1>1, <1>2, <1>3, RowsOfOthers DEF StaysWithin

\* Every step of a thread stays within its mission's rows.
LEMMA StepStaysWithin ==
    ASSUME TypeInv, NEW t \in Thread, ThreadStep(t) \/ Fault(t) \/ SwallowedError(t)
    PROVE  StaysWithin(t)
  <1>1. CASE DeployNetworks(t)
    <2>1. CASE DeployBegins(t) \/ NetworksDone(t) \/ PortsDone(t)
      <3>1. UNCHANGED ovn
        BY <2>1 DEF DeployBegins, NetworksDone, PortsDone, cluster
      <3> QED BY <3>1, QuietStaysWithin
    <2> QED BY <1>1, <2>1, AddingStaysWithin DEF DeployNetworks
  <1>2. CASE DeployStorage(t) \/ DeployVms(t)
    <2>1. UNCHANGED ovn
      BY <1>2
         DEF DeployStorage, ListSnaps, CreateSnap, IsProtected, ProtectSnap, ListClones, Clone,
             LocalCloneExists, QemuImgCreate, StorageDone, DeployVms, NoFreeGpu, DefineVm,
             StartVm, VmsDone, CheckSwitches, CheckVm, Verdict, cluster
    <2> QED BY <2>1, QuietStaysWithin
  <1>3. CASE Teardown(t)
    <2>1. CASE RemoveVmPort(t) \/ RemoveSwitch(t) \/ RemoveRouter(t)
      BY <2>1, RemovingStaysWithin
    <2>2. CASE ~(RemoveVmPort(t) \/ RemoveSwitch(t) \/ RemoveRouter(t))
      <3>1. UNCHANGED ovn
        BY <1>3, <2>2
           DEF Teardown, TeardownBegins, LookupAndStop, UndefineVm, VmsDestroyed, RemoveClone,
               LocalDiskExists, Unlink, DisksRemoved, cluster
      <3> QED BY <3>1, QuietStaysWithin
    <2> QED BY <2>1, <2>2
  <1>4. CASE SkipDiskless(t) \/ RecordFailure(t) \/ Fault(t) \/ SwallowedError(t)
    <2>1. UNCHANGED ovn
      BY <1>4 DEF SkipDiskless, RecordFailure, Fault, SwallowedError, cluster
    <2> QED BY <2>1, QuietStaysWithin
  <1> QED BY <1>1, <1>2, <1>3, <1>4 DEF ThreadStep, Deploy

\* The OVN rows of a mission change only by a step of a thread that works on a mission of
\* that name.
THEOREM Isolation == Spec => NetworksIsolated
  <1>1. TypeInv /\ [Next]_vars =>
          [\A n \in Name : RowsOf(n)' # RowsOf(n) =>
              \E t \in Thread : NameOf(t) = n /\ <<pc[t], idx[t]>>' # <<pc[t], idx[t]>>]_vars
    <2> SUFFICES ASSUME TypeInv, Next, NEW n \in Name, RowsOf(n)' # RowsOf(n)
                 PROVE  \E t \in Thread : NameOf(t) = n /\ <<pc[t], idx[t]>>' # <<pc[t], idx[t]>>
      OBVIOUS
    <2>1. ~UNCHANGED ovn
      BY RowsFollowOvn
    <2>2. PICK t \in Thread : ThreadStep(t) \/ Fault(t) \/ SwallowedError(t)
      BY <2>1 DEF Next, CreateMission, DeleteMission, Restart, cluster
    <2>3. StaysWithin(t)
      BY <2>2, StepStaysWithin
    <2> QED BY <2>1, <2>3 DEF StaysWithin
  <1> QED BY <1>1, TypeCorrect, PTL DEF Spec, NetworksIsolated
==============================================================================
