---------------------------- MODULE GeneratorProofs ----------------------------
(***************************************************************************)
(* What the generator writes deploys, for any hosts, VMs and networks: the *)
(* capacity it counts down is what the service adds up.                    *)
(***************************************************************************)
EXTENDS MissionFileProofs, WellFoundedInduction

----------------------------------------------------------------------------
(* Sums over finite sets. Nothing here applies an induction theorem: each    *)
(* proof takes a smallest set that a claim fails for.                        *)

\* What the elements of S come to under f.
Sum(f, S) == MapThenSumSet(LAMBDA v : f[v], S)

\* The element the sum begins with.
Picked(s) == CHOOSE x \in s : TRUE

\* g adds up f over every subset of S, element by element.
Adds(g, f, S) ==
    g = [s \in SUBSET S |-> IF s = {} THEN 0 ELSE f[Picked(s)] + g[s \ {Picked(s)}]]

\* Among sets of subsets of a finite set there is a smallest one.
LEMMA SmallestSet ==
    ASSUME NEW S, IsFiniteSet(S), NEW T \in SUBSET SUBSET S, T # {}
    PROVE  \E t \in T : \A u \in T : u \subseteq t => u = t
  <1>1. IsWellFoundedOn(StrictSubsetOrdering(S), FiniteSubsetsOf(S))
    BY FS_StrictSubsetOrderingWellFounded
  <1>2. T \subseteq FiniteSubsetsOf(S)
    BY FS_FiniteSubsetsOfFinite
  <1>3. PICK t \in T : \A u \in T : ~ (<<u, t>> \in StrictSubsetOrdering(S))
    BY <1>1, <1>2, WFMin
  <1>4. \A u \in T : u \subseteq t => u = t
    BY <1>3 DEF StrictSubsetOrdering
  <1> QED BY <1>4

\* The sum over one of the sets.
LEMMA AddsOne ==
    ASSUME NEW f, NEW S, NEW g, Adds(g, f, S), NEW s \in SUBSET S
    PROVE  /\ s = {} => g[s] = 0
           /\ s # {} => g[s] = f[Picked(s)] + g[s \ {Picked(s)}]
  BY DEF Adds

\* Two functions that add up f agree where both are defined.
LEMMA AddsUnique ==
    ASSUME NEW f, NEW A, NEW B, IsFiniteSet(A), NEW g, NEW h, Adds(g, f, A), Adds(h, f, B),
           NEW s \in SUBSET (A \cap B)
    PROVE  g[s] = h[s]
  <1> DEFINE T == {t \in SUBSET A : t \subseteq B /\ g[t] # h[t]}
  <1> SUFFICES ASSUME T # {}
               PROVE  FALSE
    OBVIOUS
  <1>0. T \in SUBSET SUBSET A
    OBVIOUS
  <1> HIDE DEF T
  <1>1. PICK t \in T : \A u \in T : u \subseteq t => u = t
    BY <1>0, SmallestSet
  <1> USE DEF T
  <1>2. t # {}
    BY <1>1 DEF Adds
  <1>3. Picked(t) \in t
    BY <1>2 DEF Picked
  <1>4. t \ {Picked(t)} \notin T
    BY <1>1, <1>3
  <1>5. g[t \ {Picked(t)}] = h[t \ {Picked(t)}]
    BY <1>1, <1>4
  <1>6. g[t] = f[Picked(t)] + g[t \ {Picked(t)}] /\ h[t] = f[Picked(t)] + h[t \ {Picked(t)}]
    BY <1>1, <1>2 DEF Adds
  <1> QED BY <1>1, <1>5, <1>6

\* There is a function that adds up f.
LEMMA AddsExists ==
    ASSUME NEW f, NEW S, IsFiniteSet(S)
    PROVE  \E g : Adds(g, f, S)
  <1> DEFINE T == {t \in SUBSET S : ~ \E g : Adds(g, f, t)}
  <1> SUFFICES ASSUME T # {}
               PROVE  FALSE
    OBVIOUS
  <1>0. T \in SUBSET SUBSET S
    OBVIOUS
  <1> HIDE DEF T
  <1>1. PICK t \in T : \A u \in T : u \subseteq t => u = t
    BY <1>0, SmallestSet
  <1> USE DEF T
  <1> DEFINE part(x) == CHOOSE g : Adds(g, f, t \ {x})
             g == [s \in SUBSET t |-> IF s = {} THEN 0
                                      ELSE f[Picked(s)] + part(Picked(s))[s \ {Picked(s)}]]
  <1>2. ASSUME NEW x \in t
        PROVE  Adds(part(x), f, t \ {x})
    <2>1. t \ {x} \notin T
      BY <1>1
    <2>2. \E h : Adds(h, f, t \ {x})
      BY <2>1, <1>1
    <2> QED BY <2>2
  <1> HIDE DEF part
  <1>3. ASSUME NEW s \in SUBSET t, s # {}
        PROVE  g[s \ {Picked(s)}] = part(Picked(s))[s \ {Picked(s)}]
    <2> DEFINE x == Picked(s)
               r == s \ {x}
               y == Picked(r)
    <2>1. x \in s
      BY <1>3 DEF Picked
    <2> HIDE DEF x
    <2>2. CASE r = {}
      <3>1. part(x)[r] = 0
        <4>1. PICK h, d : h = part(x) /\ d = t \ {x}
          OBVIOUS
        <4>2. Adds(h, f, d) /\ r \in SUBSET d
          BY <1>2, <2>1, <4>1
        <4> HIDE DEF r, g
        <4>3. h[r] = 0
          BY <2>2, <4>2, AddsOne
        <4> QED BY <4>1, <4>3
      <3>2. g[r] = 0
        BY <2>2
      <3> QED BY <3>1, <3>2 DEF x
    <2>3. CASE r # {}
      <3>1. y \in r
        BY <2>3 DEF Picked
      <3> HIDE DEF y
      <3>2. part(x)[r] = f[y] + part(x)[r \ {y}]
        <4>1. PICK h, d : h = part(x) /\ d = t \ {x}
          OBVIOUS
        <4>2. Adds(h, f, d) /\ r \in SUBSET d
          BY <1>2, <2>1, <4>1
        <4> HIDE DEF r, g
        <4>3. h[r] = f[Picked(r)] + h[r \ {Picked(r)}]
          BY <2>3, <4>2, AddsOne
        <4> QED BY <4>1, <4>3 DEF y
      <3>3. g[r] = f[y] + part(y)[r \ {y}]
        BY <2>3 DEF y
      <3>4. part(x)[r \ {y}] = part(y)[r \ {y}]
        <4>1. Adds(part(x), f, t \ {x}) /\ Adds(part(y), f, t \ {y})
          BY <1>2, <2>1, <3>1
        <4>2. IsFiniteSet(t \ {x})
          BY <1>1, FS_Subset
        <4>3. r \ {y} \in SUBSET ((t \ {x}) \cap (t \ {y}))
          OBVIOUS
        <4> QED BY <4>1, <4>2, <4>3, AddsUnique
      <3> QED BY <3>2, <3>3, <3>4 DEF x
    <2> QED BY <2>2, <2>3
  <1>4. Adds(g, f, t)
    BY <1>3 DEF Adds
  <1> QED BY <1>1, <1>4

\* The sum of a set is what such a function gives for it.
LEMMA SumIsAdded ==
    ASSUME NEW f, NEW S, IsFiniteSet(S), NEW g, Adds(g, f, S)
    PROVE  \A s \in SUBSET S : Sum(f, s) = g[s]
  <1> SUFFICES ASSUME NEW s \in SUBSET S
               PROVE  Sum(f, s) = g[s]
    OBVIOUS
  <1> DEFINE h == CHOOSE h : Adds(h, f, s)
  <1>1. IsFiniteSet(s)
    BY FS_Subset
  <1>2. Adds(h, f, s)
    BY <1>1, AddsExists
  <1>3. Sum(f, s) = h[s]
    BY DEF Sum, MapThenSumSet, MapThenFoldSet, Adds, Picked
  <1> HIDE DEF h
  <1> QED BY <1>1, <1>2, <1>3, AddsUnique

\* An empty sum.
LEMMA SumEmpty ==
    ASSUME NEW f
    PROVE  Sum(f, {}) = 0
  <1>1. IsFiniteSet({})
    BY FS_EmptySet
  <1>2. PICK g : Adds(g, f, {})
    BY <1>1, AddsExists
  <1>3. g[{}] = 0
    BY <1>2 DEF Adds
  <1> QED BY <1>1, <1>2, <1>3, SumIsAdded

\* A sum begins with the picked element.
LEMMA SumPicked ==
    ASSUME NEW f, NEW S, IsFiniteSet(S), S # {}
    PROVE  Sum(f, S) = f[Picked(S)] + Sum(f, S \ {Picked(S)})
  <1>1. PICK g : Adds(g, f, S)
    BY AddsExists
  <1>2. g[S] = f[Picked(S)] + g[S \ {Picked(S)}]
    BY <1>1 DEF Adds
  <1>3. Sum(f, S) = g[S] /\ Sum(f, S \ {Picked(S)}) = g[S \ {Picked(S)}]
    BY <1>1, SumIsAdded
  <1> QED BY <1>2, <1>3

\* A sum of amounts is an amount.
LEMMA SumType ==
    ASSUME NEW S, IsFiniteSet(S), NEW f, \A x \in S : f[x] \in Nat
    PROVE  Sum(f, S) \in Nat
  <1> DEFINE T == {t \in SUBSET S : Sum(f, t) \notin Nat}
  <1> SUFFICES ASSUME T # {}
               PROVE  FALSE
    OBVIOUS
  <1>0. T \in SUBSET SUBSET S
    OBVIOUS
  <1> HIDE DEF T
  <1>1. PICK t \in T : \A u \in T : u \subseteq t => u = t
    BY <1>0, SmallestSet
  <1> USE DEF T
  <1>2. t # {}
    <2>1. Sum(f, t) # 0
      BY <1>1
    <2> QED BY <2>1, SumEmpty
  <1>3. Picked(t) \in t
    BY <1>2 DEF Picked
  <1>4. Sum(f, t \ {Picked(t)}) \in Nat /\ f[Picked(t)] \in Nat
    BY <1>1, <1>3
  <1>5. Sum(f, t) = f[Picked(t)] + Sum(f, t \ {Picked(t)})
    BY <1>1, <1>2, SumPicked, FS_Subset
  <1> QED BY <1>1, <1>4, <1>5

\* Any element of a set may be taken out of its sum.
LEMMA SumRemove ==
    ASSUME NEW S, IsFiniteSet(S), NEW f, \A x \in S : f[x] \in Nat, NEW y \in S
    PROVE  Sum(f, S) = f[y] + Sum(f, S \ {y})
  <1> DEFINE T == {t \in SUBSET S : \E z \in t : Sum(f, t) # f[z] + Sum(f, t \ {z})}
  <1> SUFFICES ASSUME T # {}
               PROVE  FALSE
    OBVIOUS
  <1>0. T \in SUBSET SUBSET S
    OBVIOUS
  <1> HIDE DEF T
  <1>1. PICK t \in T : \A u \in T : u \subseteq t => u = t
    BY <1>0, SmallestSet
  <1> USE DEF T
  <1>2. PICK z \in t : Sum(f, t) # f[z] + Sum(f, t \ {z})
    BY <1>1
  <1> DEFINE x == Picked(t)
             r == t \ {x, z}
  <1>3. x \in t
    BY <1>2 DEF Picked
  <1>4. Sum(f, t) = f[x] + Sum(f, t \ {x})
    BY <1>1, <1>2, SumPicked, FS_Subset
  <1>5. x # z
    BY <1>2, <1>4
  <1> HIDE DEF x
  <1>6. Sum(f, t \ {x}) = f[z] + Sum(f, r)
    <2>1. t \ {x} \notin T /\ z \in t \ {x} /\ (t \ {x}) \ {z} = r
      BY <1>1, <1>3, <1>5
    <2> QED BY <1>1, <2>1
  <1>7. Sum(f, t \ {z}) = f[x] + Sum(f, r)
    <2>1. t \ {z} \notin T /\ x \in t \ {z} /\ (t \ {z}) \ {x} = r
      BY <1>1, <1>2, <1>3, <1>5
    <2> QED BY <1>1, <2>1
  <1>8. f[x] \in Nat /\ f[z] \in Nat /\ Sum(f, r) \in Nat
    <2>1. IsFiniteSet(r) /\ \A e \in r : f[e] \in Nat
      BY <1>1, FS_Subset
    <2> QED BY <1>1, <1>2, <1>3, <2>1, SumType
  <1> QED BY <1>2, <1>4, <1>6, <1>7, <1>8

\* An element that joins a set adds its amount to the sum.
LEMMA SumAdd ==
    ASSUME NEW S, IsFiniteSet(S), NEW y, y \notin S, NEW f, \A x \in S \cup {y} : f[x] \in Nat
    PROVE  /\ Sum(f, S \cup {y}) = Sum(f, S) + f[y]
           /\ Sum(f, S) \in Nat
  <1>1. IsFiniteSet(S \cup {y}) /\ (S \cup {y}) \ {y} = S
    BY FS_AddElement
  <1>2. Sum(f, S \cup {y}) = f[y] + Sum(f, S)
    BY <1>1, SumRemove
  <1>3. Sum(f, S) \in Nat
    BY SumType
  <1> QED BY <1>2, <1>3

----------------------------------------------------------------------------
(* The generator's accounts.                                                *)

\* The VMs placed on h so far.
On(h) == {v \in VM : plan[v] = h}

\* VMs of the file are placed on known hosts, and what they ask for has been taken from
\* what their host has.
PlanRight ==
    /\ plan \in [VM -> DOMAIN hosts \cup {NoHost}]
    /\ {v \in VM : plan[v] # NoHost} \subseteq Range(FileOrder)
    /\ remaining \in [DOMAIN hosts -> Capacity]
    /\ \A h \in DOMAIN hosts :
          /\ hosts[h].cpus = remaining[h].cpus + Sum(Cpu, On(h))
          /\ hosts[h].memory_mb = remaining[h].memory_mb + Sum(Memory, On(h))
          /\ hosts[h].gpus = remaining[h].gpus + Cardinality(On(h) \cap GpuVms)

\* A document as the generator writes it, for hosts as they are.
Written(n, p) == [FreshDocument(n) EXCEPT !.placement = p]

Generated(d) ==
    \E n \in Name, p \in [VM -> Host \cup {NoHost}] :
        /\ d = Written(n, p)
        /\ {v \in VM : p[v] # NoHost} = Range(FileOrder)
        /\ Feasible(d, hosts)

PlanGenerated == \A n \in Name : Generated(Written(n, plan))

\* The part of a stored specification that comes from the generator.
FromGenerator(d) ==
    /\ d.networks = Range(NetOrder) /\ d.vlan = VlanOf /\ d.vms = FileOrder
    /\ d.interfaces = [v \in VM |-> NetOrder]
    /\ d.macs = [v \in VM |-> ListOrNone(PlaceholderMacs[v])]

GeneratorInv ==
    /\ stage = "placing" => PlanRight /\ Unplaced # {}
    /\ doc # NoDoc /\ ~edited => Generated(doc)
    /\ reply = "refused" => edited

\* What was posted unedited is stored as generated, and has not failed.
PristineInv ==
    \A n \in Name : pristine[n] =>
        state[n] \notin {"absent", "error"} /\ FromGenerator(spec[n])

\* A router's gateways are those of the networks of its mission.
RouterInv ==
    \A n \in Name : \A r \in routerPorts :
        r.router = RouterName(n) => Networked(n) /\ r \in RouterRows(n)

\* The inventory and the amounts have their types.
LEMMA Amounts ==
    ASSUME FileOK
    PROVE  /\ DOMAIN hosts \subseteq Host \cap Range(HostOrder)
           /\ hosts \in [DOMAIN hosts -> Capacity]
           /\ NoHost \notin DOMAIN hosts
           /\ Range(FileOrder) \subseteq VM /\ IsFiniteSet(Range(FileOrder))
           /\ \A v \in VM : Cpu[v] \in Nat /\ Memory[v] \in Nat
  <1>1. DOMAIN hosts \subseteq Host \cap Range(HostOrder) /\ hosts \in [DOMAIN hosts -> Capacity]
    BY InventoriesAssumption DEF FileOK
  <1>2. Range(FileOrder) \subseteq VM /\ IsFiniteSet(Range(FileOrder))
    BY FileAssumption, RangeIsFinite
  <1> QED BY <1>1, <1>2, FileAssumption

\* An empty plan has taken nothing.
LEMMA EmptyPlanRight ==
    ASSUME hosts \in Inventories, plan = [v \in VM |-> NoHost], remaining = hosts
    PROVE  PlanRight /\ Unplaced # {}
  <1>1. DOMAIN hosts \subseteq Host /\ hosts \in [DOMAIN hosts -> Capacity]
    BY InventoriesAssumption
  <1>2. \A h \in DOMAIN hosts : On(h) = {}
    BY <1>1, FileAssumption DEF On
  <1>3. \A h \in DOMAIN hosts : /\ Sum(Cpu, On(h)) = 0 /\ Sum(Memory, On(h)) = 0
                                /\ Cardinality(On(h) \cap GpuVms) = 0
    <2>1. {} \cap GpuVms = {}
      OBVIOUS
    <2> QED BY <1>2, <2>1, SumEmpty, FS_EmptySet
  <1>4. \A h \in DOMAIN hosts : hosts[h].cpus \in Nat /\ hosts[h].memory_mb \in Nat
                                /\ hosts[h].gpus \in Nat
    BY <1>1 DEF Capacity
  <1>5. \A h \in DOMAIN hosts :
            /\ hosts[h].cpus = remaining[h].cpus + Sum(Cpu, On(h))
            /\ hosts[h].memory_mb = remaining[h].memory_mb + Sum(Memory, On(h))
            /\ hosts[h].gpus = remaining[h].gpus + Cardinality(On(h) \cap GpuVms)
    BY <1>3, <1>4
  <1>6. Unplaced # {}
    <2>1. 1 \in DOMAIN FileOrder /\ FileOrder[1] \in Range(FileOrder)
      BY FileAssumption, LenProperties, EmptySeq DEF Range
    <2>2. FileOrder[1] \in VM
      BY <2>1, FileAssumption, RangeIsFinite
    <2> QED BY <2>1, <2>2 DEF Unplaced
  <1> QED BY <1>1, <1>5, <1>6 DEF PlanRight

\* One round of greedy_place keeps the accounts.
LEMMA PlacingKeepsAccounts ==
    ASSUME FileOK, PlanRight, NEW v \in Unplaced, NEW h \in DOMAIN remaining, Fits(v, h),
           plan' = [plan EXCEPT ![v] = h], remaining' = [remaining EXCEPT ![h] = Take(@, v)],
           hosts' = hosts
    PROVE  PlanRight'
  <1>1. /\ DOMAIN remaining = DOMAIN hosts /\ h \in DOMAIN hosts /\ h # NoHost
        /\ v \in VM /\ v \in Range(FileOrder) /\ plan[v] = NoHost
    BY Amounts DEF PlanRight, Unplaced
  <1>2. /\ remaining[h] \in Capacity
        /\ Cpu[v] \in Nat /\ Memory[v] \in Nat
    BY <1>1, Amounts DEF PlanRight
  <1>3. /\ Take(remaining[h], v) \in Capacity
        /\ remaining[h].cpus = Take(remaining[h], v).cpus + Cpu[v]
        /\ remaining[h].memory_mb = Take(remaining[h], v).memory_mb + Memory[v]
        /\ remaining[h].gpus = Take(remaining[h], v).gpus + (IF v \in GpuVms THEN 1 ELSE 0)
    BY <1>2 DEF Fits, Take, Capacity
  <1>4. On(h)' = On(h) \cup {v} /\ v \notin On(h)
    BY <1>1 DEF On, PlanRight
  <1>5. \A g \in DOMAIN hosts \ {h} : On(g)' = On(g)
    <2>1. \A g \in DOMAIN hosts : g # NoHost
      BY Amounts
    <2> QED BY <1>1, <2>1 DEF On, PlanRight
  <1>6. IsFiniteSet(On(h)) /\ On(h) \in SUBSET VM
    <2>1. On(h) \in SUBSET Range(FileOrder)
      BY <1>1 DEF On, PlanRight
    <2> QED BY <2>1, Amounts, FS_Subset
  <1>7. Sum(Cpu, On(h)') = Sum(Cpu, On(h)) + Cpu[v] /\ Sum(Cpu, On(h)) \in Nat
    <2>1. \A x \in On(h) \cup {v} : Cpu[x] \in Nat
      BY <1>1, <1>6, Amounts
    <2> QED BY <1>4, <1>6, <2>1, SumAdd
  <1>8. Sum(Memory, On(h)') = Sum(Memory, On(h)) + Memory[v] /\ Sum(Memory, On(h)) \in Nat
    <2>1. \A x \in On(h) \cup {v} : Memory[x] \in Nat
      BY <1>1, <1>6, Amounts
    <2> QED BY <1>4, <1>6, <2>1, SumAdd
  <1>9. /\ Cardinality(On(h)' \cap GpuVms)
             = Cardinality(On(h) \cap GpuVms) + (IF v \in GpuVms THEN 1 ELSE 0)
        /\ Cardinality(On(h) \cap GpuVms) \in Nat
    <2> DEFINE s == On(h) \cap GpuVms
    <2>1. IsFiniteSet(s)
      BY <1>6, FS_Intersection
    <2>2. Cardinality(s) \in Nat
      BY <2>1, FS_CardinalityType
    <2>3. v \notin s
      BY <1>4
    <2>4. On(h)' \cap GpuVms = IF v \in GpuVms THEN s \cup {v} ELSE s
      BY <1>4
    <2> HIDE DEF s
    <2>5. Cardinality(s \cup {v}) = Cardinality(s) + 1
      BY <2>1, <2>3, FS_AddElement
    <2>6. Cardinality(On(h)' \cap GpuVms) = Cardinality(s) + (IF v \in GpuVms THEN 1 ELSE 0)
      <3>1. CASE v \in GpuVms
        <4>1. On(h)' \cap GpuVms = s \cup {v}
          BY <2>4, <3>1
        <4> QED BY <2>5, <3>1, <4>1
      <3>2. CASE v \notin GpuVms
        <4>1. On(h)' \cap GpuVms = s
          BY <2>4, <3>2
        <4>2. Cardinality(On(h)' \cap GpuVms) = Cardinality(s)
          BY <4>1
        <4>3. Cardinality(s) = Cardinality(s) + (IF v \in GpuVms THEN 1 ELSE 0)
          BY <2>2, <3>2
        <4> QED BY <4>2, <4>3
      <3> QED BY <3>1, <3>2
    <2> QED BY <2>2, <2>6 DEF s
  <1>10. /\ plan' \in [VM -> DOMAIN hosts \cup {NoHost}]
         /\ {w \in VM : plan'[w] # NoHost} \subseteq Range(FileOrder)
         /\ remaining' \in [DOMAIN hosts -> Capacity]
    BY <1>1, <1>3 DEF PlanRight
  <1>11. ASSUME NEW g \in DOMAIN hosts
         PROVE  /\ hosts[g].cpus = remaining'[g].cpus + Sum(Cpu, On(g)')
                /\ hosts[g].memory_mb = remaining'[g].memory_mb + Sum(Memory, On(g)')
                /\ hosts[g].gpus = remaining'[g].gpus + Cardinality(On(g)' \cap GpuVms)
    <2>1. /\ hosts[g].cpus = remaining[g].cpus + Sum(Cpu, On(g))
          /\ hosts[g].memory_mb = remaining[g].memory_mb + Sum(Memory, On(g))
          /\ hosts[g].gpus = remaining[g].gpus + Cardinality(On(g) \cap GpuVms)
      BY DEF PlanRight
    <2>2. CASE g # h
      <3>1. remaining'[g] = remaining[g]
        BY <1>1, <2>2 DEF PlanRight
      <3>2. On(g)' = On(g)
        BY <1>5, <2>2
      <3> QED BY <2>1, <3>1, <3>2
    <2>3. CASE g = h
      <3>1. remaining'[h] = Take(remaining[h], v)
        BY <1>1 DEF PlanRight
      <3> DEFINE t == Take(remaining[h], v)
      <3>2. t.cpus \in Nat /\ t.memory_mb \in Nat /\ t.gpus \in Nat
        BY <1>3 DEF Capacity
      <3> HIDE DEF t
      <3>3. hosts[h].cpus = t.cpus + Sum(Cpu, On(h)')
        BY <1>2, <1>3, <1>7, <2>1, <2>3, <3>2 DEF t
      <3>4. hosts[h].memory_mb = t.memory_mb + Sum(Memory, On(h)')
        BY <1>2, <1>3, <1>8, <2>1, <2>3, <3>2 DEF t
      <3>5. hosts[h].gpus = t.gpus + Cardinality(On(h)' \cap GpuVms)
        BY <1>3, <1>9, <2>1, <2>3, <3>2 DEF t
      <3> QED BY <2>3, <3>1, <3>3, <3>4, <3>5 DEF t
    <2> QED BY <2>2, <2>3
  <1> QED BY <1>10, <1>11 DEF PlanRight

\* A plan for all VMs, in right accounts, is one the service accepts as feasible.
LEMMA RightPlanIsFeasible ==
    ASSUME FileOK, PlanRight, Unplaced = {}
    PROVE  PlanGenerated
  <1> SUFFICES ASSUME NEW n \in Name
               PROVE  Generated(Written(n, plan))
    BY DEF PlanGenerated
  <1> DEFINE d == Written(n, plan)
  <1>1. /\ d.placement = plan /\ d.cpu = Cpu /\ d.memory_mb = Memory /\ d.gpu = GpuVms
        /\ VmSet(d) = Range(FileOrder)
    BY DEF Written, FreshDocument, VmSet
  <1> HIDE DEF d
  <1>2. {v \in VM : plan[v] # NoHost} = Range(FileOrder)
    BY Amounts DEF PlanRight, Unplaced
  <1>3. UnknownHosts(d, hosts) = {}
    BY <1>1, <1>2, Amounts DEF UnknownHosts, PlanRight
  <1>4. ASSUME NEW h \in DOMAIN hosts
        PROVE  /\ ~ (Load(d, d.cpu, h) > hosts[h].cpus)
               /\ ~ (Load(d, d.memory_mb, h) > hosts[h].memory_mb)
               /\ ~ (GpuLoad(d, h) > hosts[h].gpus)
    <2>1. h # NoHost
      BY Amounts
    <2>2. {v \in VmSet(d) : d.placement[v] = h} = On(h)
      BY <1>1, <1>2, <2>1, Amounts DEF On
    <2>3. {v \in VmSet(d) \cap d.gpu : d.placement[v] = h} = On(h) \cap GpuVms
      BY <1>1, <2>2
    <2>4. Load(d, Cpu, h) = Sum(Cpu, On(h)) /\ Load(d, Memory, h) = Sum(Memory, On(h))
      BY <2>2 DEF Load, Sum
    <2>5. GpuLoad(d, h) = Cardinality(On(h) \cap GpuVms)
      BY <2>3 DEF GpuLoad
    <2>6. On(h) \in SUBSET Range(FileOrder)
      BY <1>2, <2>1 DEF On
    <2>7. IsFiniteSet(On(h)) /\ On(h) \in SUBSET VM
      BY <2>6, Amounts, FS_Subset
    <2>8. Sum(Cpu, On(h)) \in Nat /\ Sum(Memory, On(h)) \in Nat
      <3>1. (\A v \in On(h) : Cpu[v] \in Nat) /\ (\A v \in On(h) : Memory[v] \in Nat)
        BY <2>7, Amounts
      <3> QED BY <2>7, <3>1, SumType
    <2>9. Cardinality(On(h) \cap GpuVms) \in Nat
      BY <2>7, FS_Intersection, FS_CardinalityType
    <2>10. remaining[h].cpus \in Nat /\ remaining[h].memory_mb \in Nat /\ remaining[h].gpus \in Nat
      BY DEF PlanRight, Capacity
    <2>11. /\ hosts[h].cpus = remaining[h].cpus + Sum(Cpu, On(h))
           /\ hosts[h].memory_mb = remaining[h].memory_mb + Sum(Memory, On(h))
           /\ hosts[h].gpus = remaining[h].gpus + Cardinality(On(h) \cap GpuVms)
      BY DEF PlanRight
    <2> QED BY <1>1, <2>4, <2>5, <2>8, <2>9, <2>10, <2>11
  <1>5. Feasible(d, hosts)
    BY <1>3, <1>4 DEF Feasible, Violations
  <1>6. plan \in [VM -> Host \cup {NoHost}]
    BY DEF FileOK
  <1> QED BY <1>2, <1>5, <1>6 DEF d, Generated

\* Every step of the generator keeps its accounts and what is known of its file.
LEMMA GeneratorKeeps ==
    ASSUME FileOK, GeneratorInv, Generator
    PROVE  GeneratorInv'
  <1>1. FileOK'
    BY GeneratorOK
  <1>2. CASE PlaceVm
    <2>1. PICK v \in Unplaced, h \in DOMAIN remaining :
              /\ Chosen(v, h)
              /\ plan' = [plan EXCEPT ![v] = h]
              /\ remaining' = [remaining EXCEPT ![h] = Take(@, v)]
      BY <1>2 DEF PlaceVm
    <2>2. stage = "placing" /\ hosts' = hosts /\ PlanRight
      BY <1>2 DEF PlaceVm, file, GeneratorInv
    <2>3. PlanRight'
      BY <2>1, <2>2, PlacingKeepsAccounts DEF Chosen
    <2>4. CASE Unplaced' # {}
      <3>1. UNCHANGED <<doc, edited, reply>>
        BY <1>2, <2>4 DEF PlaceVm, file
      <3> QED BY <2>2, <2>3, <2>4, <3>1 DEF GeneratorInv, Generated
    <2>5. CASE Unplaced' = {}
      <3>1. PICK n \in Name : /\ stage' = "written" /\ reply' = "none"
                              /\ doc' = Written(n, plan')
        BY <1>2, <2>5 DEF PlaceVm, Written
      <3>2. PlanGenerated'
        <4>1. FileOK' /\ PlanRight' /\ (Unplaced = {})'
          BY <1>1, <2>3, <2>5
        <4> QED BY <4>1, RightPlanIsFeasible, PTL
      <3>3. Generated(Written(n, plan))'
        BY <3>2 DEF PlanGenerated
      <3>4. Generated(doc)'
        BY <3>1, <3>3 DEF Generated
      <3> QED BY <3>1, <3>4 DEF GeneratorInv
    <2> QED BY <2>4, <2>5
  <1>3. CASE NoFeasibleHost
    BY <1>3 DEF NoFeasibleHost, GeneratorInv, Generated, file
  <1>4. CASE RunGenerator
    <2>1. /\ stage' = "placing" /\ UNCHANGED <<hosts, doc, edited, reply>>
          /\ plan' = [v \in VM |-> NoHost] /\ remaining' = hosts
      BY <1>4 DEF RunGenerator, file
    <2>2. (PlanRight /\ Unplaced # {})'
      <3>1. (hosts \in Inventories)' /\ (plan = [v \in VM |-> NoHost])' /\ (remaining = hosts)'
        BY <1>1, <2>1 DEF FileOK
      <3> QED BY <3>1, EmptyPlanRight, PTL
    <2> QED BY <2>1, <2>2 DEF GeneratorInv, Generated
  <1> QED BY <1>2, <1>3, <1>4 DEF Generator

----------------------------------------------------------------------------
(* The file between the generator and the service.                          *)

\* What the capacity check looks at.
LEMMA SameDemandSameVerdict ==
    ASSUME NEW d, NEW e, d.vms = e.vms, d.placement = e.placement, d.cpu = e.cpu,
           d.memory_mb = e.memory_mb, d.gpu = e.gpu
    PROVE  Feasible(d, hosts) <=> Feasible(e, hosts)
  <1>1. VmSet(d) = VmSet(e) /\ UnknownHosts(d, hosts) = UnknownHosts(e, hosts)
    BY DEF VmSet, UnknownHosts
  <1>2. \A h : /\ Load(d, d.cpu, h) = Load(e, e.cpu, h)
               /\ Load(d, d.memory_mb, h) = Load(e, e.memory_mb, h)
               /\ GpuLoad(d, h) = GpuLoad(e, h)
    <2> SUFFICES ASSUME NEW h
                 PROVE  /\ Load(d, d.cpu, h) = Load(e, e.cpu, h)
                        /\ Load(d, d.memory_mb, h) = Load(e, e.memory_mb, h)
                        /\ GpuLoad(d, h) = GpuLoad(e, h)
      OBVIOUS
    <2> DEFINE s == {v \in VmSet(d) : d.placement[v] = h}
               t == {v \in VmSet(e) : e.placement[v] = h}
    <2>1. s = t
      BY <1>1
    <2>2. \A need : Load(d, need, h) = Sum(need, s) /\ Load(e, need, h) = Sum(need, t)
      BY DEF Load, Sum
    <2> HIDE DEF s, t
    <2>3. \A need : Load(d, need, h) = Load(e, need, h)
      BY <2>1, <2>2
    <2>4. GpuLoad(d, h) = GpuLoad(e, h)
      BY <1>1 DEF GpuLoad
    <2> QED BY <2>3, <2>4
  <1>3. Violations(d, hosts) = Violations(e, hosts)
    BY <1>1, <1>2 DEF Violations
  <1> QED BY <1>3 DEF Feasible

\* The addresses the generator writes for a VM of its file: one for each network.
LEMMA PlaceholderLists ==
    ASSUME NEW v \in Range(FileOrder)
    PROVE  /\ v \in VM
           /\ PlaceholderMacs[v] \in Seq(Mac)
           /\ Len(PlaceholderMacs[v]) = Len(NetOrder)
  <1>1. v \in VM
    BY FileAssumption, RangeIsFinite
  <1> DEFINE s == [i \in DOMAIN NetOrder |->
                     <<Placeholder, VmIndex(Range(FileOrder), v), i - 1>>]
  <1>2. PlaceholderMacs[v] = s
    BY <1>1 DEF PlaceholderMacs
  <1>3. DOMAIN s = 1 .. Len(NetOrder) /\ Len(NetOrder) \in Nat
    BY FileAssumption, LenProperties
  <1>4. s \in Seq(Mac)
    <2>1. VmIndex(Range(FileOrder), v) \in Nat
      BY RangeIsFinite, FileAssumption, VmIndexType
    <2>2. \A i \in 1 .. Len(NetOrder) :
              <<Placeholder, VmIndex(Range(FileOrder), v), i - 1>> \in Mac
      BY <2>1, FileAssumption DEF Mac
    <2> QED BY <1>3, <2>2
  <1> HIDE DEF s
  <1>5. Len(s) = Len(NetOrder)
    BY <1>3, <1>4, LenProperties
  <1> QED BY <1>1, <1>2, <1>4, <1>5

\* What the generator has written and nobody edited, POST accepts, for the hosts it was
\* generated for.
LEMMA UneditedIsAccepted ==
    ASSUME FileOK, doc # NoDoc, Generated(doc)
    PROVE  ApiAccepts(doc) /\ Feasible(ToCore(doc), hosts) /\ FromGenerator(ToCore(doc))
  <1>1. PICK n \in Name, p \in [VM -> Host \cup {NoHost}] :
            /\ doc = Written(n, p)
            /\ {v \in VM : p[v] # NoHost} = Range(FileOrder)
            /\ Feasible(doc, hosts)
    BY DEF Generated
  <1>2. /\ doc.networks = Range(NetOrder) /\ doc.vlan = VlanOf /\ doc.vms = FileOrder
        /\ doc.interfaces = [v \in VM |-> NetOrder] /\ doc.placement = p
        /\ doc.macs = PlaceholderMacs /\ doc.vmMacs = [v \in VM |-> NoMacs]
    BY <1>1 DEF Written, FreshDocument
  <1>3. VmSet(doc) = Range(FileOrder) /\ Range(FileOrder) \subseteq VM
    BY <1>2, Amounts DEF VmSet
  <1>4. \A v \in VmSet(doc) : VmOK(doc, v, doc.vmMacs[v])
    BY <1>2, <1>3, GeneratorAssumption DEF VmOK
  <1>5. MissionOK(doc)
    BY <1>1, <1>2, <1>3 DEF MissionOK
  <1> DEFINE e == ToCore(doc)
  <1>6. /\ e.vms = doc.vms /\ e.placement = doc.placement /\ e.cpu = doc.cpu
        /\ e.memory_mb = doc.memory_mb /\ e.gpu = doc.gpu /\ e.networks = doc.networks
        /\ e.vlan = doc.vlan /\ e.interfaces = doc.interfaces
        /\ e.macs = [v \in VM |-> IF doc.vmMacs[v] # NoMacs
                                   THEN doc.vmMacs[v] ELSE ListOrNone(doc.macs[v])]
    <2>1. doc \in Document
      BY DEF FileOK
    <2> QED BY <2>1 DEF ToCore, Document
  <1> HIDE DEF e
  <1>7. e.macs = [v \in VM |-> ListOrNone(PlaceholderMacs[v])]
    BY <1>2, <1>6
  <1>8. Feasible(e, hosts)
    BY <1>1, <1>6, SameDemandSameVerdict
  <1>9. FromGenerator(e)
    BY <1>2, <1>6, <1>7 DEF FromGenerator
  <1> QED BY <1>4, <1>5, <1>8, <1>9 DEF e, ApiAccepts

\* Addresses can be assigned to a mission as generated.
LEMMA GeneratedIsAssignable ==
    ASSUME NEW d, FromGenerator(d)
    PROVE  Assignable(VmSet(d), d.interfaces, d.macs)
  <1>1. VmSet(d) = Range(FileOrder)
    BY DEF FromGenerator, VmSet
  <1>2. ASSUME NEW v \in Range(FileOrder)
        PROVE  d.macs[v] # <<>> /\ Len(d.macs[v]) = Len(d.interfaces[v])
    <2>1. /\ v \in VM /\ PlaceholderMacs[v] \in Seq(Mac)
          /\ Len(PlaceholderMacs[v]) = Len(NetOrder)
      BY PlaceholderLists
    <2>2. d.macs[v] = PlaceholderMacs[v] /\ d.interfaces[v] = NetOrder
      BY <2>1, FileAssumption DEF FromGenerator, ListOrNone
    <2>3. Len(NetOrder) # 0
      BY FileAssumption, GeneratorAssumption, EmptySeq
    <2> QED BY <2>1, <2>2, <2>3, EmptySeq
  <1> QED BY <1>1, <1>2, GeneratorAssumption DEF Assignable

\* Posting the file, editing it, renaming its mission and editing hosts.yaml keep what is
\* known of an unedited file.
LEMMA FileKeepsGenerated ==
    ASSUME FileOK, GeneratorInv,
           \/ Post \/ EditHosts \/ \E n \in Name : Rename(n)
           \/ doc # NoDoc /\ OperatorEdits
    PROVE  GeneratorInv'
  <1>1. CASE Post
    <2>1. UNCHANGED <<hosts, doc, edited, generator>> /\ doc # NoDoc
      BY <1>1 DEF Post
    <2>2. reply' = "refused" => edited
      <3> SUFFICES ASSUME ~edited
                   PROVE  reply' = "accepted"
        BY DEF FileOK
      <3>1. ApiAccepts(doc) /\ Feasible(ToCore(doc), hosts)
        BY <2>1, UneditedIsAccepted DEF GeneratorInv
      <3> QED BY <1>1, <3>1 DEF Post
    <2>3. (PlanRight <=> PlanRight') /\ Unplaced' = Unplaced
      BY <2>1 DEF generator, PlanRight, Unplaced, On
    <2>4. Generated(doc)' <=> Generated(doc)
      BY <2>1 DEF Generated
    <2>5. stage' = stage
      BY <2>1 DEF generator
    <2> QED BY <2>1, <2>2, <2>3, <2>4, <2>5 DEF GeneratorInv
  <1>2. CASE EditHosts
    BY <1>2 DEF EditHosts, generator, GeneratorInv
  <1>3. ASSUME NEW n \in Name, Rename(n)
        PROVE  GeneratorInv'
    <2>1. /\ stage' # "placing" /\ doc # NoDoc /\ doc' = [doc EXCEPT !.name = n]
          /\ reply' = "none" /\ UNCHANGED <<hosts, edited>>
      BY <1>3 DEF Rename, generator
    <2>2. ASSUME Generated(doc)
          PROVE  Generated(doc)'
      <3>1. PICK k \in Name, p \in [VM -> Host \cup {NoHost}] :
                /\ doc = Written(k, p)
                /\ {v \in VM : p[v] # NoHost} = Range(FileOrder)
                /\ Feasible(doc, hosts)
        BY <2>2 DEF Generated
      <3>2. doc' = Written(n, p)
        <4> DEFINE rest(m) == [name |-> m, networks |-> Range(NetOrder), vlan |-> VlanOf,
                     vms |-> FileOrder, interfaces |-> [v \in VM |-> NetOrder], cpu |-> Cpu,
                     memory_mb |-> Memory, gpu |-> GpuVms, placement |-> p,
                     macs |-> PlaceholderMacs, vmMacs |-> [v \in VM |-> NoMacs]]
        <4>1. \A m : Written(m, p) = rest(m)
          BY DEF Written, FreshDocument
        <4>2. [rest(k) EXCEPT !.name = n] = rest(n)
          OBVIOUS
        <4> QED BY <2>1, <3>1, <4>1, <4>2
      <3>3. /\ doc'.vms = doc.vms /\ doc'.placement = doc.placement /\ doc'.cpu = doc.cpu
            /\ doc'.memory_mb = doc.memory_mb /\ doc'.gpu = doc.gpu
        BY <3>1, <3>2 DEF Written, FreshDocument
      <3>4. Feasible(doc', hosts)
        BY <3>1, <3>3, SameDemandSameVerdict
      <3> QED BY <2>1, <3>1, <3>2, <3>4 DEF Generated
    <2> QED BY <2>1, <2>2 DEF GeneratorInv
  <1>4. CASE doc # NoDoc /\ OperatorEdits
    <2>1. stage' # "placing" /\ edited' = TRUE
      BY <1>4 DEF OperatorEdits, DropMacs, ListMacs, ListVmMacs, MoveVm, AddSpareVm, DropVm,
                  DropInterface, DropNetwork, SetVlan, Edit, generator
    <2> QED BY <2>1 DEF GeneratorInv
  <1> QED BY <1>1, <1>2, <1>3, <1>4

----------------------------------------------------------------------------
(* The store and the routers.                                               *)

\* A POST stores what is pristine as generated.
LEMMA PostKeepsPristine ==
    ASSUME StoreInv, GeneratorInv, PristineInv, RouterInv, pristine \in [Name -> BOOLEAN], Post
    PROVE  PristineInv' /\ RouterInv'
  <1>1. /\ doc # NoDoc /\ doc.name \in Name /\ state[doc.name] = "absent"
        /\ DOMAIN state = Name /\ DOMAIN spec = Name /\ routerPorts' = routerPorts
    BY DocumentFields DEF Post, StoreInv, FileOK, MissionsOK, ovn
  <1>2. CASE UNCHANGED <<state, spec, pristine>>
    BY <1>1, <1>2 DEF PristineInv, RouterInv, RouterRows, Networked
  <1>3. CASE /\ state' = [state EXCEPT ![doc.name] = "accepted"]
             /\ spec' = [spec EXCEPT ![doc.name] = ToCore(doc)]
             /\ pristine' = [pristine EXCEPT ![doc.name] = ~edited]
    <2>1. \A n \in Name : n # doc.name =>
              state'[n] = state[n] /\ spec'[n] = spec[n] /\ pristine'[n] = pristine[n]
      BY <1>1, <1>3
    <2>2. /\ state'[doc.name] = "accepted" /\ spec'[doc.name] = ToCore(doc)
          /\ pristine'[doc.name] = ~edited
      BY <1>1, <1>3
    <2>3. ~edited => FromGenerator(ToCore(doc))
      BY <1>1, UneditedIsAccepted DEF GeneratorInv, StoreInv
    <2>4. PristineInv'
      <3> SUFFICES ASSUME NEW n \in Name, pristine'[n]
                   PROVE  state'[n] \notin {"absent", "error"} /\ FromGenerator(spec'[n])
        BY DEF PristineInv, FromGenerator
      <3>1. CASE n = doc.name
        BY <2>2, <2>3, <3>1
      <3>2. CASE n # doc.name
        BY <2>1, <3>2 DEF PristineInv
      <3> QED BY <3>1, <3>2
    <2>5. RouterInv'
      <3> SUFFICES ASSUME NEW n \in Name, NEW r \in routerPorts, r.router = RouterName(n)
                   PROVE  Networked(n)' /\ r \in RouterRows(n)'
        BY <1>1 DEF RouterInv
      <3>1. Networked(n) /\ r \in RouterRows(n)
        BY DEF RouterInv
      <3>2. n # doc.name
        BY <1>1, <3>1 DEF Networked
      <3> QED BY <2>1, <3>1, <3>2 DEF Networked, RouterRows
    <2> QED BY <2>4, <2>5
  <1> QED BY <1>2, <1>3 DEF Post

\* Missions have routers of their own.
LEMMA RoutersDistinct ==
    ASSUME NEW n \in Name, NEW k \in Name, RouterName(n) = RouterName(k)
    PROVE  n = k
  <1> DEFINE x == <<"router">>
  <1>1. n \in Text /\ k \in Text
    BY NamesAreTexts
  <1>2. x \in Text /\ SameDashes(x, x)
    BY DEF Text, SameDashes
  <1>3. n \o x = k \o x
    BY DEF RouterName
  <1> HIDE DEF x
  <1> QED BY <1>1, <1>2, <1>3, LastPieces

\* So does every step of the networking service.
LEMMA ServiceKeepsPristine ==
    ASSUME StoreInv, PristineInv, RouterInv, pristine \in [Name -> BOOLEAN], Service
    PROVE  PristineInv' /\ RouterInv'
  <1>1. PICK n \in Name : ProvisionNetworks(n) \/ AddVmPorts(n) \/ TeardownNetworking(n)
    BY DEF Service
  <1>2. DOMAIN state = Name /\ DOMAIN spec = Name
    BY DEF StoreInv, MissionsOK
  <1>3. CASE ProvisionNetworks(n)
    <2>1. /\ state' = [state EXCEPT ![n] = "networked"] /\ UNCHANGED <<spec, pristine>>
          /\ routerPorts' = routerPorts \cup RouterRows(n)
      BY <1>3 DEF ProvisionNetworks
    <2>2. PristineInv'
      BY <1>2, <2>1 DEF PristineInv
    <2>3. RouterInv'
      <3> SUFFICES ASSUME NEW k \in Name, NEW r \in routerPorts', r.router = RouterName(k)
                   PROVE  Networked(k)' /\ r \in RouterRows(k)'
        BY DEF RouterInv
      <3>1. RouterRows(k)' = RouterRows(k)
        BY <2>1 DEF RouterRows
      <3>2. CASE r \in routerPorts
        BY <1>2, <2>1, <3>1, <3>2 DEF RouterInv, Networked
      <3>3. CASE r \in RouterRows(n)
        <4>1. r.router = RouterName(n)
          BY <3>3 DEF RouterRows
        <4>2. k = n
          BY <4>1, RoutersDistinct
        <4> QED BY <1>2, <2>1, <3>1, <3>3, <4>2 DEF Networked
      <3> QED BY <2>1, <3>2, <3>3
    <2> QED BY <2>2, <2>3
  <1>4. CASE AddVmPorts(n)
    <2>1. /\ UNCHANGED <<spec, pristine, routerPorts>> /\ state[n] = "networked"
          /\ state' = [state EXCEPT ![n] = state'[n]] /\ state'[n] \in {"deployed", "error"}
          /\ state'[n] = "error" => ~Assignable(VmSet(spec[n]), spec[n].interfaces, spec[n].macs)
      BY <1>2, <1>4 DEF AddVmPorts
    <2>2. PristineInv'
      <3> SUFFICES ASSUME NEW k \in Name, pristine[k]
                   PROVE  state'[k] \notin {"absent", "error"} /\ FromGenerator(spec[k])
        BY <2>1 DEF PristineInv, FromGenerator
      <3>1. state[k] \notin {"absent", "error"} /\ FromGenerator(spec[k])
        BY DEF PristineInv
      <3>2. CASE k = n
        BY <2>1, <3>1, <3>2, GeneratedIsAssignable
      <3>3. CASE k # n
        BY <1>2, <2>1, <3>1, <3>3
      <3> QED BY <3>2, <3>3, <3>1
    <2>3. RouterInv'
      BY <1>2, <2>1 DEF RouterInv, Networked, RouterRows
    <2> QED BY <2>2, <2>3
  <1>5. CASE TeardownNetworking(n)
    <2>1. /\ state' = [state EXCEPT ![n] = "absent"] /\ spec' = [spec EXCEPT ![n] = NoDoc]
          /\ pristine' = [pristine EXCEPT ![n] = FALSE]
          /\ routerPorts' = {r \in routerPorts : r.router # RouterName(n)}
      BY <1>5 DEF TeardownNetworking
    <2>2. \A k \in Name : k # n =>
              state'[k] = state[k] /\ spec'[k] = spec[k] /\ pristine'[k] = pristine[k]
      BY <1>2, <2>1
    <2>3. PristineInv'
      <3> SUFFICES ASSUME NEW k \in Name, pristine'[k]
                   PROVE  state'[k] \notin {"absent", "error"} /\ FromGenerator(spec'[k])
        BY DEF PristineInv, FromGenerator
      <3>1. k # n
        BY <2>1
      <3> QED BY <2>2, <3>1 DEF PristineInv
    <2>4. RouterInv'
      <3> SUFFICES ASSUME NEW k \in Name, NEW r \in routerPorts', r.router = RouterName(k)
                   PROVE  Networked(k)' /\ r \in RouterRows(k)'
        BY DEF RouterInv
      <3>1. k # n /\ r \in routerPorts
        BY <2>1
      <3>2. Networked(k) /\ r \in RouterRows(k)
        BY <3>1 DEF RouterInv
      <3> QED BY <2>2, <3>1, <3>2 DEF Networked, RouterRows
    <2> QED BY <2>3, <2>4
  <1> QED BY <1>1, <1>3, <1>4, <1>5

\* The generator, edits and inventories do not touch store and routers.
LEMMA FileStepKeepsPristine ==
    ASSUME PristineInv, RouterInv, UNCHANGED <<missions, ovn>>
    PROVE  PristineInv' /\ RouterInv'
  BY DEF PristineInv, RouterInv, missions, ovn, FromGenerator, Networked, RouterRows

\* The inductive invariant.
Pristine == /\ StoreInv /\ GeneratorInv /\ PristineInv /\ RouterInv
            /\ pristine \in [Name -> BOOLEAN]

\* The invariant at the start,
LEMMA InitPristine == Init => Pristine
  <1> SUFFICES ASSUME Init
               PROVE  Pristine
    OBVIOUS
  <1>1. StoreInv
    BY InitOK DEF StoreInv
  <1>2. PlanRight /\ Unplaced # {}
    BY EmptyPlanRight DEF Init
  <1>3. GeneratorInv
    BY <1>2 DEF Init, GeneratorInv
  <1>4. PristineInv /\ RouterInv
    BY DEF Init, PristineInv, RouterInv
  <1> QED BY <1>1, <1>3, <1>4 DEF Init, Pristine

\* and after every step.
LEMMA StepPristine ==
    ASSUME Pristine, [Next]_vars
    PROVE  Pristine'
  <1>1. StoreInv'
    BY StepStore DEF Pristine
  <1>2. FileOK
    BY DEF Pristine, StoreInv
  <1>3. CASE Post
    <2>1. pristine' \in [Name -> BOOLEAN]
      <3>1. doc.name \in Name
        BY <1>2, <1>3, DocumentFields DEF FileOK, Post
      <3>2. pristine \in [Name -> BOOLEAN]
        BY DEF Pristine
      <3>3. ASSUME NEW b \in BOOLEAN
            PROVE  [pristine EXCEPT ![doc.name] = b] \in [Name -> BOOLEAN]
        BY <3>2
      <3>4. (~edited) \in BOOLEAN
        OBVIOUS
      <3>5. \/ pristine' = pristine
            \/ pristine' = [pristine EXCEPT ![doc.name] = ~edited]
        BY <1>3 DEF Post
      <3> QED BY <3>2, <3>3, <3>4, <3>5
    <2> QED BY <1>1, <1>2, <1>3, <2>1, PostKeepsPristine, FileKeepsGenerated DEF Pristine
  <1>4. CASE Service
    <2>0. PICK n \in Name : ProvisionNetworks(n) \/ AddVmPorts(n) \/ TeardownNetworking(n)
      BY <1>4 DEF Service
    <2>1. /\ pristine' \in [Name -> BOOLEAN]
          /\ UNCHANGED <<hosts, stage, plan, remaining, doc, edited, reply>>
      <3>1. pristine \in [Name -> BOOLEAN]
        BY DEF Pristine
      <3>2. pristine' = pristine \/ pristine' = [pristine EXCEPT ![n] = FALSE]
        BY <2>0 DEF ProvisionNetworks, AddVmPorts, TeardownNetworking
      <3>3. pristine' \in [Name -> BOOLEAN]
        BY <3>1, <3>2
      <3>4. UNCHANGED <<hosts, stage, plan, remaining, doc, edited, reply>>
        BY <2>0 DEF ProvisionNetworks, AddVmPorts, TeardownNetworking, generator, file
      <3> QED BY <3>3, <3>4
    <2>2. GeneratorInv'
      BY <2>1 DEF Pristine, GeneratorInv, PlanRight, Unplaced, Generated, On
    <2> QED BY <1>1, <1>4, <2>1, <2>2, ServiceKeepsPristine DEF Pristine
  <1>5. CASE Generator
    <2>1. UNCHANGED <<missions, ovn>>
      BY <1>5 DEF Generator, PlaceVm, NoFeasibleHost, RunGenerator
    <2> QED BY <1>1, <1>2, <1>5, <2>1, GeneratorKeeps, FileStepKeepsPristine
            DEF Pristine, missions
  <1>6. CASE \/ EditHosts \/ \E n \in Name : Rename(n)
             \/ doc # NoDoc /\ OperatorEdits
    <2>1. UNCHANGED <<missions, ovn>>
      BY <1>6 DEF EditHosts, Rename, OperatorEdits, DropMacs, ListMacs, ListVmMacs, MoveVm,
                  AddSpareVm, DropVm, DropInterface, DropNetwork, SetVlan, Edit
    <2> QED BY <1>1, <1>2, <1>6, <2>1, FileKeepsGenerated, FileStepKeepsPristine
            DEF Pristine, missions
  <1>7. CASE UNCHANGED vars
    <2>1. /\ UNCHANGED <<missions, ovn, pristine>>
          /\ UNCHANGED <<hosts, stage, plan, remaining, doc, edited, reply>>
      BY <1>7 DEF vars, missions, generator, file
    <2>2. GeneratorInv'
      BY <2>1 DEF Pristine, GeneratorInv, PlanRight, Unplaced, Generated, On
    <2> QED BY <1>1, <2>1, <2>2, FileStepKeepsPristine DEF Pristine
  <1> QED BY <1>3, <1>4, <1>5, <1>6, <1>7 DEF Next

\* A file the generator wrote is accepted for the hosts it was generated for, deploys, and
\* gives its networks gateways in subnets of their own: for any inventory, VMs, edits and
\* missions.
THEOREM GeneratedAlwaysDeploys == Spec => []GeneratedDeploys
  <1>1. ASSUME Pristine
        PROVE  GeneratedDeploys
    <2>1. reply = "refused" => edited
      BY <1>1 DEF Pristine, GeneratorInv
    <2>2. ASSUME NEW n \in Name, pristine[n]
          PROVE  state[n] # "error" /\ SubnetsApart(n)
      <3>1. state[n] # "error" /\ FromGenerator(spec[n])
        BY <1>1, <2>2 DEF Pristine, PristineInv
      <3>2. ASSUME NEW r \in routerPorts, NEW s \in routerPorts, r.router = RouterName(n),
                   s.router = RouterName(n), r.gateway = s.gateway
            PROVE  r = s
        <4>1. r \in RouterRows(n) /\ s \in RouterRows(n)
          BY <1>1, <3>2 DEF Pristine, RouterInv
        <4>2. PICK a \in Range(NetOrder) :
                  r = [name |-> RouterPortName(n, a), router |-> RouterName(n),
                       mac |-> RouterMac(n, a), gateway |-> GatewayOctet(VlanOf[a])]
          BY <3>1, <4>1 DEF RouterRows, FromGenerator
        <4>3. PICK b \in Range(NetOrder) :
                  s = [name |-> RouterPortName(n, b), router |-> RouterName(n),
                       mac |-> RouterMac(n, b), gateway |-> GatewayOctet(VlanOf[b])]
          BY <3>1, <4>1 DEF RouterRows, FromGenerator
        <4>4. a = b
          BY <3>2, <4>2, <4>3, GeneratorAssumption
        <4> QED BY <4>2, <4>3, <4>4
      <3> QED BY <3>1, <3>2 DEF SubnetsApart
    <2> QED BY <2>1, <2>2 DEF GeneratedDeploys
  <1> QED BY <1>1, InitPristine, StepPristine, PTL DEF Spec

----------------------------------------------------------------------------
(* Types.                                                                   *)

\* What the generator has left of each host is an amount,
CapacityLeft == \E H \in SUBSET Host : remaining \in [H -> Capacity]

\* the store holds specifications and addresses,
StoreTypes ==
    /\ spec \in [Name -> Document \cup {NoDoc}]
    /\ assigned \in [Name -> [VM -> Seq(Mac)]]

\* and so do the rows of OVN.
RowTypes ==
    /\ switches \subseteq Text
    /\ ports \subseteq [name : Text, switch : Text, mac : Mac]
    /\ routerPorts \subseteq [name : Text, router : Text, mac : Mac, gateway : Nat]

\* What a placement takes from a host, the host has.
LEMMA CapacityLeftKept ==
    ASSUME FileOK, GeneratorInv, CapacityLeft, [Next]_vars
    PROVE  CapacityLeft'
  <1>1. CASE PlaceVm
    <2>1. PICK v \in Unplaced, h \in DOMAIN remaining :
              /\ Chosen(v, h)
              /\ plan' = [plan EXCEPT ![v] = h]
              /\ remaining' = [remaining EXCEPT ![h] = Take(@, v)]
      BY <1>1 DEF PlaceVm
    <2>2. PlanRight /\ hosts' = hosts
      BY <1>1 DEF PlaceVm, file, GeneratorInv
    <2>3. PlanRight'
      BY <2>1, <2>2, PlacingKeepsAccounts DEF Chosen
    <2>4. DOMAIN hosts' \in SUBSET Host
      BY <2>2, Amounts
    <2> QED BY <2>3, <2>4 DEF PlanRight, CapacityLeft
  <1>2. CASE RunGenerator
    <2>1. remaining' = hosts
      BY <1>2 DEF RunGenerator
    <2>2. DOMAIN hosts \in SUBSET Host /\ hosts \in [DOMAIN hosts -> Capacity]
      BY Amounts
    <2> QED BY <2>1, <2>2 DEF CapacityLeft
  <1>3. CASE ~PlaceVm /\ ~RunGenerator
    <2>1. remaining' = remaining
      BY <1>3 DEF Next, Generator, NoFeasibleHost, Post, EditHosts, Service, ProvisionNetworks,
                  AddVmPorts, TeardownNetworking, Rename, OperatorEdits, DropMacs, ListMacs,
                  ListVmMacs, MoveVm, AddSpareVm, DropVm, DropInterface, DropNetwork, SetVlan,
                  Edit, generator, vars
    <2> QED BY <2>1 DEF CapacityLeft
  <1> QED BY <1>1, <1>2, <1>3

\* A specification that POST stores, and addresses that are assigned, have their types.
LEMMA AssignedTypes ==
    ASSUME NEW n \in Name, NEW d, Stored(d), Assignable(VmSet(d), d.interfaces, d.macs)
    PROVE  LET macs == AssignMacs(n, VmSet(d), d.interfaces, d.macs)
           IN  /\ macs \in [VM -> Seq(Mac)]
               /\ \A v \in VmSet(d) : Len(macs[v]) = Len(d.interfaces[v])
  <1> DEFINE macs == AssignMacs(n, VmSet(d), d.interfaces, d.macs)
  <1>1. d \in Document /\ d.macs \in [VM -> Seq(Mac)] /\ d.interfaces \in [VM -> Seq(Net)]
    BY DocumentFields DEF Stored
  <1>2. VmSet(d) \in SUBSET VM /\ IsFiniteSet(VmSet(d))
    BY <1>1, VmSetIsFinite
  <1>3. ASSUME NEW v \in VM, v \notin VmSet(d)
        PROVE  macs[v] \in Seq(Mac)
    BY <1>3, EmptySeq DEF AssignMacs
  <1>4. ASSUME NEW v \in VmSet(d)
        PROVE  macs[v] \in Seq(Mac) /\ Len(macs[v]) = Len(d.interfaces[v])
    <2>1. v \in VM /\ d.macs[v] \in Seq(Mac) /\ Len(d.interfaces[v]) \in Nat
      BY <1>1, <1>2, LenProperties
    <2>2. CASE d.macs[v] # <<>>
      <3>1. macs[v] = d.macs[v]
        BY <2>1, <2>2 DEF AssignMacs
      <3>2. Len(d.macs[v]) = Len(d.interfaces[v])
        BY <2>2 DEF Assignable
      <3> QED BY <2>1, <3>1, <3>2
    <2>3. CASE d.macs[v] = <<>>
      <3> DEFINE k == Len(d.interfaces[v])
                 s == [i \in 1 .. k |-> <<MissionOctet[n], VmIndex(VmSet(d), v), i - 1>>]
      <3>1. macs[v] = s
        BY <2>1, <2>3 DEF AssignMacs, FallbackMacs
      <3>2. MissionOctet[n] \in Nat /\ VmIndex(VmSet(d), v) \in Nat
        BY <1>2, VmIndexType, OctetAssumption
      <3>3. \A i \in 1 .. k : <<MissionOctet[n], VmIndex(VmSet(d), v), i - 1>> \in Mac
        BY <3>2 DEF Mac
      <3>4. s \in Seq(Mac) /\ DOMAIN s = 1 .. k
        BY <2>1, <3>3
      <3> HIDE DEF s
      <3>5. Len(s) = k
        BY <2>1, <3>4, LenProperties
      <3> QED BY <3>1, <3>4, <3>5
    <2> QED BY <2>2, <2>3
  <1>5. macs = [v \in VM |-> macs[v]]
    BY DEF AssignMacs
  <1>6. \A v \in VM : macs[v] \in Seq(Mac)
    BY <1>3, <1>4
  <1> HIDE DEF macs
  <1>7. macs \in [VM -> Seq(Mac)]
    BY <1>5, <1>6
  <1> QED BY <1>4, <1>7 DEF macs

\* So has the store after every step.
LEMMA StoreTypesKept ==
    ASSUME StoreInv, StoreTypes, [Next]_vars
    PROVE  StoreTypes'
  <1>1. DOMAIN state = Name
    BY DEF StoreInv, MissionsOK
  <1>2. CASE Post
    <2>1. CASE UNCHANGED spec
      BY <1>2, <2>1 DEF Post, StoreTypes
    <2>2. CASE ApiAccepts(doc) /\ spec' = [spec EXCEPT ![doc.name] = ToCore(doc)]
      <3>1. doc \in Document /\ NoRepeats(doc) /\ doc.name \in Name
        BY <1>2, DocumentFields DEF Post, StoreInv, FileOK
      <3>2. ToCore(doc) \in Document
        BY <2>2, <3>1, AcceptedIsStored DEF Stored
      <3> QED BY <1>2, <2>2, <3>1, <3>2 DEF Post, StoreTypes
    <2> QED BY <1>2, <2>1, <2>2 DEF Post
  <1>3. CASE Service
    <2>1. PICK n \in Name : ProvisionNetworks(n) \/ AddVmPorts(n) \/ TeardownNetworking(n)
      BY <1>3 DEF Service
    <2>2. CASE UNCHANGED <<spec, assigned>>
      BY <2>2 DEF StoreTypes
    <2>3. CASE AddVmPorts(n) /\ ~UNCHANGED assigned
      <3> DEFINE macs == AssignMacs(n, VmSet(spec[n]), spec[n].interfaces, spec[n].macs)
      <3>1. /\ Assignable(VmSet(spec[n]), spec[n].interfaces, spec[n].macs)
            /\ assigned' = [assigned EXCEPT ![n] = macs] /\ spec' = spec
            /\ state[n] = "networked"
        BY <2>3 DEF AddVmPorts
      <3>2. Stored(spec[n])
        BY <3>1 DEF StoreInv, MissionsOK
      <3>3. macs \in [VM -> Seq(Mac)]
        BY <3>1, <3>2, AssignedTypes
      <3> HIDE DEF macs
      <3> QED BY <3>1, <3>3 DEF StoreTypes
    <2>4. CASE TeardownNetworking(n)
      <3>1. [v \in VM |-> <<>>] \in [VM -> Seq(Mac)]
        BY EmptySeq
      <3> QED BY <2>4, <3>1 DEF TeardownNetworking, StoreTypes
    <2> QED BY <2>1, <2>2, <2>3, <2>4 DEF ProvisionNetworks, AddVmPorts
  <1>4. CASE Generator \/ EditHosts \/ (\E n \in Name : Rename(n))
             \/ (doc # NoDoc /\ OperatorEdits) \/ UNCHANGED vars
    <2>1. UNCHANGED missions
      BY <1>4 DEF Generator, PlaceVm, NoFeasibleHost, RunGenerator, EditHosts, Rename,
                  OperatorEdits, DropMacs, ListMacs, ListVmMacs, MoveVm, AddSpareVm, DropVm,
                  DropInterface, DropNetwork, SetVlan, Edit, vars
    <2> QED BY <2>1 DEF missions, StoreTypes
  <1> QED BY <1>2, <1>3, <1>4 DEF Next

\* The rows the networking service makes for a stored mission.
LEMMA NewRowTypes ==
    ASSUME NEW n \in Name, Stored(spec[n])
    PROVE  /\ SwitchesOf(n) \subseteq Text
           /\ PeerRows(n) \subseteq [name : Text, switch : Text, mac : Mac]
           /\ RouterRows(n) \subseteq [name : Text, router : Text, mac : Mac, gateway : Nat]
           /\ Assignable(VmSet(spec[n]), spec[n].interfaces, spec[n].macs) =>
                 VmRows(n, AssignMacs(n, VmSet(spec[n]), spec[n].interfaces, spec[n].macs))
                    \subseteq [name : Text, switch : Text, mac : Mac]
  <1>1. spec[n].networks \subseteq Net /\ spec[n].vlan \in [Net -> Nat]
    BY DocumentFields DEF Stored
  <1>2. RouterName(n) \in Text
    <2>1. n \in Text /\ <<"router">> \in Text
      BY NamesAreTexts DEF Text
    <2> QED BY <2>1, ConcatProperties DEF RouterName, Text
  <1>3. ASSUME NEW net \in Net
        PROVE  /\ SwitchName(n, net) \in Text /\ RouterPortName(n, net) \in Text
               /\ PeerPortName(n, net) \in Text
    <2>1. SpareVm \in VM
      BY FileAssumption
    <2> QED BY <2>1, JoinedNamesAreTexts
  <1>4. ASSUME NEW net \in Net
        PROVE  RouterMac(n, net) \in Mac /\ GatewayOctet(spec[n].vlan[net]) \in Nat
    <2>1. RouterHash[n][net] \in (0 .. (Octets - 1)) \X (0 .. (Octets - 1))
      BY OctetAssumption
    <2>2. RouterHash[n][net][1] \in Nat /\ RouterHash[n][net][2] \in Nat /\ Octets - 1 \in Nat
      BY <2>1, OctetAssumption
    <2>3. spec[n].vlan[net] \in Nat
      BY <1>1
    <2>4. RouterMac(n, net) \in Mac
      BY <2>2 DEF RouterMac, Mac
    <2>5. \A k \in Nat : k % Octets \in Nat
      BY OctetAssumption
    <2>6. GatewayOctet(spec[n].vlan[net]) \in Nat
      BY <2>3, <2>5 DEF GatewayOctet
    <2> QED BY <2>4, <2>6
  <1>5. SwitchesOf(n) \subseteq Text
    BY <1>1, <1>3 DEF SwitchesOf
  <1>6. PeerRows(n) \subseteq [name : Text, switch : Text, mac : Mac]
    <2>1. <<>> \in Mac
      BY EmptySeq DEF Mac
    <2> QED BY <1>1, <1>3, <2>1 DEF PeerRows
  <1>7. RouterRows(n) \subseteq [name : Text, router : Text, mac : Mac, gateway : Nat]
    BY <1>1, <1>2, <1>3, <1>4 DEF RouterRows
  <1>8. ASSUME Assignable(VmSet(spec[n]), spec[n].interfaces, spec[n].macs)
        PROVE  VmRows(n, AssignMacs(n, VmSet(spec[n]), spec[n].interfaces, spec[n].macs))
                  \subseteq [name : Text, switch : Text, mac : Mac]
    <2> DEFINE macs == AssignMacs(n, VmSet(spec[n]), spec[n].interfaces, spec[n].macs)
    <2>1. /\ macs \in [VM -> Seq(Mac)]
          /\ \A v \in VmSet(spec[n]) : Len(macs[v]) = Len(spec[n].interfaces[v])
      BY <1>8, AssignedTypes
    <2> HIDE DEF macs
    <2>2. ASSUME NEW v \in VmSet(spec[n]), NEW i \in DOMAIN spec[n].interfaces[v]
          PROVE  [name |-> PortName(n, v, spec[n].interfaces[v][i]),
                  switch |-> SwitchName(n, spec[n].interfaces[v][i]), mac |-> macs[v][i]]
                    \in [name : Text, switch : Text, mac : Mac]
      <3>1. v \in VM /\ spec[n].interfaces[v][i] \in Net
        BY StoredNetworks
      <3>2. spec[n].interfaces[v] \in Seq(Net)
        BY <3>1, DocumentFields DEF Stored
      <3>3. macs[v][i] \in Mac
        BY <2>1, <3>1, <3>2, LenProperties, ElementOfSeq
      <3> QED BY <3>1, <3>3, JoinedNamesAreTexts
    <2> QED BY <2>2 DEF VmRows, macs
  <1> QED BY <1>5, <1>6, <1>7, <1>8

\* So have all rows after every step.
LEMMA RowTypesKept ==
    ASSUME StoreInv, RowTypes, [Next]_vars
    PROVE  RowTypes'
  <1>1. ASSUME NEW n \in Name, state[n] # "absent"
        PROVE  Stored(spec[n])
    BY <1>1 DEF StoreInv, MissionsOK
  <1>2. CASE Service
    <2>1. PICK n \in Name : ProvisionNetworks(n) \/ AddVmPorts(n) \/ TeardownNetworking(n)
      BY <1>2 DEF Service
    <2>2. CASE ProvisionNetworks(n)
      BY <1>1, <2>2, NewRowTypes DEF ProvisionNetworks, RowTypes
    <2>3. CASE AddVmPorts(n)
      BY <1>1, <2>3, NewRowTypes DEF AddVmPorts, RowTypes
    <2>4. CASE TeardownNetworking(n)
      BY <2>4 DEF TeardownNetworking, RowTypes
    <2> QED BY <2>1, <2>2, <2>3, <2>4
  <1>3. CASE Generator \/ Post \/ EditHosts \/ (\E n \in Name : Rename(n))
             \/ (doc # NoDoc /\ OperatorEdits) \/ UNCHANGED vars
    <2>1. UNCHANGED ovn
      BY <1>3 DEF Generator, PlaceVm, NoFeasibleHost, RunGenerator, Post, EditHosts, Rename,
                  OperatorEdits, DropMacs, ListMacs, ListVmMacs, MoveVm, AddSpareVm, DropVm,
                  DropInterface, DropNetwork, SetVlan, Edit, vars
    <2> QED BY <2>1 DEF ovn, RowTypes
  <1> QED BY <1>2, <1>3 DEF Next

\* The types of what is left.
CounterTypes ==
    /\ stage \in {"placing", "written", "stuck"}
    /\ edited \in BOOLEAN /\ reply \in {"none", "accepted", "refused"}
    /\ edits \in Nat /\ runs \in Nat

\* They have them after every step.
LEMMA CounterTypesKept ==
    ASSUME CounterTypes, [Next]_vars
    PROVE  CounterTypes'
  <1>1. CASE PlaceVm
    <2>1. UNCHANGED <<edits, runs>>
      BY <1>1 DEF PlaceVm, file
    <2>2. \/ UNCHANGED <<stage, edited, reply>>
          \/ stage' = "written" /\ edited' = FALSE /\ reply' = "none"
      BY <1>1 DEF PlaceVm, file
    <2> QED BY <2>1, <2>2 DEF CounterTypes
  <1>2. CASE NoFeasibleHost
    BY <1>2 DEF NoFeasibleHost, file, CounterTypes
  <1>3. CASE RunGenerator
    BY <1>3 DEF RunGenerator, file, CounterTypes
  <1>4. CASE Post
    <2>1. UNCHANGED <<stage, edited, edits, runs>> /\ reply' \in {"accepted", "refused"}
      BY <1>4 DEF Post, generator
    <2> QED BY <2>1 DEF CounterTypes
  <1>5. CASE EditHosts
    BY <1>5 DEF EditHosts, generator, CounterTypes
  <1>6. CASE Service \/ UNCHANGED vars
    <2>1. UNCHANGED <<stage, edited, reply, edits, runs>>
      BY <1>6 DEF Service, ProvisionNetworks, AddVmPorts, TeardownNetworking, generator, file,
                  vars
    <2> QED BY <2>1 DEF CounterTypes
  <1>7. CASE \E n \in Name : Rename(n)
    BY <1>7 DEF Rename, generator, CounterTypes
  <1>8. CASE doc # NoDoc /\ OperatorEdits
    <2>1. \E d : Edit(d)
      BY <1>8 DEF OperatorEdits, DropMacs, ListMacs, ListVmMacs, MoveVm, AddSpareVm, DropVm,
                  DropInterface, DropNetwork, SetVlan
    <2>2. /\ UNCHANGED <<stage, runs>> /\ edits' = edits + 1
          /\ edited' = TRUE /\ reply' = "none"
      BY <2>1 DEF Edit, generator
    <2> QED BY <2>2 DEF CounterTypes
  <1> QED BY <1>1, <1>2, <1>3, <1>4, <1>5, <1>6, <1>7, <1>8 DEF Next, Generator

\* The part of TypeOK that Pristine does not say.
Typed == CapacityLeft /\ StoreTypes /\ RowTypes /\ CounterTypes

\* Every variable has its type: in particular no capacity the generator counts down becomes
\* negative, and every address in the store and in OVN is one.
THEOREM FileTypeCorrect == Spec => []TypeOK
  <1>1. Init => Typed
    <2> SUFFICES ASSUME Init
                 PROVE  Typed
      OBVIOUS
    <2>1. CapacityLeft
      <3>1. hosts \in [DOMAIN hosts -> Capacity] /\ DOMAIN hosts \in SUBSET Host
        BY InventoriesAssumption DEF Init
      <3> QED BY <3>1 DEF Init, CapacityLeft
    <2>2. StoreTypes /\ RowTypes
      BY EmptySeq DEF Init, StoreTypes, RowTypes
    <2>3. CounterTypes
      BY DEF Init, CounterTypes
    <2> QED BY <2>1, <2>2, <2>3 DEF Typed
  <1>2. Pristine /\ Typed /\ [Next]_vars => Typed'
    BY CapacityLeftKept, StoreTypesKept, RowTypesKept, CounterTypesKept
       DEF Pristine, StoreInv, Typed
  <1>3. Pristine /\ Typed => TypeOK
    <2> SUFFICES ASSUME Pristine, Typed
                 PROVE  TypeOK
      OBVIOUS
    <2>1. hosts \in Inventories /\ plan \in [VM -> Host \cup {NoHost}]
          /\ doc \in Document \cup {NoDoc}
      BY DEF Pristine, StoreInv, FileOK
    <2>2. state \in [Name -> {"absent", "accepted", "networked", "deployed", "error"}]
      BY DEF Pristine, StoreInv, MissionsOK, States
    <2>3. pristine \in [Name -> BOOLEAN]
      BY DEF Pristine
    <2> QED BY <2>1, <2>2, <2>3
            DEF TypeOK, Typed, CapacityLeft, StoreTypes, RowTypes, CounterTypes
  <1> QED BY <1>1, <1>2, <1>3, InitPristine, StepPristine, PTL DEF Spec

----------------------------------------------------------------------------
(* The generator goes on.                                                   *)

\* A total order on a finite set has a first element; "before" holds the ordered pairs.
LEMMA FirstOfOrder ==
    ASSUME NEW S, IsFiniteSet(S), S # {}, NEW before,
           \A a \in S : <<a, a>> \notin before,
           \A a, b \in S : a # b => <<a, b>> \in before \/ <<b, a>> \in before,
           \A a, b, c \in S : <<a, b>> \in before /\ <<b, c>> \in before => <<a, c>> \in before
    PROVE  \E a \in S : \A b \in S \ {a} : <<a, b>> \in before
  <1> DEFINE below(a) == {b \in S : <<b, a>> \in before}
             T == {below(a) : a \in S}
  <1>0. T \in SUBSET SUBSET S /\ T # {}
    <2>1. \A a \in S : below(a) \in SUBSET S
      OBVIOUS
    <2>2. PICK a \in S : TRUE
      OBVIOUS
    <2>3. below(a) \in T
      BY <2>2
    <2> HIDE DEF below
    <2> QED BY <2>1, <2>3
  <1> HIDE DEF T
  <1>1. PICK t \in T : \A u \in T : u \subseteq t => u = t
    BY <1>0, SmallestSet
  <1> USE DEF T
  <1>2. PICK a \in S : t = below(a)
    BY <1>1
  <1>3. below(a) = {}
    <2> SUFFICES ASSUME NEW b \in below(a)
                 PROVE  FALSE
      OBVIOUS
    <2>1. b \in S /\ <<b, a>> \in before
      OBVIOUS
    <2>2. below(b) \subseteq below(a)
      BY <2>1
    <2>3. b \notin below(b)
      BY <2>1
    <2>4. below(b) = below(a)
      <3>1. below(b) \in T
        BY <2>1
      <3> HIDE DEF below, T
      <3> QED BY <1>1, <1>2, <2>2, <3>1
    <2> QED BY <2>3, <2>4
  <1>4. \A b \in S \ {a} : <<b, a>> \notin before
    BY <1>3
  <1> QED BY <1>4

\* The place of an element in a sequence is the index of one of its occurrences.
LEMMA PlaceOf ==
    ASSUME NEW S, NEW s \in Seq(S), NEW x \in Range(s)
    PROVE  LET i == CHOOSE j \in DOMAIN s : s[j] = x
           IN  i \in Nat /\ s[i] = x
  <1>1. \E j \in DOMAIN s : s[j] = x
    BY DEF Range
  <1>2. DOMAIN s = 1 .. Len(s) /\ Len(s) \in Nat
    BY LenProperties
  <1> QED BY <1>1, <1>2

\* While a VM is unplaced, one is next: the orders of main() are total.
LEMMA SomeVmIsNext ==
    ASSUME Unplaced # {}
    PROVE  \E v \in Unplaced : IsNext(v)
  <1> DEFINE before == {p \in Unplaced \X Unplaced : PlacedBefore(p[1], p[2])}
             place(u) == CHOOSE i \in DOMAIN FileOrder : FileOrder[i] = u
  <1>1. Unplaced \subseteq Range(FileOrder) /\ Range(FileOrder) \subseteq VM
        /\ IsFiniteSet(Range(FileOrder))
    BY FileAssumption, RangeIsFinite DEF Unplaced
  <1>2. IsFiniteSet(Unplaced)
    BY <1>1, FS_Subset
  <1>3. \A v \in Unplaced : Rank[v] \in Nat /\ Cpu[v] \in Nat
    BY <1>1, RankAssumption, FileAssumption
  <1>4. \A v \in Unplaced : place(v) \in Nat /\ FileOrder[place(v)] = v
    BY <1>1, FileAssumption, PlaceOf
  <1>5. \A v, w \in Unplaced : LargerOrEarlier(v, w) <=>
            \/ Cpu[v] > Cpu[w]
            \/ Cpu[v] = Cpu[w] /\ place(v) < place(w)
    BY DEF LargerOrEarlier
  <1>6. \A v, w \in Unplaced : <<v, w>> \in before <=> PlacedBefore(v, w)
    OBVIOUS
  <1> HIDE DEF before, place
  <1>7. \A v \in Unplaced : <<v, v>> \notin before
    BY <1>3, <1>4, <1>5, <1>6 DEF PlacedBefore, NameBefore
  <1>8. \A v, w \in Unplaced : v # w => <<v, w>> \in before \/ <<w, v>> \in before
    <2> SUFFICES ASSUME NEW v \in Unplaced, NEW w \in Unplaced, v # w
                 PROVE  PlacedBefore(v, w) \/ PlacedBefore(w, v)
      BY <1>6
    <2>1. Rank[v] # Rank[w]
      BY <1>1, RankAssumption
    <2>2. place(v) # place(w)
      BY <1>4
    <2> QED BY <1>3, <1>4, <1>5, <2>1, <2>2 DEF PlacedBefore, NameBefore
  <1>9. \A u, v, w \in Unplaced :
            <<u, v>> \in before /\ <<v, w>> \in before => <<u, w>> \in before
    BY <1>3, <1>4, <1>5, <1>6 DEF PlacedBefore, NameBefore
  <1>10. PICK v \in Unplaced : \A w \in Unplaced \ {v} : <<v, w>> \in before
    BY <1>2, <1>7, <1>8, <1>9, FirstOfOrder
  <1> QED BY <1>6, <1>10 DEF IsNext

\* When hosts fit, max() picks one of them.
LEMMA SomeHostIsChosen ==
    ASSUME FileOK, PlanRight, NEW v \in Unplaced, NEW g \in DOMAIN remaining, Fits(v, g)
    PROVE  \E h \in DOMAIN remaining : Chosen(v, h)
  <1> DEFINE S == {h \in DOMAIN remaining : Fits(v, h)}
             place(h) == CHOOSE i \in DOMAIN HostOrder : HostOrder[i] = h
             before == {p \in S \X S :
                          \/ remaining[p[2]].cpus < remaining[p[1]].cpus
                          \/ remaining[p[2]].cpus = remaining[p[1]].cpus
                             /\ place(p[1]) < place(p[2])}
  <1>1. DOMAIN remaining \subseteq Range(HostOrder) /\ DOMAIN remaining = DOMAIN hosts
    BY Amounts DEF PlanRight
  <1>2. IsFiniteSet(S) /\ S # {}
    <2>1. IsFiniteSet(Range(HostOrder))
      BY FileAssumption, RangeIsFinite
    <2>2. S \in SUBSET Range(HostOrder)
      BY <1>1
    <2> HIDE DEF S
    <2>3. IsFiniteSet(S)
      BY <2>1, <2>2, FS_Subset
    <2> QED BY <2>3 DEF S
  <1>3. \A h \in S : remaining[h].cpus \in Nat
    BY <1>1 DEF PlanRight, Capacity
  <1>4. \A h \in S : place(h) \in Nat /\ HostOrder[place(h)] = h
    BY <1>1, FileAssumption, PlaceOf
  <1>5. \A a, b \in S : <<a, b>> \in before <=>
            \/ remaining[b].cpus < remaining[a].cpus
            \/ remaining[b].cpus = remaining[a].cpus /\ place(a) < place(b)
    OBVIOUS
  <1> HIDE DEF before, place, S
  <1>6. \A a \in S : <<a, a>> \notin before
    BY <1>3, <1>4, <1>5
  <1>7. \A a, b \in S : a # b => <<a, b>> \in before \/ <<b, a>> \in before
    BY <1>3, <1>4, <1>5
  <1>8. \A a, b, c \in S : <<a, b>> \in before /\ <<b, c>> \in before => <<a, c>> \in before
    BY <1>3, <1>4, <1>5
  <1>9. PICK h \in S : \A b \in S \ {h} : <<h, b>> \in before
    BY <1>2, <1>6, <1>7, <1>8, FirstOfOrder
  <1>10. \A b \in S : \/ remaining[b].cpus < remaining[h].cpus
                      \/ remaining[b].cpus = remaining[h].cpus /\ place(h) <= place(b)
    <2> SUFFICES ASSUME NEW b \in S
                 PROVE  \/ remaining[b].cpus < remaining[h].cpus
                        \/ remaining[b].cpus = remaining[h].cpus /\ place(h) <= place(b)
      OBVIOUS
    <2>1. place(h) \in Nat /\ place(b) \in Nat
      BY <1>4
    <2>2. CASE b = h
      BY <2>1, <2>2
    <2>3. CASE b # h
      <3>1. <<h, b>> \in before
        BY <1>9, <2>3
      <3>2. \/ remaining[b].cpus < remaining[h].cpus
            \/ remaining[b].cpus = remaining[h].cpus /\ place(h) < place(b)
        BY <1>5, <3>1
      <3> QED BY <2>1, <3>2
    <2> QED BY <2>2, <2>3
  <1>11. h \in DOMAIN remaining
    BY DEF S
  <1> QED BY <1>9, <1>10, <1>11 DEF Chosen, S, place

\* While the generator places VMs there is a next one, and max() chooses a host for it or no
\* host fits.
Proceeds ==
    stage = "placing" =>
        \E v \in Unplaced :
            /\ IsNext(v)
            /\ \/ \E h \in DOMAIN remaining : Chosen(v, h)
               \/ ~ \E h \in DOMAIN remaining : Fits(v, h)

\* The loop of greedy_place never skips a VM and never stops without a file or an error, for
\* any VMs, hosts and capacities.
THEOREM GeneratorProceeds == Spec => []Proceeds
  <1>1. ASSUME Pristine
        PROVE  Proceeds
    <2> SUFFICES ASSUME stage = "placing"
                 PROVE  \E v \in Unplaced :
                            /\ IsNext(v)
                            /\ \/ \E h \in DOMAIN remaining : Chosen(v, h)
                               \/ ~ \E h \in DOMAIN remaining : Fits(v, h)
      BY DEF Proceeds
    <2>1. FileOK /\ PlanRight /\ Unplaced # {}
      BY <1>1 DEF Pristine, StoreInv, GeneratorInv
    <2>2. PICK v \in Unplaced : IsNext(v)
      BY <2>1, SomeVmIsNext
    <2> QED BY <2>1, <2>2, SomeHostIsChosen
  <1> QED BY <1>1, InitPristine, StepPristine, PTL DEF Spec
==============================================================================
