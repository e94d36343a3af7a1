------------------------------ MODULE MissionFile ------------------------------
(***************************************************************************)
(* From a mission file to addresses: tools/generate_mission.py writes the  *)
(* file, an operator edits it, POST /missions turns it into a              *)
(* specification and checks it, and the deployment derives the OVN names   *)
(* and Ethernet addresses of its networks and VMs, which teardown uses     *)
(* again to find what it has to remove.                                    *)
(*                                                                         *)
(* MissionService has the steps and interleavings of deployment and        *)
(* teardown, with names that cannot coincide. Here each of their           *)
(* networking functions is one step, and names and addresses are what the  *)
(* code makes of them.                                                     *)
(***************************************************************************)
EXTENDS Naming, Placement, SequencesExt

CONSTANTS
    Host,          \* host names a placement may mention
    HostOrder,     \* all hosts, in the order of hosts.yaml
    Inventories,   \* what hosts.yaml may contain: host -> [cpus, memory_mb, gpus]
    FileOrder,     \* the VMs of the generator's ROLES, in the order it writes them
    SpareVm,       \* a VM an operator may add
    Cpu, Memory,   \* VM -> what it asks for
    GpuVms,        \* the VMs that ask for a GPU
    NetOrder,      \* NETWORKS of the generator, in order
    VlanOf,        \* network -> VLAN id in NETWORKS
    Vlans,         \* VLAN ids an operator may write
    Placeholder,   \* first octet of the placeholder addresses
    MacLists,      \* lists of addresses an operator may write
    NoHost, NoMacs, NoDoc,
    MaxEdits,      \* bound: edits of the file and of hosts.yaml
    MaxRuns        \* bound: runs of the generator

Capacity == [cpus : Nat, memory_mb : Nat, gpus : Nat]

ASSUME InventoriesAssumption ==
    \A hosts \in Inventories : /\ DOMAIN hosts \subseteq Host \cap Range(HostOrder)
                               /\ hosts \in [DOMAIN hosts -> Capacity]

\* A mission file. "networks" are the network names it has, "macs" its section of that
\* name and "vmMacs" the key of that name of each VM.
Document == [name : Name, networks : SUBSET Net, vlan : [Net -> Nat], vms : Seq(VM),
             interfaces : [VM -> Seq(Net)], cpu : [VM -> Nat], memory_mb : [VM -> Nat],
             gpu : SUBSET VM, placement : [VM -> Host \cup {NoHost}],
             macs : [VM -> Seq(Mac) \cup {NoMacs}], vmMacs : [VM -> Seq(Mac) \cup {NoMacs}]]

ASSUME FileAssumption ==
    /\ FileOrder \in Seq(VM) \ {<<>>} /\ SpareVm \in VM \ Range(FileOrder)
    /\ NetOrder \in Seq(Net) /\ HostOrder \in Seq(Host)
    /\ \A i, j \in DOMAIN NetOrder : NetOrder[i] = NetOrder[j] => i = j
    /\ VlanOf \in [Net -> Nat] /\ Vlans \subseteq Nat
    /\ Cpu \in [VM -> Nat \ {0}] /\ Memory \in [VM -> Nat \ {0}] /\ GpuVms \subseteq VM
    /\ Placeholder \in Nat /\ MacLists \subseteq Seq(Mac)
    /\ NoHost \notin Host /\ NoMacs \notin Seq(Mac) /\ NoDoc \notin Document
    /\ MaxEdits \in Nat /\ MaxRuns \in Nat

\* ROLES and NETWORKS are small, and the VLAN ids of NETWORKS differ in the octet that
\* tells gateways apart.
ASSUME GeneratorAssumption ==
    /\ NetOrder # <<>>
    /\ Cardinality(Range(FileOrder)) <= Octets
    /\ \A a, b \in Range(NetOrder) : GatewayOctet(VlanOf[a]) = GatewayOctet(VlanOf[b]) => a = b

VARIABLES
    hosts,      \* hosts.yaml
    stage,      \* the generator: "placing", "written" or, without a host for a VM, "stuck"
    plan,       \* VM -> the host it has placed it on
    remaining,  \* host -> what is left of its capacity
    doc,        \* the mission file
    edited,     \* whether file or hosts.yaml were edited since the file was written
    reply,      \* the answer to the last POST of the file as it is
    state,      \* mission name -> "absent", "accepted", "networked", "deployed", "error"
    spec,       \* mission name -> the specification stored for it
    pristine,   \* mission name -> whether its file was as the generator wrote it
    assigned,   \* mission name -> VM -> addresses of its interfaces
    switches,   \* names of logical switches
    ports,      \* rows of Logical_Switch_Port: [name, switch, mac]
    routerPorts,\* rows of Logical_Router_Port: [name, router, mac, gateway]
    edits, runs \* counters of the bounded events

generator == <<stage, plan, remaining, runs>>
file == <<hosts, doc, edited, edits, reply>>
missions == <<state, spec, pristine, assigned>>
ovn == <<switches, ports, routerPorts>>
vars == <<generator, file, missions, ovn>>

TypeOK ==
    /\ hosts \in Inventories
    /\ stage \in {"placing", "written", "stuck"}
    /\ plan \in [VM -> Host \cup {NoHost}]
    /\ \E H \in SUBSET Host : remaining \in [H -> Capacity]
    /\ doc \in Document \cup {NoDoc}
    /\ edited \in BOOLEAN /\ reply \in {"none", "accepted", "refused"}
    /\ state \in [Name -> {"absent", "accepted", "networked", "deployed", "error"}]
    /\ spec \in [Name -> Document \cup {NoDoc}]
    /\ pristine \in [Name -> BOOLEAN]
    /\ assigned \in [Name -> [VM -> Seq(Mac)]]
    /\ switches \subseteq Text
    /\ ports \subseteq [name : Text, switch : Text, mac : Mac]
    /\ routerPorts \subseteq [name : Text, router : Text, mac : Mac, gateway : Nat]
    /\ edits \in Nat /\ runs \in Nat

----------------------------------------------------------------------------
(* tools/generate_mission.py                                                *)

NameBefore(v, w) == Rank[v] < Rank[w]

\* Most CPUs first; sorted() is stable, so ties stay in file order.
LargerOrEarlier(v, w) ==
    LET place(u) == CHOOSE i \in DOMAIN FileOrder : FileOrder[i] = u
    IN  \/ Cpu[v] > Cpu[w]
        \/ Cpu[v] = Cpu[w] /\ place(v) < place(w)

\* The GPU VMs, then the others.
PlacedBefore(v, w) ==
    \/ v \in GpuVms /\ w \notin GpuVms
    \/ v \in GpuVms /\ w \in GpuVms /\ NameBefore(v, w)
    \/ v \notin GpuVms /\ w \notin GpuVms /\ LargerOrEarlier(v, w)

\* build_arbitrary_macs: one octet for the place among the sorted names, one for the
\* interface.
PlaceholderMacs ==
    [v \in VM |-> IF v \in Range(FileOrder)
                    THEN [i \in DOMAIN NetOrder |->
                            <<Placeholder, VmIndex(Range(FileOrder), v), i - 1>>]
                    ELSE NoMacs]

\* The document of a run that has placed nothing yet; the name is MISSION_NAME.
FreshDocument(n) ==
    [name |-> n, networks |-> Range(NetOrder), vlan |-> VlanOf, vms |-> FileOrder,
     interfaces |-> [v \in VM |-> NetOrder], cpu |-> Cpu, memory_mb |-> Memory,
     gpu |-> GpuVms, placement |-> [v \in VM |-> NoHost], macs |-> PlaceholderMacs,
     vmMacs |-> [v \in VM |-> NoMacs]]

Fits(v, h) ==
    /\ remaining[h].cpus >= Cpu[v]
    /\ remaining[h].memory_mb >= Memory[v]
    /\ v \in GpuVms => remaining[h].gpus >= 1

\* max() over the candidates by remaining CPUs takes the first of the largest.
Chosen(v, h) ==
    LET candidates == {g \in DOMAIN remaining : Fits(v, g)}
        place(g) == CHOOSE i \in DOMAIN HostOrder : HostOrder[i] = g
    IN  /\ h \in candidates
        /\ \A g \in candidates :
              \/ remaining[g].cpus < remaining[h].cpus
              \/ remaining[g].cpus = remaining[h].cpus /\ place(h) <= place(g)

\* A variant that takes a GPU for every VM.
TakeGpuAlways(capacity, v) ==
    [cpus |-> capacity.cpus - Cpu[v], memory_mb |-> capacity.memory_mb - Memory[v],
     gpus |-> capacity.gpus - 1]

\* A variant that does not count memory.
TakeNoMemory(capacity, v) ==
    [cpus |-> capacity.cpus - Cpu[v], memory_mb |-> capacity.memory_mb,
     gpus |-> capacity.gpus - (IF v \in GpuVms THEN 1 ELSE 0)]

Take(capacity, v) ==
    [cpus |-> capacity.cpus - Cpu[v], memory_mb |-> capacity.memory_mb - Memory[v],
     gpus |-> capacity.gpus - (IF v \in GpuVms THEN 1 ELSE 0)]

Init ==
    /\ hosts \in Inventories
    /\ stage = "placing" /\ plan = [v \in VM |-> NoHost] /\ remaining = hosts
    /\ doc = NoDoc /\ edited = FALSE /\ reply = "none"
    /\ state = [n \in Name |-> "absent"]
    /\ spec = [n \in Name |-> NoDoc]
    /\ pristine = [n \in Name |-> FALSE]
    /\ assigned = [n \in Name |-> [v \in VM |-> <<>>]]
    /\ switches = {} /\ ports = {} /\ routerPorts = {}
    /\ edits = 0 /\ runs = 1

Unplaced == {v \in Range(FileOrder) : plan[v] = NoHost}

\* The loop takes the VMs in their order.
IsNext(v) == v \in Unplaced /\ \A w \in Unplaced \ {v} : PlacedBefore(v, w)

\* The next VM is placed on the chosen host; placing the last one is followed by writing
\* the file, over whatever it held. The operator is asked nothing.
PlaceVm ==
    /\ stage = "placing"
    /\ \E v \in Unplaced, h \in DOMAIN remaining :
          /\ IsNext(v) /\ Chosen(v, h)
          /\ plan' = [plan EXCEPT ![v] = h]
          /\ remaining' = [remaining EXCEPT ![h] = Take(@, v)]
    /\ IF Unplaced' # {}
         THEN UNCHANGED <<stage, file>>
         ELSE \E n \in Name :
                /\ stage' = "written"
                /\ doc' = [FreshDocument(n) EXCEPT !.placement = plan']
                /\ edited' = FALSE /\ reply' = "none"
                /\ UNCHANGED <<hosts, edits>>
    /\ UNCHANGED <<runs, missions, ovn>>

\* RuntimeError: no host fits the next VM. The file stays as it is.
NoFeasibleHost ==
    /\ stage = "placing"
    /\ \E v \in Unplaced : IsNext(v) /\ ~\E h \in DOMAIN remaining : Fits(v, h)
    /\ stage' = "stuck"
    /\ UNCHANGED <<plan, remaining, runs, file, missions, ovn>>

\* The generator is run again, with hosts.yaml as it is now.
RunGenerator ==
    /\ stage # "placing"
    /\ runs < MaxRuns /\ runs' = runs + 1
    /\ stage' = "placing"
    /\ plan' = [v \in VM |-> NoHost]
    /\ remaining' = hosts
    /\ UNCHANGED <<file, missions, ovn>>

----------------------------------------------------------------------------
(* The operator edits mission file and inventory, between runs of the       *)
(* generator, which takes a moment.                                         *)

Edit(d) ==
    /\ stage # "placing" /\ doc # NoDoc
    /\ d # doc
    /\ edits < MaxEdits /\ edits' = edits + 1
    /\ doc' = d
    /\ edited' = TRUE /\ reply' = "none"
    /\ UNCHANGED <<hosts, generator, missions, ovn>>

\* The section of placeholder addresses is left out, or some of them replaced.
DropMacs == Edit([doc EXCEPT !.macs = [v \in VM |-> NoMacs]])

ListMacs(v, list) == Edit([doc EXCEPT !.macs[v] = list])

ListVmMacs(v, list) == Edit([doc EXCEPT !.vmMacs[v] = list])

MoveVm(v, h) == Edit([doc EXCEPT !.placement[v] = h])

AddSpareVm(h) ==
    /\ SpareVm \notin VmSet(doc)
    /\ Edit([doc EXCEPT !.vms = Append(@, SpareVm), !.placement[SpareVm] = h])

DropVm(i) == Edit([doc EXCEPT !.vms = RemoveAt(@, i)])

DropInterface(v) ==
    /\ doc.interfaces[v] # <<>>
    /\ Edit([doc EXCEPT !.interfaces[v] = Front(@)])

DropNetwork(net) == Edit([doc EXCEPT !.networks = @ \ {net}])

SetVlan(net, vlan) == Edit([doc EXCEPT !.vlan[net] = vlan])

EditHosts ==
    /\ stage # "placing"
    /\ edits < MaxEdits /\ edits' = edits + 1
    /\ hosts' \in Inventories \ {hosts}
    /\ edited' = TRUE /\ reply' = "none"
    /\ UNCHANGED <<doc, generator, missions, ovn>>

OperatorEdits ==
    \/ DropMacs
    \/ \E v \in VmSet(doc), list \in MacLists : ListMacs(v, list) \/ ListVmMacs(v, list)
    \/ \E v \in VmSet(doc), h \in Host \cup {NoHost} : MoveVm(v, h)
    \/ \E h \in Host : AddSpareVm(h)
    \/ \E i \in DOMAIN doc.vms : DropVm(i)
    \/ \E v \in VmSet(doc) : DropInterface(v)
    \/ \E net \in doc.networks : DropNetwork(net) \/ \E vlan \in Vlans : SetVlan(net, vlan)

----------------------------------------------------------------------------
(* POST /missions: api/models.py, core/types.py, services/missions.py       *)

\* VMSpec.__post_init__, given the addresses that are passed to it. Types, images and
\* amounts are those of ROLES, which are in order.
VmOK(d, v, macs) ==
    /\ d.interfaces[v] # <<>>
    /\ macs # NoMacs => Len(macs) = Len(d.interfaces[v])

\* MissionSpec.__post_init__
MissionOK(d) ==
    /\ {v \in VM : d.placement[v] # NoHost} = VmSet(d)
    /\ \A v \in VmSet(d) : Range(d.interfaces[v]) \subseteq d.networks

\* MissionDefinition.to_core checks each VM with the addresses it lists itself, and
\* takes those of the mission's section, where it has none, after that.
ApiAccepts(d) == (\A v \in VmSet(d) : VmOK(d, v, d.vmMacs[v])) /\ MissionOK(d)

ListOrNone(macs) == IF macs = NoMacs THEN <<>> ELSE macs

\* A variant that forgets the mission's section.
ToCoreVmOnly(d) == [d EXCEPT !.macs = [v \in VM |-> ListOrNone(d.vmMacs[v])]]

ToCore(d) ==
    [d EXCEPT !.macs = [v \in VM |-> IF d.vmMacs[v] # NoMacs
                                       THEN d.vmMacs[v] ELSE ListOrNone(d.macs[v])]]

\* mission_spec_from_dict, behind load_mission_yaml, which the tests use: it passes the
\* mission's section to each VM and ignores what a VM lists itself.
LoaderAccepts(d) == (\A v \in VmSet(d) : VmOK(d, v, d.macs[v])) /\ MissionOK(d)

FromDict(d) == [d EXCEPT !.macs = [v \in VM |-> ListOrNone(d.macs[v])]]

\* create_mission. A file whose mission is in the store already is not posted again.
Post ==
    /\ doc # NoDoc /\ state[doc.name] = "absent"
    /\ IF ApiAccepts(doc) /\ Feasible(ToCore(doc), hosts)
         THEN /\ reply' = "accepted"
              /\ state' = [state EXCEPT ![doc.name] = "accepted"]
              /\ spec' = [spec EXCEPT ![doc.name] = ToCore(doc)]
              /\ pristine' = [pristine EXCEPT ![doc.name] = ~edited]
         ELSE reply' = "refused" /\ UNCHANGED <<state, spec, pristine>>
    /\ UNCHANGED <<hosts, doc, edited, edits, generator, assigned, ovn>>

Rename(n) ==
    /\ stage # "placing" /\ doc # NoDoc /\ n # doc.name
    /\ doc' = [doc EXCEPT !.name = n] /\ reply' = "none"
    /\ UNCHANGED <<hosts, edited, edits, generator, missions, ovn>>

----------------------------------------------------------------------------
(* services/networking.py                                                   *)

SwitchesOf(n) == {SwitchName(n, net) : net \in spec[n].networks}

PeerRows(n) == {[name |-> PeerPortName(n, net), switch |-> SwitchName(n, net), mac |-> <<>>] :
                    net \in spec[n].networks}

RouterRows(n) ==
    {[name |-> RouterPortName(n, net), router |-> RouterName(n), mac |-> RouterMac(n, net),
      gateway |-> GatewayOctet(spec[n].vlan[net])] : net \in spec[n].networks}

\* provision_networks. An existing switch or port is taken as it is.
ProvisionNetworks(n) ==
    /\ state[n] = "accepted"
    /\ state' = [state EXCEPT ![n] = "networked"]
    /\ switches' = switches \cup SwitchesOf(n)
    /\ ports' = ports \cup PeerRows(n)
    /\ routerPorts' = routerPorts \cup RouterRows(n)
    /\ UNCHANGED <<generator, file, spec, pristine, assigned>>

VmRows(n, macs) ==
    UNION {{[name |-> PortName(n, v, spec[n].interfaces[v][i]),
             switch |-> SwitchName(n, spec[n].interfaces[v][i]), mac |-> macs[v][i]] :
               i \in DOMAIN spec[n].interfaces[v]} : v \in VmSet(spec[n])}

\* add_vm_ports: when addresses cannot be assigned it raises before it adds a port. The
\* address of a port that exists is replaced.
AddVmPorts(n) ==
    /\ state[n] = "networked"
    /\ LET vms == VmSet(spec[n])
           interfaces == spec[n].interfaces
           macs == AssignMacs(n, vms, interfaces, spec[n].macs)
           rows == VmRows(n, macs)
       IN  IF Assignable(vms, interfaces, spec[n].macs)
             THEN /\ assigned' = [assigned EXCEPT ![n] = macs]
                  /\ ports' = {r \in ports : \A new \in rows : r.name # new.name} \cup rows
                  /\ state' = [state EXCEPT ![n] = "deployed"]
             ELSE /\ state' = [state EXCEPT ![n] = "error"]
                  /\ UNCHANGED <<assigned, ports>>
    /\ UNCHANGED <<generator, file, spec, pristine, switches, routerPorts>>

\* teardown_mission_networking: ports by name, then switches and the router, with all that
\* hangs on them.
PortsOf(n) == UNION {{PortName(n, v, net) : net \in Range(spec[n].interfaces[v])} :
                        v \in VmSet(spec[n])}

TeardownNetworking(n) ==
    /\ state[n] \notin {"absent", "accepted"}
    /\ state' = [state EXCEPT ![n] = "absent"]
    /\ ports' = {r \in ports : r.name \notin PortsOf(n) /\ r.switch \notin SwitchesOf(n)}
    /\ switches' = switches \ SwitchesOf(n)
    /\ routerPorts' = {r \in routerPorts : r.router # RouterName(n)}
    /\ spec' = [spec EXCEPT ![n] = NoDoc]
    /\ pristine' = [pristine EXCEPT ![n] = FALSE]
    /\ assigned' = [assigned EXCEPT ![n] = [v \in VM |-> <<>>]]
    /\ UNCHANGED <<generator, file>>

----------------------------------------------------------------------------
Generator == PlaceVm \/ NoFeasibleHost \/ RunGenerator

Service == \E n \in Name : ProvisionNetworks(n) \/ AddVmPorts(n) \/ TeardownNetworking(n)

Next == \/ Generator \/ EditHosts \/ Post \/ Service
        \/ \E n \in Name : Rename(n)
        \/ doc # NoDoc /\ OperatorEdits

Spec == Init /\ [][Next]_vars
==============================================================================
