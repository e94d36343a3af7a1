-------------------------------- MODULE Naming --------------------------------
(***************************************************************************)
(* The names and addresses that management/core/xml_render.py,             *)
(* management/core/macs.py and management/services/networking.py derive    *)
(* from a mission.                                                         *)
(*                                                                         *)
(* A name is the sequence of the pieces its text has between the dashes,   *)
(* so that joining names with "-" is concatenation: "Mission-Alpha" is     *)
(* <<"Mission", "Alpha">>. An Ethernet address is the sequence of the      *)
(* octets after the prefix 52:54:00 that all of them share.                *)
(***************************************************************************)
EXTENDS Naturals, Sequences, FiniteSets

CONSTANTS
    Piece,         \* the texts between dashes
    Name,          \* mission names
    VM,            \* VM names
    Net,           \* network names
    Rank,          \* VM -> its place in the order sorted() gives to texts
    Octets,        \* the number of values of an octet (256; small in runs)
    MissionOctet,  \* mission name -> first octet of its SHA-256 digest
    RouterHash     \* mission name -> network -> first two octets of the digest of both

ASSUME NamesAssumption == Name \cup VM \cup Net \subseteq Seq(Piece)

\* VM and network names hold no dash (mission names may), and no VM is called "rp".
ASSUME DashFree == /\ \A x \in VM \cup Net : Len(x) = 1
                   /\ <<"rp">> \notin VM

ASSUME RankAssumption ==
    /\ Rank \in [VM -> Nat]
    /\ \A v, w \in VM : Rank[v] = Rank[w] => v = w

ASSUME OctetAssumption == /\ Octets \in Nat \ {0}
                          /\ MissionOctet \in [Name -> 0 .. (Octets - 1)]
                          /\ RouterHash \in [Name -> [Net -> (0 .. (Octets - 1)) \X
                                                            (0 .. (Octets - 1))]]

----------------------------------------------------------------------------
(* Names of OVN objects.                                                    *)

Text == Seq(Piece \cup {"rp", "sw", "router"})

SwitchName(n, net) == n \o net
RouterName(n) == n \o <<"router">>
RouterPortName(n, net) == n \o net \o <<"rp">>
PeerPortName(n, net) == RouterPortName(n, net) \o <<"sw">>

\* The convention a comment of templates/vm.xml.j2 still describes: not scoped.
PortNameUnscoped(n, v, net) == v \o net

PortName(n, v, net) == n \o v \o net

\* The octet in which the gateways of two networks may differ: 10.<octet>.0.1/24.
GatewayOctet(vlan) == vlan % Octets

\* _router_port_mac: the marker octet 0xff, then a hash.
RouterMac(n, net) == <<Octets - 1, RouterHash[n][net][1], RouterHash[n][net][2]>>

----------------------------------------------------------------------------
(* Ethernet addresses. "vms" is the set of VM names of a mission.           *)

Mac == Seq(Nat)

\* A variant with one hash bucket for two neighbours in the order.
VmIndexHashed(vms, v) == Cardinality({w \in vms : Rank[w] < Rank[v]}) \div 2

\* compute_vm_indices: the position of v among the sorted names.
VmIndex(vms, v) == Cardinality({w \in vms : Rank[w] < Rank[v]})

\* The addresses generate_mac makes for the k interfaces of v.
FallbackMacs(n, vms, v, k) ==
    [i \in 1 .. k |-> <<MissionOctet[n], VmIndex(vms, v), i - 1>>]

\* assign_all_macs, called with the VMs that have a non-empty list as overrides. It
\* raises when a list does not fit the interfaces or an index does not fit an octet.
Assignable(vms, interfaces, macs) ==
    /\ Cardinality(vms) <= Octets
    /\ \A v \in vms : IF macs[v] # <<>> THEN Len(macs[v]) = Len(interfaces[v])
                                        ELSE Len(interfaces[v]) <= Octets

AssignMacs(n, vms, interfaces, macs) ==
    [v \in VM |-> IF v \notin vms THEN <<>>
                  ELSE IF macs[v] # <<>> THEN macs[v]
                  ELSE FallbackMacs(n, vms, v, Len(interfaces[v]))]
==============================================================================
