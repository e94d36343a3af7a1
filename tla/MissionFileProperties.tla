--------------------------- MODULE MissionFileProperties ---------------------------
(***************************************************************************)
(* What holds between a mission file, the specification made of it and the *)
(* names and addresses derived from that.                                  *)
(***************************************************************************)
EXTENDS MissionFile

Deployed(n) == state[n] = "deployed"

\* The gateways of a mission's router are in subnets of their own.
SubnetsApart(n) ==
    \A r, s \in routerPorts :
        r.router = RouterName(n) /\ s.router = RouterName(n) /\ r.gateway = s.gateway => r = s

\* A file the generator wrote, and nobody edited, is accepted for the hosts it was
\* generated for, its addresses can be assigned, and its networks get subnets of their own:
\* greedy_place (placement.py 92-124) counts down to what validate_placement (55-89) adds
\* up, the generator's addresses fit the checks of types.py and macs.py, and its VLAN ids
\* differ in networking.py's octet. Renaming the mission is no edit in this sense.
GeneratedDeploys ==
    /\ reply = "refused" => edited
    /\ \A n \in Name : pristine[n] =>
          /\ state[n] # "error"
          /\ SubnetsApart(n)

\* Two interfaces of VMs of a deployed mission without addresses of their own never get
\* the same address, whatever VMs and interfaces edits have added or dropped
\* (macs.py 27-34: "guarantees zero collisions").
Fallback(n) == {v \in VmSet(spec[n]) : spec[n].macs[v] = <<>>}

FallbackDistinct ==
    \A n \in Name : Deployed(n) =>
        \A v, w \in Fallback(n) :
            \A i \in DOMAIN assigned[n][v], j \in DOMAIN assigned[n][w] :
                assigned[n][v][i] = assigned[n][w][j] => v = w /\ i = j

\* The OVN port that an interface of a domain names carries the address of that very
\* interface, and lies on the switch of its mission's network, whatever missions with the
\* same VM and network names are deployed and torn down beside it (macs.py 100-105;
\* networking.py 13-16: "so multiple missions can safely coexist").
PinnedAddresses ==
    \A n \in Name : Deployed(n) =>
        \A v \in VmSet(spec[n]) : \A i \in DOMAIN spec[n].interfaces[v] :
            LET net == spec[n].interfaces[v][i]
            IN  /\ SwitchName(n, net) \in switches
                /\ \A r \in ports : r.name = PortName(n, v, net) =>
                      r.switch = SwitchName(n, net) /\ r.mac = assigned[n][v][i]
                /\ \E r \in ports : r.name = PortName(n, v, net)

\* What the file loader of the tests accepts, POST accepts as the same specification, as
\* long as the file lists addresses in its own section only ("validation logic ... lives
\* once", api/models.py 21-25). The converse does not hold.
LoadersAgree ==
    (doc # NoDoc /\ \A v \in VM : doc.vmMacs[v] = NoMacs) =>
        (LoaderAccepts(doc) => ApiAccepts(doc) /\ ToCore(doc) = FromDict(doc))

\* A mission that POST accepts does not fail for its own specification: its addresses can be
\* assigned (missions.py 81-83: "instead of accepting work that can never succeed").
AcceptedCanSucceed ==
    \A n \in Name : state[n] # "absent" =>
        Assignable(VmSet(spec[n]), spec[n].interfaces, spec[n].macs)
=============================================================================
