--------------------------- MODULE MCMissionFile ---------------------------
(***************************************************************************)
(* An instance of MissionFile for TLC.                                     *)
(***************************************************************************)
EXTENDS MissionFileProperties, TLC

CONSTANTS mission, alpha, bravo, db, gpu, app, web, control, storage, h1, h2, h3

\* "Mission-Alpha" and "Mission-Bravo".
Names == {<<mission, alpha>>, <<mission, bravo>>}

Vms == {<<db>>, <<gpu>>, <<app>>, <<web>>}

Nets == {<<control>>, <<storage>>}

Pieces == {mission, alpha, bravo, db, gpu, app, web, control, storage, "rp", "sw"}

\* app, db, gpu, web: not the order of the file.
Ranks == [v \in Vms |-> CASE v = <<app>> -> 1 [] v = <<db>> -> 2
                          [] v = <<gpu>> -> 3 [] OTHER -> 4]

RoleOrder == << <<db>>, <<app>>, <<gpu>> >>

Networks == << <<control>>, <<storage>> >>

Spare == <<web>>

Cpus == [v \in Vms |-> IF v = <<app>> THEN 2 ELSE 1]
Memories == [v \in Vms |-> 1]
Gpus == {<<gpu>>}

Hosts == {h1, h2, h3}
Order == <<h1, h2>>

Hw(c, m, g) == [cpus |-> c, memory_mb |-> m, gpus |-> g]

\* Room for all, exactly enough in one way, and too little on any host for the last VM.
HostFiles == {h1 :> Hw(4, 4, 1) @@ h2 :> Hw(4, 4, 0),
              h1 :> Hw(3, 2, 0) @@ h2 :> Hw(1, 1, 1),
              h1 :> Hw(3, 1, 0) @@ h2 :> Hw(1, 1, 1)}

\* Two missions whose names hash to the same octet.
SameOctet == [n \in Names |-> 1]

\* What the hashes of router ports are makes no difference.
RouterHashes == [n \in Names |-> [net \in Nets |-> <<0, 1>>]]

VlanIds == [net \in Nets |-> IF net = <<control>> THEN 100 ELSE 110]

\* One address, which the fallback may make too: too few for a VM as generated.
Lists == {<< <<1, 0, 1>> >>}

\* The two names are treated alike.
SwapNames == Permutations({alpha, bravo})
=============================================================================
