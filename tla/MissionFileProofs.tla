-------------------------- MODULE MissionFileProofs --------------------------
(***************************************************************************)
(* What holds of addresses and names for any generator input, any edits,   *)
(* and any number of missions, VMs and networks.                           *)
(***************************************************************************)
EXTENDS MissionFileProperties, FiniteSetTheorems, SequenceTheorems, TLAPS

----------------------------------------------------------------------------
(* Joined names and the fallback for a repeated address.                     *)

\* Names and the two prefixes are texts.
LEMMA NamesAreTexts ==
    /\ Name \subseteq Text /\ VM \subseteq Text /\ Net \subseteq Text
    /\ <<"rp">> \in Text /\ <<"sw">> \in Text
  <1>1. ASSUME NEW s \in Seq(Piece)
        PROVE  s \in Text
    BY <1>1, SeqMonotonic DEF Text
  <1>2. <<"rp">> \in Text /\ <<"sw">> \in Text
    BY DEF Text
  <1> QED BY <1>1, <1>2, NamesAssumption

\* Two names with as many dashes.
SameDashes(x, y) == Len(x) = Len(y)

\* Joined names whose last parts have as many dashes are equal only part by part.
LEMMA LastPieces ==
    ASSUME NEW a \in Text, NEW b \in Text, NEW x \in Text, NEW y \in Text,
           SameDashes(x, y), a \o x = b \o y
    PROVE  a = b /\ x = y
  <1> DEFINE S == Piece \cup {"rp", "sw", "router"}
  <1>1. a \in Seq(S) /\ b \in Seq(S) /\ x \in Seq(S) /\ y \in Seq(S)
    BY DEF Text
  <1> HIDE DEF S
  <1>2. Len(a) \in Nat /\ Len(b) \in Nat /\ Len(x) \in Nat /\ Len(x) = Len(y)
    BY <1>1, LenProperties DEF SameDashes
  <1>3. /\ Len(a \o x) = Len(a) + Len(x)
        /\ \A i \in 1 .. Len(a) + Len(x) :
              (a \o x)[i] = IF i <= Len(a) THEN a[i] ELSE x[i - Len(a)]
    BY <1>1, ConcatProperties
  <1>4. /\ Len(b \o y) = Len(b) + Len(y)
        /\ \A i \in 1 .. Len(b) + Len(y) :
              (b \o y)[i] = IF i <= Len(b) THEN b[i] ELSE y[i - Len(b)]
    BY <1>1, ConcatProperties
  <1>5. Len(a) = Len(b)
    BY <1>2, <1>3, <1>4
  <1>6. \A i \in 1 .. Len(a) : a[i] = b[i]
    BY <1>2, <1>3, <1>4, <1>5
  <1>7. ASSUME NEW i \in 1 .. Len(x)
        PROVE  x[i] = y[i]
    <2>1. Len(a) + i \in 1 .. Len(a) + Len(x) /\ ~(Len(a) + i <= Len(a))
            /\ (Len(a) + i) - Len(a) = i
      BY <1>2
    <2>2. (a \o x)[Len(a) + i] = x[i]
      BY <1>3, <2>1
    <2>3. (b \o y)[Len(a) + i] = y[i]
      BY <1>4, <1>5, <2>1
    <2> QED BY <2>2, <2>3
  <1>8. a = b
    BY <1>1, <1>5, <1>6, SeqEqual
  <1>9. x = y
    BY <1>1, <1>2, <1>7, SeqEqual
  <1> QED BY <1>8, <1>9

\* Names that are joined are texts again.
LEMMA JoinedNamesAreTexts ==
    ASSUME NEW n \in Name, NEW v \in VM, NEW net \in Net
    PROVE  /\ n \o v \in Text /\ n \o net \in Text /\ RouterPortName(n, net) \in Text
           /\ PortName(n, v, net) \in Text /\ SwitchName(n, net) \in Text
           /\ PeerPortName(n, net) \in Text
  BY NamesAreTexts, ConcatProperties
     DEF Text, RouterPortName, PortName, SwitchName, PeerPortName

\* Whatever names missions, VMs and networks have, dashes included: two ports can have one
\* name only if their VMs, or their networks, have different numbers of dashes
\* (xml_render.py 66-69: "must not produce the same port name").
THEOREM PortNamesDistinct ==
    ASSUME NEW n \in Seq(Piece), NEW k \in Seq(Piece), NEW v \in Seq(Piece),
           NEW w \in Seq(Piece), NEW a \in Seq(Piece), NEW b \in Seq(Piece),
           SameDashes(v, w), SameDashes(a, b), PortName(n, v, a) = PortName(k, w, b)
    PROVE  n = k /\ v = w /\ a = b
  <1>1. /\ n \in Text /\ k \in Text /\ v \in Text /\ w \in Text /\ a \in Text /\ b \in Text
        /\ n \o v \in Text /\ k \o w \in Text
    BY SeqMonotonic, ConcatProperties DEF Text
  <1>2. (n \o v) \o a = (k \o w) \o b
    BY <1>1, ConcatAssociative DEF PortName, Text
  <1>3. n \o v = k \o w /\ a = b
    <2> DEFINE p == n \o v
               q == k \o w
    <2>1. /\ p \in Text /\ q \in Text /\ a \in Text /\ b \in Text
          /\ SameDashes(a, b) /\ p \o a = q \o b
      BY <1>1, <1>2
    <2> HIDE DEF p, q
    <2>2. p = q /\ a = b
      BY <2>1, LastPieces
    <2> QED BY <2>2 DEF p, q
  <1>4. n = k /\ v = w
    BY <1>1, <1>3, LastPieces
  <1> QED BY <1>3, <1>4

\* And then they can, for any names and any piece x: the ports of VM "v-x" on network "a" and
\* of VM "v" on network "x-a" of one mission; the ports of VM "v" of mission "n-x" and of VM
\* "x-v" of mission "n"; the switches of network "a" of mission "n-x" and of network "x-a" of
\* mission "n" (switch_name and port_name). Nothing in the code refuses such names.
THEOREM DashedNamesCollide ==
    ASSUME NEW n \in Seq(Piece), NEW v \in Seq(Piece), NEW a \in Seq(Piece), NEW x \in Piece
    PROVE  /\ v \o <<x>> # v /\ n \o <<x>> # n
           /\ PortName(n, v \o <<x>>, a) = PortName(n, v, <<x>> \o a)
           /\ PortName(n \o <<x>>, v, a) = PortName(n, <<x>> \o v, a)
           /\ SwitchName(n \o <<x>>, a) = SwitchName(n, <<x>> \o a)
  <1>1. <<x>> \in Seq(Piece) /\ Len(<<x>>) = 1
    OBVIOUS
  <1>2. ASSUME NEW s \in Seq(Piece)
        PROVE  s \o <<x>> # s
    <2>1. Len(s \o <<x>>) = Len(s) + 1 /\ Len(s) \in Nat
      BY <1>1, ConcatProperties, LenProperties
    <2> QED BY <2>1
  <1>3. ASSUME NEW s \in Seq(Piece), NEW t \in Seq(Piece)
        PROVE  (s \o <<x>>) \o t = s \o (<<x>> \o t)
    BY <1>1, ConcatAssociative
  <1>4. PortName(n, v \o <<x>>, a) = PortName(n, v, <<x>> \o a)
    <2>1. n \o v \in Seq(Piece)
      BY ConcatProperties
    <2>2. n \o (v \o <<x>>) = (n \o v) \o <<x>>
      BY <1>1, ConcatAssociative
    <2>3. ((n \o v) \o <<x>>) \o a = (n \o v) \o (<<x>> \o a)
      BY <1>3, <2>1
    <2> QED BY <2>2, <2>3 DEF PortName
  <1>5. PortName(n \o <<x>>, v, a) = PortName(n, <<x>> \o v, a)
    BY <1>3 DEF PortName
  <1> QED BY <1>2, <1>3, <1>4, <1>5 DEF SwitchName

\* Under DashFree, two missions or two networks never share a switch (xml_render.py 39-47:
\* "two distinct switches").
LEMMA SwitchNamesDistinct ==
    ASSUME NEW n \in Name, NEW k \in Name, NEW a \in Net, NEW b \in Net,
           SwitchName(n, a) = SwitchName(k, b)
    PROVE  n = k /\ a = b
  <1>1. n \in Text /\ k \in Text /\ a \in Text /\ b \in Text /\ SameDashes(a, b)
    BY NamesAreTexts, DashFree DEF SameDashes
  <1>2. n \o a = k \o b
    BY DEF SwitchName
  <1> QED BY <1>1, <1>2, LastPieces

\* Under DashFree, two missions, VMs or networks never share a port.
LEMMA DashFreePortsDistinct ==
    ASSUME NEW n \in Name, NEW k \in Name, NEW v \in VM, NEW w \in VM,
           NEW a \in Net, NEW b \in Net, PortName(n, v, a) = PortName(k, w, b)
    PROVE  n = k /\ v = w /\ a = b
  <1>1. SameDashes(v, w) /\ SameDashes(a, b)
    BY DashFree DEF SameDashes
  <1>2. /\ n \in Seq(Piece) /\ k \in Seq(Piece) /\ v \in Seq(Piece) /\ w \in Seq(Piece)
        /\ a \in Seq(Piece) /\ b \in Seq(Piece)
    BY NamesAssumption
  <1> QED BY <1>1, <1>2, PortNamesDistinct

\* Under DashFree, no port of a VM has the name of the port that ties a switch to a router.
LEMMA PeersAreNoVmPorts ==
    ASSUME NEW n \in Name, NEW k \in Name, NEW v \in VM, NEW a \in Net, NEW b \in Net
    PROVE  PortName(n, v, a) # PeerPortName(k, b)
  <1> SUFFICES ASSUME PortName(n, v, a) = PeerPortName(k, b)
               PROVE  FALSE
    OBVIOUS
  <1>1. SameDashes(v, <<"rp">>) /\ SameDashes(a, <<"sw">>)
    <2>1. Len(v) = 1 /\ Len(a) = 1 /\ Len(<<"rp">>) = 1 /\ Len(<<"sw">>) = 1
      BY DashFree
    <2> QED BY <2>1 DEF SameDashes
  <1>2. PortName(n, v, a) = (n \o v) \o a
    BY NamesAreTexts, ConcatAssociative DEF PortName, Text
  <1>3. RouterPortName(k, b) = (k \o b) \o <<"rp">>
    BY NamesAreTexts, ConcatAssociative DEF RouterPortName, Text
  <1>4. /\ n \in Text /\ v \in Text /\ a \in Text
        /\ n \o v \in Text /\ k \o b \in Text /\ (k \o b) \o <<"rp">> \in Text
        /\ <<"rp">> \in Text /\ <<"sw">> \in Text
    BY <1>3, NamesAreTexts, JoinedNamesAreTexts
  <1>5. (n \o v) \o a = ((k \o b) \o <<"rp">>) \o <<"sw">>
    BY <1>2, <1>3 DEF PeerPortName
  <1>6. n \o v = (k \o b) \o <<"rp">>
    <2> DEFINE p == n \o v
               q == (k \o b) \o <<"rp">>
    <2>1. p \in Text /\ q \in Text /\ p \o a = q \o <<"sw">>
      BY <1>4, <1>5
    <2> HIDE DEF p, q
    <2>2. p = q
      BY <1>1, <1>4, <2>1, LastPieces
    <2> QED BY <2>2 DEF p, q
  <1>7. v = <<"rp">>
    <2> DEFINE kb == k \o b
               rp == <<"rp">>
    <2>1. /\ n \in Text /\ kb \in Text /\ v \in Text /\ rp \in Text
          /\ SameDashes(v, rp) /\ n \o v = kb \o rp
      BY <1>1, <1>4, <1>6
    <2> HIDE DEF kb, rp
    <2>2. v = rp
      BY <2>1, LastPieces
    <2> QED BY <2>2 DEF rp
  <1> QED BY <1>7, DashFree

----------------------------------------------------------------------------
(* Addresses.                                                               *)

\* The position of a VM among its mission's names in sorted order is a number.
LEMMA VmIndexType ==
    ASSUME NEW vms \in SUBSET VM, IsFiniteSet(vms), NEW v
    PROVE  VmIndex(vms, v) \in Nat
  <1>1. IsFiniteSet({w \in vms : Rank[w] < Rank[v]})
    BY FS_Subset
  <1> QED BY <1>1, FS_CardinalityType DEF VmIndex

\* Fewer names stand before the one that is sorted earlier.
LEMMA VmIndexIncreases ==
    ASSUME NEW vms \in SUBSET VM, IsFiniteSet(vms), NEW v \in vms, NEW w \in vms,
           Rank[v] < Rank[w]
    PROVE  VmIndex(vms, v) < VmIndex(vms, w)
  <1> DEFINE A == {u \in vms : Rank[u] < Rank[v]}
             B == {u \in vms : Rank[u] < Rank[w]}
  <1>1. A \subseteq B /\ v \in B /\ v \notin A
    BY RankAssumption
  <1>2. IsFiniteSet(A) /\ IsFiniteSet(B)
    BY FS_Subset
  <1>3. Cardinality(A) \in Nat /\ Cardinality(B) \in Nat
    BY <1>2, FS_CardinalityType
  <1>4. Cardinality(A) <= Cardinality(B) /\ Cardinality(A) # Cardinality(B)
    BY <1>1, <1>2, FS_Subset
  <1> QED BY <1>3, <1>4 DEF VmIndex

\* The index tells the VMs of a mission apart (macs.py 61-67: "guaranteed collision-free").
LEMMA VmIndexInjective ==
    ASSUME NEW vms \in SUBSET VM, IsFiniteSet(vms), NEW v \in vms, NEW w \in vms,
           VmIndex(vms, v) = VmIndex(vms, w)
    PROVE  v = w
  <1>1. VmIndex(vms, v) \in Nat
    BY VmIndexType
  <1>2. ~(Rank[v] < Rank[w]) /\ ~(Rank[w] < Rank[v])
    BY <1>1, VmIndexIncreases
  <1> QED BY <1>2, RankAssumption

\* The addresses of two interfaces of VMs without overrides differ.
THEOREM FallbackInjective ==
    ASSUME NEW n \in Name, NEW vms \in SUBSET VM, IsFiniteSet(vms), NEW interfaces,
           NEW macs, NEW v \in vms, NEW w \in vms, macs[v] = <<>>, macs[w] = <<>>,
           Len(interfaces[v]) \in Nat, Len(interfaces[w]) \in Nat,
           NEW i \in DOMAIN AssignMacs(n, vms, interfaces, macs)[v],
           NEW j \in DOMAIN AssignMacs(n, vms, interfaces, macs)[w],
           AssignMacs(n, vms, interfaces, macs)[v][i] = AssignMacs(n, vms, interfaces, macs)[w][j]
    PROVE  v = w /\ i = j
  <1>1. /\ AssignMacs(n, vms, interfaces, macs)[v]
             = [x \in 1 .. Len(interfaces[v]) |-> <<MissionOctet[n], VmIndex(vms, v), x - 1>>]
        /\ AssignMacs(n, vms, interfaces, macs)[w]
             = [x \in 1 .. Len(interfaces[w]) |-> <<MissionOctet[n], VmIndex(vms, w), x - 1>>]
    BY DEF AssignMacs, FallbackMacs
  <1>2. VmIndex(vms, v) = VmIndex(vms, w) /\ i - 1 = j - 1 /\ i \in Int /\ j \in Int
    BY <1>1
  <1> QED BY <1>2, VmIndexInjective

----------------------------------------------------------------------------
(* Mission files.                                                           *)

\* No VM is on a network twice.
NoRepeats(d) ==
    \A v \in VM : \A i, j \in DOMAIN d.interfaces[v] :
        d.interfaces[v][i] = d.interfaces[v][j] => i = j

FileOK ==
    /\ hosts \in Inventories
    /\ plan \in [VM -> Host \cup {NoHost}]
    /\ DOMAIN remaining \subseteq Host
    /\ doc \in Document \cup {NoDoc}
    /\ doc # NoDoc => NoRepeats(doc)

\* A specification in the store: typed, checked, and with a list of addresses for each VM.
Stored(d) == /\ d \in Document /\ NoRepeats(d) /\ MissionOK(d)
             /\ d.macs \in [VM -> Seq(Mac)]

States == {"absent", "accepted", "networked", "deployed", "error"}

MissionsOK ==
    /\ state \in [Name -> States]
    /\ DOMAIN spec = Name /\ DOMAIN assigned = Name
    /\ \A n \in Name : state[n] # "absent" => Stored(spec[n])

----------------------------------------------------------------------------
(* Documents.                                                               *)

\* What the fields of a mission document are.
LEMMA DocumentFields ==
    ASSUME NEW d \in Document
    PROVE  /\ d.name \in Name /\ d.networks \in SUBSET Net /\ d.vlan \in [Net -> Nat]
           /\ d.vms \in Seq(VM) /\ d.interfaces \in [VM -> Seq(Net)]
           /\ d.placement \in [VM -> Host \cup {NoHost}]
           /\ d.macs \in [VM -> Seq(Mac) \cup {NoMacs}]
           /\ d.vmMacs \in [VM -> Seq(Mac) \cup {NoMacs}]
  BY DEF Document

\* A sequence has finitely many elements.
LEMMA RangeIsFinite ==
    ASSUME NEW S, NEW s \in Seq(S)
    PROVE  IsFiniteSet(Range(s)) /\ Range(s) \subseteq S
  <1>1. s \in [1 .. Len(s) -> S] /\ Len(s) \in Nat
    BY LenProperties
  <1>2. s \in Surjection(1 .. Len(s), Range(s))
    BY <1>1 DEF Range, Surjection
  <1>3. IsFiniteSet(1 .. Len(s))
    BY <1>1, FS_Interval
  <1> QED BY <1>1, <1>2, <1>3, FS_Surjection DEF Range

\* So a document has finitely many VMs.
LEMMA VmSetIsFinite ==
    ASSUME NEW d \in Document
    PROVE  VmSet(d) \in SUBSET VM /\ IsFiniteSet(VmSet(d))
  BY DocumentFields, RangeIsFinite DEF VmSet

\* The placeholder addresses the generator writes are lists of addresses.
LEMMA PlaceholdersAreLists == PlaceholderMacs \in [VM -> Seq(Mac) \cup {NoMacs}]
  <1> SUFFICES ASSUME NEW v \in Range(FileOrder)
               PROVE  [i \in DOMAIN NetOrder |->
                         <<Placeholder, VmIndex(Range(FileOrder), v), i - 1>>] \in Seq(Mac)
    BY DEF PlaceholderMacs
  <1>1. VmIndex(Range(FileOrder), v) \in Nat
    BY RangeIsFinite, FileAssumption, VmIndexType
  <1>2. Len(NetOrder) \in Nat /\ DOMAIN NetOrder = 1 .. Len(NetOrder)
    BY FileAssumption, LenProperties
  <1>3. \A i \in 1 .. Len(NetOrder) :
          <<Placeholder, VmIndex(Range(FileOrder), v), i - 1>> \in Mac
    BY <1>1, FileAssumption DEF Mac
  <1> QED BY <1>2, <1>3

\* What the generator writes is a document, and no VM is on a network twice in it.
LEMMA FreshDocumentFits ==
    ASSUME NEW n \in Name, NEW p \in [VM -> Host \cup {NoHost}]
    PROVE  LET d == [FreshDocument(n) EXCEPT !.placement = p]
           IN  d \in Document /\ NoRepeats(d)
  <1>1. Range(NetOrder) \in SUBSET Net
    BY FileAssumption, RangeIsFinite
  <1>2. /\ VlanOf \in [Net -> Nat] /\ FileOrder \in Seq(VM) /\ NetOrder \in Seq(Net)
        /\ Cpu \in [VM -> Nat] /\ Memory \in [VM -> Nat] /\ GpuVms \in SUBSET VM
    BY FileAssumption
  <1> QED BY <1>1, <1>2, PlaceholdersAreLists, FileAssumption
          DEF FreshDocument, Document, NoRepeats

\* Shortening a list of interfaces keeps it a list without repetitions.
LEMMA FrontFits ==
    ASSUME NEW d \in Document, NoRepeats(d), NEW v \in VM, d.interfaces[v] # <<>>
    PROVE  LET e == [d EXCEPT !.interfaces[v] = Front(@)]
           IN  e \in Document /\ NoRepeats(e)
  <1> DEFINE s == d.interfaces[v]
             e == [d EXCEPT !.interfaces[v] = Front(@)]
  <1>1. s \in Seq(Net) /\ s # <<>>
    BY DocumentFields
  <1>2. Len(s) \in Nat \ {0} /\ DOMAIN s = 1 .. Len(s) /\ \A i \in 1 .. Len(s) : s[i] \in Net
    BY <1>1, LenProperties, EmptySeq
  <1> HIDE DEF s
  <1>3. /\ Front(s) \in Seq(Net)
        /\ Len(Front(s)) = Len(s) - 1
        /\ \A i \in 1 .. Len(s) - 1 : Front(s)[i] = s[i]
    BY <1>2, SubSeqProperties DEF Front
  <1>4. DOMAIN Front(s) = 1 .. Len(s) - 1
    BY <1>3, LenProperties
  <1>5. e.interfaces = [d.interfaces EXCEPT ![v] = Front(s)]
    BY DEF s, Document
  <1>6. \A i, j \in DOMAIN s : s[i] = s[j] => i = j
    BY DEF NoRepeats, s
  <1>7. NoRepeats(e)
    <2> SUFFICES ASSUME NEW u \in VM, NEW i \in DOMAIN e.interfaces[u],
                        NEW j \in DOMAIN e.interfaces[u],
                        e.interfaces[u][i] = e.interfaces[u][j]
                 PROVE  i = j
      BY DEF NoRepeats
    <2>1. CASE u = v
      <3>1. e.interfaces[u] = Front(s)
        BY <1>5, <2>1, DocumentFields
      <3> QED BY <1>2, <1>3, <1>4, <1>6, <3>1
    <2>2. CASE u # v
      <3>1. e.interfaces[u] = d.interfaces[u]
        BY <1>5, <2>2, DocumentFields
      <3> QED BY <3>1 DEF NoRepeats
    <2> QED BY <2>1, <2>2
  <1>8. e \in Document
    BY <1>3 DEF Document, s
  <1> QED BY <1>7, <1>8

\* Removing an element leaves a sequence over the same set.
LEMMA RemoveAtFits ==
    ASSUME NEW S, NEW s \in Seq(S), NEW i \in DOMAIN s
    PROVE  RemoveAt(s, i) \in Seq(S)
  <1>1. /\ Len(s) \in Nat /\ i \in 1 .. Len(s) /\ \A j \in 1 .. Len(s) : s[j] \in S
    BY LenProperties
  <1>2. SubSeq(s, 1, i - 1) \in Seq(S)
    BY <1>1, SubSeqProperties
  <1>3. SubSeq(s, i + 1, Len(s)) \in Seq(S)
    BY <1>1, SubSeqProperties
  <1> QED BY <1>2, <1>3, ConcatProperties DEF RemoveAt

\* Every edit leaves a document of this form.
LEMMA EditsFit ==
    ASSUME FileOK, doc # NoDoc, OperatorEdits
    PROVE  doc' \in Document /\ NoRepeats(doc')
  <1>0. doc \in Document /\ NoRepeats(doc)
    BY DEF FileOK
  <1>V. VmSet(doc) \subseteq VM
    BY <1>0, VmSetIsFinite
  <1>1. CASE DropMacs
    BY <1>0, <1>1 DEF DropMacs, Edit, Document, NoRepeats
  <1>2. ASSUME NEW v \in VmSet(doc), NEW list \in MacLists,
               ListMacs(v, list) \/ ListVmMacs(v, list)
        PROVE  doc' \in Document /\ NoRepeats(doc')
    <2>1. list \in Seq(Mac) /\ v \in VM
      BY <1>V, FileAssumption
    <2>2. doc' \in {[doc EXCEPT !.macs[v] = list], [doc EXCEPT !.vmMacs[v] = list]}
      BY <1>2 DEF ListMacs, ListVmMacs, Edit
    <2>3. /\ [doc.macs EXCEPT ![v] = list] \in [VM -> Seq(Mac) \cup {NoMacs}]
          /\ [doc.vmMacs EXCEPT ![v] = list] \in [VM -> Seq(Mac) \cup {NoMacs}]
      BY <1>0, <2>1, DocumentFields
    <2>4. doc' \in {[doc EXCEPT !.macs = [doc.macs EXCEPT ![v] = list]],
                   [doc EXCEPT !.vmMacs = [doc.vmMacs EXCEPT ![v] = list]]}
      BY <2>2
    <2>5. doc' \in Document
      BY <1>0, <2>3, <2>4 DEF Document
    <2>6. doc'.interfaces = doc.interfaces
      BY <1>0, <2>4 DEF Document
    <2> QED BY <1>0, <2>5, <2>6 DEF NoRepeats
  <1>3. ASSUME NEW v \in VmSet(doc), NEW h \in Host \cup {NoHost}, MoveVm(v, h)
        PROVE  doc' \in Document /\ NoRepeats(doc')
    <2>1. doc' = [doc EXCEPT !.placement[v] = h]
      BY <1>3 DEF MoveVm, Edit
    <2>2. doc' \in Document
      BY <1>0, <2>1 DEF Document
    <2>3. doc'.interfaces = doc.interfaces
      BY <1>0, <2>1 DEF Document
    <2> QED BY <1>0, <2>2, <2>3 DEF NoRepeats
  <1>4. ASSUME NEW h \in Host, AddSpareVm(h)
        PROVE  doc' \in Document /\ NoRepeats(doc')
    <2>1. Append(doc.vms, SpareVm) \in Seq(VM)
      BY <1>0, DocumentFields, FileAssumption
    <2>2. doc' = [doc EXCEPT !.vms = Append(doc.vms, SpareVm), !.placement[SpareVm] = h]
      BY <1>4 DEF AddSpareVm, Edit
    <2>3. doc' \in Document
      BY <1>0, <2>1, <2>2 DEF Document
    <2>4. doc'.interfaces = doc.interfaces
      BY <1>0, <2>2 DEF Document
    <2> QED BY <1>0, <2>3, <2>4 DEF NoRepeats
  <1>5. ASSUME NEW i \in DOMAIN doc.vms, DropVm(i)
        PROVE  doc' \in Document /\ NoRepeats(doc')
    <2>1. RemoveAt(doc.vms, i) \in Seq(VM)
      BY <1>0, DocumentFields, RemoveAtFits
    <2>2. doc' = [doc EXCEPT !.vms = RemoveAt(doc.vms, i)]
      BY <1>5 DEF DropVm, Edit
    <2>3. doc' \in Document
      BY <1>0, <2>1, <2>2 DEF Document
    <2>4. doc'.interfaces = doc.interfaces
      BY <1>0, <2>2 DEF Document
    <2> QED BY <1>0, <2>3, <2>4 DEF NoRepeats
  <1>6. ASSUME NEW v \in VmSet(doc), DropInterface(v)
        PROVE  doc' \in Document /\ NoRepeats(doc')
    BY <1>0, <1>V, <1>6, FrontFits DEF DropInterface, Edit
  <1>7. ASSUME NEW net \in doc.networks, DropNetwork(net)
        PROVE  doc' \in Document /\ NoRepeats(doc')
    BY <1>0, <1>7 DEF DropNetwork, Edit, Document, NoRepeats
  <1>8. ASSUME NEW net \in doc.networks, NEW vlan \in Vlans, SetVlan(net, vlan)
        PROVE  doc' \in Document /\ NoRepeats(doc')
    <2>1. vlan \in Nat
      BY FileAssumption
    <2> QED BY <1>0, <1>8, <2>1 DEF SetVlan, Edit, Document, NoRepeats
  <1> QED BY <1>1, <1>2, <1>3, <1>4, <1>5, <1>6, <1>7, <1>8 DEF OperatorEdits

----------------------------------------------------------------------------
(* The file and the store.                                                  *)

\* Nothing is generated or stored at first.
LEMMA InitOK == Init => FileOK /\ MissionsOK
  <1> SUFFICES ASSUME Init
               PROVE  FileOK /\ MissionsOK
    OBVIOUS
  <1>1. DOMAIN remaining \subseteq Host
    BY InventoriesAssumption DEF Init
  <1> QED BY <1>1 DEF Init, FileOK, MissionsOK, States

\* The generator only ever writes documents of the expected form.
LEMMA GeneratorOK ==
    ASSUME FileOK, Generator
    PROVE  FileOK'
  <1>1. CASE PlaceVm
    <2>1. PICK v \in Unplaced, h \in DOMAIN remaining :
              /\ plan' = [plan EXCEPT ![v] = h]
              /\ remaining' = [remaining EXCEPT ![h] = Take(@, v)]
      BY <1>1 DEF PlaceVm
    <2>2. plan' \in [VM -> Host \cup {NoHost}] /\ DOMAIN remaining' \subseteq Host
      BY <2>1 DEF FileOK
    <2>3. CASE UNCHANGED file
      BY <2>2, <2>3 DEF FileOK, file, NoRepeats
    <2>4. CASE ~UNCHANGED file
      <3>1. PICK n \in Name : /\ doc' = [FreshDocument(n) EXCEPT !.placement = plan']
                              /\ UNCHANGED hosts
        BY <1>1, <2>4 DEF PlaceVm
      <3>2. doc' \in Document /\ NoRepeats(doc')
        BY <2>2, <3>1, FreshDocumentFits
      <3> QED BY <2>2, <3>1, <3>2 DEF FileOK, NoRepeats
    <2> QED BY <2>3, <2>4
  <1>2. CASE NoFeasibleHost
    BY <1>2 DEF NoFeasibleHost, FileOK, file, NoRepeats
  <1>3. CASE RunGenerator
    BY <1>3, InventoriesAssumption DEF RunGenerator, FileOK, file, NoRepeats
  <1> QED BY <1>1, <1>2, <1>3 DEF Generator

\* Renaming the mission in a file leaves a document.
LEMMA RenameOK ==
    ASSUME FileOK, NEW n \in Name, Rename(n)
    PROVE  FileOK'
  <1>1. doc \in Document /\ NoRepeats(doc) /\ doc' = [doc EXCEPT !.name = n]
    BY DEF Rename, FileOK
  <1>2. doc' \in Document /\ doc'.interfaces = doc.interfaces
    BY <1>1 DEF Document
  <1> QED BY <1>1, <1>2 DEF Rename, FileOK, generator, NoRepeats

\* What is stored was checked, and has a list of addresses for each VM.
LEMMA AcceptedIsStored ==
    ASSUME NEW d \in Document, NoRepeats(d), ApiAccepts(d)
    PROVE  Stored(ToCore(d))
  <1> DEFINE macs == [v \in VM |-> IF d.vmMacs[v] # NoMacs
                                    THEN d.vmMacs[v] ELSE ListOrNone(d.macs[v])]
  <1>1. macs \in [VM -> Seq(Mac)]
    <2> SUFFICES ASSUME NEW v \in VM
                 PROVE  macs[v] \in Seq(Mac)
      OBVIOUS
    <2>1. <<>> \in Seq(Mac)
      BY EmptySeq
    <2> QED BY <2>1, DocumentFields DEF ListOrNone
  <1>2. ToCore(d) = [d EXCEPT !.macs = macs]
    BY DEF ToCore
  <1> HIDE DEF macs
  <1>3. ToCore(d) \in Document /\ ToCore(d).macs = macs
    BY <1>1, <1>2 DEF Document
  <1>4. /\ ToCore(d).interfaces = d.interfaces /\ ToCore(d).placement = d.placement
        /\ ToCore(d).vms = d.vms /\ ToCore(d).networks = d.networks
    BY <1>2 DEF Document
  <1>5. NoRepeats(ToCore(d)) /\ MissionOK(ToCore(d))
    BY <1>4 DEF NoRepeats, MissionOK, VmSet, ApiAccepts
  <1> QED BY <1>1, <1>3, <1>5 DEF Stored

\* What POST stores is typed and checked.
LEMMA PostOK ==
    ASSUME FileOK, MissionsOK, Post
    PROVE  FileOK' /\ MissionsOK'
  <1>1. FileOK'
    BY DEF Post, FileOK, generator, NoRepeats
  <1>2. doc \in Document /\ NoRepeats(doc) /\ doc.name \in Name
    BY DocumentFields DEF FileOK, Post
  <1>3. CASE UNCHANGED <<state, spec>>
    BY <1>1, <1>3 DEF Post, MissionsOK
  <1>4. CASE /\ ApiAccepts(doc)
             /\ state' = [state EXCEPT ![doc.name] = "accepted"]
             /\ spec' = [spec EXCEPT ![doc.name] = ToCore(doc)]
    <2>1. \A n \in Name : /\ state'[n] = IF n = doc.name THEN "accepted" ELSE state[n]
                          /\ spec'[n] = IF n = doc.name THEN ToCore(doc) ELSE spec[n]
      BY <1>4 DEF MissionsOK
    <2>2. Stored(ToCore(doc))
      BY <1>2, <1>4, AcceptedIsStored
    <2>3. \A n \in Name : state'[n] # "absent" => Stored(spec'[n])
      BY <2>1, <2>2 DEF MissionsOK
    <2> QED BY <1>1, <1>2, <1>4, <2>3 DEF Post, MissionsOK, States
  <1> QED BY <1>1, <1>3, <1>4 DEF Post

\* The networking service changes no stored specification.
LEMMA ServiceOK ==
    ASSUME FileOK, MissionsOK, Service
    PROVE  FileOK' /\ MissionsOK'
  <1>1. PICK n \in Name : ProvisionNetworks(n) \/ AddVmPorts(n) \/ TeardownNetworking(n)
    BY DEF Service
  <1>2. FileOK'
    BY <1>1 DEF ProvisionNetworks, AddVmPorts, TeardownNetworking, FileOK, file, generator,
                NoRepeats
  <1>3. CASE ProvisionNetworks(n) \/ AddVmPorts(n)
    <2>1. /\ spec' = spec /\ DOMAIN assigned' = Name
          /\ \E s \in States : state' = [state EXCEPT ![n] = s]
          /\ state[n] # "absent"
      BY <1>3 DEF ProvisionNetworks, AddVmPorts, MissionsOK, States
    <2> QED BY <1>2, <2>1 DEF MissionsOK
  <1>4. CASE TeardownNetworking(n)
    BY <1>2, <1>4 DEF TeardownNetworking, MissionsOK, States
  <1> QED BY <1>1, <1>2, <1>3, <1>4

StoreInv == FileOK /\ MissionsOK

\* Every step keeps the files and the store in order.
LEMMA StepStore ==
    ASSUME StoreInv, [Next]_vars
    PROVE  StoreInv'
  <1>1. CASE Generator
    <2>1. UNCHANGED missions
      BY <1>1 DEF Generator, PlaceVm, NoFeasibleHost, RunGenerator
    <2> QED BY <1>1, <2>1, GeneratorOK DEF StoreInv, MissionsOK, missions
  <1>2. CASE EditHosts
    BY <1>2 DEF EditHosts, StoreInv, FileOK, MissionsOK, missions, generator, NoRepeats
  <1>3. CASE Post
    BY <1>3, PostOK DEF StoreInv
  <1>4. CASE Service
    BY <1>4, ServiceOK DEF StoreInv
  <1>5. ASSUME NEW n \in Name, Rename(n)
        PROVE  StoreInv'
    BY <1>5, RenameOK DEF StoreInv, MissionsOK, missions, Rename
  <1>6. CASE doc # NoDoc /\ OperatorEdits
    <2>1. UNCHANGED <<hosts, generator, missions>>
      BY <1>6 DEF OperatorEdits, DropMacs, ListMacs, ListVmMacs, MoveVm, AddSpareVm, DropVm,
                  DropInterface, DropNetwork, SetVlan, Edit
    <2>2. doc' \in Document /\ NoRepeats(doc')
      BY <1>6, EditsFit DEF StoreInv
    <2> QED BY <2>1, <2>2 DEF StoreInv, FileOK, MissionsOK, missions, generator, NoRepeats
  <1>7. CASE UNCHANGED vars
    BY <1>7 DEF vars, file, missions, generator, StoreInv, FileOK, MissionsOK, NoRepeats
  <1> QED BY <1>1, <1>2, <1>3, <1>4, <1>5, <1>6, <1>7 DEF Next

----------------------------------------------------------------------------
(* Addresses and rows of deployed missions.                                 *)

\* The rows of the ports of n are on their switch and have their address.
RowsRight(n) ==
    \A v \in VmSet(spec[n]) : \A i \in DOMAIN spec[n].interfaces[v] :
        LET net == spec[n].interfaces[v][i]
        IN  /\ \A r \in ports : r.name = PortName(n, v, net) =>
                  r.switch = SwitchName(n, net) /\ r.mac = assigned[n][v][i]
            /\ \E r \in ports : r.name = PortName(n, v, net)

Networked(n) == state[n] \in {"networked", "deployed", "error"}

OvnInv ==
    \A n \in Name :
        /\ Networked(n) => SwitchesOf(n) \subseteq switches
        /\ Deployed(n) =>
              /\ assigned[n] = AssignMacs(n, VmSet(spec[n]), spec[n].interfaces, spec[n].macs)
              /\ RowsRight(n)

\* The networks that the VMs of a stored specification name.
LEMMA StoredNetworks ==
    ASSUME NEW d, Stored(d), NEW v \in VmSet(d), NEW i \in DOMAIN d.interfaces[v]
    PROVE  /\ v \in VM /\ d.interfaces[v][i] \in d.networks /\ d.interfaces[v][i] \in Net
           /\ d.networks \subseteq Net
  <1>1. d \in Document /\ MissionOK(d)
    BY DEF Stored
  <1>2. v \in VM /\ d.networks \subseteq Net
    BY <1>1, VmSetIsFinite, DocumentFields
  <1>3. d.interfaces[v][i] \in d.networks
    BY <1>1 DEF MissionOK, Range
  <1> QED BY <1>2, <1>3

\* The rows of n survive a step that changes rows of other names only.
LEMMA RowsStay ==
    ASSUME MissionsOK, NEW n \in Name, Deployed(n), RowsRight(n),
           spec'[n] = spec[n], assigned'[n] = assigned[n],
           \A v \in VM, net \in Net : \A r \in ports \cup ports' :
               /\ r.name = PortName(n, v, net)
               /\ r \in ports => r.switch = SwitchName(n, net)
               => (r \in ports <=> r \in ports')
    PROVE  RowsRight(n)'
  <1>1. Stored(spec[n])
    BY DEF MissionsOK, Deployed
  <1> SUFFICES ASSUME NEW v \in VmSet(spec[n]), NEW i \in DOMAIN spec[n].interfaces[v]
               PROVE  LET net == spec[n].interfaces[v][i]
                      IN  /\ \A r \in ports' : r.name = PortName(n, v, net) =>
                                r.switch = SwitchName(n, net) /\ r.mac = assigned[n][v][i]
                          /\ \E r \in ports' : r.name = PortName(n, v, net)
    BY DEF RowsRight, VmSet
  <1> DEFINE net == spec[n].interfaces[v][i]
  <1>2. v \in VM /\ net \in Net
    BY <1>1, StoredNetworks
  <1>3. /\ \A r \in ports : r.name = PortName(n, v, net) =>
              r.switch = SwitchName(n, net) /\ r.mac = assigned[n][v][i]
        /\ \E r \in ports : r.name = PortName(n, v, net)
    BY DEF RowsRight
  <1> HIDE DEF net
  <1>4. \A r \in ports \cup ports' : r.name = PortName(n, v, net) =>
            (r \in ports <=> r \in ports')
    BY <1>2, <1>3
  <1>5. /\ \A r \in ports' : r.name = PortName(n, v, net) =>
              r.switch = SwitchName(n, net) /\ r.mac = assigned[n][v][i]
        /\ \E r \in ports' : r.name = PortName(n, v, net)
    BY <1>3, <1>4
  <1> QED BY <1>5 DEF net

\* The ports of a mission's VMs, by the names of VMs and networks.
LEMMA PortsOfNames ==
    ASSUME NEW k \in Name, Stored(spec[k]), NEW p \in PortsOf(k)
    PROVE  \E w \in VM, b \in Net : p = PortName(k, w, b)
  <1>1. PICK w \in VmSet(spec[k]) : \E b \in Range(spec[k].interfaces[w]) : p = PortName(k, w, b)
    BY DEF PortsOf
  <1>2. PICK b \in Range(spec[k].interfaces[w]) : p = PortName(k, w, b)
    BY <1>1
  <1>3. w \in VM /\ b \in Net
    <2>1. PICK i \in DOMAIN spec[k].interfaces[w] : b = spec[k].interfaces[w][i]
      BY <1>2 DEF Range
    <2> QED BY <2>1, StoredNetworks
  <1> QED BY <1>2, <1>3

\* Every port row of a mission is named after one of its interfaces.
LEMMA RowNames ==
    ASSUME NEW k \in Name, Stored(spec[k]), NEW macs, NEW r \in VmRows(k, macs)
    PROVE  \E w \in VmSet(spec[k]) : \E j \in DOMAIN spec[k].interfaces[w] :
              /\ w \in VM /\ spec[k].interfaces[w][j] \in Net
              /\ r = [name |-> PortName(k, w, spec[k].interfaces[w][j]),
                      switch |-> SwitchName(k, spec[k].interfaces[w][j]), mac |-> macs[w][j]]
  <1>1. PICK w \in VmSet(spec[k]) :
           r \in {[name |-> PortName(k, w, spec[k].interfaces[w][j]),
                   switch |-> SwitchName(k, spec[k].interfaces[w][j]), mac |-> macs[w][j]] :
                     j \in DOMAIN spec[k].interfaces[w]}
    BY DEF VmRows
  <1>2. PICK j \in DOMAIN spec[k].interfaces[w] :
           r = [name |-> PortName(k, w, spec[k].interfaces[w][j]),
                switch |-> SwitchName(k, spec[k].interfaces[w][j]), mac |-> macs[w][j]]
    BY <1>1
  <1> QED BY <1>2, StoredNetworks

\* Two missions have no switch in common.
LEMMA SwitchesApart ==
    ASSUME NEW n \in Name, NEW k \in Name, n # k, Stored(spec[n]), Stored(spec[k])
    PROVE  SwitchesOf(n) \cap SwitchesOf(k) = {}
  <1>1. spec[n].networks \subseteq Net /\ spec[k].networks \subseteq Net
    BY DocumentFields DEF Stored
  <1> QED BY <1>1, SwitchNamesDistinct DEF SwitchesOf

\* Another mission's networks.
LEMMA ProvisionKeepsRows ==
    ASSUME MissionsOK, NEW n \in Name, NEW k \in Name, ProvisionNetworks(k),
           Deployed(n), RowsRight(n)
    PROVE  RowsRight(n)'
  <1>1. /\ ports' = ports \cup PeerRows(k) /\ spec' = spec /\ assigned' = assigned
        /\ state[k] # "absent"
    BY DEF ProvisionNetworks
  <1>2. spec[k].networks \subseteq Net
    BY <1>1, DocumentFields DEF MissionsOK, Stored
  <1>3. ASSUME NEW v \in VM, NEW net \in Net, NEW r \in PeerRows(k)
        PROVE  r.name # PortName(n, v, net)
    <2>1. PICK b \in spec[k].networks : r.name = PeerPortName(k, b)
      BY <1>3 DEF PeerRows
    <2> QED BY <1>2, <2>1, PeersAreNoVmPorts
  <1> QED BY <1>1, <1>3, RowsStay

\* Another mission's ports.
LEMMA PortsKeepRows ==
    ASSUME MissionsOK, NEW n \in Name, NEW k \in Name, n # k, AddVmPorts(k),
           Deployed(n), RowsRight(n)
    PROVE  RowsRight(n)'
  <1> DEFINE rows == VmRows(k, AssignMacs(k, VmSet(spec[k]), spec[k].interfaces, spec[k].macs))
  <1>1. /\ \/ ports' = {r \in ports : \A new \in rows : r.name # new.name} \cup rows
           \/ ports' = ports
        /\ spec' = spec /\ assigned'[n] = assigned[n] /\ state[k] # "absent"
    BY DEF AddVmPorts, MissionsOK
  <1>2. ASSUME NEW v \in VM, NEW net \in Net, NEW r \in rows
        PROVE  r.name # PortName(n, v, net)
    <2>1. Stored(spec[k])
      BY <1>1 DEF MissionsOK
    <2>2. PICK w \in VM, b \in Net : r.name = PortName(k, w, b)
      BY <2>1, RowNames
    <2> QED BY <2>2, DashFreePortsDistinct
  <1> HIDE DEF rows
  <1>3. ASSUME NEW v \in VM, NEW net \in Net, NEW r \in ports \cup ports',
               r.name = PortName(n, v, net)
        PROVE  r \in ports <=> r \in ports'
    BY <1>1, <1>2, <1>3
  <1> QED BY <1>1, <1>3, RowsStay

\* The teardown of another mission.
LEMMA TeardownKeepsRows ==
    ASSUME MissionsOK, NEW n \in Name, NEW k \in Name, n # k, TeardownNetworking(k),
           Deployed(n), RowsRight(n)
    PROVE  RowsRight(n)'
  <1>1. /\ ports' = {r \in ports : r.name \notin PortsOf(k) /\ r.switch \notin SwitchesOf(k)}
        /\ spec'[n] = spec[n] /\ assigned'[n] = assigned[n] /\ state[k] # "absent"
    BY DEF TeardownNetworking, MissionsOK
  <1>2. Stored(spec[k])
    BY <1>1 DEF MissionsOK
  <1>3. ASSUME NEW v \in VM, NEW net \in Net
        PROVE  PortName(n, v, net) \notin PortsOf(k) /\ SwitchName(n, net) \notin SwitchesOf(k)
    <2>1. PortName(n, v, net) \notin PortsOf(k)
      BY <1>2, PortsOfNames, DashFreePortsDistinct
    <2>2. spec[k].networks \subseteq Net
      BY <1>2, DocumentFields DEF Stored
    <2>3. SwitchName(n, net) \notin SwitchesOf(k)
      BY <2>2, SwitchNamesDistinct DEF SwitchesOf
    <2> QED BY <2>1, <2>3
  <1>4. ASSUME NEW v \in VM, NEW net \in Net, NEW r \in ports \cup ports',
               r.name = PortName(n, v, net),
               r \in ports => r.switch = SwitchName(n, net)
        PROVE  r \in ports <=> r \in ports'
    BY <1>1, <1>3, <1>4
  <1> QED BY <1>1, <1>4, RowsStay

\* The ports of the mission itself, whatever rows were there before.
LEMMA PortsMakeRows ==
    ASSUME MissionsOK, NEW n \in Name, AddVmPorts(n), Deployed(n)'
    PROVE  /\ assigned'[n] = AssignMacs(n, VmSet(spec[n]), spec[n].interfaces, spec[n].macs)
           /\ RowsRight(n)'
  <1> DEFINE macs == AssignMacs(n, VmSet(spec[n]), spec[n].interfaces, spec[n].macs)
             rows == VmRows(n, macs)
  <1>1. /\ ports' = {r \in ports : \A new \in rows : r.name # new.name} \cup rows
        /\ spec' = spec /\ assigned' = [assigned EXCEPT ![n] = macs] /\ state[n] # "absent"
    BY DEF AddVmPorts, Deployed, MissionsOK
  <1>2. assigned'[n] = macs
    BY <1>1 DEF MissionsOK
  <1>3. Stored(spec[n])
    BY <1>1 DEF MissionsOK
  <1> SUFFICES ASSUME NEW v \in VmSet(spec[n]), NEW i \in DOMAIN spec[n].interfaces[v]
               PROVE  LET net == spec[n].interfaces[v][i]
                      IN  /\ \A r \in ports' : r.name = PortName(n, v, net) =>
                                r.switch = SwitchName(n, net) /\ r.mac = macs[v][i]
                          /\ \E r \in ports' : r.name = PortName(n, v, net)
    BY <1>1, <1>2 DEF RowsRight, VmSet
  <1> DEFINE net == spec[n].interfaces[v][i]
             row == [name |-> PortName(n, v, net), switch |-> SwitchName(n, net),
                     mac |-> macs[v][i]]
  <1>4. v \in VM /\ net \in Net
    BY <1>3, StoredNetworks
  <1>5. row \in rows
    BY DEF VmRows
  <1>6. ASSUME NEW r \in ports', r.name = PortName(n, v, net)
        PROVE  r = row
    <2>1. r \in rows
      BY <1>1, <1>5, <1>6
    <2>2. PICK w \in VmSet(spec[n]) : \E j \in DOMAIN spec[n].interfaces[w] :
              /\ w \in VM /\ spec[n].interfaces[w][j] \in Net
              /\ r = [name |-> PortName(n, w, spec[n].interfaces[w][j]),
                      switch |-> SwitchName(n, spec[n].interfaces[w][j]), mac |-> macs[w][j]]
      BY <1>3, <2>1, RowNames
    <2>3. PICK j \in DOMAIN spec[n].interfaces[w] :
              /\ w \in VM /\ spec[n].interfaces[w][j] \in Net
              /\ r = [name |-> PortName(n, w, spec[n].interfaces[w][j]),
                      switch |-> SwitchName(n, spec[n].interfaces[w][j]), mac |-> macs[w][j]]
      BY <2>2
    <2>4. w = v /\ spec[n].interfaces[w][j] = net
      BY <1>4, <1>6, <2>3, DashFreePortsDistinct
    <2>5. j = i
      BY <1>3, <1>4, <2>4 DEF Stored, NoRepeats
    <2> QED BY <2>3, <2>4, <2>5
  <1> QED BY <1>1, <1>5, <1>6

\* A step that leaves n alone, and its rows and switches, keeps what holds of n.
LEMMA AloneKeeps ==
    ASSUME OvnInv, MissionsOK, NEW n \in Name, state'[n] = state[n],
           state[n] # "absent" => spec'[n] = spec[n], assigned'[n] = assigned[n],
           Networked(n) => (SwitchesOf(n) \cap switches) \subseteq switches',
           (Deployed(n) /\ RowsRight(n)) => RowsRight(n)'
    PROVE  /\ Networked(n)' => SwitchesOf(n)' \subseteq switches'
           /\ Deployed(n)' =>
                 /\ assigned'[n] = AssignMacs(n, VmSet(spec'[n]), spec'[n].interfaces,
                                              spec'[n].macs)
                 /\ RowsRight(n)'
  <1>1. Networked(n)' => SwitchesOf(n)' \subseteq switches'
    BY DEF OvnInv, Networked, SwitchesOf
  <1>2. CASE Deployed(n)'
    <2>1. Deployed(n) /\ spec'[n] = spec[n]
      BY <1>2 DEF Deployed
    <2> QED BY <1>1, <2>1 DEF OvnInv
  <1> QED BY <1>1, <1>2

\* A step that leaves missions and OVN alone.
LEMMA FileStepKeeps ==
    ASSUME OvnInv, UNCHANGED <<missions, ovn>>
    PROVE  OvnInv'
  BY DEF OvnInv, missions, ovn, Networked, Deployed, SwitchesOf, RowsRight, VmSet

\* A POST leaves the rows of the deployed missions right.
LEMMA PostKeeps ==
    ASSUME OvnInv, StoreInv, Post
    PROVE  OvnInv'
  <1> SUFFICES ASSUME NEW n \in Name
               PROVE  /\ Networked(n)' => SwitchesOf(n)' \subseteq switches'
                      /\ Deployed(n)' =>
                            /\ assigned'[n] = AssignMacs(n, VmSet(spec'[n]),
                                                 spec'[n].interfaces, spec'[n].macs)
                            /\ RowsRight(n)'
    BY DEF OvnInv, Networked, VmSet
  <1>1. MissionsOK /\ UNCHANGED <<ports, switches, assigned>> /\ state[doc.name] = "absent"
    BY DEF StoreInv, Post, ovn
  <1>2. CASE state'[n] = state[n] /\ spec'[n] = spec[n]
    <2>1. (Deployed(n) /\ RowsRight(n)) => RowsRight(n)'
      BY <1>1, <1>2, RowsStay
    <2> QED BY <1>1, <1>2, <2>1, AloneKeeps
  <1>3. CASE state'[n] = "accepted"
    BY <1>3 DEF Networked, Deployed
  <1>4. state'[n] = "accepted" \/ (state'[n] = state[n] /\ spec'[n] = spec[n])
    BY <1>1 DEF Post, MissionsOK
  <1> QED BY <1>2, <1>3, <1>4

\* So does every step of the networking service.
LEMMA ServiceKeeps ==
    ASSUME OvnInv, StoreInv, Service
    PROVE  OvnInv'
  <1> SUFFICES ASSUME NEW n \in Name
               PROVE  /\ Networked(n)' => SwitchesOf(n)' \subseteq switches'
                      /\ Deployed(n)' =>
                            /\ assigned'[n] = AssignMacs(n, VmSet(spec'[n]),
                                                 spec'[n].interfaces, spec'[n].macs)
                            /\ RowsRight(n)'
    BY DEF OvnInv, Networked, VmSet
  <1>1. PICK k \in Name : ProvisionNetworks(k) \/ AddVmPorts(k) \/ TeardownNetworking(k)
    BY DEF Service
  <1>2. MissionsOK
    BY DEF StoreInv
  <1>3. CASE k # n
    <2>1. state'[n] = state[n] /\ spec'[n] = spec[n] /\ assigned'[n] = assigned[n]
      BY <1>1, <1>2, <1>3 DEF ProvisionNetworks, AddVmPorts, TeardownNetworking, MissionsOK
    <2>2. (Deployed(n) /\ RowsRight(n)) => RowsRight(n)'
      BY <1>1, <1>2, <1>3, ProvisionKeepsRows, PortsKeepRows, TeardownKeepsRows
    <2>3. Networked(n) => (SwitchesOf(n) \cap switches) \subseteq switches'
      <3>1. CASE ProvisionNetworks(k) \/ AddVmPorts(k)
        BY <3>1 DEF ProvisionNetworks, AddVmPorts
      <3>2. ASSUME TeardownNetworking(k), Networked(n)
            PROVE  (SwitchesOf(n) \cap switches) \subseteq switches'
        <4>1. Stored(spec[n]) /\ Stored(spec[k]) /\ switches' = switches \ SwitchesOf(k)
          BY <1>2, <3>2 DEF MissionsOK, Networked, TeardownNetworking
        <4> QED BY <1>3, <4>1, SwitchesApart
      <3> QED BY <1>1, <3>1, <3>2
    <2> QED BY <1>2, <2>1, <2>2, <2>3, AloneKeeps
  <1>4. CASE k = n /\ ProvisionNetworks(k)
    BY <1>2, <1>4 DEF ProvisionNetworks, Deployed, SwitchesOf, MissionsOK
  <1>5. CASE k = n /\ AddVmPorts(k)
    <2>1. /\ UNCHANGED <<spec, switches>> /\ SwitchesOf(n) \subseteq switches
      BY <1>5 DEF AddVmPorts, OvnInv, Networked
    <2>2. SwitchesOf(n)' \subseteq switches'
      BY <2>1 DEF SwitchesOf
    <2> QED BY <1>2, <1>5, <2>1, <2>2, PortsMakeRows
  <1>6. CASE k = n /\ TeardownNetworking(k)
    BY <1>2, <1>6 DEF TeardownNetworking, Networked, Deployed, MissionsOK
  <1> QED BY <1>1, <1>3, <1>4, <1>5, <1>6

\* So does every step.
LEMMA StepOvn ==
    ASSUME OvnInv, StoreInv, [Next]_vars
    PROVE  OvnInv'
  <1>1. CASE Post
    BY <1>1, PostKeeps
  <1>2. CASE Service
    BY <1>2, ServiceKeeps
  <1>3. CASE Generator \/ EditHosts \/ \E n \in Name : Rename(n)
    BY <1>3, FileStepKeeps DEF Generator, PlaceVm, NoFeasibleHost, RunGenerator, EditHosts,
                               Rename
  <1>4. CASE doc # NoDoc /\ OperatorEdits
    BY <1>4, FileStepKeeps
       DEF OperatorEdits, DropMacs, ListMacs, ListVmMacs, MoveVm, AddSpareVm, DropVm,
           DropInterface, DropNetwork, SetVlan, Edit
  <1>5. CASE UNCHANGED vars
    BY <1>5, FileStepKeeps DEF vars
  <1> QED BY <1>1, <1>2, <1>3, <1>4, <1>5 DEF Next

\* The two invariants hold throughout.
LEMMA Invariants == Spec => [](StoreInv /\ OvnInv)
  <1>1. Init => StoreInv /\ OvnInv
    BY InitOK DEF StoreInv, OvnInv, Init, Networked, Deployed
  <1>2. StoreInv /\ OvnInv /\ [Next]_vars => StoreInv' /\ OvnInv'
    BY StepStore, StepOvn
  <1> QED BY <1>1, <1>2, PTL DEF Spec

----------------------------------------------------------------------------
(* The theorems.                                                            *)

\* The port an interface of a domain names carries that interface's address and is on its
\* mission's switch, for any missions with any equal VM and network names.
THEOREM AddressesPinned == Spec => []PinnedAddresses
  <1>1. ASSUME StoreInv, OvnInv
        PROVE  PinnedAddresses
    <2> SUFFICES ASSUME NEW n \in Name, Deployed(n), NEW v \in VmSet(spec[n]),
                        NEW i \in DOMAIN spec[n].interfaces[v]
                 PROVE  LET net == spec[n].interfaces[v][i]
                        IN  /\ SwitchName(n, net) \in switches
                            /\ \A r \in ports : r.name = PortName(n, v, net) =>
                                  r.switch = SwitchName(n, net) /\ r.mac = assigned[n][v][i]
                            /\ \E r \in ports : r.name = PortName(n, v, net)
      BY DEF PinnedAddresses
    <2>1. Networked(n) /\ Stored(spec[n])
      BY <1>1 DEF Deployed, Networked, StoreInv, MissionsOK
    <2>2. SwitchesOf(n) \subseteq switches /\ RowsRight(n)
      BY <1>1, <2>1 DEF OvnInv
    <2>3. spec[n].interfaces[v][i] \in spec[n].networks
      BY <2>1, StoredNetworks
    <2> QED BY <2>2, <2>3 DEF SwitchesOf, RowsRight
  <1> QED BY <1>1, Invariants, PTL

\* The fallback never gives two interfaces of a mission one address, for any number of VMs
\* and interfaces and after any edits.
THEOREM FallbacksDistinct == Spec => []FallbackDistinct
  <1>1. ASSUME StoreInv, OvnInv
        PROVE  FallbackDistinct
    <2> SUFFICES ASSUME NEW n \in Name, Deployed(n),
                        NEW v \in Fallback(n), NEW w \in Fallback(n),
                        NEW i \in DOMAIN assigned[n][v], NEW j \in DOMAIN assigned[n][w],
                        assigned[n][v][i] = assigned[n][w][j]
                 PROVE  v = w /\ i = j
      BY DEF FallbackDistinct
    <2>1. spec[n] \in Document
      BY <1>1 DEF Deployed, StoreInv, MissionsOK, Stored
    <2>2. assigned[n] = AssignMacs(n, VmSet(spec[n]), spec[n].interfaces, spec[n].macs)
      BY <1>1 DEF OvnInv
    <2>3. /\ v \in VmSet(spec[n]) /\ w \in VmSet(spec[n])
          /\ spec[n].macs[v] = <<>> /\ spec[n].macs[w] = <<>>
      BY DEF Fallback
    <2>4. VmSet(spec[n]) \in SUBSET VM /\ IsFiniteSet(VmSet(spec[n]))
      BY <2>1, VmSetIsFinite
    <2>5. Len(spec[n].interfaces[v]) \in Nat /\ Len(spec[n].interfaces[w]) \in Nat
      BY <2>1, <2>3, <2>4, DocumentFields, LenProperties
    <2> QED BY <2>2, <2>3, <2>4, <2>5, FallbackInjective
  <1> QED BY <1>1, Invariants, PTL

\* Whatever document the file holds, when the loader takes it then POST takes it as the
\* same specification.
THEOREM LoadersAlwaysAgree == Spec => []LoadersAgree
  <1>1. LoadersAgree
    <2> SUFFICES ASSUME \A v \in VM : doc.vmMacs[v] = NoMacs, LoaderAccepts(doc)
                 PROVE  ApiAccepts(doc) /\ ToCore(doc) = FromDict(doc)
      BY DEF LoadersAgree
    <2>1. [v \in VM |-> IF doc.vmMacs[v] # NoMacs THEN doc.vmMacs[v] ELSE ListOrNone(doc.macs[v])]
            = [v \in VM |-> ListOrNone(doc.macs[v])]
      OBVIOUS
    <2>2. ToCore(doc) = FromDict(doc)
      BY <2>1 DEF ToCore, FromDict
    <2>3. VmSet(doc) \subseteq VM
      BY DEF LoaderAccepts, MissionOK
    <2>4. ApiAccepts(doc)
      BY <2>3 DEF ApiAccepts, LoaderAccepts, VmOK
    <2> QED BY <2>2, <2>4
  <1> QED BY <1>1, PTL
=============================================================================
