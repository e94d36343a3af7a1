------------------------------ MODULE MCBootstrap ------------------------------
(***************************************************************************)
(* Bootstrap with the services and bridges of bootstrap/config/cluster.yaml. *)
(***************************************************************************)
EXTENDS BootstrapProperties

ClusterServices == <<"libvirtd", "openvswitch", "ovn-controller", "cockpit.socket">>
ClusterBridges == <<"br-int", "br-ex">>
==============================================================================
