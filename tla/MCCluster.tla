----------------------------- MODULE MCCluster ------------------------------
(***************************************************************************)
(* A small instance of ClusterController: at most two pods; two specs that *)
(* differ in scale, in capacity (the single pod of the second cannot take  *)
(* both targets) and in which certificates they ask for; and two pipelines *)
(* that share a target, one of them with a Prometheus output, the other    *)
(* with a tunnel policy, which only the second spec admits.                *)
(***************************************************************************)
EXTENDS ClusterController

Secured == [replicas |-> 2, capacity |-> 0, api |-> "certs", tunnel |-> "off",
            client |-> "certs"]
Tunnelled == [replicas |-> 1, capacity |-> 1, api |-> "off", tunnel |-> "certs",
              client |-> "off"]
MCSpecs == {Secured, Tunnelled}

Devices == [name |-> "p1", targets |-> {"t1", "t2"}, policies |-> {},
            prometheus |-> {"o"}]
Dialing == [name |-> "p2", targets |-> {"t2"}, policies |-> {"g"},
            prometheus |-> {}]
MCPipes == {Devices, Dialing}
MCStartPipes == {{Devices, Dialing}}
=============================================================================
