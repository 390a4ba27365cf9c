---------------------------- MODULE MCDashboard ----------------------------
(***************************************************************************)
(* Two pages and a store of one job.  The first page asks for two of the   *)
(* architectures, for a network without room for consumers, or for too     *)
(* many configurations; the second for a list of forwarding strategies on  *)
(* a network that is too large, or with a number that does not parse.      *)
(***************************************************************************)
EXTENDS Dashboard, TLC

CONSTANTS p1, p2

Form(nodes, forwarding, forwardings, architectures, others) ==
    [nodes |-> nodes, consumer_count |-> 2, forwarding |-> forwarding,
     forwardings |-> forwardings, architectures |-> architectures, others |-> others]

Mixed == Form(5, "best-route", <<>>, {"ip", "ndn_sdn"}, 2)
Listed == Form(9, "best-route", <<"best-route", "sdn-centralized">>, {}, 1)
NoConsumer == Form(1, "best-route", <<>>, {}, 1)
TooMany == Form(5, "best-route", <<>>, {"ip", "ip_sdn", "ndn", "ndn_sdn"}, 3)
Unparsable == [Form(5, "best-route", <<>>, {}, 1) EXCEPT !.others = -1]

MCMalformed == {Unparsable}

MCForms == (p1 :> {Mixed, NoConsumer, TooMany}) @@ (p2 :> {Listed, Unparsable})

FailingForms == (p1 :> {NoConsumer, TooMany})
=============================================================================
