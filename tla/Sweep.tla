------------------------------- MODULE Sweep -------------------------------
(***************************************************************************)
(* What one submission of the dashboard's form asks the simulator for, and *)
(* what it gets: which architectures run under which forwarding strategy,  *)
(* how many configurations that is, which packet traces are captured.      *)
(*                                                                         *)
(* args is a record [nodes, consumer_count, forwarding, forwardings,       *)
(* architectures, others]; forwardings is the comma-separated list (empty  *)
(* when there is none), others the number of combinations of cache sizes,  *)
(* cache policies, seeds and zipf exponents.                               *)
(***************************************************************************)
EXTENDS Integers, Sequences

CONSTANTS
    MaxNodes, MaxCombos,   \* SIM_MAX_NODES, SIM_MAX_COMBOS
    PrefixCount               \* the number of prefixes

S == INSTANCE Scenarios

ArchitectureChoices == {"ip", "ip_sdn", "ndn", "ndn_sdn"}
SdnCentralized == "sdn-centralized"

(* Numbers out of range are clamped.                                       *)
BuildArgs(form) ==
    [form EXCEPT !.nodes = IF @ < 3 THEN 3 ELSE IF @ > MaxNodes THEN MaxNodes ELSE @,
                 !.consumer_count = IF @ < 1 THEN 1 ELSE @]

NeedsBase(args) == args.architectures \cap {"ip", "ndn"} # {}
NeedsSdn(args) == args.architectures \cap {"ip_sdn", "ndn_sdn"} # {}

One(condition) == IF condition THEN 1 ELSE 0

EstimateCombos(args) ==
    args.others *
      IF args.forwardings # <<>> THEN Len(args.forwardings)
      ELSE IF args.architectures = {} THEN 1
      ELSE One(NeedsBase(args)) + One(NeedsSdn(args))

(* Mutant: SDN architectures are asked for, its strategy is not added.     *)
BaseForwardings(args) == IF NeedsBase(args) THEN {args.forwarding} ELSE {}

NeededForwardings(args) ==
    (IF NeedsBase(args) THEN {args.forwarding} ELSE {})
      \cup (IF NeedsSdn(args) THEN {SdnCentralized} ELSE {})

(* Sorted, "sdn-centralized" comes last.                                   *)
Forwardings(args) ==
    LET if_needed(f) == IF f \in NeededForwardings(args) THEN <<f>> ELSE <<>>
    IN IF args.forwardings # <<>> THEN args.forwardings
       ELSE IF args.architectures = {} THEN <<args.forwarding>>
       ELSE (IF args.forwarding = SdnCentralized THEN <<>> ELSE if_needed(args.forwarding))
              \o if_needed(SdnCentralized)

Requested(args, architectures) ==
    IF args.architectures = {} THEN architectures
    ELSE architectures \cap args.architectures

(* A strategy and a system are an architecture.                            *)
ArchitecturesOf(forwarding) ==
    IF forwarding = SdnCentralized THEN {"ip_sdn", "ndn_sdn"} ELSE {"ip", "ndn"}

(* The positions of the forwarding loop that run an engine.                *)
Executed(args) ==
    {i \in DOMAIN Forwardings(args) :
        Requested(args, ArchitecturesOf(Forwardings(args)[i])) # {}}

Rows(args) ==
    UNION {Requested(args, ArchitecturesOf(Forwardings(args)[i])) : i \in Executed(args)}

(* One trace per requested architecture (ip and ndn if none is); plain NDN *)
(* takes the first strategy, and cannot be shown under SDN's.              *)
Traces(args) ==
    LET wanted == IF args.architectures = {} THEN {"ip", "ndn"} ELSE args.architectures
    IN wanted \ (IF Head(Forwardings(args)) = SdnCentralized THEN {"ndn"} ELSE {})

(* _execute: a result, or an error that says why there is none.            *)
None == [exists |-> FALSE, rows |-> {}, trace_architectures |-> {}]
NoError == "none"

Execute(args) ==
    LET combos == EstimateCombos(args)
        failed(error) == [result |-> None, error |-> error, combos |-> combos, traces |-> {}]
    IN IF combos > MaxCombos THEN failed("too many configurations")
       ELSE IF S!Consumers(args.nodes, PrefixCount, args.consumer_count) = {}
         THEN failed("need at least one consumer")
       ELSE [result |-> [exists |-> TRUE, rows |-> Rows(args),
                         trace_architectures |-> Traces(args)],
             error |-> NoError, combos |-> combos, traces |-> Traces(args)]
=============================================================================
