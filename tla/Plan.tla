-------------------------------- MODULE Plan --------------------------------
(***************************************************************************)
(* app/cluster.py plan: may one engine be spread over several machines,    *)
(* and how do they reach each other?  A machine here is what it answers    *)
(* when it is asked: whether it does at all (reached), the addresses of    *)
(* its interfaces (links), whether it has the image (pulled).              *)
(***************************************************************************)
EXTENDS Command, FiniteSets

MasterPorts == 29500..29599

-----------------------------------------------------------------------------
(* Names and the fabric.                                                   *)

\* by_name: a name that is not registered is this machine.
ByName(registered, name) == IF name \in registered THEN name ELSE "here"

\* An address is on a network, a /24.
Link(interface, network) == [interface |-> interface, network |-> network]
NoLink == Link("", "")

FirstLink(links) == Head(links \o <<NoLink>>)

\* The interface this machine reaches its peers on: the one the settings name,
\* or the first on a network that the address of a peer is on.
ClusterInterface(configured, links, addresses) ==
    IF configured # "" THEN configured
    ELSE FirstLink(SelectSeq(links, LAMBDA l : l.network \in addresses)).interface

\* _subnet_prefix.
Subnet(interface, links) ==
    FirstLink(SelectSeq(links, LAMBDA l : l.interface = interface)).network

\* Each machine is asked for its own interface, which is called otherwise there.
Wiring(m, subnet) ==
    IF m.reached THEN FirstLink(SelectSeq(m.links, LAMBDA l : l.network = subnet)) ELSE NoLink

-----------------------------------------------------------------------------
(* plan.  nodes are the machines of the ranks by name, ms what they answer *)
(* and verdicts what the memory guard says of each.                        *)

\* Why a pool is refused before any memory is looked at.
Misfit(nodes, ms, subnet) ==
    IF Len(nodes) < 2 THEN "few"
    ELSE IF subnet = "" THEN "no fabric"
    ELSE IF \E i, j \in DOMAIN nodes : i # j /\ nodes[i] = nodes[j] THEN "twice"
    ELSE IF \E i \in DOMAIN ms : Wiring(ms[i], subnet) = NoLink THEN "unwired"
    ELSE ""

\* A machine that does not answer has no image.
HasImage(m) == m.reached /\ m.pulled

\* A model that is missing somewhere is copied, an image is not.
Plan(misfit, ms, splittable, verdicts) ==
    IF misfit # "" THEN [ok |-> FALSE, why |-> misfit, verdicts |-> <<>>]
    ELSE [ok |-> /\ \A i \in DOMAIN ms : HasImage(ms[i]) /\ verdicts[i] # "block"
                 /\ splittable,
          why |-> "", verdicts |-> verdicts]

-----------------------------------------------------------------------------
(* What start_pooled makes of a plan.                                      *)

\* The flags that tell a rank where it belongs are the launcher's.
Owned == {"pipeline_parallel_size", "distributed_executor_backend", "nnodes", "node_rank",
          "master_addr", "master_port", "headless"}

Settings(settings) == Without(settings, Owned)

\* The lowest that no container on any registered machine names; 0 when there
\* is none left.
MasterPortBeside(taken) ==
    LET free == MasterPorts \ taken
    IN  IF free = {} THEN 0 ELSE CHOOSE p \in free : \A q \in free : p <= q
=============================================================================
