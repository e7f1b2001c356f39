-------------------------------- MODULE VMPlan --------------------------------
(***************************************************************************)
(* What create_vm decides before its first request that changes anything   *)
(* (src/src/cpi/create_vm.go, CreateVMV2): the NICs, the networks the      *)
(* agent is told, the cluster target, and the instance configuration of    *)
(* the stemcell's line.  Go iterates its maps -- the networks, the         *)
(* settings of instance_config -- in any order; each iteration is a step.  *)
(***************************************************************************)
EXTENDS Naturals, FiniteSets, Sequences

CONSTANTS
    Network,    \* keys of the networks map
    Target,     \* cluster members and groups
    Line,       \* the keys of instance_config but "default": "jammy", ...
    None        \* "": no target; no address

ASSUME PlanAssumption ==
    /\ IsFiniteSet(Network) /\ IsFiniteSet(Line)
    /\ None \notin Target \cup Line \cup {"default"} /\ "default" \notin Line

\* A network as the director describes it; its address, if any, is its own.
Net == {d \in [type : {"manual", "dynamic"}, ip : BOOLEAN, target : Target \cup {None}] :
            d.type = "manual" => d.ip}

VARIABLES
    net,        \* net[n]: the network n
    server,     \* the configuration: managed_network_assignment; the target, which the
                \* VM's cloud properties may replace; is the network managed by the server?
    config,     \* instance_config: the keys whose settings are not empty
    line,       \* the keys the stemcell's description contains; {} until it is read

    pc,         \* "networks", "description", "configs", "create" (CreateInstance), "failed"
    nets,       \* the networks not iterated yet
    nics,       \* the devices eth0 .. so far, in that order: the network each belongs to and
                \* whether it has that network's address
    told,       \* told[n]: the network as the agent is told it
    target,     \* vmProps.Target
    keys,       \* the keys of instance_config not iterated yet
    chosen,     \* instanceConfig: the key it is from
    default     \* defaultConfig: has it been met?

networking == <<nets, nics, told, target>>
configuring == <<keys, chosen, default>>
vars == <<net, server, config, line, pc, networking, configuring>>

Keys == Line \cup {"default"}

Init ==
    /\ net \in [Network -> Net]
    /\ server \in [managed : BOOLEAN, dhcp : BOOLEAN, target : Target \cup {None}]
    /\ config \in SUBSET Keys
    /\ line = {}
    /\ pc = "networks"
    /\ nets = Network /\ nics = <<>>
    /\ told = [n \in Network |-> net[n]]
    /\ target = server.target
    /\ keys = Keys /\ chosen = None /\ default = FALSE

\* The address the director planned for n: none on a dynamic network.
PlannedIP(n) == net[n].ip /\ net[n].type # "dynamic"

\* (mutant) A network's target is only compared with the one the VM was given at first.
IrreconcilableWithFirst(n) ==
    net[n].target # None /\ server.target # None /\ server.target # net[n].target

Irreconcilable(n) ==
    net[n].target # None /\ target # None /\ target # net[n].target

\* (mutant) A dynamic network's address is used.
NicAny(n) == [network |-> n, ip |-> server.managed /\ net[n].ip]

Nic(n) == [network |-> n, ip |-> server.managed /\ PlannedIP(n)]

\* (mutant) The network is told as it was planned, whoever assigns the address.
TellPlanned(n) == net[n]

Tell(n) ==
    IF server.managed /\ server.dhcp
    THEN [net[n] EXCEPT !.type = "dynamic", !.ip = PlannedIP(n)] ELSE net[n]

PlanNetwork(n) ==
    /\ pc = "networks" /\ n \in nets
    /\ told' = [told EXCEPT ![n] = Tell(n)]
    /\ IF server.managed /\ Irreconcilable(n)
       THEN pc' = "failed" /\ UNCHANGED <<nets, nics, target>>
       ELSE /\ nics' = Append(nics, Nic(n))
            /\ nets' = nets \ {n}
            /\ target' = IF server.managed /\ net[n].target # None THEN net[n].target ELSE target
            /\ UNCHANGED pc
    /\ UNCHANGED <<net, server, config, line, configuring>>

NetworksPlanned ==
    /\ pc = "networks" /\ nets = {} /\ pc' = "description"
    /\ UNCHANGED <<net, server, config, line, networking, configuring>>

GetStemcellDescription ==
    /\ pc = "description"
    /\ \/ pc' = "configs" /\ line' \in SUBSET Line
       \/ pc' = "failed" /\ UNCHANGED line
    /\ UNCHANGED <<net, server, config, networking, configuring>>

\* (mutant) "default" is one more key that matches.
ReadConfigAlike(k) ==
    /\ pc = "configs" /\ k \in keys /\ keys' = keys \ {k}
    /\ chosen' = IF k = "default" \/ k \in line THEN k ELSE chosen
    /\ UNCHANGED <<net, server, config, line, pc, networking, default>>

\* Of several keys in the description, the last that is met is taken.
ReadConfig(k) ==
    /\ pc = "configs" /\ k \in keys /\ keys' = keys \ {k}
    /\ default' = (default \/ k = "default")
    /\ chosen' = IF k \in line THEN k ELSE chosen
    /\ UNCHANGED <<net, server, config, line, pc, networking>>

\* (mutant) Without settings the instance is created all the same.
ChooseConfigAnyway ==
    /\ pc = "configs" /\ keys = {} /\ pc' = "create"
    /\ chosen' = IF chosen \in config THEN chosen
                 ELSE IF default /\ "default" \in config THEN "default" ELSE None
    /\ UNCHANGED <<net, server, config, line, networking, keys, default>>

ChooseConfig ==
    LET own == chosen \in config
        fallback == default /\ "default" \in config
    IN  /\ pc = "configs" /\ keys = {}
        /\ chosen' = IF own THEN chosen ELSE IF fallback THEN "default" ELSE None
        /\ pc' = IF own \/ fallback THEN "create" ELSE "failed"
        /\ UNCHANGED <<net, server, config, line, networking, keys, default>>

Next ==
    \/ \E n \in Network : PlanNetwork(n)
    \/ NetworksPlanned \/ GetStemcellDescription
    \/ \E k \in Keys : ReadConfig(k)
    \/ ChooseConfig

Spec == Init /\ [][Next]_vars

-----------------------------------------------------------------------------
(* Properties *)

TypeOK ==
    /\ net \in [Network -> Net]
    /\ server \in [managed : BOOLEAN, dhcp : BOOLEAN, target : Target \cup {None}]
    /\ config \subseteq Keys /\ line \subseteq Line
    /\ pc \in {"networks", "description", "configs", "create", "failed"}
    /\ nets \subseteq Network
    /\ nics \in Seq([network : Network, ip : BOOLEAN])
    /\ told \in [Network -> [type : {"manual", "dynamic"}, ip : BOOLEAN,
                             target : Target \cup {None}]]
    /\ target \in Target \cup {None}
    /\ keys \subseteq Keys /\ default \in BOOLEAN
    /\ chosen \in Keys \cup {None} /\ (pc = "create" => chosen \in Keys)

\* Every target somebody asked for.
Wanted == ({server.target} \cup
           IF server.managed THEN {net[n].target : n \in Network} ELSE {}) \ {None}

\* Whatever the order of the networks: a VM is created on the target its cloud properties, the
\* configuration and its networks agree on, and refused for its networks only if two differ
\* (CreateVMV2).
TargetReconciled ==
    /\ pc \notin {"networks", "failed"} => Wanted = {target} \ {None}
    /\ pc = "failed" /\ nets # {} => \E s, t \in Wanted : s # t

\* When the instance is created it has one NIC for each network.  The server gives a network the
\* agent is told as "manual" the very address the agent configures, and none to one that was
\* planned as dynamic (CreateVMV2).
NicsAgree == pc = "create" =>
    \A n \in Network :
        LET own == {k \in DOMAIN nics : nics[k].network = n} IN
        /\ Cardinality(own) = 1
        /\ server.managed => \A k \in own :
            /\ told[n].type = "manual" => nics[k].ip /\ ~server.dhcp
            /\ net[n].type = "dynamic" => ~nics[k].ip

\* In any order of instance_config: the instance has settings; they are those of a key in the
\* stemcell's description, or the default ones when no key is or one that is has none; it is
\* refused only if there is no default and no key or one without settings (CreateVMV2).
ConfigOfLine ==
    LET ownLacks == line = {} \/ ~(line \subseteq config) IN
    /\ pc = "create" => chosen \in config /\ (chosen \in line \/ (chosen = "default" /\ ownLacks))
    /\ pc = "failed" /\ keys = {} => "default" \notin config /\ ownLacks
=============================================================================
