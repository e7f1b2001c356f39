---------------------------- MODULE VMPlan_proofs ----------------------------
(***************************************************************************)
(* Proofs about VMPlan, for any number of networks, targets and lines: the *)
(* target and the settings of the instance do not depend on the order in   *)
(* which the two maps are iterated, but for which of several matching keys *)
(* of instance_config is taken.                                            *)
(***************************************************************************)
EXTENDS VMPlan, FiniteSetTheorems, TLAPS

-----------------------------------------------------------------------------
(* Types *)

LEMMA AppendType ==
  ASSUME NEW S, NEW s \in Seq(S), NEW e \in S
  PROVE  Append(s, e) \in Seq(S)
  OBVIOUS

LEMMA EmptyType ==
  ASSUME NEW S
  PROVE  <<>> \in Seq(S)
  OBVIOUS

LEMMA TypeInit == Init => TypeOK
<1> SUFFICES ASSUME Init
             PROVE  TypeOK
  OBVIOUS
<1>1. nics \in Seq([network : Network, ip : BOOLEAN])
  BY EmptyType DEF Init
<1>2. told \in [Network -> [type : {"manual", "dynamic"}, ip : BOOLEAN,
                           target : Target \cup {None}]]
  BY DEF Init, Net
<1>3. /\ server \in [managed : BOOLEAN, dhcp : BOOLEAN, target : Target \cup {None}]
      /\ target \in Target \cup {None}
  BY DEF Init
<1> QED
  BY <1>1, <1>2, <1>3 DEF Init, TypeOK, Keys

\* What the agent is told of a network is of the type of a network.
LEMMA TellType ==
  ASSUME TypeOK, NEW n \in Network
  PROVE  Tell(n) \in [type : {"manual", "dynamic"}, ip : BOOLEAN, target : Target \cup {None}]
<1> DEFINE D == [type : {"manual", "dynamic"}, ip : BOOLEAN, target : Target \cup {None}]
<1>1. net[n] \in D
  BY DEF TypeOK, Net
<1>2. PlannedIP(n) \in BOOLEAN
  BY <1>1 DEF PlannedIP
<1>3. [net[n] EXCEPT !.type = "dynamic", !.ip = PlannedIP(n)] \in D
  BY <1>1, <1>2
<1> QED
  BY <1>1, <1>3 DEF Tell

LEMMA TypeNext ==
  ASSUME TypeOK, [Next]_vars
  PROVE  TypeOK'
<1>1. ASSUME NEW n \in Network, PlanNetwork(n)
      PROVE  TypeOK'
  <2>1. Nic(n) \in [network : Network, ip : BOOLEAN]
    <3>1. net[n] \in Net /\ server.managed \in BOOLEAN
      BY DEF TypeOK
    <3> QED
      BY <3>1 DEF Nic, PlannedIP, Net
  <2>2. told' \in [Network -> [type : {"manual", "dynamic"}, ip : BOOLEAN,
                              target : Target \cup {None}]]
    BY <1>1, TellType DEF PlanNetwork, TypeOK
  <2>3. nics' \in Seq([network : Network, ip : BOOLEAN])
    <3>1. nics \in Seq([network : Network, ip : BOOLEAN])
      BY DEF TypeOK
    <3>2. nics' = nics \/ nics' = Append(nics, Nic(n))
      BY <1>1 DEF PlanNetwork
    <3> QED
      BY <2>1, <3>1, <3>2, AppendType
  <2>4. target' \in Target \cup {None} /\ nets' \subseteq Network
        /\ pc' \in {"networks", "failed"}
    <3>1. net[n].target \in Target \cup {None}
      BY DEF TypeOK, Net
    <3> QED
      BY <1>1, <3>1 DEF PlanNetwork, TypeOK
  <2> QED
    BY <1>1, <2>2, <2>3, <2>4 DEF PlanNetwork, TypeOK, configuring
<1>2. ASSUME NetworksPlanned \/ GetStemcellDescription
      PROVE  TypeOK'
  BY <1>2 DEF NetworksPlanned, GetStemcellDescription, TypeOK, networking, configuring
<1>3. ASSUME NEW k \in Keys, ReadConfig(k)
      PROVE  TypeOK'
  BY <1>3 DEF ReadConfig, TypeOK, networking, Keys
<1>4. ASSUME ChooseConfig
      PROVE  TypeOK'
  <2>1. config \subseteq Keys /\ "default" \in Keys
    BY DEF TypeOK, Keys
  <2> QED
    BY <1>4, <2>1 DEF ChooseConfig, TypeOK, networking
<1>5. ASSUME UNCHANGED vars
      PROVE  TypeOK'
  BY <1>5 DEF vars, networking, configuring, TypeOK
<1> QED
  BY <1>1, <1>2, <1>3, <1>4, <1>5 DEF Next

\* Every state of a planned VM has its type, and none is created without a key of
\* instance_config (CreateVMV2).
THEOREM TypeCorrect == Spec => []TypeOK
  BY TypeInit, TypeNext, PTL DEF Spec

-----------------------------------------------------------------------------
(* The target *)

\* The targets asked for so far.
WantedSoFar == ({server.target} \cup
    IF server.managed THEN {net[n].target : n \in Network \ nets} ELSE {}) \ {None}

\* So far they agree, and the target is the one they agree on; that two differ is the only way
\* to fail with networks left.
TargetInv ==
    /\ pc # "failed" => WantedSoFar = {target} \ {None}
    /\ pc = "failed" /\ nets # {} => \E s, t \in Wanted : s # t
    /\ pc \notin {"networks", "failed"} => nets = {}

LEMMA TargetInit == Init => TargetInv
  BY DEF Init, TargetInv, WantedSoFar

\* Planning a network adds its target to those that agree, or finds two that do not.
LEMMA TargetStep ==
  ASSUME TypeOK, TargetInv, NEW n \in Network, PlanNetwork(n)
  PROVE  TargetInv'
<1>1. WantedSoFar = {target} \ {None} /\ pc = "networks" /\ n \in nets
  BY DEF TargetInv, PlanNetwork
<1>2. CASE server.managed /\ Irreconcilable(n)
  <2>1. target \in Wanted
    BY <1>1, <1>2 DEF WantedSoFar, Wanted, Irreconcilable
  <2>2. net[n].target \in Wanted /\ target # net[n].target
    BY <1>2 DEF Wanted, Irreconcilable
  <2>3. pc' = "failed" /\ Wanted' = Wanted
    BY <1>2 DEF PlanNetwork, Wanted
  <2> QED
    BY <2>1, <2>2, <2>3 DEF TargetInv
<1>3. CASE ~(server.managed /\ Irreconcilable(n))
  <2>1. /\ nets' = nets \ {n} /\ UNCHANGED <<pc, net, server>>
        /\ target' = IF server.managed /\ net[n].target # None THEN net[n].target ELSE target
    BY <1>3 DEF PlanNetwork
  <2>2. Network \ nets' = (Network \ nets) \cup {n}
    BY <2>1
  <2>3. CASE ~server.managed
    BY <1>1, <2>1, <2>3 DEF TargetInv, WantedSoFar
  <2>4. CASE server.managed
    <3>1. WantedSoFar' = WantedSoFar \cup ({net[n].target} \ {None})
      BY <2>1, <2>2, <2>4 DEF WantedSoFar
    <3> QED
      BY <1>1, <1>3, <2>1, <2>4, <3>1 DEF TargetInv, Irreconcilable
  <2> QED
    BY <2>3, <2>4
<1> QED
  BY <1>2, <1>3

LEMMA TargetNext ==
  ASSUME TypeOK, TargetInv, [Next]_vars
  PROVE  TargetInv'
<1>1. ASSUME NEW n \in Network, PlanNetwork(n)
      PROVE  TargetInv'
  BY <1>1, TargetStep
<1>2. ASSUME UNCHANGED <<net, server, networking>>,
             pc' = pc \/ (pc = "networks" /\ nets = {}) \/ pc \in {"description", "configs"},
             pc # "failed" \/ pc' = "failed",
             pc' = "networks" => pc = "networks"
      PROVE  TargetInv'
  <2>1. WantedSoFar' = WantedSoFar /\ Wanted' = Wanted /\ nets' = nets /\ target' = target
    BY <1>2 DEF WantedSoFar, Wanted, networking
  <2> QED
    BY <1>2, <2>1 DEF TargetInv
<1>3. CASE NetworksPlanned \/ GetStemcellDescription \/ ChooseConfig
  BY <1>2, <1>3 DEF NetworksPlanned, GetStemcellDescription, ChooseConfig
<1>4. CASE \E k \in Keys : ReadConfig(k)
  BY <1>2, <1>4 DEF ReadConfig
<1>5. CASE UNCHANGED vars
  BY <1>2, <1>5 DEF vars
<1> QED
  BY <1>1, <1>3, <1>4, <1>5 DEF Next

\* For any set of networks and any order of them: a VM is created on the target everybody
\* agrees on, and refused for its networks only if two targets differ (CreateVMV2).
THEOREM TargetIsReconciled == Spec => []TargetReconciled
<1>1. TypeOK /\ TargetInv => TargetReconciled
  <2> SUFFICES ASSUME TargetInv
               PROVE  TargetReconciled
    OBVIOUS
  <2>1. nets = {} => WantedSoFar = Wanted
    BY DEF WantedSoFar, Wanted
  <2> QED
    BY <2>1 DEF TargetInv, TargetReconciled
<1> QED
  BY <1>1, TargetInit, TargetNext, TypeCorrect, PTL DEF Spec

-----------------------------------------------------------------------------
(* The settings *)

\* While instance_config is iterated: chosen is a key met that matches, or none that was met
\* does.
Reading ==
    /\ default <=> "default" \notin keys
    /\ chosen = None => line \subseteq keys
    /\ chosen # None => chosen \in line

ConfigInv ==
    /\ pc \in {"networks", "description"} => keys = Keys /\ chosen = None /\ ~default
    /\ pc = "configs" => Reading
    /\ ConfigOfLine

LEMMA ConfigInit == Init => ConfigInv
  BY DEF Init, ConfigInv, ConfigOfLine, Keys

LEMMA ConfigNext ==
  ASSUME TypeOK, ConfigInv, [Next]_vars
  PROVE  ConfigInv'
<1>0. None \notin Line /\ "default" \notin line /\ "default" \in Keys /\ line \subseteq Keys
  BY PlanAssumption DEF TypeOK, Keys
<1>1. ASSUME NEW n \in Network, PlanNetwork(n)
      PROVE  ConfigInv'
  BY <1>0, <1>1 DEF PlanNetwork, ConfigInv, ConfigOfLine, configuring
<1>2. ASSUME NetworksPlanned
      PROVE  ConfigInv'
  BY <1>2 DEF NetworksPlanned, ConfigInv, ConfigOfLine, configuring
<1>3. ASSUME GetStemcellDescription
      PROVE  ConfigInv'
  <2>1. keys = Keys /\ chosen = None /\ ~default /\ UNCHANGED <<keys, chosen, default>>
    BY <1>3 DEF GetStemcellDescription, ConfigInv, configuring
  <2>2. line' \subseteq Line /\ pc' \in {"configs", "failed"}
    BY <1>3 DEF GetStemcellDescription, TypeOK
  <2> QED
    <3>1. "default" \in keys /\ keys' = keys /\ line' \subseteq keys'
      BY <1>0, <2>1, <2>2 DEF Keys
    <3> QED
      BY <2>1, <2>2, <3>1 DEF ConfigInv, ConfigOfLine, Reading
<1>4. ASSUME NEW k \in Keys, ReadConfig(k)
      PROVE  ConfigInv'
  BY <1>0, <1>4 DEF ReadConfig, ConfigInv, ConfigOfLine, Reading, TypeOK
<1>5. ASSUME ChooseConfig
      PROVE  ConfigInv'
  <2>1. keys = {} /\ default /\ (chosen = None => line = {}) /\ (chosen # None => chosen \in line)
    BY <1>5 DEF ChooseConfig, ConfigInv, Reading
  <2>2. None \notin config
    BY <1>0, PlanAssumption DEF TypeOK, Keys
  <2> QED
    BY <1>5, <2>1, <2>2 DEF ChooseConfig, ConfigInv, ConfigOfLine
<1>6. ASSUME UNCHANGED vars
      PROVE  ConfigInv'
  BY <1>6 DEF vars, configuring, ConfigInv, ConfigOfLine, Reading
<1> QED
  BY <1>1, <1>2, <1>3, <1>4, <1>5, <1>6 DEF Next

\* In any order of instance_config: the settings are a matching key's, or the default ones when
\* no key matches or one that does has none, and the refusal is justified (CreateVMV2).
THEOREM ConfigIsOfLine == Spec => []ConfigOfLine
<1>1. ConfigInv => ConfigOfLine
  BY DEF ConfigInv
<1> QED
  BY <1>1, ConfigInit, ConfigNext, TypeCorrect, PTL DEF Spec

-----------------------------------------------------------------------------
(* The NICs *)

\* The network has one NIC, planned as the agent was told.
Planned(n) ==
    /\ \E k \in DOMAIN nics : \A l \in DOMAIN nics : nics[l].network = n <=> l = k
    /\ \A k \in DOMAIN nics : nics[k].network = n => nics[k] = Nic(n)
    /\ told[n] = Tell(n)

\* So has every network that was iterated, and no other has any.
NicsInv ==
    /\ \A n \in nets : \A k \in DOMAIN nics : nics[k].network # n
    /\ \A n \in Network \ nets : Planned(n)
    /\ pc \notin {"networks", "failed"} => nets = {}

LEMMA NicsInit == Init => NicsInv
  BY DEF Init, NicsInv

LEMMA SamePlan ==
  ASSUME UNCHANGED <<net, server>>, NEW n
  PROVE  Nic(n)' = Nic(n) /\ Tell(n)' = Tell(n) /\ Nic(n).network = n
  BY DEF Nic, Tell, PlannedIP

LEMMA NicsNext ==
  ASSUME TypeOK, NicsInv, [Next]_vars
  PROVE  NicsInv'
<1>1. ASSUME NEW n \in Network, PlanNetwork(n), nets' = nets \ {n}
      PROVE  NicsInv'
  <2>1. /\ nics' = Append(nics, Nic(n)) /\ told' = [told EXCEPT ![n] = Tell(n)]
        /\ UNCHANGED <<net, server, pc>> /\ pc = "networks" /\ n \in nets
    BY <1>1 DEF PlanNetwork
  <2>2. /\ DOMAIN nics = 1..Len(nics) /\ Len(nics) \in Nat
        /\ DOMAIN nics' = 1..(Len(nics) + 1)
        /\ \A k \in 1..Len(nics) : nics'[k] = nics[k]
        /\ nics'[Len(nics) + 1] = Nic(n)
    <3>1. nics \in Seq([network : Network, ip : BOOLEAN])
      BY DEF TypeOK
    <3>2. Len(nics') = Len(nics) + 1 /\ DOMAIN nics' = 1..Len(nics')
      BY <2>1, <3>1
    <3> QED
      BY <2>1, <3>1, <3>2
  <2>3. \A m \in Network : Nic(m)' = Nic(m) /\ Tell(m)' = Tell(m) /\ Nic(m).network = m
    BY <2>1, SamePlan
  <2>4. \A m \in nets' : \A k \in DOMAIN nics' : nics'[k].network # m
    BY <1>1, <2>2, <2>3 DEF NicsInv
  <2>5. ASSUME NEW m \in Network \ nets'
        PROVE  Planned(m)'
    <3>1. CASE m = n
      <4>1. \A l \in DOMAIN nics' : nics'[l].network = n <=> l = Len(nics) + 1
        BY <2>1, <2>2, <2>3 DEF NicsInv
      <4>2. told'[n] = Tell(n)
        BY <2>1 DEF TypeOK
      <4> QED
        BY <2>2, <2>3, <3>1, <4>1, <4>2 DEF Planned
    <3>2. CASE m # n
      <4>1. m \in Network \ nets /\ told'[m] = told[m]
        BY <1>1, <2>1, <3>2 DEF TypeOK
      <4>2. PICK k \in DOMAIN nics : \A l \in DOMAIN nics : nics[l].network = m <=> l = k
        BY <4>1 DEF NicsInv, Planned
      <4>3. \A l \in DOMAIN nics' : nics'[l].network = m <=> l = k
        BY <2>2, <2>3, <3>2, <4>2
      <4>4. nics'[k] = Nic(m) /\ k \in DOMAIN nics'
        BY <2>2, <4>1, <4>2 DEF NicsInv, Planned
      <4> QED
        BY <2>3, <4>1, <4>3, <4>4 DEF NicsInv, Planned
    <3> QED
      BY <3>1, <3>2
  <2> QED
    BY <2>1, <2>4, <2>5 DEF NicsInv
<1>2. ASSUME NEW n \in Network, PlanNetwork(n), pc' = "failed"
      PROVE  NicsInv'
  <2>1. /\ told' = [told EXCEPT ![n] = Tell(n)] /\ n \in nets
        /\ UNCHANGED <<net, server, nets, nics>>
    BY <1>2 DEF PlanNetwork
  <2>2. \A m \in Network \ nets : told'[m] = told[m]
    BY <2>1 DEF TypeOK
  <2>3. \A m : Nic(m)' = Nic(m) /\ Tell(m)' = Tell(m)
    BY <2>1, SamePlan
  <2> QED
    BY <1>2, <2>1, <2>2, <2>3 DEF NicsInv, Planned
<1>3. ASSUME UNCHANGED <<net, server, nets, nics, told>>, nets = {} \/ pc' \in {"networks", "failed"} \/ pc' = pc
      PROVE  NicsInv'
  <2>1. \A m : Nic(m)' = Nic(m) /\ Tell(m)' = Tell(m)
    BY <1>3, SamePlan
  <2> QED
    BY <1>3, <2>1 DEF NicsInv, Planned
<1>4. CASE NetworksPlanned
  BY <1>3, <1>4 DEF NetworksPlanned, networking
<1>5. CASE GetStemcellDescription \/ ChooseConfig \/ \E k \in Keys : ReadConfig(k)
  <2>1. nets = {}
    BY <1>5 DEF NicsInv, GetStemcellDescription, ChooseConfig, ReadConfig
  <2> QED
    BY <1>3, <1>5, <2>1 DEF GetStemcellDescription, ChooseConfig, ReadConfig, networking
<1>6. CASE UNCHANGED vars
  BY <1>3, <1>6 DEF vars, networking
<1>7. ASSUME NEW n \in Network, PlanNetwork(n) PROVE NicsInv'
  BY <1>1, <1>2, <1>7 DEF PlanNetwork
<1> QED
  BY <1>4, <1>5, <1>6, <1>7 DEF Next

\* For any number of networks and in any order: the instance has one NIC for each, with the
\* address the agent configures (CreateVMV2).
THEOREM NicsAreTold == Spec => []NicsAgree
<1>1. TypeOK /\ NicsInv => NicsAgree
  <2> SUFFICES ASSUME TypeOK, NicsInv, pc = "create", NEW n \in Network
               PROVE  LET own == {k \in DOMAIN nics : nics[k].network = n} IN
                      /\ Cardinality(own) = 1
                      /\ server.managed => \A k \in own :
                          /\ told[n].type = "manual" => nics[k].ip /\ ~server.dhcp
                          /\ net[n].type = "dynamic" => ~nics[k].ip
    BY DEF NicsAgree
  <2> DEFINE own == {k \in DOMAIN nics : nics[k].network = n}
  <2>1. n \in Network \ nets
    BY DEF NicsInv
  <2>2. PICK k \in DOMAIN nics : \A l \in DOMAIN nics : nics[l].network = n <=> l = k
    BY <2>1 DEF NicsInv, Planned
  <2>3. own = {k}
    BY <2>2
  <2>4. Cardinality(own) = 1
    BY <2>3, FS_Singleton
  <2>5. nics[k] = Nic(n) /\ told[n] = Tell(n)
    BY <2>1, <2>2 DEF NicsInv, Planned
  <2>6. /\ net[n] \in [type : {"manual", "dynamic"}, ip : BOOLEAN, target : Target \cup {None}]
        /\ net[n].type = "manual" => net[n].ip
    BY DEF TypeOK, Net
  <2>7. ASSUME server.managed
        PROVE  /\ told[n].type = "manual" => nics[k].ip /\ ~server.dhcp
               /\ net[n].type = "dynamic" => ~nics[k].ip
    <3>1. nics[k].ip = PlannedIP(n) /\ (PlannedIP(n) <=> net[n].type = "manual")
      BY <2>5, <2>6, <2>7 DEF Nic, PlannedIP
    <3>2. server.dhcp => told[n].type = "dynamic"
      BY <2>5, <2>6, <2>7 DEF Tell
    <3>3. ~server.dhcp => told[n] = net[n]
      BY <2>5 DEF Tell
    <3> QED
      BY <2>6, <3>1, <3>2, <3>3
  <2> QED
    BY <2>3, <2>4, <2>7
<1> QED
  BY <1>1, NicsInit, NicsNext, TypeCorrect, PTL DEF Spec
=============================================================================
