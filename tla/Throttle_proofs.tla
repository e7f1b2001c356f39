---------------------------- MODULE Throttle_proofs ----------------------------
(* What the throttle guarantees for every number of processes, limit and hold. *)
EXTENDS Throttle, FiniteSetTheorems, TLAPS

-----------------------------------------------------------------------------
(* Type correctness *)

LEMMA Bounds == Limit \in Nat /\ Hold \in Nat /\ MaxFaults \in Nat /\ MaxDeaths \in Nat
  BY ThrottleAssumption

\* The counters, apart from the rest of TypeOK: what counts one more stays in its bound.
LEMMA Counters ==
    ASSUME TypeOK
    PROVE  /\ Fault => faults' \in 0 .. MaxFaults
           /\ deaths < MaxDeaths /\ deaths' = deaths + 1 => deaths' \in 0 .. MaxDeaths
<1>1. faults \in 0 .. MaxFaults /\ deaths \in 0 .. MaxDeaths
  BY DEF TypeOK
<1>. QED BY <1>1, Bounds DEF Fault

LEMMA Ages ==
    ASSUME TypeOK
    PROVE  /\ age \in [Client -> 0 .. Hold + 1] /\ 0 \in 0 .. Hold + 1
           /\ \A c \in Client : ~(age[c] > Hold) => age[c] + 1 \in 0 .. Hold + 1
<1>1. age \in [Client -> 0 .. Hold + 1]
  BY DEF TypeOK
<1>. QED BY <1>1, Bounds

LEMMA InitType == Init => TypeOK
  BY Bounds DEF Init, TypeOK

LEMMA ProcessType == ASSUME TypeOK, NEW c \in Client, Process(c) PROVE TypeOK'
<1>1. CASE Dial(c) \/ Serve(c) \/ LockFails(c) \/ UnlockFails(c)
  BY <1>1 DEF Dial, Serve, LockFails, UnlockFails, At, serverVars, TypeOK, Ended
<1>2. CASE Post(c) \/ Unlock(c)
  BY <1>2 DEF Post, Unlock, Send, At, TypeOK
<1>3. CASE Locked(c) \/ Unlocked(c)
  BY <1>3 DEF Locked, Unlocked, At, serverVars, TypeOK, Ended
<1>. QED BY <1>1, <1>2, <1>3 DEF Process

LEMMA HandleType == ASSUME TypeOK, NEW c \in Client, Handle(c) PROVE TypeOK'
<1>1. CASE CheckLimit(c)
  BY <1>1 DEF CheckLimit, Respond, TypeOK
<1>2. CASE Insert(c)
  <2>1. UNCHANGED faults \/ Fault
    BY <1>2 DEF Insert
  <2>2. faults' \in 0 .. MaxFaults
    BY <2>1, Counters DEF TypeOK
  <2>3. age' \in [Client -> 0 .. Hold + 1]
    BY <1>2, Ages DEF Insert
  <2>. QED BY <1>2, <2>2, <2>3 DEF Insert, Respond, TypeOK
<1>3. CASE Lookup(c)
  BY <1>3 DEF Lookup, Respond, TypeOK
<1>4. CASE Delete(c)
  BY <1>4 DEF Delete, Respond, TypeOK
<1>. QED BY <1>1, <1>2, <1>3, <1>4 DEF Handle

LEMMA DeathType == ASSUME TypeOK, ServerDies PROVE TypeOK'
<1>1. /\ answer' \in [Client -> {"none", "created", "busy", "error", "not found", "no content"}]
      /\ broken' \subseteq Client
  BY DEF ServerDies, TypeOK
<1>2. deaths' \in 0 .. MaxDeaths
  BY Counters DEF ServerDies
<1>. QED BY <1>1, <1>2 DEF ServerDies, TypeOK

LEMMA NextType == TypeOK /\ [Next]_vars => TypeOK'
<1>. SUFFICES ASSUME TypeOK, [Next]_vars PROVE TypeOK'
  OBVIOUS
<1>1. ASSUME NEW c \in Client, Kill(c) \/ NextProcess(c) PROVE TypeOK'
  <2>1. CASE Kill(c)
    BY <2>1, Counters DEF Kill, TypeOK, Ended
  <2>2. CASE NextProcess(c)
    <3>1. age' \in [Client -> 0 .. Hold + 1]
      BY <2>2, Ages DEF NextProcess
    <3>. QED BY <2>2, <3>1 DEF NextProcess, TypeOK
  <2>. QED BY <1>1, <2>1, <2>2
<1>2. CASE Expire
  BY <1>2 DEF Expire, ScanStart, Visit, clientVars, TypeOK
<1>3. CASE Tick
  <2>1. age' \in [Client -> 0 .. Hold + 1]
    BY <1>3, Ages DEF Tick, Expired
  <2>. QED BY <1>3, <2>1 DEF Tick, clientVars, TypeOK
<1>4. CASE MapFault \/ Crash
  BY <1>4, DeathType DEF MapFault, Crash
<1>5. CASE Restart
  BY <1>5 DEF Restart, clientVars, TypeOK
<1>6. CASE UNCHANGED vars
  BY <1>6 DEF vars, serverVars, clientVars, TypeOK
<1>. QED
  BY <1>1, <1>2, <1>3, <1>4, <1>5, <1>6, ProcessType, HandleType DEF Next

\* The variables of the throttle always have their types; no reservation is counted older
\* than one tick past the hold.
THEOREM TypeCorrect == Spec => []TypeOK
  BY InitType, NextType, PTL DEF Spec

-----------------------------------------------------------------------------
(* The inductive invariant of ReservationHeld *)

\* A request is handled while its process waits for the answer or after the process ended:
\* a reservation is made for a process in Lock and released for one in Unlock.
HandledFor(c) ==
    /\ handler[c] \in {"check", "insert"} => pc[c] \in {"lock"} \cup Ended
    /\ handler[c] \in {"lookup", "delete"} => pc[c] \in {"unlocking"} \cup Ended
    /\ handler[c] # "none" /\ pc[c] \notin Ended => answer[c] = "none"

\* A process has read the answer to its last request when it makes the next one.
AnswerRead(c) == pc[c] \in {"start", "post", "serve", "unlock"} => answer[c] = "none"

\* From the answer "created" on.
Admitted(c) == pc[c] = "serve" \/ (pc[c] = "lock" /\ answer[c] = "created")

Reserved(c) == Admitted(c) /\ c \notin broken \cup lost /\ age[c] <= Hold => c \in tx

HeldInv == TypeOK /\ \A c \in Client : HandledFor(c) /\ AnswerRead(c) /\ Reserved(c)

\* Nothing a process or a handler does for c disturbs another process's reservation.
LEMMA HeldOne ==
    ASSUME HeldInv, NEW c \in Client, TypeOK',
           \A d \in Client \ {c} :
               /\ pc'[d] = pc[d] /\ handler'[d] = handler[d] /\ answer'[d] = answer[d]
               /\ age'[d] = age[d]
               /\ d \in tx' <=> d \in tx
               /\ d \in broken' <=> d \in broken
               /\ d \in lost' <=> d \in lost,
           HandledFor(c)' /\ AnswerRead(c)' /\ Reserved(c)'
    PROVE  HeldInv'
  BY DEF HeldInv, HandledFor, AnswerRead, Reserved, Admitted

LEMMA OthersWait ==
    ASSUME TypeOK, NEW c \in Client, NEW x, NEW y,
           pc' = [pc EXCEPT ![c] = x], handler' = [handler EXCEPT ![c] = y]
    PROVE  \A d \in Client \ {c} : pc'[d] = pc[d] /\ handler'[d] = handler[d]
<1>1. pc = [d \in Client |-> pc[d]] /\ handler = [d \in Client |-> handler[d]]
  BY DEF TypeOK
<1>. QED BY <1>1

LEMMA HeldProcess == ASSUME HeldInv, NEW c \in Client, Process(c), TypeOK' PROVE HeldInv'
<1>. USE DEF HandledFor, AnswerRead, Reserved, Admitted, Ended
<1>0. TypeOK /\ HandledFor(c) /\ AnswerRead(c) /\ Reserved(c)
  BY DEF HeldInv
<1>1. CASE Dial(c) \/ Serve(c) \/ LockFails(c) \/ UnlockFails(c)
  <2>1. HandledFor(c)' /\ AnswerRead(c)' /\ Reserved(c)'
    BY <1>0, <1>1 DEF Dial, Serve, LockFails, UnlockFails, At, serverVars, TypeOK
  <2>. HIDE DEF HandledFor, AnswerRead, Reserved, Admitted, Ended
  <2>. QED
    BY <1>1, <2>1, <1>0, HeldOne DEF Dial, Serve, LockFails, UnlockFails, At, serverVars, TypeOK
<1>2. CASE Post(c) \/ Unlock(c)
  <2>1. PICK request \in {"check", "lookup"} :
           /\ Send(c, request)
           /\ \/ request = "check" /\ At(c, "post", "lock")
              \/ request = "lookup" /\ At(c, "unlock", "unlocking")
    BY <1>2 DEF Post, Unlock
  <2>2. /\ handler'[c] = request
        /\ pc'[c] = IF request = "check" THEN "lock" ELSE "unlocking"
        /\ answer'[c] = "none"
    <3>1. pc[c] \in {"post", "unlock"} /\ UNCHANGED answer
      BY <2>1 DEF Send, At
    <3>2. answer[c] = "none"
      BY <1>0, <3>1
    <3>3. pc = [d \in Client |-> pc[d]] /\ handler = [d \in Client |-> handler[d]]
      BY <1>0 DEF TypeOK
    <3>4. handler'[c] = request
      BY <2>1, <3>3 DEF Send
    <3>5. pc'[c] = IF request = "check" THEN "lock" ELSE "unlocking"
      BY <2>1, <3>3 DEF At
    <3>. QED BY <3>1, <3>2, <3>4, <3>5
  <2>3. \A d \in Client \ {c} : pc'[d] = pc[d] /\ handler'[d] = handler[d]
    <3>1. /\ pc' = [pc EXCEPT ![c] = "lock"] \/ pc' = [pc EXCEPT ![c] = "unlocking"]
          /\ handler' = [handler EXCEPT ![c] = request]
      BY <2>1 DEF Send, At
    <3>. QED BY <1>0, <3>1, OthersWait
  <2>4. UNCHANGED <<answer, age, tx, broken, lost>>
    BY <2>1 DEF Send
  <2>5. HandledFor(c)' /\ AnswerRead(c)' /\ Reserved(c)'
    <3>. HIDE DEF Reserved
    <3>. SUFFICES HandledFor(c)' /\ AnswerRead(c)' /\ ~Admitted(c)'
      BY DEF Reserved
    <3>1. CASE request = "check"
      BY <2>2, <3>1
    <3>2. CASE request = "lookup"
      BY <2>2, <3>2
    <3>. QED BY <2>1, <3>1, <3>2
  <2>. HIDE DEF HandledFor, AnswerRead, Reserved, Admitted, Ended
  <2>. QED
    BY <2>3, <2>4, <2>5, HeldOne
<1>3. CASE Locked(c) \/ Unlocked(c)
  <2>0. UNCHANGED <<handler, age, tx, broken, lost>>
    BY <1>3 DEF Locked, Unlocked, serverVars
  <2>1. HandledFor(c)' /\ AnswerRead(c)' /\ Reserved(c)'
    <3>1. CASE Locked(c)
      <4>1. /\ pc[c] = "lock" /\ answer'[c] = "none" /\ answer[c] # "none"
            /\ pc'[c] = IF answer[c] = "created" THEN "serve" ELSE "post"
        BY <1>0, <3>1 DEF Locked, At, TypeOK
      <4>. QED
        BY <1>0, <2>0, <4>1
    <3>2. CASE Unlocked(c)
      <4>1. pc[c] = "unlocking" /\ answer'[c] = "none" /\ answer[c] # "none" /\ pc'[c] = "done"
        BY <1>0, <3>2 DEF Unlocked, At, TypeOK
      <4>. QED
        BY <1>0, <2>0, <4>1
    <3>. QED BY <1>3, <3>1, <3>2
  <2>. HIDE DEF HandledFor, AnswerRead, Reserved, Admitted, Ended
  <2>2. \A d \in Client \ {c} : pc'[d] = pc[d] /\ answer'[d] = answer[d]
    <3>1. PICK x : pc' = [pc EXCEPT ![c] = x]
      BY <1>3 DEF Locked, Unlocked, At
    <3>2. answer' = [answer EXCEPT ![c] = "none"]
      BY <1>3 DEF Locked, Unlocked
    <3>3. pc = [d \in Client |-> pc[d]] /\ answer = [d \in Client |-> answer[d]]
      BY <1>0 DEF TypeOK
    <3>. QED
      BY <3>1, <3>2, <3>3
  <2>. QED
    BY <2>0, <2>1, <2>2, HeldOne
<1>. QED BY <1>1, <1>2, <1>3 DEF Process

LEMMA HeldHandle == ASSUME HeldInv, NEW c \in Client, Handle(c), TypeOK' PROVE HeldInv'
<1>. USE DEF HandledFor, AnswerRead, Reserved, Admitted, Ended
<1>0. TypeOK /\ HandledFor(c) /\ AnswerRead(c) /\ Reserved(c)
  BY DEF HeldInv
<1>1. CASE CheckLimit(c) \/ Lookup(c)
  <2>1. HandledFor(c)' /\ AnswerRead(c)' /\ Reserved(c)'
    BY <1>0, <1>1 DEF CheckLimit, Lookup, Respond, TypeOK
  <2>. QED
    BY <1>0, <1>1, <2>1, HeldOne DEF CheckLimit, Lookup, Respond, TypeOK
<1>2. CASE Insert(c)
  <2>1. HandledFor(c)' /\ AnswerRead(c)' /\ Reserved(c)'
    BY <1>0, <1>2 DEF Insert, Respond, TypeOK
  <2>. QED
    BY <1>0, <1>2, <2>1, HeldOne DEF Insert, Respond, TypeOK
<1>3. CASE Delete(c)
  <2>1. HandledFor(c)' /\ AnswerRead(c)' /\ Reserved(c)'
    BY <1>0, <1>3 DEF Delete, Respond, TypeOK
  <2>. QED
    BY <1>0, <1>3, <2>1, HeldOne DEF Delete, Respond, TypeOK
<1>. QED BY <1>1, <1>2, <1>3 DEF Handle

LEMMA HeldDeath == ASSUME HeldInv, ServerDies, TypeOK' PROVE HeldInv'
<1>. SUFFICES ASSUME NEW c \in Client PROVE HandledFor(c)' /\ AnswerRead(c)' /\ Reserved(c)'
  BY DEF HeldInv
<1>1. /\ handler'[c] = "none" /\ pc'[c] = pc[c]
      /\ answer'[c] \in {answer[c], "none"}
      /\ pc[c] \in {"lock", "serve"} => c \in broken'
  BY DEF ServerDies, HeldInv, TypeOK, Ended
<1>. QED
  BY <1>1 DEF HeldInv, HandledFor, AnswerRead, Reserved, Admitted

LEMMA HeldNext == HeldInv /\ [Next]_vars => HeldInv'
<1>. SUFFICES ASSUME HeldInv, [Next]_vars PROVE HeldInv'
  OBVIOUS
<1>0. TypeOK /\ TypeOK'
  BY NextType DEF HeldInv
<1>1. ASSUME NEW c \in Client, Kill(c) PROVE HeldInv'
  <2>1. HandledFor(c)' /\ AnswerRead(c)' /\ Reserved(c)'
    BY <1>0, <1>1 DEF Kill, HeldInv, HandledFor, AnswerRead, Reserved, Admitted, Ended, TypeOK
  <2>. QED
    BY <1>0, <1>1, <2>1, HeldOne DEF Kill, TypeOK
<1>2. ASSUME NEW c \in Client, NextProcess(c) PROVE HeldInv'
  <2>1. pc'[c] = "start" /\ answer'[c] = "none" /\ handler'[c] = "none"
    BY <1>0, <1>2 DEF NextProcess, TypeOK
  <2>2. HandledFor(c)' /\ AnswerRead(c)' /\ Reserved(c)'
    BY <2>1 DEF HandledFor, AnswerRead, Reserved, Admitted
  <2>. QED
    BY <1>0, <1>2, <2>2, HeldOne DEF NextProcess, TypeOK
<1>3. CASE Expire
  <2>1. \A c \in Client : c \in tx /\ ~(age[c] > Hold) => c \in tx'
    BY <1>3 DEF Expire, ScanStart, Visit, Expired
  <2>2. UNCHANGED <<pc, handler, answer, broken, lost, age>>
    BY <1>3 DEF Expire, ScanStart, Visit, clientVars
  <2>3. \A c \in Client : age[c] <= Hold => ~(age[c] > Hold)
    BY <1>0, Ages, Bounds
  <2>. QED
    BY <1>0, <2>1, <2>2, <2>3 DEF HeldInv, HandledFor, AnswerRead, Reserved, Admitted
<1>4. CASE Tick
  <2>1. \A c \in Client : age'[c] <= Hold => age[c] <= Hold
    BY <1>0, <1>4, Ages, Bounds DEF Tick
  <2>. QED
    BY <1>0, <1>4, <2>1 DEF Tick, clientVars, HeldInv, HandledFor, AnswerRead, Reserved, Admitted
<1>5. CASE MapFault \/ Crash
  BY <1>0, <1>5, HeldDeath DEF MapFault, Crash
<1>6. CASE Restart \/ UNCHANGED vars
  BY <1>0, <1>6
  DEF Restart, vars, serverVars, clientVars, HeldInv, HandledFor, AnswerRead, Reserved, Admitted
<1>. QED
  BY <1>0, <1>1, <1>2, <1>3, <1>4, <1>5, <1>6, HeldProcess, HeldHandle DEF Next

LEMMA HeldInit == Init => HeldInv
  BY InitType DEF Init, HeldInv, HandledFor, AnswerRead, Reserved, Admitted

\* A process that was let in keeps its reservation while it serves its call, up to the hold,
\* whatever the other processes, the expiry and the races on the map do, for any number of
\* processes and any limit; only the death of the server or a lost insertion takes it away.
THEOREM ReservationKept == Spec => []ReservationHeld
<1>1. Spec => []HeldInv
  BY HeldInit, HeldNext, PTL DEF Spec
<1>2. HeldInv => ReservationHeld
  BY DEF HeldInv, ReservationHeld, Reserved, Admitted
<1>. QED BY <1>1, <1>2, PTL

-----------------------------------------------------------------------------
(* The limit, where no two insertions are under way at a time *)

Alone == \A c, d \in Inserting : c = d

\* There is room for the reservation that is being inserted.
LimitInv == HeldInv /\ Cardinality(tx) <= Limit
                    /\ (Inserting # {} => Cardinality(tx) + 1 <= Limit)

LEMMA SmallSets ==
    ASSUME TypeOK
    PROVE  /\ IsFiniteSet(tx) /\ Cardinality(tx) \in Nat
           /\ \A s \in SUBSET tx : Cardinality(s) \in Nat /\ Cardinality(s) <= Cardinality(tx)
           /\ \A c : Cardinality(tx \cup {c}) \in Nat /\ Cardinality(tx \cup {c}) <= Cardinality(tx) + 1
<1>1. IsFiniteSet(tx)
  BY ThrottleAssumption, FS_Subset DEF TypeOK
<1>2. Cardinality(tx) \in Nat
  BY <1>1, FS_CardinalityType
<1>3. \A s \in SUBSET tx : Cardinality(s) \in Nat /\ Cardinality(s) <= Cardinality(tx)
  BY <1>1, FS_Subset, FS_CardinalityType
<1>4. ASSUME NEW c
      PROVE  Cardinality(tx \cup {c}) \in Nat /\ Cardinality(tx \cup {c}) <= Cardinality(tx) + 1
  BY <1>1, <1>2, FS_AddElement
<1>. QED BY <1>1, <1>2, <1>3, <1>4

\* Whatever makes no reservation and lets nobody in keeps within the limit.
LEMMA LimitStays ==
    ASSUME LimitInv, HeldInv', tx' \subseteq tx, Inserting' \subseteq Inserting
    PROVE  LimitInv'
<1>1. /\ Cardinality(tx') \in Nat /\ Cardinality(tx) \in Nat /\ Limit \in Nat
      /\ Cardinality(tx') <= Cardinality(tx)
  BY SmallSets, Bounds DEF LimitInv, HeldInv
<1>2. Inserting' # {} => Inserting # {}
  OBVIOUS
<1>. HIDE DEF Inserting
<1>. QED BY <1>1, <1>2 DEF LimitInv

LEMMA LimitHandle ==
    ASSUME LimitInv, HeldInv', Alone, NEW c \in Client, Handle(c)
    PROVE  LimitInv'
<1>0. TypeOK /\ handler \in [Client -> {"none", "check", "insert", "lookup", "delete"}]
  BY DEF LimitInv, HeldInv, TypeOK
<1>1. CASE Lookup(c) \/ Delete(c)
  <2>1. tx' \subseteq tx
    BY <1>1 DEF Lookup, Delete
  <2>2. Inserting' \subseteq Inserting
    BY <1>0, <1>1 DEF Lookup, Delete, Respond, Inserting
  <2>. QED BY <2>1, <2>2, LimitStays
<1>2. CASE CheckLimit(c)
  <2>1. CASE Cardinality(tx) >= Limit /\ Respond(c, "busy")
    <3>1. tx' \subseteq tx /\ Inserting' \subseteq Inserting
      BY <1>0, <1>2, <2>1 DEF CheckLimit, Respond, Inserting
    <3>. QED BY <3>1, LimitStays
  <2>2. CASE Cardinality(tx) < Limit
    <3>1. tx' = tx
      BY <1>2 DEF CheckLimit
    <3>2. Cardinality(tx) + 1 <= Limit /\ Cardinality(tx) <= Limit
      BY <1>0, <2>2, SmallSets, Bounds
    <3>. QED BY <3>1, <3>2 DEF LimitInv
  <2>. QED BY <1>2, <2>1, <2>2 DEF CheckLimit
<1>3. CASE Insert(c)
  <2>1. handler[c] = "insert" /\ handler' = [handler EXCEPT ![c] = "none"]
    BY <1>3 DEF Insert, Respond
  <2>2. Inserting' = {} /\ c \in Inserting
    <3>1. Inserting' = Inserting \ {c} /\ c \in Inserting
      BY <1>0, <2>1 DEF Inserting
    <3>. QED BY <3>1 DEF Alone
  <2>3. tx' = tx \cup {c} \/ tx' = tx
    BY <1>3 DEF Insert
  <2>4. Cardinality(tx) \in Nat /\ Cardinality(tx) + 1 <= Limit
    BY <1>0, <2>2, SmallSets DEF LimitInv
  <2>5. Cardinality(tx') <= Limit
    <3>1. Cardinality(tx \cup {c}) \in Nat /\ Cardinality(tx \cup {c}) <= Cardinality(tx) + 1
      BY <1>0, SmallSets
    <3>2. Cardinality(tx') = Cardinality(tx \cup {c}) \/ Cardinality(tx') = Cardinality(tx)
      BY <2>3
    <3>. QED BY <2>4, <3>1, <3>2, Bounds
  <2>. QED BY <2>2, <2>5 DEF LimitInv
<1>. QED BY <1>1, <1>2, <1>3 DEF Handle

LEMMA LimitNext == LimitInv /\ Alone /\ [Next]_vars => LimitInv'
<1>. SUFFICES ASSUME LimitInv, Alone, [Next]_vars PROVE LimitInv'
  OBVIOUS
<1>0. HeldInv'
  BY HeldNext DEF LimitInv
<1>1. CASE \E c \in Client : Process(c) \/ Kill(c) \/ NextProcess(c)
  <2>1. UNCHANGED tx
    BY <1>1 DEF Process, Dial, Post, Locked, LockFails, Serve, Unlock, Unlocked, UnlockFails, Send, Kill,
       NextProcess, serverVars
  <2>2. \/ UNCHANGED handler
        \/ \E c \in Client : handler' = [handler EXCEPT ![c] = "check"]
        \/ \E c \in Client : handler' = [handler EXCEPT ![c] = "lookup"]
    BY <1>1 DEF Process, Dial, Post, Locked, LockFails, Serve, Unlock, Unlocked, UnlockFails, Send, Kill,
       NextProcess, serverVars
  <2>3. Inserting' \subseteq Inserting
    BY <2>2 DEF Inserting, LimitInv, HeldInv, TypeOK
  <2>. QED BY <1>0, <2>1, <2>3, LimitStays
<1>2. CASE \E c \in Client : Handle(c)
  BY <1>0, <1>2, LimitHandle
<1>3. CASE Expire \/ Tick \/ Restart \/ UNCHANGED vars
  <2>1. tx' \subseteq tx /\ UNCHANGED handler
    BY <1>3 DEF Expire, ScanStart, Visit, Tick, Restart, vars, serverVars
  <2>. QED BY <1>0, <2>1, LimitStays DEF Inserting
<1>4. CASE MapFault \/ Crash
  <2>1. tx' = {} /\ handler' = [c \in Client |-> "none"]
    BY <1>4 DEF MapFault, Crash, ServerDies
  <2>. QED BY <1>0, <2>1, LimitStays DEF Inserting
<1>. QED BY <1>1, <1>2, <1>3, <1>4 DEF Next

\* The limit is exceeded by the race of two requests between the comparison and the insertion
\* and by nothing else, for any number of processes and any limit: without that race, no more
\* processes with a reservation in force serve a call than config.Limit says.
THEOREM LimitUnlessRaced == Spec => LimitHeldAlone
<1>1. Init => LimitInv
  <2>1. Cardinality({}) = 0 /\ 0 <= Limit
    BY FS_EmptySet, Bounds
  <2>. QED BY <2>1, HeldInit DEF Init, LimitInv, Inserting
<1>2. LimitInv => Cardinality(Serving) <= Limit
  <2>. SUFFICES ASSUME LimitInv PROVE Cardinality(Serving) <= Limit
    OBVIOUS
  <2>1. Serving \subseteq tx
    BY DEF Serving, LimitInv, HeldInv, Reserved, Admitted
  <2>. QED BY <2>1, SmallSets, Bounds DEF LimitInv, HeldInv
<1>3. Alone <=> \A c, d \in Inserting : c = d
  BY DEF Alone
<1>. QED BY <1>1, <1>2, <1>3, LimitNext, PTL DEF Spec, LimitHeldAlone

=============================================================================
