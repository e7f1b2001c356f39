------------------------------- MODULE Throttle -------------------------------
(***************************************************************************)
(* The throttle: a server (src/src/throttle/server.go, cmd/throttle) that  *)
(* keeps a map of reservations, and the processes of cmd/cpi that reserve  *)
(* a place before they serve their one call and give it back afterwards    *)
(* (src/src/throttle/client.go, cmd/cpi/main.go).                          *)
(*                                                                         *)
(* net/http runs a goroutine per request and the expiry runs in one more;  *)
(* they share the map without a lock, so every access to the map is a step *)
(* of its own.  A client has one connection, made when it starts, and the  *)
(* loss of the server breaks it for good.                                  *)
(*                                                                         *)
(* A reservation is named by the client that made it (the code draws a     *)
(* UUID); a client stands for one process at a time.                       *)
(***************************************************************************)
EXTENDS Naturals, FiniteSets

CONSTANTS
    Client,
    Limit,          \* config.Limit
    Hold,           \* config.Hold, in ticks of the clock
    MaxFaults,      \* bound on processes killed and failures of the UUID generator
    MaxDeaths,      \* bound on deaths of the server
    Crashes         \* may the server die of anything but its data race?

ASSUME ThrottleAssumption ==
    /\ IsFiniteSet(Client)
    /\ Limit \in Nat /\ Hold \in Nat /\ MaxFaults \in Nat /\ MaxDeaths \in Nat
    /\ Crashes \in BOOLEAN

VARIABLES
    server,     \* "up" or "down"
    tx,         \* the keys of ts.transactions
    age,        \* age[c]: the age of c's reservation in ticks, at most Hold + 1
    scan,       \* the keys the expiry's range loop has still to visit
    handler,    \* handler[c]: where the goroutine of c's request is
    answer,     \* answer[c]: the response on c's connection
    pc,         \* pc[c]: where process c is
    broken,     \* the clients whose connection is lost
    lost,       \* the clients whose insertion was lost in a race
    faults, deaths

serverVars == <<server, tx, age, scan, handler, lost, faults, deaths>>
clientVars == <<answer, pc, broken>>
vars == <<serverVars, clientVars>>

Ended == {"done", "exited", "panicked"}

Init ==
    /\ server = "up" /\ tx = {} /\ scan = {}
    /\ age = [c \in Client |-> 0]
    /\ handler = [c \in Client |-> "none"]
    /\ answer = [c \in Client |-> "none"]
    /\ pc = [c \in Client |-> "start"]
    /\ broken = {} /\ lost = {}
    /\ faults = 0 /\ deaths = 0

-----------------------------------------------------------------------------
(* The process of cmd/cpi *)

At(c, here, there) == pc[c] = here /\ pc' = [pc EXCEPT ![c] = there]

Fault == faults < MaxFaults /\ faults' = faults + 1

Dial(c) ==
    /\ At(c, "start", IF server = "up" THEN "post" ELSE "exited")
    /\ UNCHANGED <<serverVars, answer, broken>>

Send(c, request) ==
    /\ server = "up" /\ c \notin broken
    /\ handler' = [handler EXCEPT ![c] = request]
    /\ UNCHANGED <<server, tx, age, scan, lost, faults, deaths, answer, broken>>

\* Lock: the POST, and the answer.  LockAndWait sleeps and posts again when it is refused.
Post(c) == At(c, "post", "lock") /\ Send(c, "check")

Locked(c) ==
    /\ answer[c] # "none"
    /\ At(c, "lock", IF answer[c] = "created" THEN "serve" ELSE "post")
    /\ answer' = [answer EXCEPT ![c] = "none"]
    /\ UNCHANGED <<serverVars, broken>>

LockFails(c) ==
    /\ c \in broken /\ answer[c] = "none"
    /\ At(c, "post", "exited") \/ At(c, "lock", "exited")
    /\ UNCHANGED <<serverVars, answer, broken>>

\* ServeOnce; its error ends the process at once.
Serve(c) ==
    /\ At(c, "serve", "unlock") \/ At(c, "serve", "exited")
    /\ UNCHANGED <<serverVars, answer, broken>>

\* Unlock: the DELETE, and the answer, which is success whether it is 204 or 404.
Unlock(c) == At(c, "unlock", "unlocking") /\ Send(c, "lookup")

\* (mutant) A reservation that is gone is an error, and is released again.
UnlockedRetrying(c) ==
    /\ answer[c] # "none"
    /\ At(c, "unlocking", IF answer[c] = "not found" THEN "unlock" ELSE "done")
    /\ answer' = [answer EXCEPT ![c] = "none"]
    /\ UNCHANGED <<serverVars, broken>>

Unlocked(c) ==
    /\ answer[c] # "none"
    /\ At(c, "unlocking", "done")
    /\ answer' = [answer EXCEPT ![c] = "none"]
    /\ UNCHANGED <<serverVars, broken>>

\* The status of the response is read before the error is looked at: there is no response.
UnlockFails(c) ==
    /\ c \in broken /\ answer[c] = "none"
    /\ At(c, "unlock", "panicked") \/ At(c, "unlocking", "panicked")
    /\ UNCHANGED <<serverVars, answer, broken>>

\* The process is killed; a request of its that is being handled goes on.
Kill(c) ==
    /\ pc[c] \notin Ended \cup {"start"}
    /\ pc' = [pc EXCEPT ![c] = "exited"]
    /\ Fault
    /\ UNCHANGED <<server, tx, age, scan, handler, lost, deaths, answer, broken>>

\* The director starts another process, which makes another reservation.
NextProcess(c) ==
    /\ pc[c] \in Ended /\ handler[c] = "none" /\ c \notin tx
    /\ pc' = [pc EXCEPT ![c] = "start"]
    /\ answer' = [answer EXCEPT ![c] = "none"]
    /\ broken' = broken \ {c} /\ lost' = lost \ {c}
    /\ age' = [age EXCEPT ![c] = 0]
    /\ UNCHANGED <<server, tx, scan, handler, faults, deaths>>

-----------------------------------------------------------------------------
(* The server *)

\* (mutants) The comparison is off by one; the reservations never expire.
ExpiredAtHold(c) == c \in tx /\ age[c] >= Hold
ExpiredNever(c) == FALSE

Expired(c) == c \in tx /\ age[c] > Hold

\* Goroutines about to change the map, and those that look things up in it besides.
Writing == {c \in Client : handler[c] \in {"insert", "delete"}}
InMap == {c \in Client : handler[c] \in {"insert", "lookup", "delete"}}
Raced(c) == (InMap \ {c}) # {} \/ scan # {}
\* Two changes at the same time: one of them may be lost.
Overwritten(c) == (Writing \ {c}) # {} \/ \E d \in scan : Expired(d)

Respond(c, status) ==
    /\ handler' = [handler EXCEPT ![c] = "none"]
    /\ answer' = [answer EXCEPT ![c] = status]

\* (mutant) The comparison counts the reservation that is asked for.
CheckLimitPlusOne(c) ==
    /\ handler[c] = "check"
    /\ \/ Cardinality(tx) + 1 >= Limit /\ Respond(c, "busy")
       \/ Cardinality(tx) + 1 < Limit /\ handler' = [handler EXCEPT ![c] = "insert"] /\ UNCHANGED answer
    /\ UNCHANGED <<server, tx, age, scan, lost, faults, deaths, pc, broken>>

\* (mutant) One reservation more is let in.
CheckLimitLate(c) ==
    /\ handler[c] = "check"
    /\ \/ Cardinality(tx) > Limit /\ Respond(c, "busy")
       \/ Cardinality(tx) <= Limit /\ handler' = [handler EXCEPT ![c] = "insert"] /\ UNCHANGED answer
    /\ UNCHANGED <<server, tx, age, scan, lost, faults, deaths, pc, broken>>

\* handleTransactions, POST: the count is compared first and the key inserted later.
CheckLimit(c) ==
    /\ handler[c] = "check"
    /\ \/ Cardinality(tx) >= Limit /\ Respond(c, "busy")
       \/ Cardinality(tx) < Limit /\ handler' = [handler EXCEPT ![c] = "insert"] /\ UNCHANGED answer
    /\ UNCHANGED <<server, tx, age, scan, lost, faults, deaths, pc, broken>>

Insert(c) ==
    /\ handler[c] = "insert"
    /\ \/ /\ tx' = tx \cup {c} /\ age' = [age EXCEPT ![c] = 0]
          /\ Respond(c, "created")
          /\ UNCHANGED <<lost, faults>>
       \/ /\ Overwritten(c)
          /\ lost' = lost \cup {c} /\ Respond(c, "created")
          /\ UNCHANGED <<tx, age, faults>>
       \/ /\ Fault /\ Respond(c, "error")
          /\ UNCHANGED <<tx, age, lost>>
    /\ UNCHANGED <<server, scan, deaths, pc, broken>>

\* handleTransactionWithId, DELETE.
Lookup(c) ==
    /\ handler[c] = "lookup"
    /\ \/ c \notin tx /\ Respond(c, "not found")
       \/ c \in tx /\ handler' = [handler EXCEPT ![c] = "delete"] /\ UNCHANGED answer
    /\ UNCHANGED <<server, tx, age, scan, lost, faults, deaths, pc, broken>>

Delete(c) ==
    /\ handler[c] = "delete"
    /\ tx' = tx \ {c} \/ (Overwritten(c) /\ tx' = tx)
    /\ Respond(c, "no content")
    /\ UNCHANGED <<server, age, scan, lost, faults, deaths, pc, broken>>

\* expireTransactions: on a tick of its timer the goroutine ranges over the map.
ScanStart ==
    /\ server = "up" /\ scan = {} /\ tx # {}
    /\ scan' = tx
    /\ UNCHANGED <<server, tx, age, handler, lost, faults, deaths, clientVars>>

\* (mutant) The loop leaves the keys it should delete.
VisitKeeping(c) ==
    /\ c \in scan
    /\ scan' = scan \ {c}
    /\ UNCHANGED <<server, tx, age, handler, lost, faults, deaths, clientVars>>

Visit(c) ==
    /\ c \in scan
    /\ scan' = scan \ {c}
    /\ tx' = IF Expired(c) THEN tx \ {c} ELSE tx
    /\ UNCHANGED <<server, age, handler, lost, faults, deaths, clientVars>>

Tick ==
    /\ \E c \in tx : ~Expired(c)
    /\ age' = [c \in Client |-> IF c \in tx /\ ~Expired(c) THEN age[c] + 1 ELSE age[c]]
    /\ UNCHANGED <<server, tx, scan, handler, lost, faults, deaths, clientVars>>

\* The map and the connections go with the process; what it answered last may have arrived.
ServerDies ==
    /\ server = "up" /\ deaths < MaxDeaths /\ deaths' = deaths + 1
    /\ server' = "down" /\ tx' = {} /\ scan' = {}
    /\ handler' = [c \in Client |-> "none"]
    /\ broken' = broken \cup {c \in Client : pc[c] \notin Ended \cup {"start"}}
    /\ answer' \in {answer, [c \in Client |-> "none"]}
    /\ UNCHANGED <<age, lost, faults, pc>>

\* "fatal error: concurrent map writes": the runtime ends a process that it sees using a map
\* while it changes it.
MapFault ==
    /\ \/ \E c \in Writing : Raced(c)
       \/ InMap # {} /\ \E c \in scan : Expired(c)
    /\ ServerDies

Crash == Crashes /\ ServerDies

\* monit starts the server again.
Restart ==
    /\ server = "down" /\ server' = "up"
    /\ UNCHANGED <<tx, age, scan, handler, lost, faults, deaths, clientVars>>

-----------------------------------------------------------------------------

Process(c) ==
    \/ Dial(c) \/ Post(c) \/ Locked(c) \/ LockFails(c) \/ Serve(c)
    \/ Unlock(c) \/ Unlocked(c) \/ UnlockFails(c)

Handle(c) == CheckLimit(c) \/ Insert(c) \/ Lookup(c) \/ Delete(c)

Expire == ScanStart \/ \E c \in Client : Visit(c)

Next ==
    \/ \E c \in Client : Process(c) \/ Handle(c) \/ Kill(c) \/ NextProcess(c)
    \/ Expire \/ Tick \/ MapFault \/ Crash \/ Restart

Spec == Init /\ [][Next]_vars

\* Processes and goroutines run, a CPI call ends, time passes, monit restarts the server.
\* A process need not be killed, nor another one started.
FairSpec ==
    /\ Spec
    /\ \A c \in Client : WF_vars(Process(c)) /\ WF_vars(Handle(c)) /\ WF_vars(Visit(c))
    /\ WF_vars(ScanStart) /\ WF_vars(Tick) /\ WF_vars(Restart)

-----------------------------------------------------------------------------
(* Properties *)

TypeOK ==
    /\ server \in {"up", "down"}
    /\ tx \subseteq Client
    /\ age \in [Client -> 0 .. Hold + 1]
    /\ scan \subseteq Client
    /\ handler \in [Client -> {"none", "check", "insert", "lookup", "delete"}]
    /\ answer \in [Client -> {"none", "created", "busy", "error", "not found", "no content"}]
    /\ pc \in [Client -> {"start", "post", "lock", "serve", "unlock", "unlocking"} \cup Ended]
    /\ broken \subseteq Client
    /\ lost \subseteq Client
    /\ faults \in 0 .. MaxFaults
    /\ deaths \in 0 .. MaxDeaths

\* A process that serves its call has its reservation until it is older than the hold, unless
\* the server died or lost the insertion: nobody else's release or expiry removes it.
ReservationHeld == \A c \in Client :
    pc[c] = "serve" /\ c \notin broken \cup lost /\ age[c] <= Hold => c \in tx

\* No more processes serve a call than config.Limit says.
WithinLimit == Cardinality({c \in Client : pc[c] = "serve"}) <= Limit

\* What goes over the limit is the race of handleTransactions alone: where no two requests are
\* between the comparison with config.Limit and their insertion at a time, no more processes
\* serve a call than the limit says, but for those whose reservation was lost or has expired.
Inserting == {c \in Client : handler[c] = "insert"}
Serving == {c \in Client : pc[c] = "serve" /\ c \notin broken \cup lost /\ age[c] <= Hold}
LimitHeldAlone == [](\A c, d \in Inserting : c = d) => [](Cardinality(Serving) <= Limit)

\* Every reservation ends, also that of a process that was killed or exited without Unlock.
SlotFreed == \A c \in Client : c \in tx ~> c \notin tx

Waiting(c) == pc[c] \in {"post", "lock"}

\* As long as a process waits, some process gets its turn or the wait is over: dead
\* reservations do not block the throttle for good.  (Which process it is, is not promised.)
SomeoneServed == \A c \in Client :
    Waiting(c) ~> (~Waiting(c) \/ \E d \in Client : pc[d] = "serve")

\* A process that has been let in ends.
ServedEnds == \A c \in Client : pc[c] = "serve" ~> pc[c] \in Ended
=============================================================================
