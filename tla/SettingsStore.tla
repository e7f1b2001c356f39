---------------------------- MODULE SettingsStore ----------------------------
(***************************************************************************)
(* What agentmgr promises the calls of the CPI: Write, Read and Delete of  *)
(* a VM's agent.json each happen at one moment, and a Write that fails or  *)
(* whose process is killed leaves the old settings, the new ones, or a     *)
(* torn file.  It is what VMLifecycle takes them for.                      *)
(* AgentFilesRefinement shows that AgentFiles, with its many file system   *)
(* calls, keeps the promise.                                               *)
(***************************************************************************)
CONSTANTS Proc, VM, Setting, Absent, Torn, None

VARIABLES
    file,   \* file[v]: the agent.json of v
    call    \* call[p]: what process p asks for, and what it was answered

vars == <<file, call>>

Idle == [op |-> None, vm |-> None, env |-> None, stage |-> None, result |-> None]

Init ==
    /\ file = [v \in VM |-> Absent]
    /\ call = [p \in Proc |-> Idle]

Stores(v, e) == file' = [file EXCEPT ![v] = e]

Answer(p, stage, result) == call' = [call EXCEPT ![p].stage = stage, ![p].result = result]

Asks(p, op) == call[p].op = op /\ call[p].stage = "asked"

\* One call on a VM at a time.
Ask(p) == call[p] = Idle /\
    \E op \in {"write", "read", "delete"}, v \in VM, e \in Setting :
        /\ \A q \in Proc : call[q].vm # v
        /\ call' = [call EXCEPT ![p] = [op |-> op, vm |-> v, env |-> IF op = "write" THEN e ELSE None,
                                        stage |-> "asked", result |-> None]]
        /\ UNCHANGED file

\* What a Write that is cut short leaves.
Interrupt(p) == \E e \in {file[call[p].vm], Torn, call[p].env} : Stores(call[p].vm, e)

\* It returns an image with the settings it has stored.
Write(p) == Asks(p, "write") /\
    \/ Stores(call[p].vm, call[p].env) /\ Answer(p, "ok", call[p].env)
    \/ Interrupt(p) /\ Answer(p, "failed", None)

Read(p) == Asks(p, "read") /\ UNCHANGED file /\
    \/ file[call[p].vm] \in Setting /\ Answer(p, "ok", file[call[p].vm])
    \/ Answer(p, "failed", None)

Delete(p) == Asks(p, "delete") /\
    \/ Stores(call[p].vm, Absent) /\ Answer(p, "ok", None)
    \/ UNCHANGED file /\ Answer(p, "failed", None)

Return(p) ==
    /\ call[p].stage \in {"ok", "failed"}
    /\ call' = [call EXCEPT ![p] = Idle]
    /\ UNCHANGED file

Kill(p) ==
    /\ call[p] # Idle
    /\ call' = [call EXCEPT ![p] = Idle]
    /\ IF Asks(p, "write") THEN Interrupt(p) ELSE UNCHANGED file

Next == \E p \in Proc : Ask(p) \/ Write(p) \/ Read(p) \/ Delete(p) \/ Return(p) \/ Kill(p)

Spec == Init /\ [][Next]_vars
=============================================================================
