------------------------------ MODULE AgentFiles ------------------------------
(***************************************************************************)
(* The agent settings store and the images made from it (src/src/agentmgr) *)
(* with the file system calls in between: the processes of cmd/cpi share   *)
(* the directory of temporary files and the file store.  Write picks a     *)
(* temporary name by making a file and removing it, then makes the image   *)
(* under that name.  VMLifecycle takes all of Write for one step, WriteEnv;*)
(* AgentFilesRefinement shows that it may.                                 *)
(*                                                                         *)
(* A file stays open when its name is removed, so names and files are told *)
(* apart.  Any file system call may fail, MaxFaults of them in a behaviour;*)
(* every error of a Write after the image was made goes through the        *)
(* deferred os.Remove.                                                     *)
(***************************************************************************)
EXTENDS Naturals, FiniteSets

CONSTANTS
    Proc,           \* processes of cmd/cpi that run at a time
    VM,
    Name,           \* temporary names "config-<random>", drawn at random
    Setting,        \* agent settings
    Kinds,          \* agent.source_type: "FAT32", "CDROM"
    Absent, Torn,   \* no agent.json; one that was cut
    None, Left,     \* no value; the file of a process that has ended
    MaxFaults       \* bound on failed calls and killed processes

\* The file a process makes to draw a name, and its image.
File == Proc \X {"probe", "image"}

ASSUME FilesAssumption ==
    /\ Kinds \subseteq {"FAT32", "CDROM"} /\ MaxFaults \in Nat
    /\ Absent # Torn /\ {Absent, Torn, None} \cap Setting = {}
    /\ None \notin Name \cup VM \cup {"write", "read", "delete"}
    /\ None # Left /\ {None, Left} \cap File = {}

VARIABLES
    kind,       \* the manager configured
    name,       \* name[n]: the temporary file called n, if any
    holds,      \* holds[f]: the settings in the image f, None while there are none
    json,       \* json[v]: the agent.json of v in the file store
    pc, job,    \* of process p: its next call, its locals
    lost,       \* temporary names left by a process killed or unable to remove them
    faults,
    last        \* last[v]: what a Read of v has to find; None if the last call that writes it failed

vars == <<kind, name, holds, json, pc, job, lost, faults, last>>

PC == {"idle", "ok", "failed", "probe", "unprobe", "create", "format", "truncate", "save",
       "fill", "finalize", "read_back", "discard", "read", "delete"}
\* result: the settings in the image Write returns, or the settings Read returns.
Job == [op : {"write", "read", "delete", None}, vm : VM \cup {None}, env : Setting \cup {None},
        temp : Name \cup {None}, open : File \cup {None}, result : Setting \cup {None}]
NoJob == [op |-> None, vm |-> None, env |-> None, temp |-> None, open |-> None, result |-> None]

Init ==
    /\ kind \in Kinds
    /\ name = [n \in Name |-> None]
    /\ holds = [f \in File |-> None]
    /\ json = [v \in VM |-> Absent]
    /\ pc = [p \in Proc |-> "idle"]
    /\ job = [p \in Proc |-> NoJob]
    /\ lost = {} /\ faults = 0
    /\ last = [v \in VM |-> Absent]

-----------------------------------------------------------------------------

Goto(p, next, work) ==
    /\ pc' = [pc EXCEPT ![p] = next]
    /\ job' = [job EXCEPT ![p] = work]
    /\ UNCHANGED <<kind, last>>

Fault == faults < MaxFaults /\ faults' = faults + 1
NoFault == UNCHANGED faults

Rename(n, f) == name' = [name EXCEPT ![n] = f]
Leave(n) == Rename(n, Left) /\ lost' = lost \cup {n}

(* tempFileName *)

\* os.CreateTemp draws until it finds a name that is free; if Close fails, the file stays.
MakeProbe(p) == pc[p] = "probe" /\
    /\ \/ \E n \in Name :
             /\ name[n] = None
             /\ \/ /\ Rename(n, <<p, "probe">>) /\ NoFault /\ UNCHANGED lost
                   /\ Goto(p, "unprobe", [job[p] EXCEPT !.temp = n])
                \/ Fault /\ Leave(n) /\ Goto(p, "failed", job[p])
       \/ (Fault \/ (NoFault /\ \A n \in Name : name[n] # None))
          /\ Goto(p, "failed", job[p]) /\ UNCHANGED <<name, lost>>
    /\ UNCHANGED <<holds, json>>

RemoveProbe(p) == pc[p] = "unprobe" /\
    LET n == job[p].temp IN
    /\ \/ Rename(n, None) /\ NoFault /\ UNCHANGED lost /\ Goto(p, "create", job[p])
       \/ Fault /\ Leave(n) /\ Goto(p, "failed", job[p])
    /\ UNCHANGED <<holds, json>>

(* Write *)

\* (mutant) A file of that name is opened.
CreateImageShared(p) == pc[p] = "create" /\
    LET n == job[p].temp
        f == IF name[n] \in File THEN name[n] ELSE <<p, "image">>
    IN  /\ Rename(n, f) /\ holds' = [holds EXCEPT ![f] = None] /\ NoFault
        /\ Goto(p, "format", [job[p] EXCEPT !.open = f])
        /\ UNCHANGED <<json, lost>>

\* (mutant) The removal is deferred before the error is looked at.
CreateImageDeferred(p) == pc[p] = "create" /\
    LET n == job[p].temp
        f == <<p, "image">>
    IN  /\ NoFault /\ UNCHANGED <<json, lost>>
        /\ IF name[n] = None
           THEN /\ Rename(n, f) /\ holds' = [holds EXCEPT ![f] = None]
                /\ Goto(p, "format", [job[p] EXCEPT !.open = f])
           ELSE Goto(p, "discard", job[p]) /\ UNCHANGED <<name, holds>>

\* diskfs.Create opens with O_EXCL, then extends the file; nothing is deferred yet.
CreateImage(p) == pc[p] = "create" /\
    LET n == job[p].temp
        f == <<p, "image">>
    IN  /\ \/ /\ name[n] = None
              /\ \/ /\ Rename(n, f) /\ holds' = [holds EXCEPT ![f] = None] /\ NoFault
                    /\ Goto(p, "format", [job[p] EXCEPT !.open = f]) /\ UNCHANGED lost
                 \/ Fault /\ Leave(n) /\ Goto(p, "failed", job[p]) /\ UNCHANGED holds
           \/ /\ (Fault \/ (NoFault /\ name[n] # None))
              /\ Goto(p, "failed", job[p]) /\ UNCHANGED <<name, holds, lost>>
        /\ UNCHANGED json

\* (mutant) The image is left to the error.
LocallyReturning(p, next) ==
    /\ (NoFault /\ Goto(p, next, job[p])) \/ (Fault /\ Goto(p, "failed", job[p]))
    /\ UNCHANGED <<name, lost, holds, json>>

\* A step on files of the process's own, which may fail.
Locally(p, next) ==
    /\ (NoFault /\ Goto(p, next, job[p])) \/ (Fault /\ Goto(p, "discard", job[p]))
    /\ UNCHANGED <<name, lost, holds, json>>

\* FAT32: the partition, the file system, the directory and the metadata.
FormatFAT32(p) == pc[p] = "format" /\ kind = "FAT32" /\ Locally(p, "truncate")

\* CDROM: the file system, which collects its files in a workspace of its own.
FormatISO(p) == pc[p] = "format" /\ kind = "CDROM" /\ Locally(p, "truncate")

\* writeAgentEnv: os.WriteFile cuts the agent.json, then writes it.
Truncate(p) == pc[p] = "truncate" /\
    /\ \/ NoFault /\ json' = [json EXCEPT ![job[p].vm] = Torn] /\ Goto(p, "save", job[p])
       \/ Fault /\ UNCHANGED json /\ Goto(p, "discard", job[p])
    /\ UNCHANGED <<name, lost, holds>>

Save(p) == pc[p] = "save" /\
    /\ \/ NoFault /\ json' = [json EXCEPT ![job[p].vm] = job[p].env] /\ Goto(p, "fill", job[p])
       \/ Fault /\ UNCHANGED json /\ Goto(p, "discard", job[p])
    /\ UNCHANGED <<name, lost, holds>>

Put(p, next) ==
    /\ \/ NoFault /\ holds' = [holds EXCEPT ![job[p].open] = job[p].env] /\ Goto(p, next, job[p])
       \/ Fault /\ UNCHANGED holds /\ Goto(p, "discard", job[p])
    /\ UNCHANGED <<name, lost, json>>

\* writeFile of the userdata, into the image.
FillFAT32(p) == pc[p] = "fill" /\ kind = "FAT32" /\ Put(p, "read_back")

\* The directories, the userdata and the metadata, into the workspace; then the image.
FillISO(p) == pc[p] = "fill" /\ kind = "CDROM" /\ Locally(p, "finalize")
Finalize(p) == pc[p] = "finalize" /\ Put(p, "read_back")

\* os.ReadFile by name.
ReadBack(p) == pc[p] = "read_back" /\
    LET f == name[job[p].temp] IN
    /\ \/ NoFault /\ f \in File /\ Goto(p, "discard", [job[p] EXCEPT !.result = holds[f]])
       \/ (Fault \/ (NoFault /\ f \notin File))
          /\ Goto(p, "discard", job[p])
    /\ UNCHANGED <<name, lost, holds, json>>

\* The deferred os.Remove, whose error nobody sees.
Discard(p) == pc[p] = "discard" /\
    LET n == job[p].temp IN
    /\ \/ NoFault /\ Rename(n, None) /\ UNCHANGED lost
       \/ Fault /\ Leave(n)
    /\ Goto(p, IF job[p].result # None THEN "ok" ELSE "failed",
            [job[p] EXCEPT !.temp = None, !.open = None])
    /\ UNCHANGED <<holds, json>>

(* Read and Delete *)

\* (mutant) What is read is not parsed.
ReadUnparsed(p) == pc[p] = "read" /\
    /\ \/ NoFault /\ Goto(p, "ok", [job[p] EXCEPT !.result = json[job[p].vm]])
       \/ Fault /\ Goto(p, "failed", job[p])
    /\ UNCHANGED <<name, lost, holds, json>>

Read(p) == pc[p] = "read" /\
    LET e == json[job[p].vm] IN
    /\ \/ NoFault /\ e \in Setting /\ Goto(p, "ok", [job[p] EXCEPT !.result = e])
       \/ (Fault \/ (NoFault /\ e \notin Setting))
          /\ Goto(p, "failed", job[p])
    /\ UNCHANGED <<name, lost, holds, json>>

Delete(p) == pc[p] = "delete" /\
    /\ \/ NoFault /\ json' = [json EXCEPT ![job[p].vm] = Absent] /\ Goto(p, "ok", job[p])
       \/ Fault /\ UNCHANGED json /\ Goto(p, "failed", job[p])
    /\ UNCHANGED <<name, lost, holds>>

-----------------------------------------------------------------------------
(* The calls of package cpi: one on a VM at a time. *)

Call(p) == pc[p] = "idle" /\
    \E op \in {"write", "read", "delete"}, v \in VM, e \in Setting :
        /\ \A q \in Proc : job[q].vm # v
        /\ Goto(p, IF op = "write" THEN "probe" ELSE op,
                [NoJob EXCEPT !.op = op, !.vm = v, !.env = IF op = "write" THEN e ELSE None])
        /\ UNCHANGED <<name, lost, holds, json, faults>>

End(p, good) ==
    LET j == job[p] IN
    /\ pc' = [pc EXCEPT ![p] = "idle"] /\ job' = [job EXCEPT ![p] = NoJob]
    /\ last' = [last EXCEPT ![j.vm] = IF j.op = "read" THEN @ ELSE IF ~good THEN None
                                      ELSE IF j.op = "write" THEN j.env ELSE Absent]
    /\ UNCHANGED <<kind, holds, json>>

Reply(p) ==
    /\ pc[p] \in {"ok", "failed"} /\ End(p, pc[p] = "ok")
    /\ UNCHANGED <<name, lost, faults>>

\* Killed, with its temporary file.
Crash(p) ==
    /\ pc[p] # "idle" /\ Fault /\ End(p, FALSE)
    /\ LET own == {n \in Name : name[n] \in {p} \X {"probe", "image"}} IN
       /\ name' = [n \in Name |-> IF n \in own THEN Left ELSE name[n]]
       /\ lost' = lost \cup own

Write(p) ==
    \/ MakeProbe(p) \/ RemoveProbe(p) \/ CreateImage(p)
    \/ FormatFAT32(p) \/ FormatISO(p) \/ Truncate(p) \/ Save(p)
    \/ FillFAT32(p) \/ FillISO(p) \/ Finalize(p) \/ ReadBack(p) \/ Discard(p)

Next == \E p \in Proc : Write(p) \/ Read(p) \/ Delete(p) \/ Call(p) \/ Reply(p) \/ Crash(p)

Spec == Init /\ [][Next]_vars

-----------------------------------------------------------------------------
(* Properties *)

TypeOK ==
    /\ kind \in Kinds
    /\ name \in [Name -> File \cup {None, Left}]
    /\ holds \in [File -> Setting \cup {None}]
    /\ json \in [VM -> Setting \cup {Absent, Torn}]
    /\ pc \in [Proc -> PC] /\ job \in [Proc -> Job]
    /\ lost \subseteq Name /\ faults \in 0..MaxFaults
    /\ last \in [VM -> Setting \cup {Absent, None}]
    /\ \A p \in Proc :
        /\ pc[p] = "idle" <=> job[p].vm = None
        /\ pc[p] \in {"format", "truncate", "save", "fill", "finalize", "read_back"} =>
               job[p].open # None /\ job[p].env # None

\* The image a Write returns holds the settings it was given, and so does the VM's agent.json,
\* whichever other Writes draw the same temporary name (tempFileName, diskfs.Create).
OwnImage == \A p \in Proc :
    pc[p] = "ok" /\ job[p].op = "write" =>
        job[p].result = job[p].env /\ json[job[p].vm] = job[p].env

\* A temporary file is removed by the process that made it, never by another that has drawn
\* the same name (tempFileName, the deferred os.Remove).
RemovesOwn ==
    [][\A n \in Name, p \in Proc : name[n] \in {p} \X {"probe", "image"} /\ name'[n] # name[n] =>
          pc'[p] # pc[p]]_vars

\* A temporary file belongs to a process that runs, unless its process was killed or the calls
\* that make and remove it failed: every other error removes it (Write).
NoLeftover == \A n \in Name \ lost :
    name[n] # None => \E p \in Proc : job[p].temp = n /\ name[n] \in {p} \X {"probe", "image"}

\* Read returns what the last Write of the VM saved, or fails if it was deleted; only a Write
\* or Delete that failed leaves this open (Read, writeAgentEnv, Delete).
ReadsLast == \A p \in Proc :
    pc[p] = "ok" /\ job[p].op = "read" => last[job[p].vm] \in {None, job[p].result}
=============================================================================
