------------------------------ MODULE Stemcells ------------------------------
(***************************************************************************)
(* Images on their way from create_stemcell to create_vm: the upload and   *)
(* its alias, the predeployed VM, delete_stemcell, and create_vm up to the *)
(* end of CreateInstance with the file lock around it (src/src/cpi,        *)
(* src/src/adapter/lxd and src/src/adapter/incus: image.go, instance.go).  *)
(* VMLifecycle goes on from there.                                         *)
(*                                                                         *)
(* One process of cmd/cpi per call, one step per request.  CreateInstance  *)
(* takes time at the server: it goes on when the process that asked for it *)
(* dies or loses its connection, and the first one made from an image has  *)
(* to prepare the image on the storage pool.                               *)
(***************************************************************************)
EXTENDS Naturals, FiniteSets

CONSTANTS
    Proc,               \* processes of cmd/cpi that run at a time
    Image,              \* images (fingerprints), one per "name-version" of a stemcell
    Alias,              \* aliases "img-<uuid>", each generated once
    None,
    PredeployStemcell,  \* server.predeploy_stemcell
    LockEnabled,        \* server.create_vm_lock.enabled
    MaxFaults,          \* bound on failed requests and killed processes
    Crashes,            \* may a process be killed?
    Overlap             \* may calls that make or use one stemcell run at a time?

Ops == {"create_stemcell", "delete_stemcell", "create_vm"}

ASSUME StemcellAssumption ==
    /\ {PredeployStemcell, LockEnabled, Crashes, Overlap} \subseteq BOOLEAN
    /\ MaxFaults \in Nat
    /\ None \notin Image \cup Alias \cup Proc \cup Ops

VARIABLES
    image,      \* the images the server has
    alias,      \* alias[a]: the image a names
    ready,      \* the images prepared on the storage pool
    instance,   \* instance[a]: the predeployed VM of a ("vm-<uuid>-predeploy")
    making,     \* making[p]: the CreateInstance under way at the server that p asked for
    pc, job,    \* of process p: its next request, the locals of its call
    lock,       \* the process that holds the file lock
    late,       \* the processes that went on without it when the time-out was over
    faults,
    cid,        \* cid[i]: the stemcell id the director has for i
    spent,      \* the aliases generated so far
    broken,     \* the images whose last create_stemcell or delete_stemcell failed
    deleted,    \* the aliases whose delete_stemcell was answered without an error
    unseen      \* the aliases for which a delete_stemcell could not tell if there was a VM

server == <<image, alias, ready, instance, making>>
director == <<cid, spent, broken, deleted>>
vars == <<server, pc, job, lock, late, faults, director, unseen>>

Job == [op : Ops \cup {None}, image : Image \cup {None}, alias : Alias \cup {None},
        target : Image \cup {None}]
NoJob == [op |-> None, image |-> None, alias |-> None, target |-> None]
Making == [image : Image, vm : Alias \cup {None}, preparing : BOOLEAN]

Start == [create_stemcell |-> "find_image", delete_stemcell |-> "has_vm",
          create_vm |-> "get_alias"]
PC == {"idle", "ok", "failed", "find_image", "create_image", "create_alias",
       "create_instance", "creating", "get_instance", "describe",
       "has_vm", "delete_instance", "get_alias", "delete_image", "get_image", "try_lock"}

Init ==
    /\ image = {} /\ ready = {}
    /\ alias = [a \in Alias |-> None]
    /\ instance = [a \in Alias |-> "none"]
    /\ making = [p \in Proc |-> None]
    /\ pc = [p \in Proc |-> "idle"]
    /\ job = [p \in Proc |-> NoJob]
    /\ lock = None /\ late = {} /\ faults = 0
    /\ cid = [i \in Image |-> None]
    /\ spent = {} /\ broken = {} /\ deleted = {} /\ unseen = {}

AliasesOf(i) == {a \in Alias : alias[a] = i}

\* The server lists an instance from the start of its creation.
BeingMade(a) == \E q \in Proc : making[q] # None /\ making[q].vm = a
Present(a) == instance[a] # "none" \/ BeingMade(a)

-----------------------------------------------------------------------------
(* What the adapters ask of the server *)

UploadImage(i) == image' = image \cup {i} /\ UNCHANGED <<alias, ready, instance, making>>

NameImage(a, i) == alias' = [alias EXCEPT ![a] = i] /\ UNCHANGED <<image, ready, instance, making>>

\* The aliases of an image go with it, and so does what was prepared on the pool.
RemoveImage(i) ==
    /\ image' = image \ {i} /\ ready' = ready \ {i}
    /\ alias' = [a \in Alias |-> IF alias[a] = i THEN None ELSE alias[a]]
    /\ UNCHANGED <<instance, making>>

\* The predeployed VM of a, or a VM of create_vm, from the image a names.
StartMaking(p, a, predeploy) ==
    /\ making' = [making EXCEPT ![p] =
                     [image |-> alias[a], vm |-> IF predeploy THEN a ELSE None,
                      preparing |-> alias[a] \notin ready]]
    /\ UNCHANGED <<image, alias, ready, instance>>

SetInstance(a, state) ==
    instance' = [instance EXCEPT ![a] = state] /\ UNCHANGED <<image, alias, ready, making>>

-----------------------------------------------------------------------------
(* How a request ends *)

Goto(p, next, work) ==
    /\ pc' = [pc EXCEPT ![p] = next]
    /\ job' = [job EXCEPT ![p] = work]

Fault == faults < MaxFaults /\ faults' = faults + 1

\* (mutant) Whoever returns removes the lock.
UnlockAlways(p) == lock' = None

\* The lock file is unlocked when createVMWithLock returns, and by the kernel when its
\* process dies.
Unlock(p) == lock' = IF lock = p THEN None ELSE lock

Fail(p) == Goto(p, "failed", job[p]) /\ Unlock(p)

\* Answered, refused, or failed before or after it took effect.
Request(p, ok, Effect, next, work) ==
    /\ \/ ok /\ Effect /\ Goto(p, next, work) /\ UNCHANGED <<faults, lock>>
       \/ ok /\ Fault /\ Effect /\ Fail(p)
       \/ ~ok /\ UNCHANGED <<server, faults>> /\ Fail(p)
       \/ Fault /\ UNCHANGED server /\ Fail(p)
    /\ UNCHANGED <<late, director, unseen>>

Read(p, ok, next, work) == Request(p, ok, UNCHANGED server, next, work)

-----------------------------------------------------------------------------
(* create_stemcell *)

\* (mutant) The id of an image that is found is the one generated for this call.
FindExistingImageOwn(p) == pc[p] = "find_image" /\
    Read(p, TRUE, IF AliasesOf(job[p].image) # {} THEN "ok" ELSE "create_image", job[p])

\* The image whose description is name-version, if it has an alias: that alias is the answer.
FindExistingImage(p) == pc[p] = "find_image" /\
    LET i == job[p].image IN
    \/ /\ i \in image
       /\ \E a \in AliasesOf(i) : Read(p, TRUE, "ok", [job[p] EXCEPT !.alias = a])
    \/ ~(i \in image /\ AliasesOf(i) # {}) /\ Read(p, TRUE, "create_image", job[p])

\* (mutant) An image the server has counts as uploaded.
CreateImageTwice(p) == pc[p] = "create_image" /\
    Request(p, TRUE, UploadImage(job[p].image), "create_alias", job[p])

\* The server refuses an image whose fingerprint it has.
CreateImage(p) == pc[p] = "create_image" /\
    LET i == job[p].image IN
    Request(p, i \notin image, UploadImage(i), "create_alias", job[p])

\* (mutant) The predeployed VM is left out when the image is there.
CreateImageAliasLast(p) == pc[p] = "create_alias" /\
    LET i == job[p].image  a == job[p].alias IN
    Request(p, i \in image /\ alias[a] = None, NameImage(a, i),
            "ok", job[p])

CreateImageAlias(p) == pc[p] = "create_alias" /\
    LET i == job[p].image  a == job[p].alias IN
    Request(p, i \in image /\ alias[a] = None, NameImage(a, i),
            IF PredeployStemcell THEN "create_instance" ELSE "ok", job[p])

\* UpdateInstanceDescription of the predeployed VM: GET with etag, PUT.
GetInstance(p) == pc[p] = "get_instance" /\
    Read(p, instance[job[p].alias] # "none", "describe", job[p])

DescribeInstance(p) == pc[p] = "describe" /\
    LET a == job[p].alias IN
    Request(p, instance[a] = "made", SetInstance(a, "described"), "ok", job[p])

-----------------------------------------------------------------------------
(* CreateInstance, of a predeployed VM or in create_vm *)

CreateInstance(p) == pc[p] = "create_instance" /\
    LET a == job[p].alias
        predeploy == job[p].op = "create_stemcell"
    IN  Request(p, alias[a] # None /\ (predeploy => ~Present(a)), StartMaking(p, a, predeploy),
                "creating", job[p])

\* The server is done, and answers the process if it still waits.
InstanceCreated(p) == making[p] # None /\
    LET m == making[p] IN
    /\ making' = [making EXCEPT ![p] = None]
    /\ ready' = IF m.image \in image THEN ready \cup {m.image} ELSE ready
    /\ instance' = [a \in Alias |-> IF a = m.vm THEN "made" ELSE instance[a]]
    /\ IF pc[p] = "creating"
       THEN Goto(p, IF job[p].op = "create_vm" THEN "ok" ELSE "get_instance", job[p]) /\ Unlock(p)
       ELSE UNCHANGED <<pc, job, lock>>
    /\ UNCHANGED <<image, alias, late, faults, director, unseen>>

\* Nothing is made, or the connection breaks in wait() and the server goes on.
InstanceFails(p) == making[p] # None /\ Fault /\
    /\ \/ making' = [making EXCEPT ![p] = None]
       \/ pc[p] = "creating" /\ UNCHANGED making
    /\ IF pc[p] = "creating" THEN Fail(p) ELSE UNCHANGED <<pc, job, lock>>
    /\ UNCHANGED <<image, alias, ready, instance, late, director, unseen>>

-----------------------------------------------------------------------------
(* delete_stemcell *)

\* (mutant) The predeployed VM is left to its own.
HasVMIgnored(p) == pc[p] = "has_vm" /\
    /\ Goto(p, "get_alias", job[p])
    /\ UNCHANGED <<server, lock, late, faults, director, unseen>>

\* An error of HasVM is answered as success, and nothing is deleted; not so an error of the
\* IsConnected before it.
HasVM(p) == pc[p] = "has_vm" /\
    LET a == job[p].alias IN
    /\ \/ /\ Goto(p, IF Present(a) THEN "delete_instance" ELSE "get_alias", job[p])
          /\ UNCHANGED <<faults, unseen>>
       \/ Fault /\ Goto(p, "ok", job[p]) /\ unseen' = unseen \cup {a}
       \/ Fault /\ Goto(p, "failed", job[p]) /\ UNCHANGED unseen
    /\ UNCHANGED <<server, lock, late, director>>

DeleteInstance(p) == pc[p] = "delete_instance" /\
    LET a == job[p].alias IN
    Request(p, instance[a] # "none", SetInstance(a, "none"), "get_alias", job[p])

\* (mutant) The error is not looked at.
GetImageAliasUnchecked(p) == pc[p] = "get_alias" /\
    LET a == job[p].alias IN
    Read(p, TRUE,
         IF job[p].op = "create_vm" THEN "get_image" ELSE "delete_image",
         [job[p] EXCEPT !.target = alias[a]])

\* GetImageAlias, of DeleteImage and of GetStemcellDescription.
GetImageAlias(p) == pc[p] = "get_alias" /\
    LET a == job[p].alias IN
    Read(p, alias[a] # None,
         IF job[p].op = "create_vm" THEN "get_image" ELSE "delete_image",
         [job[p] EXCEPT !.target = alias[a]])

\* (mutant) The alias is deleted in place of its image.
DeleteImageAlias(p) == pc[p] = "delete_image" /\
    Request(p, TRUE, NameImage(job[p].alias, None), "ok", job[p])

DeleteImage(p) == pc[p] = "delete_image" /\
    LET i == job[p].target IN
    Request(p, i \in image, RemoveImage(i), "ok", job[p])

-----------------------------------------------------------------------------
(* create_vm: the description of its stemcell, and the lock *)

GetImage(p) == pc[p] = "get_image" /\
    Read(p, job[p].target \in image,
         IF LockEnabled THEN "try_lock" ELSE "create_instance", job[p])

\* Polled every ten seconds; when the time-out is over the call goes on without the lock.
TryLock(p) == pc[p] = "try_lock" /\
    /\ \/ lock = None /\ lock' = p /\ Goto(p, "create_instance", job[p]) /\ UNCHANGED <<faults, late>>
       \/ Fault /\ Fail(p) /\ UNCHANGED late
    /\ UNCHANGED <<server, director, unseen>>

\* (mutant) A call whose time-out is over fails to notice.
LockTimeoutWaiting(p) == pc[p] = "try_lock" /\ lock # None /\ UNCHANGED vars

LockTimeout(p) == pc[p] = "try_lock" /\
    /\ lock # None
    /\ Goto(p, "create_instance", job[p]) /\ late' = late \cup {p}
    /\ UNCHANGED <<server, lock, faults, director, unseen>>

-----------------------------------------------------------------------------
(* The director.  It deletes a stemcell when no other call works on it, makes any number *)
(* of VMs from one at once, and -- Overlap -- uploads one twice at a time.               *)

Working(i, ops) == \E q \in Proc : job[q].image = i /\ job[q].op \in ops

Call(p, op, i, a) ==
    /\ pc[p] = "idle" /\ making[p] = None
    /\ Goto(p, Start[op], [NoJob EXCEPT !.op = op, !.image = i, !.alias = a])
    /\ UNCHANGED <<server, lock, late, faults, cid, broken, deleted, unseen>>

CallCreateStemcell(p, i, a) ==
    /\ ~Working(i, {"delete_stemcell"})
    /\ Overlap \/ (cid[i] = None /\ ~Working(i, Ops))
    /\ a \notin spent /\ spent' = spent \cup {a}
    /\ Call(p, "create_stemcell", i, a)

CallDeleteStemcell(p, i) ==
    /\ cid[i] # None /\ ~Working(i, Ops)
    /\ UNCHANGED spent /\ Call(p, "delete_stemcell", i, cid[i])

CallCreateVM(p, i) ==
    /\ cid[i] # None /\ ~Working(i, {"delete_stemcell"})
    /\ Overlap \/ ~Working(i, {"create_stemcell"})
    /\ UNCHANGED spent /\ Call(p, "create_vm", i, cid[i])

Conclude(j, good) ==
    LET made == good /\ j.op = "create_stemcell"
        gone == good /\ j.op = "delete_stemcell"
    IN  /\ cid' = [cid EXCEPT ![j.image] = IF made THEN j.alias ELSE IF gone THEN None ELSE @]
        /\ deleted' = IF gone THEN deleted \cup {j.alias}
                      ELSE IF made THEN deleted \ {j.alias} ELSE deleted
        /\ broken' = IF j.op = "create_vm" THEN broken
                     ELSE IF good THEN broken \ {j.image} ELSE broken \cup {j.image}
        /\ UNCHANGED spent

Reply(p) ==
    /\ pc[p] \in {"ok", "failed"}
    /\ Conclude(job[p], pc[p] = "ok")
    /\ Goto(p, "idle", NoJob) /\ late' = late \ {p}
    /\ UNCHANGED <<server, lock, faults, unseen>>

Crash(p) ==
    /\ Crashes /\ Fault
    /\ pc[p] # "idle"
    /\ Conclude(job[p], FALSE)
    /\ Goto(p, "idle", NoJob) /\ Unlock(p) /\ late' = late \ {p}
    /\ UNCHANGED <<server, unseen>>

-----------------------------------------------------------------------------

Step(p) ==
    \/ FindExistingImage(p) \/ CreateImage(p) \/ CreateImageAlias(p)
    \/ GetInstance(p) \/ DescribeInstance(p) \/ CreateInstance(p)
    \/ HasVM(p) \/ DeleteInstance(p) \/ GetImageAlias(p) \/ DeleteImage(p)
    \/ GetImage(p) \/ TryLock(p) \/ LockTimeout(p) \/ Reply(p)

Server(p) == InstanceCreated(p) \/ InstanceFails(p)

Director(p) == \E i \in Image :
    \/ \E a \in Alias : CallCreateStemcell(p, i, a)
    \/ CallDeleteStemcell(p, i) \/ CallCreateVM(p, i)

Next == \E p \in Proc : Step(p) \/ Server(p) \/ Director(p) \/ Crash(p)

Spec == Init /\ [][Next]_vars

\* A process goes on; the server may take for ever over CreateInstance.
FairSpec == Spec /\ \A p \in Proc : WF_vars(Step(p))

-----------------------------------------------------------------------------
(* Properties *)

\* The locals a call has at each of its requests.
RequestsOf(op) == {"ok", "failed"} \cup
    CASE op = "create_stemcell" -> {"find_image", "create_image", "create_alias", "create_instance",
                                    "creating", "get_instance", "describe"}
      [] op = "delete_stemcell" -> {"has_vm", "delete_instance", "get_alias", "delete_image"}
      [] OTHER                  -> {"get_alias", "get_image", "try_lock", "create_instance", "creating"}

JobOK(at, j) ==
    IF at = "idle" THEN j = NoJob
    ELSE /\ j.op \in Ops /\ j.image \in Image /\ j.alias \in Alias
         /\ at \in RequestsOf(j.op)
         /\ at \in {"delete_image", "get_image"} => j.target \in Image

TypeOK ==
    /\ image \subseteq Image /\ ready \subseteq Image
    /\ alias \in [Alias -> Image \cup {None}]
    /\ instance \in [Alias -> {"none", "made", "described"}]
    /\ making \in [Proc -> Making \cup {None}]
    /\ pc \in [Proc -> PC]
    /\ job \in [Proc -> Job]
    /\ \A p \in Proc : JobOK(pc[p], job[p])
    /\ lock \in Proc \cup {None} /\ late \subseteq Proc
    /\ faults \in 0..MaxFaults
    /\ cid \in [Image -> Alias \cup {None}]
    /\ broken \subseteq Image
    /\ spent \subseteq Alias /\ deleted \subseteq Alias /\ unseen \subseteq Alias

\* A stemcell id the director has names its image, from the answer of create_stemcell until a
\* delete_stemcell of it starts, whatever failed in other calls and whichever of several
\* uploads of the stemcell made it (FindExistingImage, CreateAndUploadImage).
CidUsable == \A i \in Image :
    cid[i] # None /\ i \notin broken /\ ~Working(i, {"delete_stemcell"}) =>
        i \in image /\ alias[cid[i]] = i

\* However many create_stemcell calls look for an image and upload it at a time, it gets one
\* alias, so that they all answer the same id and no delete_stemcell takes another's image.
OneAlias == \A i \in Image : \A a, b \in AliasesOf(i) : a = b

\* delete_stemcell that was answered without an error left neither the image's alias nor the
\* predeployed VM, finished or still being made, if it could look for it (DeleteStemcell).
DeletedClean == \A a \in deleted \ unseen : alias[a] = None /\ ~Present(a)

\* An image without an alias, which no call of the CPI can find or delete again, is one that is
\* being given its alias, or what a failed call left, also one that was answered as a success
\* (CreateAndUploadImage, DeleteImage, DeleteStemcell).
NoStrayImage == \A i \in image :
    AliasesOf(i) = {} /\ unseen = {} =>
        \/ i \in broken
        \/ \E p \in Proc : job[p].image = i /\ (pc[p] = "create_alias" \/ pc[p] = "failed")

\* With the lock, of two create_vm calls inside CreateInstance one has waited for as long as
\* the time-out: no failure or death lets two in (createVMWithLock).
InCreateInstance(p) == job[p].op = "create_vm" /\ pc[p] \in {"create_instance", "creating"}
SingleThreaded == LockEnabled =>
    \A p, q \in Proc : InCreateInstance(p) /\ InCreateInstance(q) => p = q \/ {p, q} \cap late # {}

\* With predeploy_stemcell, no create_vm has to prepare an image ("so it's ready for multiple
\* VMs to be created at once", CreateStemcell) unless a request failed before or another upload
\* of the stemcell, which also ends with "ok" once it finds the alias, is still under way.
ImageReady ==
    [][\A p \in Proc :
          /\ PredeployStemcell /\ faults' = 0
          /\ making[p] = None /\ making'[p] # None
          /\ making'[p].vm = None /\ making'[p].preparing
          => Working(making'[p].image, {"create_stemcell"})]_vars

\* No create_vm waits for the lock for ever, also when the server never answers its holder.
LockPassed == \A p \in Proc : pc[p] = "try_lock" ~> pc[p] # "try_lock"
=============================================================================
