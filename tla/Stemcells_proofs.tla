--------------------------- MODULE Stemcells_proofs ---------------------------
(***************************************************************************)
(* Proofs about Stemcells, for any number of processes, images and         *)
(* aliases: its types, what the file lock of create_vm excludes, that an   *)
(* image has one alias and an alias one image, that the id of a stemcell   *)
(* stays usable, and what delete_stemcell leaves behind.                   *)
(***************************************************************************)
EXTENDS Stemcells, TLAPS

USE StemcellAssumption

-----------------------------------------------------------------------------
(* Types *)

ServerOK ==
    /\ image \subseteq Image /\ ready \subseteq Image
    /\ alias \in [Alias -> Image \cup {None}]
    /\ instance \in [Alias -> {"none", "made", "described"}]
    /\ making \in [Proc -> Making \cup {None}]

DirectorOK ==
    /\ cid \in [Image -> Alias \cup {None}]
    /\ broken \subseteq Image /\ spent \subseteq Alias /\ deleted \subseteq Alias

LEMMA Parts == TypeOK => ServerOK /\ DirectorOK
  BY DEF TypeOK, ServerOK, DirectorOK

LEMMA Here ==
    ASSUME TypeOK, NEW p \in Proc
    PROVE  job[p] \in Job /\ JobOK(pc[p], job[p]) /\ pc[p] \in PC
  BY DEF TypeOK

\* A call that is under way has its operation, image and alias, and may end.
LEMMA UnderWay ==
    ASSUME TypeOK, NEW p \in Proc, pc[p] # "idle"
    PROVE  /\ job[p].op \in Ops /\ job[p].image \in Image /\ job[p].alias \in Alias
           /\ JobOK("ok", job[p]) /\ JobOK("failed", job[p])
  BY Here DEF JobOK, RequestsOf

\* Which call makes which request.
LEMMA OpAt ==
    ASSUME TypeOK, NEW p \in Proc
    PROVE  /\ pc[p] \in {"find_image", "create_image", "create_alias", "get_instance", "describe"}
                  => job[p].op = "create_stemcell"
           /\ pc[p] \in {"has_vm", "delete_instance", "delete_image"} => job[p].op = "delete_stemcell"
           /\ pc[p] \in {"get_image", "try_lock"} => job[p].op = "create_vm"
           /\ pc[p] = "get_alias" => job[p].op \in {"delete_stemcell", "create_vm"}
           /\ pc[p] \in {"create_instance", "creating"} => job[p].op \in {"create_stemcell", "create_vm"}
  BY Here DEF JobOK, RequestsOf, Ops

LEMMA GotoType ==
    ASSUME TypeOK, NEW p \in Proc, NEW next \in PC, NEW work \in Job, JobOK(next, work),
           Goto(p, next, work)
    PROVE  /\ pc' \in [Proc -> PC] /\ job' \in [Proc -> Job]
           /\ \A q \in Proc : JobOK(pc'[q], job'[q])
  BY DEF Goto, TypeOK

\* A step of a call under way keeps the types if it keeps those of the server and of the locks,
\* and the locals it leaves behind fit the next request.
LEMMA StepType ==
    ASSUME TypeOK, NEW p \in Proc, pc[p] # "idle",
           NEW next \in PC, NEW work \in Job, JobOK(next, work),
           Goto(p, next, work) \/ Fail(p),
           ServerOK', DirectorOK',
           UNCHANGED faults \/ Fault,
           lock' \in Proc \cup {None}, late' \subseteq Proc, unseen' \subseteq Alias
    PROVE  TypeOK'
<1>1. /\ pc' \in [Proc -> PC] /\ job' \in [Proc -> Job]
      /\ \A q \in Proc : JobOK(pc'[q], job'[q])
  <2>1. "failed" \in PC /\ job[p] \in Job /\ JobOK("failed", job[p])
    BY UnderWay, Here DEF PC
  <2>. QED
    BY <2>1, GotoType DEF Fail
<1>2. faults' \in 0..MaxFaults
  BY DEF Fault, TypeOK
<1>. QED
  BY <1>1, <1>2 DEF TypeOK, ServerOK, DirectorOK

LEMMA UnlockType == ASSUME TypeOK, NEW p, Unlock(p) PROVE lock' \in Proc \cup {None}
  BY DEF TypeOK, Unlock

\* The same for a request: its effect, if it has any, keeps the types of the server.
LEMMA RequestType ==
    ASSUME TypeOK, NEW p \in Proc, pc[p] # "idle",
           NEW next \in PC, NEW work \in Job, JobOK(next, work),
           (Goto(p, next, work) /\ UNCHANGED lock) \/ Fail(p),
           ServerOK',
           UNCHANGED faults \/ Fault,
           UNCHANGED <<late, director, unseen>>
    PROVE  TypeOK'
<1>1. lock' \in Proc \cup {None}
  BY UnlockType DEF TypeOK, Fail
<1>2. DirectorOK' /\ late' \subseteq Proc /\ unseen' \subseteq Alias
  BY DEF TypeOK, DirectorOK, director
<1>. QED
  BY <1>1, <1>2, StepType

LEMMA ServerUnchanged == TypeOK /\ UNCHANGED server => ServerOK'
  BY DEF TypeOK, ServerOK, server

\* A request that reads.
LEMMA ReadType ==
    ASSUME TypeOK, NEW p \in Proc, pc[p] # "idle", NEW ok \in BOOLEAN,
           NEW next \in PC, NEW work \in Job, JobOK(next, work),
           Read(p, ok, next, work)
    PROVE  TypeOK'
  BY RequestType, ServerUnchanged DEF Read, Request

(* The requests of each call *)

LEMMA FindExistingImageType == ASSUME TypeOK, NEW p \in Proc, FindExistingImage(p) PROVE TypeOK'
<1>1. pc[p] # "idle" /\ job[p] \in Job /\ job[p].op = "create_stemcell" /\ {"ok", "create_image"} \subseteq PC
  BY Here, OpAt DEF FindExistingImage, PC
<1>2. ASSUME NEW a \in Alias, Read(p, TRUE, "ok", [job[p] EXCEPT !.alias = a])
      PROVE  TypeOK'
  <2>1. [job[p] EXCEPT !.alias = a] \in Job /\ JobOK("ok", [job[p] EXCEPT !.alias = a])
    BY <1>1, UnderWay DEF Job, JobOK, RequestsOf
  <2>. QED
    BY <1>1, <1>2, <2>1, ReadType
<1>3. JobOK("create_image", job[p])
  BY <1>1, UnderWay DEF JobOK, RequestsOf
<1>4. CASE Read(p, TRUE, "create_image", job[p])
  BY <1>1, <1>3, <1>4, ReadType
<1>. QED
  BY <1>2, <1>4 DEF FindExistingImage, AliasesOf

LEMMA UploadType ==
    ASSUME TypeOK, NEW p \in Proc, CreateImage(p) \/ CreateImageAlias(p) \/ GetInstance(p) \/ DescribeInstance(p)
    PROVE  TypeOK'
<1>1. /\ pc[p] # "idle" /\ job[p] \in Job /\ job[p].op = "create_stemcell"
      /\ {"create_alias", "create_instance", "ok", "describe"} \subseteq PC
  BY Here, OpAt DEF CreateImage, CreateImageAlias, GetInstance, DescribeInstance, PC
<1>2. JobOK("create_alias", job[p]) /\ JobOK("create_instance", job[p]) /\ JobOK("describe", job[p])
  BY <1>1, UnderWay DEF JobOK, RequestsOf
<1>3. CASE CreateImage(p)
  <2>1. ServerOK'
    BY <1>1, <1>3, UnderWay, ServerUnchanged, Parts DEF CreateImage, Request, UploadImage, ServerOK
  <2>. QED
    BY <1>1, <1>2, <1>3, <2>1, RequestType DEF CreateImage, Request
<1>4. CASE CreateImageAlias(p)
  <2>1. ServerOK'
    BY <1>1, <1>4, UnderWay, ServerUnchanged, Parts DEF CreateImageAlias, Request, NameImage, ServerOK
  <2>2. PICK next \in {"create_instance", "ok"} :
            (Goto(p, next, job[p]) /\ UNCHANGED lock) \/ Fail(p)
    BY <1>4 DEF CreateImageAlias, Request
  <2>. QED
    BY <1>1, <1>2, <1>4, <2>1, <2>2, UnderWay, RequestType DEF CreateImageAlias, Request
<1>5. CASE GetInstance(p)
  BY <1>1, <1>2, <1>5, ReadType DEF GetInstance
<1>6. CASE DescribeInstance(p)
  <2>1. ServerOK'
    BY <1>1, <1>6, UnderWay, ServerUnchanged, Parts DEF DescribeInstance, Request, SetInstance, ServerOK
  <2>. QED
    BY <1>1, <1>6, <2>1, UnderWay, RequestType DEF DescribeInstance, Request
<1>. QED
  BY <1>3, <1>4, <1>5, <1>6

LEMMA CreateInstanceType == ASSUME TypeOK, NEW p \in Proc, CreateInstance(p) PROVE TypeOK'
<1>. DEFINE a == job[p].alias
            m == [image |-> alias[a], vm |-> IF job[p].op = "create_stemcell" THEN a ELSE None,
                  preparing |-> alias[a] \notin ready]
<1>1. /\ pc[p] # "idle" /\ job[p] \in Job /\ "creating" \in PC /\ a \in Alias
      /\ job[p].op \in {"create_stemcell", "create_vm"}
  BY Here, OpAt, UnderWay DEF CreateInstance, PC
<1>2. JobOK("creating", job[p])
  BY <1>1, UnderWay DEF JobOK, RequestsOf
<1>3. ServerOK'
  <2>1. CASE alias[a] # None /\ UNCHANGED <<image, alias, ready, instance>>
             /\ making' = [making EXCEPT ![p] = m]
    <3>1. m \in Making
      BY <1>1, <2>1, Parts DEF ServerOK, Making
    <3>. HIDE DEF m
    <3>. QED
      BY <2>1, <3>1, Parts DEF ServerOK
  <2>. QED
    BY <2>1, ServerUnchanged DEF CreateInstance, Request, StartMaking
<1>. QED
  BY <1>1, <1>2, <1>3, RequestType DEF CreateInstance, Request

LEMMA DeleteStemcellType ==
    ASSUME TypeOK, NEW p \in Proc, HasVM(p) \/ DeleteInstance(p) \/ DeleteImage(p)
    PROVE  TypeOK'
<1>1. /\ pc[p] # "idle" /\ job[p] \in Job /\ job[p].op = "delete_stemcell"
      /\ {"delete_instance", "get_alias", "ok", "failed"} \subseteq PC
  BY Here, OpAt DEF HasVM, DeleteInstance, DeleteImage, PC
<1>2. JobOK("delete_instance", job[p]) /\ JobOK("get_alias", job[p])
  BY <1>1, UnderWay DEF JobOK, RequestsOf
<1>3. CASE HasVM(p)
  <2>1. PICK next \in {"delete_instance", "get_alias", "ok", "failed"} : Goto(p, next, job[p])
    BY <1>3 DEF HasVM
  <2>2. ServerOK' /\ DirectorOK' /\ lock' \in Proc \cup {None} /\ late' \subseteq Proc
        /\ unseen' \subseteq Alias /\ (UNCHANGED faults \/ Fault)
    BY <1>1, <1>3, UnderWay, ServerUnchanged DEF HasVM, TypeOK, DirectorOK, director
  <2>. QED
    BY <1>1, <1>2, <2>1, <2>2, UnderWay, StepType
<1>4. CASE DeleteInstance(p)
  <2>1. ServerOK'
    BY <1>1, <1>4, UnderWay, ServerUnchanged, Parts DEF DeleteInstance, Request, SetInstance, ServerOK
  <2>. QED
    BY <1>1, <1>2, <1>4, <2>1, RequestType DEF DeleteInstance, Request
<1>5. CASE DeleteImage(p)
  <2>1. ServerOK'
    BY <1>1, <1>5, ServerUnchanged, Parts DEF DeleteImage, Request, RemoveImage, ServerOK
  <2>. QED
    BY <1>1, <1>5, <2>1, UnderWay, RequestType DEF DeleteImage, Request
<1>. QED
  BY <1>3, <1>4, <1>5

LEMMA GetImageAliasType == ASSUME TypeOK, NEW p \in Proc, GetImageAlias(p) PROVE TypeOK'
<1>. DEFINE a == job[p].alias
            next == IF job[p].op = "create_vm" THEN "get_image" ELSE "delete_image"
            work == [job[p] EXCEPT !.target = alias[a]]
<1>1. /\ pc[p] # "idle" /\ job[p] \in Job /\ job[p].op \in {"delete_stemcell", "create_vm"}
      /\ a \in Alias /\ next \in PC
  BY Here, OpAt, UnderWay DEF GetImageAlias, PC
<1>2. work \in Job /\ alias[a] \in Image \cup {None}
  <2>1. alias[a] \in Image \cup {None}
    BY <1>1, Parts DEF ServerOK
  <2>. QED
    BY <1>1, <2>1 DEF Job
<1>3. ASSUME alias[a] # None
      PROVE  JobOK(next, work)
  BY <1>1, <1>2, <1>3, UnderWay DEF Job, JobOK, RequestsOf
<1>4. ServerOK'
  BY ServerUnchanged DEF GetImageAlias, Read, Request
<1>5. CASE alias[a] # None
  BY <1>1, <1>2, <1>3, <1>4, <1>5, RequestType DEF GetImageAlias, Read, Request
<1>6. CASE Fail(p)
  <2>1. JobOK("failed", job[p]) /\ "failed" \in PC
    BY <1>1, UnderWay DEF PC
  <2>. QED
    BY <1>1, <1>4, <1>6, <2>1, RequestType DEF GetImageAlias, Read, Request
<1>. QED
  BY <1>5, <1>6 DEF GetImageAlias, Read, Request

LEMMA LockType ==
    ASSUME TypeOK, NEW p \in Proc, GetImage(p) \/ TryLock(p) \/ LockTimeout(p)
    PROVE  TypeOK'
<1>1. /\ pc[p] # "idle" /\ job[p] \in Job /\ job[p].op = "create_vm"
      /\ {"try_lock", "create_instance"} \subseteq PC
  BY Here, OpAt DEF GetImage, TryLock, LockTimeout, PC
<1>2. JobOK("try_lock", job[p]) /\ JobOK("create_instance", job[p])
  BY <1>1, UnderWay DEF JobOK, RequestsOf
<1>3. CASE GetImage(p)
  <2>1. PICK next \in {"try_lock", "create_instance"} : Read(p, job[p].target \in image, next, job[p])
    BY <1>3 DEF GetImage
  <2>2. (job[p].target \in image) \in BOOLEAN
    OBVIOUS
  <2>3. JobOK(next, job[p]) /\ next \in PC
    BY <1>1, <1>2, <2>1
  <2>. QED
    BY <1>1, <2>1, <2>2, <2>3, RequestType, ServerUnchanged DEF Read, Request
<1>4. CASE TryLock(p) \/ LockTimeout(p)
  <2>1. Goto(p, "create_instance", job[p]) \/ Fail(p)
    BY <1>4 DEF TryLock, LockTimeout
  <2>2. lock' \in Proc \cup {None}
    BY <1>4, UnlockType DEF TryLock, LockTimeout, Fail, TypeOK
  <2>3. late' \subseteq Proc /\ unseen' \subseteq Alias /\ (UNCHANGED faults \/ Fault)
    BY <1>4 DEF TryLock, LockTimeout, TypeOK
  <2>4. ServerOK' /\ DirectorOK'
    BY <1>4, ServerUnchanged DEF TryLock, LockTimeout, TypeOK, DirectorOK, director
  <2>. QED
    BY <1>1, <1>2, <2>1, <2>2, <2>3, <2>4, StepType
<1>. QED
  BY <1>3, <1>4

\* The server's part of CreateInstance, for a call that waits or that has gone.
LEMMA ServerType == ASSUME TypeOK, NEW p \in Proc, Server(p) PROVE TypeOK'
<1>1. ServerOK'
  <2>1. ASSUME InstanceCreated(p)
        PROVE  ServerOK'
    <3>. DEFINE m == making[p]
    <3>1. m \in Making
      BY <2>1, Parts DEF InstanceCreated, ServerOK
    <3>2. m.image \in Image
      BY <3>1 DEF Making
    <3>. HIDE DEF m
    <3>3. /\ making' = [making EXCEPT ![p] = None] /\ UNCHANGED <<image, alias>>
          /\ ready' = IF m.image \in image THEN ready \cup {m.image} ELSE ready
          /\ instance' = [a \in Alias |-> IF a = m.vm THEN "made" ELSE instance[a]]
      BY <2>1 DEF m, InstanceCreated
    <3>. QED
      BY <3>2, <3>3, Parts DEF ServerOK
  <2>2. ASSUME InstanceFails(p)
        PROVE  ServerOK'
    BY <2>2, Parts DEF InstanceFails, ServerOK
  <2>. QED
    BY <2>1, <2>2 DEF Server
<1>2. /\ DirectorOK' /\ late' \subseteq Proc /\ unseen' \subseteq Alias
      /\ UNCHANGED faults \/ Fault
  BY DEF Server, InstanceCreated, InstanceFails, TypeOK, DirectorOK, director
<1>3. CASE pc[p] = "creating"
  <2>1. /\ job[p] \in Job /\ {"ok", "get_instance"} \subseteq PC
        /\ job[p].op \in {"create_stemcell", "create_vm"}
    BY <1>3, Here, OpAt DEF PC
  <2>2. job[p].op # "create_vm" => JobOK("get_instance", job[p])
    BY <1>3, <2>1, UnderWay DEF JobOK, RequestsOf
  <2>3. \/ Goto(p, IF job[p].op = "create_vm" THEN "ok" ELSE "get_instance", job[p]) /\ Unlock(p)
        \/ Fail(p)
    BY <1>3 DEF Server, InstanceCreated, InstanceFails
  <2>4. lock' \in Proc \cup {None}
    BY <2>3, UnlockType DEF Fail
  <2>. QED
    BY <1>1, <1>2, <1>3, <2>1, <2>2, <2>3, <2>4, UnderWay, StepType
<1>4. CASE pc[p] # "creating"
  <2>1. UNCHANGED <<pc, job, lock>>
    BY <1>4 DEF Server, InstanceCreated, InstanceFails
  <2>. QED
    BY <1>1, <1>2, <2>1 DEF TypeOK, ServerOK, DirectorOK, Fault
<1>. QED
  BY <1>3, <1>4

(* The director *)

LEMMA CallType ==
    ASSUME TypeOK, NEW p \in Proc, NEW op \in Ops, NEW i \in Image, NEW a \in Alias,
           Call(p, op, i, a), spent' \subseteq Alias
    PROVE  TypeOK'
<1>. DEFINE work == [NoJob EXCEPT !.op = op, !.image = i, !.alias = a]
<1>1. work \in Job /\ Start[op] \in PC
  <2>1. NoJob \in Job
    BY DEF NoJob, Job
  <2>2. [NoJob EXCEPT !.op = op] \in Job
    BY <2>1 DEF Job
  <2>3. [[NoJob EXCEPT !.op = op] EXCEPT !.image = i] \in Job
    BY <2>2 DEF Job
  <2>4. [[[NoJob EXCEPT !.op = op] EXCEPT !.image = i] EXCEPT !.alias = a] \in Job
    BY <2>3 DEF Job
  <2>5. work \in Job
    BY <2>4
  <2>. QED
    BY <2>5 DEF Start, Ops, PC
<1>2. JobOK(Start[op], work)
  BY DEF NoJob, JobOK, RequestsOf, Start, Ops
<1>3. Goto(p, Start[op], work) /\ UNCHANGED <<server, lock, late, faults, cid, broken, deleted, unseen>>
  BY DEF Call
<1>. HIDE DEF work
<1>4. /\ pc' \in [Proc -> PC] /\ job' \in [Proc -> Job]
      /\ \A q \in Proc : JobOK(pc'[q], job'[q])
  BY <1>1, <1>2, <1>3, GotoType
<1>. QED
  BY <1>3, <1>4 DEF TypeOK, server

LEMMA DirectorType == ASSUME TypeOK, NEW p \in Proc, Director(p) PROVE TypeOK'
<1>1. {"create_stemcell", "delete_stemcell", "create_vm"} \subseteq Ops
  BY DEF Ops
<1>2. PICK i \in Image :
          (\E a \in Alias : CallCreateStemcell(p, i, a)) \/ CallDeleteStemcell(p, i) \/ CallCreateVM(p, i)
  BY DEF Director
<1>3. cid[i] \in Alias \cup {None} /\ spent \subseteq Alias
  BY DEF TypeOK
<1>4. CASE \E a \in Alias : CallCreateStemcell(p, i, a)
  BY <1>1, <1>3, <1>4, CallType DEF CallCreateStemcell
<1>5. CASE CallDeleteStemcell(p, i)
  BY <1>1, <1>3, <1>5, CallType DEF CallDeleteStemcell
<1>6. CASE CallCreateVM(p, i)
  BY <1>1, <1>3, <1>6, CallType DEF CallCreateVM
<1>. QED
  BY <1>2, <1>4, <1>5, <1>6

LEMMA EndType == ASSUME TypeOK, NEW p \in Proc, Reply(p) \/ Crash(p) PROVE TypeOK'
<1>1. pc[p] # "idle" /\ Goto(p, "idle", NoJob)
  BY DEF Reply, Crash
<1>2. job[p].image \in Image /\ job[p].alias \in Alias
  BY <1>1, UnderWay
<1>3. "idle" \in PC /\ NoJob \in Job /\ JobOK("idle", NoJob)
  BY DEF PC, NoJob, Job, JobOK
<1>4. DirectorOK'
  <2>1. PICK good \in BOOLEAN : Conclude(job[p], good)
    BY DEF Reply, Crash
  <2>2. cid' \in [Image -> Alias \cup {None}]
    BY <1>2, <2>1, Parts DEF Conclude, DirectorOK
  <2>3. broken' \subseteq Image /\ deleted' \subseteq Alias /\ spent' = spent
    BY <1>2, <2>1, Parts DEF Conclude, DirectorOK
  <2>. QED
    BY <2>2, <2>3, Parts DEF DirectorOK
<1>5. ServerOK' /\ unseen' \subseteq Alias /\ late' \subseteq Proc /\ (UNCHANGED faults \/ Fault)
  BY ServerUnchanged DEF Reply, Crash, TypeOK
<1>6. lock' \in Proc \cup {None}
  BY UnlockType DEF Reply, Crash, TypeOK
<1>. QED
  BY <1>1, <1>3, <1>4, <1>5, <1>6, StepType

LEMMA TypeInit == Init => TypeOK
  BY DEF Init, TypeOK, JobOK, NoJob, Job, PC

LEMMA TypeNext == TypeOK /\ [Next]_vars => TypeOK'
<1>. SUFFICES ASSUME TypeOK, [Next]_vars
              PROVE  TypeOK'
  OBVIOUS
<1>1. ASSUME NEW p \in Proc, Step(p)
      PROVE  TypeOK'
  BY <1>1, FindExistingImageType, UploadType, CreateInstanceType, DeleteStemcellType,
     GetImageAliasType, LockType, EndType
  DEF Step
<1>2. ASSUME NEW p \in Proc, Server(p) \/ Director(p) \/ Crash(p)
      PROVE  TypeOK'
  BY <1>2, ServerType, DirectorType, EndType
<1>3. CASE UNCHANGED vars
  BY <1>3 DEF vars, server, director, TypeOK
<1>. QED
  BY <1>1, <1>2, <1>3 DEF Next

\* Every reachable state has its types; a call has an image and an alias, and makes the requests
\* of its operation (CreateStemcell, DeleteStemcell, CreateVMV2).
THEOREM TypeCorrect == Spec => []TypeOK
  BY TypeInit, TypeNext, PTL DEF Spec

-----------------------------------------------------------------------------
(* The lock *)

\* A create_vm is inside CreateInstance with the lock, or its time-out was over.
Locked(p) == LockEnabled /\ InCreateInstance(p) /\ p \notin late => lock = p
LockInv == \A p \in Proc : Locked(p)

LEMMA LockInit == Init => LockInv
  BY DEF Init, LockInv, Locked, InCreateInstance

\* A step of p leaves the others' part alone if it takes the lock from nobody.
LEMMA OthersLocked ==
    ASSUME TypeOK, LockInv, NEW p \in Proc, NEW next, NEW work, Goto(p, next, work),
           NEW q \in Proc, q # p,
           UNCHANGED lock \/ Unlock(p) \/ lock = None,
           q \in late' <=> q \in late
    PROVE  Locked(q)'
<1>1. pc'[q] = pc[q] /\ job'[q] = job[q]
  BY DEF TypeOK, Goto
<1>2. Locked(q) /\ None # q
  BY DEF LockInv
<1>. QED
  BY <1>1, <1>2 DEF Locked, InCreateInstance, Unlock

\* A step that takes p elsewhere, or further in with the lock it has.
LEMMA LockedStep ==
    ASSUME TypeOK, LockInv, NEW p \in Proc, NEW next, NEW work, Goto(p, next, work),
           UNCHANGED lock \/ Unlock(p),
           \A q \in Proc \ {p} : q \in late' <=> q \in late,
           \/ next \notin {"create_instance", "creating"}
           \/ work.op # "create_vm" \/ ~LockEnabled
           \/ InCreateInstance(p) /\ UNCHANGED <<lock, late>>
    PROVE  LockInv'
<1>1. pc'[p] = next /\ job'[p] = work
  BY DEF TypeOK, Goto
<1>2. Locked(p)'
  BY <1>1 DEF LockInv, Locked, InCreateInstance
<1>3. ASSUME NEW q \in Proc, q # p
      PROVE  Locked(q)'
  BY <1>3, OthersLocked
<1>. QED
  BY <1>2, <1>3 DEF LockInv

LEMMA FailLocked ==
    ASSUME TypeOK, LockInv, NEW p \in Proc, Fail(p), UNCHANGED late
    PROVE  LockInv'
  BY Here, LockedStep DEF Fail, PC

\* A request of a call that is not, and does not get, inside CreateInstance in create_vm.
LEMMA RequestLocked ==
    ASSUME TypeOK, LockInv, NEW p \in Proc, NEW next, NEW work,
           (Goto(p, next, work) /\ UNCHANGED lock) \/ Fail(p), UNCHANGED late,
           \/ next \notin {"create_instance", "creating"}
           \/ work.op # "create_vm" \/ ~LockEnabled \/ InCreateInstance(p)
    PROVE  LockInv'
<1>1. CASE Fail(p)
  BY <1>1, FailLocked
<1>2. CASE Goto(p, next, work) /\ UNCHANGED lock
  BY <1>2, LockedStep
<1>. QED
  BY <1>1, <1>2

(* The steps *)

LEMMA RequestsLocked ==
    ASSUME TypeOK, LockInv, NEW p \in Proc,
           \/ FindExistingImage(p) \/ CreateImage(p) \/ GetInstance(p) \/ DescribeInstance(p)
           \/ DeleteInstance(p) \/ GetImageAlias(p) \/ DeleteImage(p)
    PROVE  LockInv'
<1>1. PICK next \in {"ok", "create_image", "create_alias", "describe", "get_alias", "get_image",
                     "delete_image"}, work \in {job[p], [job[p] EXCEPT !.target = alias[job[p].alias]]}
                     \cup {[job[p] EXCEPT !.alias = a] : a \in Alias} :
          ((Goto(p, next, work) /\ UNCHANGED lock) \/ Fail(p)) /\ UNCHANGED late
  BY DEF FindExistingImage, AliasesOf, CreateImage, GetInstance, DescribeInstance, DeleteInstance,
     GetImageAlias, DeleteImage, Read, Request
<1>. QED
  BY <1>1, RequestLocked

LEMMA InsideLocked ==
    ASSUME TypeOK, LockInv, NEW p \in Proc,
           CreateImageAlias(p) \/ CreateInstance(p) \/ GetImage(p) \/ HasVM(p)
    PROVE  LockInv'
<1>1. CASE CreateImageAlias(p)
  <2>1. job[p].op # "create_vm"
    BY <1>1, OpAt DEF CreateImageAlias
  <2>2. PICK next \in {"create_instance", "ok"} :
            ((Goto(p, next, job[p]) /\ UNCHANGED lock) \/ Fail(p)) /\ UNCHANGED late
    BY <1>1 DEF CreateImageAlias, Request
  <2>. QED
    BY <2>1, <2>2, RequestLocked
<1>2. CASE CreateInstance(p)
  <2>1. job[p].op # "create_vm" \/ InCreateInstance(p)
    BY <1>2 DEF CreateInstance, InCreateInstance
  <2>2. ((Goto(p, "creating", job[p]) /\ UNCHANGED lock) \/ Fail(p)) /\ UNCHANGED late
    BY <1>2 DEF CreateInstance, Request
  <2>. QED
    BY <2>1, <2>2, RequestLocked
<1>3. CASE GetImage(p)
  <2>1. PICK next : /\ next = IF LockEnabled THEN "try_lock" ELSE "create_instance"
                    /\ (Goto(p, next, job[p]) /\ UNCHANGED lock) \/ Fail(p)
                    /\ UNCHANGED late
    BY <1>3 DEF GetImage, Read, Request
  <2>. QED
    BY <2>1, RequestLocked
<1>4. CASE HasVM(p)
  <2>1. PICK next \in {"delete_instance", "get_alias", "ok", "failed"} :
            Goto(p, next, job[p]) /\ UNCHANGED <<lock, late>>
    BY <1>4 DEF HasVM
  <2>. QED
    BY <2>1, RequestLocked
<1>. QED
  BY <1>1, <1>2, <1>3, <1>4

\* The two ways in.
LEMMA EnterLocked ==
    ASSUME TypeOK, LockInv, NEW p \in Proc, TryLock(p) \/ LockTimeout(p)
    PROVE  LockInv'
<1>1. CASE Fail(p) /\ UNCHANGED late
  BY <1>1, FailLocked
<1>2. CASE /\ Goto(p, "create_instance", job[p])
           /\ \/ lock = None /\ lock' = p /\ UNCHANGED late
              \/ UNCHANGED lock /\ late' = late \cup {p}
  <2>1. Locked(p)'
    BY <1>2 DEF Locked
  <2>2. ASSUME NEW q \in Proc, q # p
        PROVE  Locked(q)'
    BY <1>2, <2>2, OthersLocked
  <2>. QED
    BY <2>1, <2>2 DEF LockInv
<1>. QED
  BY <1>1, <1>2 DEF TryLock, LockTimeout

LEMMA ServerLocked == ASSUME TypeOK, LockInv, NEW p \in Proc, Server(p) PROVE LockInv'
<1>1. CASE UNCHANGED <<pc, job, lock, late>>
  BY <1>1 DEF LockInv, Locked, InCreateInstance
<1>2. CASE /\ pc[p] = "creating" /\ UNCHANGED late
           /\ \/ Fail(p)
              \/ Unlock(p) /\ \E next \in {"ok", "get_instance"} : Goto(p, next, job[p])
  BY <1>2, FailLocked, LockedStep
<1>. QED
  BY <1>1, <1>2 DEF Server, InstanceCreated, InstanceFails

LEMMA DirectorLocked == ASSUME TypeOK, LockInv, NEW p \in Proc, Director(p) PROVE LockInv'
<1>1. PICK op \in Ops : \E i, a : Call(p, op, i, a)
  BY DEF Director, CallCreateStemcell, CallDeleteStemcell, CallCreateVM, Ops
<1>2. PICK work : Goto(p, Start[op], work) /\ UNCHANGED <<lock, late>>
  BY <1>1 DEF Call
<1>3. Start[op] \notin {"create_instance", "creating"}
  BY DEF Start, Ops
<1>. QED
  BY <1>2, <1>3, LockedStep

LEMMA EndLocked == ASSUME TypeOK, LockInv, NEW p \in Proc, Reply(p) \/ Crash(p) PROVE LockInv'
<1>1. /\ Goto(p, "idle", NoJob) /\ late' = late \ {p}
      /\ UNCHANGED lock \/ Unlock(p)
  BY DEF Reply, Crash
<1>2. \A q \in Proc \ {p} : q \in late' <=> q \in late
  BY <1>1
<1>. QED
  BY <1>1, <1>2, LockedStep

LEMMA LockNext == TypeOK /\ LockInv /\ [Next]_vars => LockInv'
<1>. SUFFICES ASSUME TypeOK, LockInv, [Next]_vars
              PROVE  LockInv'
  OBVIOUS
<1>1. ASSUME NEW p \in Proc, Step(p)
      PROVE  LockInv'
  BY <1>1, RequestsLocked, InsideLocked, EnterLocked, EndLocked DEF Step
<1>2. ASSUME NEW p \in Proc, Server(p) \/ Director(p) \/ Crash(p)
      PROVE  LockInv'
  BY <1>2, ServerLocked, DirectorLocked, EndLocked
<1>3. CASE UNCHANGED vars
  BY <1>3 DEF vars, LockInv, Locked, InCreateInstance
<1>. QED
  BY <1>1, <1>2, <1>3 DEF Next

\* For any number of create_vm calls: of two inside CreateInstance, one has waited out the
\* time-out, whatever fails and whoever is killed (createVMWithLock).
THEOREM LockExcludes == Spec => []SingleThreaded
<1>1. LockInv => SingleThreaded
  BY DEF LockInv, Locked, SingleThreaded
<1>. QED
  BY <1>1, LockInit, LockNext, TypeCorrect, PTL DEF Spec

-----------------------------------------------------------------------------
(* The aliases *)

\* The image an alias was generated for.
Of(a, i) ==
    \/ alias[a] = i \/ cid[i] = a
    \/ \E p \in Proc : job[p].alias = a /\ job[p].image = i

\* It is the same for the server, the director and every call.
OneImage == \A a \in Alias, i \in Image : Of(a, i) =>
    a \in spent /\ \A j \in Image : Of(a, j) => i = j

NotWhileDeleted == \A p, q \in Proc :
    job[p].op = "delete_stemcell" /\ job[q].op = "create_stemcell" => job[p].image # job[q].image

DeletesOwn == \A p \in Proc : pc[p] = "delete_image" => job[p].target = job[p].image

AliasesNameImages == \A a \in Alias : alias[a] \in image \cup {None}

\* The call that uploaded an image is the only one to name it, and has not yet.
OneNames == \A p \in Proc : pc[p] = "create_alias" =>
    /\ job[p].image \in image /\ AliasesOf(job[p].image) = {}
    /\ \A q \in Proc : pc[q] = "create_alias" /\ job[q].image = job[p].image => p = q

AliasInv == OneImage /\ NotWhileDeleted /\ DeletesOwn /\ AliasesNameImages /\ OneNames /\ OneAlias

LEMMA AliasInit == Init => AliasInv
  BY DEF Init, NoJob, AliasInv, OneImage, Of, NotWhileDeleted, DeletesOwn, AliasesNameImages,
     OneNames, OneAlias, AliasesOf

\* The locals of the call after a step of p.
LEMMA After ==
    ASSUME TypeOK, NEW p \in Proc, NEW next, NEW work, Goto(p, next, work)
    PROVE  /\ pc'[p] = next /\ job'[p] = work
           /\ \A q \in Proc : q # p => pc'[q] = pc[q] /\ job'[q] = job[q]
  BY DEF TypeOK, Goto

\* A call that goes on, with the image and the alias it has.
SameCall(p, work) ==
    work.op = job[p].op /\ work.image = job[p].image /\ work.alias = job[p].alias

LEMMA SameOf ==
    ASSUME TypeOK, NEW p \in Proc, NEW next, NEW work, Goto(p, next, work), SameCall(p, work),
           UNCHANGED <<cid, spent>>, NEW a \in Alias, NEW i \in Image, Of(a, i)'
    PROVE  Of(a, i) \/ alias'[a] = i
<1>1. \A q \in Proc : job'[q].alias = job[q].alias /\ job'[q].image = job[q].image
  BY After DEF SameCall
<1>. QED
  BY <1>1 DEF Of

LEMMA SameExclusion ==
    ASSUME TypeOK, AliasInv, NEW p \in Proc, NEW next, NEW work, Goto(p, next, work), SameCall(p, work)
    PROVE  NotWhileDeleted'
<1>1. \A q \in Proc : job'[q].op = job[q].op /\ job'[q].image = job[q].image
  BY After DEF SameCall
<1>. QED
  BY <1>1 DEF AliasInv, NotWhileDeleted

\* A step that changes neither images nor aliases, and does not enter create_alias.
LEMMA QuietStep ==
    ASSUME TypeOK, AliasInv, NEW p \in Proc, NEW next, NEW work, Goto(p, next, work), SameCall(p, work),
           next # "create_alias", next = "delete_image" => work.target = work.image,
           UNCHANGED <<image, alias, cid, spent>>
    PROVE  AliasInv'
<1>1. OneImage'
  <2>1. \A a \in Alias, i \in Image : Of(a, i)' => Of(a, i)
    BY SameOf DEF Of
  <2>. QED
    BY <2>1 DEF AliasInv, OneImage
<1>2. NotWhileDeleted'
  BY SameExclusion
<1>3. DeletesOwn'
  BY After DEF AliasInv, DeletesOwn
<1>4. AliasesNameImages' /\ OneAlias'
  BY DEF AliasInv, AliasesNameImages, OneAlias, AliasesOf
<1>5. OneNames'
  BY After DEF AliasInv, OneNames, AliasesOf
<1>. QED
  BY <1>1, <1>2, <1>3, <1>4, <1>5 DEF AliasInv

LEMMA FailAliases ==
    ASSUME TypeOK, AliasInv, NEW p \in Proc, Fail(p), UNCHANGED <<image, alias, cid, spent>>
    PROVE  AliasInv'
  BY QuietStep DEF Fail, SameCall

LEMMA FindAliases == ASSUME TypeOK, AliasInv, NEW p \in Proc, FindExistingImage(p) PROVE AliasInv'
<1>1. UNCHANGED <<image, alias, cid, spent>> /\ job[p] \in Job
  BY Here DEF FindExistingImage, Read, Request, server, director
<1>2. CASE Goto(p, "create_image", job[p])
  BY <1>1, <1>2, QuietStep DEF SameCall
<1>3. CASE Fail(p)
  BY <1>1, <1>3, FailAliases
<1>4. ASSUME NEW b \in AliasesOf(job[p].image), Goto(p, "ok", [job[p] EXCEPT !.alias = b])
      PROVE  AliasInv'
  <2>. DEFINE work == [job[p] EXCEPT !.alias = b]
  <2>1. work.op = job[p].op /\ work.image = job[p].image /\ work.alias = b
    BY <1>1 DEF Job
  <2>. HIDE DEF work
  <2>2. /\ pc'[p] = "ok" /\ job'[p] = work
        /\ \A q \in Proc : q # p => pc'[q] = pc[q] /\ job'[q] = job[q]
    BY <1>4, After DEF work
  <2>3. OneImage'
    <3>1. ASSUME NEW a \in Alias, NEW i \in Image, Of(a, i)'
          PROVE  Of(a, i)
      BY <1>1, <1>4, <2>1, <2>2, <3>1 DEF Of, AliasesOf
    <3>. QED
      BY <1>1, <3>1 DEF AliasInv, OneImage
  <2>4. NotWhileDeleted'
    <3>1. \A q \in Proc : job'[q].op = job[q].op /\ job'[q].image = job[q].image
      BY <2>1, <2>2
    <3>. QED
      BY <3>1 DEF AliasInv, NotWhileDeleted
  <2>5. DeletesOwn' /\ OneNames'
    BY <1>1, <2>2 DEF AliasInv, DeletesOwn, OneNames, AliasesOf
  <2>6. AliasesNameImages' /\ OneAlias'
    BY <1>1 DEF AliasInv, AliasesNameImages, OneAlias, AliasesOf
  <2>. QED
    BY <2>3, <2>4, <2>5, <2>6 DEF AliasInv
<1>. QED
  BY <1>2, <1>3, <1>4 DEF FindExistingImage, Read, Request

\* An image is uploaded only where there is none, so nobody is about to name it and no alias
\* is left of an earlier one.
LEMMA UploadAliases == ASSUME TypeOK, AliasInv, NEW p \in Proc, CreateImage(p) PROVE AliasInv'
<1>. DEFINE i == job[p].image
<1>0. i \in Image /\ UNCHANGED <<cid, spent>> /\ SameCall(p, job[p])
  BY UnderWay DEF CreateImage, Request, director, SameCall
<1>1. CASE Fail(p) /\ UNCHANGED server
  BY <1>0, <1>1, FailAliases DEF server
<1>2. ASSUME i \notin image, UploadImage(i),
             NEW next \in {"create_alias", "failed"}, Goto(p, next, job[p])
      PROVE  AliasInv'
  <2>1. image' = image \cup {i} /\ alias' = alias
    BY <1>2 DEF UploadImage
  <2>2. /\ pc'[p] = next /\ job'[p] = job[p]
        /\ \A q \in Proc : q # p => pc'[q] = pc[q] /\ job'[q] = job[q]
    BY <1>2, After
  <2>3. OneImage'
    <3>1. \A a \in Alias, j \in Image : Of(a, j)' => Of(a, j)
      BY <1>0, <1>2, <2>1, SameOf DEF Of
    <3>. QED
      BY <1>0, <3>1 DEF AliasInv, OneImage
  <2>4. NotWhileDeleted' /\ DeletesOwn'
    BY <1>0, <1>2, <2>2, SameExclusion DEF AliasInv, DeletesOwn
  <2>5. AliasesNameImages' /\ OneAlias'
    BY <2>1 DEF AliasInv, AliasesNameImages, OneAlias, AliasesOf
  <2>6. OneNames'
    <3>1. AliasesOf(i) = {}
      BY <1>0, <1>2 DEF AliasInv, AliasesNameImages, AliasesOf
    <3>2. \A q \in Proc : pc[q] = "create_alias" => job[q].image # i
      BY <1>2 DEF AliasInv, OneNames
    <3>3. \A q \in Proc : job'[q] = job[q]
      BY <2>2
    <3>4. \A j : AliasesOf(j)' = AliasesOf(j)
      BY <2>1 DEF AliasesOf
    <3>. QED
      BY <2>1, <2>2, <3>1, <3>2, <3>3, <3>4 DEF AliasInv, OneNames
  <2>. QED
    BY <2>3, <2>4, <2>5, <2>6 DEF AliasInv
<1>. QED
  BY <1>1, <1>2 DEF CreateImage, Request, Fail

LEMMA NameAliases == ASSUME TypeOK, AliasInv, NEW p \in Proc, CreateImageAlias(p) PROVE AliasInv'
<1>. DEFINE i == job[p].image  b == job[p].alias
<1>0. i \in Image /\ b \in Alias /\ UNCHANGED <<cid, spent>> /\ SameCall(p, job[p]) /\ pc[p] = "create_alias"
  BY UnderWay DEF CreateImageAlias, Request, director, SameCall
<1>1. CASE Fail(p) /\ UNCHANGED server
  BY <1>0, <1>1, FailAliases DEF server
<1>2. ASSUME i \in image, alias[b] = None, NameImage(b, i),
             NEW next \in {"create_instance", "ok", "failed"}, Goto(p, next, job[p])
      PROVE  AliasInv'
  <2>1. image' = image /\ alias' = [alias EXCEPT ![b] = i] /\ alias \in [Alias -> Image \cup {None}]
    BY <1>2 DEF NameImage, TypeOK
  <2>2. /\ pc'[p] = next /\ job'[p] = job[p]
        /\ \A q \in Proc : q # p => pc'[q] = pc[q] /\ job'[q] = job[q]
    BY <1>2, After
  <2>3. OneImage'
    <3>1. \A a \in Alias, j \in Image : Of(a, j)' => Of(a, j)
      <4>1. Of(b, i)
        BY DEF Of
      <4>. QED
        BY <1>0, <1>2, <2>1, <4>1, SameOf DEF Of
    <3>. QED
      BY <1>0, <3>1 DEF AliasInv, OneImage
  <2>4. NotWhileDeleted' /\ DeletesOwn'
    BY <1>0, <1>2, <2>2, SameExclusion DEF AliasInv, DeletesOwn
  <2>5. AliasesNameImages'
    BY <1>2, <2>1 DEF AliasInv, AliasesNameImages
  <2>6. \A j \in Image : AliasesOf(j)' = IF j = i THEN {b} ELSE AliasesOf(j)
    <3>1. AliasesOf(i) = {}
      BY <1>0 DEF AliasInv, OneNames
    <3>2. ASSUME NEW j \in Image, NEW a \in Alias
          PROVE  alias'[a] = j <=> IF j = i THEN a = b ELSE alias[a] = j
      BY <1>0, <1>2, <2>1, <3>1, <3>2 DEF AliasesOf
    <3>. QED
      BY <1>0, <3>2 DEF AliasesOf
  <2>7. OneAlias'
    BY <2>6 DEF AliasInv, OneAlias
  <2>8. OneNames'
    <3>1. ASSUME NEW q \in Proc, pc'[q] = "create_alias"
          PROVE  pc[q] = "create_alias" /\ job'[q] = job[q] /\ q # p /\ job[q].image # i /\ job[q].image \in Image
      BY <1>0, <2>2, <3>1, UnderWay DEF AliasInv, OneNames
    <3>. QED
      BY <2>1, <2>6, <3>1 DEF AliasInv, OneNames
  <2>. QED
    BY <2>3, <2>4, <2>5, <2>7, <2>8 DEF AliasInv
<1>. QED
  BY <1>1, <1>2 DEF CreateImageAlias, Request, Fail

\* delete_stemcell deletes the image of its own stemcell, which nobody uploads meanwhile.
LEMMA DeleteAliases == ASSUME TypeOK, AliasInv, NEW p \in Proc, DeleteImage(p) PROVE AliasInv'
<1>. DEFINE i == job[p].target
<1>0. /\ i = job[p].image /\ i \in Image /\ UNCHANGED <<cid, spent>> /\ SameCall(p, job[p])
      /\ job[p].op = "delete_stemcell"
  BY UnderWay, OpAt DEF DeleteImage, Request, director, SameCall, AliasInv, DeletesOwn
<1>1. CASE Fail(p) /\ UNCHANGED server
  BY <1>0, <1>1, FailAliases DEF server
<1>2. ASSUME RemoveImage(i), NEW next \in {"ok", "failed"}, Goto(p, next, job[p])
      PROVE  AliasInv'
  <2>1. image' = image \ {i} /\ alias' = [a \in Alias |-> IF alias[a] = i THEN None ELSE alias[a]]
    BY <1>2 DEF RemoveImage
  <2>2. /\ pc'[p] = next /\ job'[p] = job[p]
        /\ \A q \in Proc : q # p => pc'[q] = pc[q] /\ job'[q] = job[q]
    BY <1>2, After
  <2>3. OneImage'
    <3>1. ASSUME NEW a \in Alias, NEW j \in Image, Of(a, j)'
          PROVE  Of(a, j)
      <4>1. Of(a, j) \/ alias'[a] = j
        BY <1>0, <1>2, <3>1, SameOf
      <4>. QED
        BY <2>1, <4>1 DEF Of
    <3>. QED
      BY <1>0, <3>1 DEF AliasInv, OneImage
  <2>4. NotWhileDeleted' /\ DeletesOwn'
    BY <1>0, <1>2, <2>2, SameExclusion DEF AliasInv, DeletesOwn
  <2>5. AliasesNameImages'
    BY <2>1 DEF AliasInv, AliasesNameImages
  <2>6. \A j \in Image : AliasesOf(j)' = IF j = i THEN {} ELSE AliasesOf(j)
    <3>1. ASSUME NEW j \in Image, NEW a \in Alias
          PROVE  alias'[a] = j <=> (j # i /\ alias[a] = j)
      BY <2>1
    <3>. QED
      BY <3>1 DEF AliasesOf
  <2>7. OneAlias'
    BY <2>6 DEF AliasInv, OneAlias
  <2>8. OneNames'
    <3>1. ASSUME NEW q \in Proc, pc'[q] = "create_alias"
          PROVE  pc[q] = "create_alias" /\ job'[q] = job[q] /\ job[q].image # i /\ job[q].image \in Image
      BY <1>0, <2>2, <3>1, OpAt, UnderWay DEF AliasInv, NotWhileDeleted
    <3>. QED
      BY <2>1, <2>6, <3>1 DEF AliasInv, OneNames
  <2>. QED
    BY <2>3, <2>4, <2>5, <2>7, <2>8 DEF AliasInv
<1>. QED
  BY <1>1, <1>2 DEF DeleteImage, Request, Fail

LEMMA GetAliasAliases == ASSUME TypeOK, AliasInv, NEW p \in Proc, GetImageAlias(p) PROVE AliasInv'
<1>. DEFINE a == job[p].alias
            next == IF job[p].op = "create_vm" THEN "get_image" ELSE "delete_image"
            work == [job[p] EXCEPT !.target = alias[a]]
<1>1. job[p] \in Job /\ a \in Alias /\ job[p].image \in Image /\ UNCHANGED <<image, alias, cid, spent>>
  BY Here, UnderWay DEF GetImageAlias, Read, Request, server, director
<1>2. CASE Fail(p)
  BY <1>1, <1>2, FailAliases
<1>3. CASE alias[a] # None /\ Goto(p, next, work)
  <2>1. alias[a] = job[p].image
    <3>1. alias[a] \in Image /\ Of(a, alias[a]) /\ Of(a, job[p].image)
      BY <1>1, <1>3 DEF TypeOK, Of
    <3>. QED
      BY <1>1, <3>1 DEF AliasInv, OneImage
  <2>2. SameCall(p, work) /\ work.target = alias[a] /\ work.image = job[p].image
    BY <1>1 DEF SameCall, Job
  <2>3. next # "create_alias"
    OBVIOUS
  <2>. HIDE DEF work, next
  <2>. QED
    BY <1>1, <1>3, <2>1, <2>2, <2>3, QuietStep
<1>. QED
  BY <1>2, <1>3 DEF GetImageAlias, Read, Request

LEMMA QuietAliases ==
    ASSUME TypeOK, AliasInv, NEW p \in Proc,
           \/ GetInstance(p) \/ DescribeInstance(p) \/ CreateInstance(p) \/ HasVM(p)
           \/ DeleteInstance(p) \/ GetImage(p) \/ TryLock(p) \/ LockTimeout(p) \/ Server(p)
    PROVE  AliasInv'
<1>1. UNCHANGED <<image, alias, cid, spent>>
  BY DEF GetInstance, DescribeInstance, CreateInstance, HasVM, DeleteInstance, GetImage, TryLock,
     LockTimeout, Server, InstanceCreated, InstanceFails, Read, Request, SetInstance, StartMaking,
     server, director
<1>2. \/ UNCHANGED <<pc, job>>
      \/ \E next \in {"describe", "ok", "creating", "delete_instance", "get_alias", "failed",
                      "try_lock", "create_instance", "get_instance"} : Goto(p, next, job[p])
  BY DEF GetInstance, DescribeInstance, CreateInstance, HasVM, DeleteInstance, GetImage, TryLock,
     LockTimeout, Server, InstanceCreated, InstanceFails, Read, Request, Fail
<1>3. CASE UNCHANGED <<pc, job>>
  BY <1>1, <1>3 DEF AliasInv, OneImage, Of, NotWhileDeleted, DeletesOwn, AliasesNameImages, OneNames,
     OneAlias, AliasesOf
<1>. QED
  BY <1>1, <1>2, <1>3, QuietStep DEF SameCall

(* The director *)

\* A call begins or ends: whom its alias is of was known, or nobody had it.
LEMMA DirectorStep ==
    ASSUME TypeOK, AliasInv, NEW p \in Proc, NEW next, NEW work, Goto(p, next, work),
           next \notin {"create_alias", "delete_image"}, UNCHANGED <<image, alias>>,
           OneImage', NotWhileDeleted'
    PROVE  AliasInv'
<1>1. DeletesOwn' /\ OneNames'
  BY After DEF AliasInv, DeletesOwn, OneNames, AliasesOf
<1>2. AliasesNameImages' /\ OneAlias'
  BY DEF AliasInv, AliasesNameImages, OneAlias, AliasesOf
<1>. QED
  BY <1>1, <1>2 DEF AliasInv

LEMMA CallAliases == ASSUME TypeOK, AliasInv, NEW p \in Proc, Director(p) PROVE AliasInv'
<1>1. PICK op \in Ops, i \in Image, a \in Alias :
          /\ Call(p, op, i, a)
          /\ \/ op = "create_stemcell" /\ ~Working(i, {"delete_stemcell"}) /\ a \notin spent
                /\ spent' = spent \cup {a}
             \/ op = "delete_stemcell" /\ ~Working(i, Ops) /\ cid[i] = a /\ UNCHANGED spent
             \/ op = "create_vm" /\ cid[i] = a /\ UNCHANGED spent
  BY DEF Director, CallCreateStemcell, CallDeleteStemcell, CallCreateVM, Ops, TypeOK
<1>. DEFINE work == [NoJob EXCEPT !.op = op, !.image = i, !.alias = a]
<1>2. work.op = op /\ work.image = i /\ work.alias = a
  BY DEF NoJob
<1>3. Goto(p, Start[op], work) /\ UNCHANGED <<image, alias, cid>>
      /\ Start[op] \notin {"create_alias", "delete_image"}
  BY <1>1 DEF Call, server, Start, Ops
<1>. HIDE DEF work
<1>4. /\ job'[p] = work
      /\ \A q \in Proc : q # p => job'[q] = job[q]
  BY <1>3, After
<1>5. OneImage'
  <2>1. ASSUME NEW b \in Alias, NEW j \in Image, Of(b, j)'
        PROVE  Of(b, j) \/ (b = a /\ j = i)
    BY <1>2, <1>3, <1>4, <2>1 DEF Of
  <2>2. Of(a, i) \/ a \notin spent
    BY <1>1 DEF Of
  <2>3. \A j \in Image : Of(a, j) => a \in spent
    BY DEF AliasInv, OneImage
  <2>4. spent \subseteq spent' /\ a \in spent'
    BY <1>1, <2>3 DEF Of
  <2>. QED
    BY <2>1, <2>2, <2>3, <2>4 DEF AliasInv, OneImage
<1>6. NotWhileDeleted'
  BY <1>1, <1>2, <1>4 DEF AliasInv, NotWhileDeleted, Working, Ops
<1>. QED
  BY <1>3, <1>5, <1>6, DirectorStep

LEMMA EndAliases == ASSUME TypeOK, AliasInv, NEW p \in Proc, Reply(p) \/ Crash(p) PROVE AliasInv'
<1>1. /\ Goto(p, "idle", NoJob) /\ UNCHANGED <<image, alias, spent>> /\ pc[p] # "idle"
      /\ cid' = [cid EXCEPT ![job[p].image] = cid'[job[p].image]]
      /\ cid'[job[p].image] \in {cid[job[p].image], None, job[p].alias}
  <2>1. pc[p] # "idle" /\ job[p].image \in Image /\ cid \in [Image -> Alias \cup {None}]
    BY UnderWay DEF Reply, Crash, TypeOK
  <2>2. PICK good \in BOOLEAN : Conclude(job[p], good)
    BY DEF Reply, Crash
  <2>3. PICK c \in {cid[job[p].image], None, job[p].alias} : cid' = [cid EXCEPT ![job[p].image] = c]
    BY <2>1, <2>2 DEF Conclude
  <2>. QED
    BY <2>1, <2>2, <2>3 DEF Reply, Crash, Conclude, server
<1>2. /\ job'[p] = NoJob
      /\ \A q \in Proc : q # p => job'[q] = job[q]
  BY <1>1, After
<1>3. OneImage'
  <2>1. NoJob.alias = None
    BY DEF NoJob
  <2>2. \A j \in Image : j # job[p].image => cid'[j] = cid[j]
    BY <1>1 DEF TypeOK
  <2>3. ASSUME NEW b \in Alias, NEW j \in Image, Of(b, j)'
        PROVE  Of(b, j)
    BY <1>1, <1>2, <2>1, <2>2, <2>3 DEF Of
  <2>. QED
    BY <1>1, <2>3 DEF AliasInv, OneImage
<1>4. NotWhileDeleted'
  <2>1. NoJob.op = None /\ None \notin {"create_stemcell", "delete_stemcell"}
    BY DEF NoJob, Ops
  <2>. QED
    BY <1>2, <2>1 DEF AliasInv, NotWhileDeleted
<1>. QED
  BY <1>1, <1>3, <1>4, DirectorStep

LEMMA AliasNext == TypeOK /\ AliasInv /\ [Next]_vars => AliasInv'
<1>. SUFFICES ASSUME TypeOK, AliasInv, [Next]_vars
              PROVE  AliasInv'
  OBVIOUS
<1>1. ASSUME NEW p \in Proc, Step(p)
      PROVE  AliasInv'
  BY <1>1, FindAliases, UploadAliases, NameAliases, GetAliasAliases, DeleteAliases, QuietAliases,
     EndAliases
  DEF Step
<1>2. ASSUME NEW p \in Proc, Server(p) \/ Director(p) \/ Crash(p)
      PROVE  AliasInv'
  BY <1>2, QuietAliases, CallAliases, EndAliases
<1>3. CASE UNCHANGED vars
  BY <1>3 DEF vars, server, director, AliasInv, OneImage, Of, NotWhileDeleted, DeletesOwn,
     AliasesNameImages, OneNames, OneAlias, AliasesOf
<1>. QED
  BY <1>1, <1>2, <1>3 DEF Next

\* However many calls upload a stemcell, and wherever they fail or are killed, its image has one
\* alias (CreateAndUploadImage, FindExistingImage).
THEOREM AliasIsUnique == Spec => []OneAlias
<1>1. AliasInv => OneAlias
  BY DEF AliasInv
<1>. QED
  BY <1>1, AliasInit, AliasNext, TypeCorrect, PTL DEF Spec

-----------------------------------------------------------------------------
(* What a step of a call does to the images, as far as the director is concerned *)

Knowledge == <<cid, spent, broken, deleted>>

\* The requests of create_stemcell from where its image has its alias.
Named == {"create_instance", "creating", "get_instance", "describe", "ok"}

\* The call goes on.
Goes(p, next, work) ==
    /\ Goto(p, next, work)
    /\ work.op = job[p].op /\ work.image = job[p].image
    /\ UNCHANGED Knowledge /\ unseen \subseteq unseen'

Rests == UNCHANGED <<pc, job, image, alias, Knowledge, unseen>>

Reads(p) == \E next, work :
    /\ Goes(p, next, work) /\ UNCHANGED <<image, alias>>
    /\ pc[p] \notin {"idle", "failed", "ok"}
    /\ next # "create_alias" /\ (pc[p] = "create_alias" => next = "failed")
    /\ \/ work.alias = job[p].alias
       \/ job[p].op = "create_stemcell" /\ next = "ok" /\ alias[work.alias] = work.image
    /\ job[p].op = "create_stemcell" /\ next \in Named =>
           pc[p] \in Named \/ alias[work.alias] = work.image
    /\ job[p].op = "delete_stemcell" /\ next = "ok" => job[p].alias \in unseen'

Uploads(p) ==
    /\ pc[p] = "create_image" /\ UploadImage(job[p].image)
    /\ \E next \in {"create_alias", "failed"} : Goes(p, next, job[p])

Names(p) ==
    /\ pc[p] = "create_alias" /\ alias[job[p].alias] = None
    /\ NameImage(job[p].alias, job[p].image)
    /\ \E next \in {"create_instance", "ok", "failed"} : Goes(p, next, job[p])

Removes(p) ==
    /\ pc[p] = "delete_image" /\ RemoveImage(job[p].image)
    /\ \E next \in {"ok", "failed"} : Goes(p, next, job[p])

GoesOn(p) == Rests \/ Reads(p) \/ Uploads(p) \/ Names(p) \/ Removes(p)

\* A step that keeps the locals, the images and the aliases.
LEMMA ReadsOn ==
    ASSUME TypeOK, NEW p \in Proc, NEW next, Goto(p, next, job[p]),
           UNCHANGED <<image, alias, Knowledge>>, unseen \subseteq unseen',
           pc[p] \notin {"idle", "failed", "ok"},
           next # "create_alias", pc[p] = "create_alias" => next = "failed",
           job[p].op = "create_stemcell" /\ next \in Named => pc[p] \in Named,
           job[p].op = "delete_stemcell" /\ next = "ok" => job[p].alias \in unseen'
    PROVE  Reads(p)
  BY DEF Reads, Goes

LEMMA FailReads ==
    ASSUME TypeOK, NEW p \in Proc, Fail(p), UNCHANGED <<image, alias, Knowledge, unseen>>,
           pc[p] \notin {"idle", "failed", "ok"}
    PROVE  Reads(p)
  BY ReadsOn DEF Fail, Named

LEMMA RequestGoes ==
    ASSUME TypeOK, AliasInv, NEW p \in Proc,
           \/ FindExistingImage(p) \/ CreateImage(p) \/ CreateImageAlias(p)
           \/ GetImageAlias(p) \/ DeleteImage(p)
    PROVE  GoesOn(p)
<1>0. UNCHANGED <<Knowledge, unseen>> /\ pc[p] \notin {"idle", "failed", "ok"}
  BY DEF FindExistingImage, CreateImage, CreateImageAlias, GetImageAlias, DeleteImage, Read,
     Request, director, Knowledge
<1>1. CASE Fail(p) /\ UNCHANGED server
  BY <1>0, <1>1, FailReads DEF GoesOn, server
<1>2. CASE FindExistingImage(p)
  <2>1. UNCHANGED server /\ pc[p] = "find_image" /\ job[p] \in Job
    BY <1>2, Here DEF FindExistingImage, Read, Request
  <2>2. CASE Goto(p, "create_image", job[p])
    BY <1>0, <2>1, <2>2, ReadsOn DEF GoesOn, Named, server
  <2>3. ASSUME NEW b \in AliasesOf(job[p].image), Goto(p, "ok", [job[p] EXCEPT !.alias = b])
        PROVE  Reads(p)
    <3>. DEFINE work == [job[p] EXCEPT !.alias = b]
    <3>1. work.op = job[p].op /\ work.image = job[p].image /\ work.alias = b /\ alias[b] = work.image
      BY <2>1 DEF Job, AliasesOf
    <3>2. job[p].op = "create_stemcell"
      BY <2>1, OpAt
    <3>3. Goto(p, "ok", work)
      BY <2>3
    <3>. HIDE DEF work
    <3>4. Goes(p, "ok", work)
      BY <1>0, <3>1, <3>3 DEF Goes
    <3>. QED BY <1>0, <2>1, <3>1, <3>2, <3>4 DEF Reads, server
  <2>. QED
    BY <1>1, <1>2, <2>1, <2>2, <2>3 DEF GoesOn, FindExistingImage, Read, Request
<1>3. CASE CreateImage(p)
  BY <1>0, <1>1, <1>3 DEF CreateImage, Request, Fail, GoesOn, Uploads, Goes
<1>4. CASE CreateImageAlias(p)
  BY <1>0, <1>1, <1>4 DEF CreateImageAlias, Request, Fail, GoesOn, Names, Goes
<1>5. CASE GetImageAlias(p)
  <2>. DEFINE next == IF job[p].op = "create_vm" THEN "get_image" ELSE "delete_image"
              work == [job[p] EXCEPT !.target = alias[job[p].alias]]
  <2>1. UNCHANGED server /\ pc[p] = "get_alias" /\ (Goto(p, next, work) \/ Fail(p))
    BY <1>5 DEF GetImageAlias, Read, Request
  <2>2. work.op = job[p].op /\ work.image = job[p].image /\ work.alias = job[p].alias
    BY Here DEF Job
  <2>3. next \in {"get_image", "delete_image"}
    OBVIOUS
  <2>. HIDE DEF work, next
  <2>4. CASE Goto(p, next, work)
    BY <1>0, <2>1, <2>2, <2>3, <2>4 DEF Goes, Reads, GoesOn, Named, server
  <2>. QED BY <1>1, <2>1, <2>4
<1>6. CASE DeleteImage(p)
  <2>1. job[p].target = job[p].image
    BY <1>6 DEF DeleteImage, AliasInv, DeletesOwn
  <2>. QED
    BY <1>0, <1>1, <1>6, <2>1 DEF DeleteImage, Request, Fail, GoesOn, Removes, Goes
<1>. QED BY <1>2, <1>3, <1>4, <1>5, <1>6

LEMMA QuietGoes ==
    ASSUME TypeOK, NEW p \in Proc,
           \/ GetInstance(p) \/ DescribeInstance(p) \/ CreateInstance(p) \/ HasVM(p)
           \/ DeleteInstance(p) \/ GetImage(p) \/ TryLock(p) \/ LockTimeout(p) \/ Server(p)
    PROVE  GoesOn(p)
<1>1. UNCHANGED <<image, alias, Knowledge>> /\ unseen \subseteq unseen'
  BY DEF GetInstance, DescribeInstance, CreateInstance, HasVM, DeleteInstance, GetImage, TryLock,
     LockTimeout, Server, InstanceCreated, InstanceFails, Read, Request, SetInstance, StartMaking,
     server, director, Knowledge
<1>2. \/ UNCHANGED <<pc, job, unseen>>
      \/ Goto(p, "failed", job[p])
      \/ pc[p] \in {"get_instance", "describe", "create_instance", "creating"}
         /\ \E next \in {"describe", "ok", "creating", "get_instance"} : Goto(p, next, job[p])
      \/ pc[p] = "has_vm" /\ Goto(p, "ok", job[p]) /\ job[p].alias \in unseen'
      \/ pc[p] \in {"has_vm", "delete_instance", "get_image", "try_lock"}
         /\ \E next \in {"delete_instance", "get_alias", "try_lock", "create_instance"} :
                Goto(p, next, job[p])
  BY DEF GetInstance, DescribeInstance, CreateInstance, HasVM, DeleteInstance, GetImage, TryLock,
     LockTimeout, Server, InstanceCreated, InstanceFails, Read, Request, Fail
<1>3. UNCHANGED <<pc, job, unseen>> \/ pc[p] \in {"get_instance", "describe", "create_instance",
          "creating", "has_vm", "delete_instance", "get_image", "try_lock"}
  BY DEF GetInstance, DescribeInstance, CreateInstance, HasVM, DeleteInstance, GetImage, TryLock,
     LockTimeout, Server, InstanceCreated, InstanceFails
<1>4. CASE UNCHANGED <<pc, job, unseen>>
  BY <1>1, <1>4 DEF GoesOn, Rests
<1>5. ASSUME pc[p] \in {"get_instance", "describe", "create_instance", "creating", "has_vm",
                        "delete_instance", "get_image", "try_lock"}
      PROVE  /\ pc[p] \notin {"idle", "failed", "ok", "create_alias"}
             /\ job[p].op = "create_stemcell" => pc[p] \in Named
             /\ job[p].op = "delete_stemcell" => pc[p] \in {"has_vm", "delete_instance"}
  BY <1>5, OpAt DEF Named
<1>. QED
  BY <1>1, <1>2, <1>3, <1>4, <1>5, ReadsOn DEF GoesOn, Named

LEMMA CallGoes ==
    ASSUME TypeOK, AliasInv, NEW p \in Proc, Step(p) \/ Server(p)
    PROVE  GoesOn(p) \/ Reply(p)
  BY QuietGoes, RequestGoes DEF Step

\* A call that goes on learns no alias but that of its image.
LEMMA GoesOf ==
    ASSUME TypeOK, AliasInv, NEW p \in Proc, GoesOn(p), NEW a \in Alias, NEW i \in Image, Of(a, i)'
    PROVE  Of(a, i)
<1>1. CASE Rests
  BY <1>1 DEF Rests, Knowledge, Of
<1>2. CASE Reads(p)
  <2>1. PICK next, work :
           /\ Goes(p, next, work) /\ UNCHANGED <<image, alias>>
           /\ work.alias = job[p].alias \/ (next = "ok" /\ alias[work.alias] = work.image)
    BY <1>2 DEF Reads
  <2>2. /\ job'[p] = work /\ work.image = job[p].image
        /\ \A q \in Proc : q # p => job'[q] = job[q]
    BY <2>1, After DEF Goes
  <2>. QED BY <2>1, <2>2 DEF Goes, Knowledge, Of
<1>3. CASE Uploads(p) \/ Names(p) \/ Removes(p)
  <2>1. /\ \A q \in Proc : job'[q] = job[q]
        /\ UNCHANGED cid
    BY <1>3, After DEF Uploads, Names, Removes, Goes, Knowledge
  <2>2. alias'[a] = i => alias[a] = i \/ (a = job[p].alias /\ i = job[p].image)
    BY <1>3 DEF Uploads, Names, Removes, UploadImage, NameImage, RemoveImage, TypeOK
  <2>. QED BY <2>1, <2>2 DEF Of
<1>. QED BY <1>1, <1>2, <1>3 DEF GoesOn

\* It keeps its operation and its image, and the other calls keep all they have.
LEMMA GoesJobs ==
    ASSUME TypeOK, NEW p \in Proc, GoesOn(p)
    PROVE  /\ \A q \in Proc : job'[q].op = job[q].op /\ job'[q].image = job[q].image
           /\ \A q \in Proc : q # p => pc'[q] = pc[q] /\ job'[q] = job[q]
           /\ UNCHANGED Knowledge /\ unseen \subseteq unseen'
<1>1. CASE Rests
  BY <1>1 DEF Rests
<1>2. ASSUME NEW next, NEW work, Goes(p, next, work)
      PROVE  /\ \A q \in Proc : job'[q].op = job[q].op /\ job'[q].image = job[q].image
             /\ \A q \in Proc : q # p => pc'[q] = pc[q] /\ job'[q] = job[q]
             /\ UNCHANGED Knowledge /\ unseen \subseteq unseen'
  BY <1>2, After DEF Goes
<1>. QED BY <1>1, <1>2 DEF GoesOn, Reads, Uploads, Names, Removes

\* The director begins a call.
Begins(p, op, i, a) ==
    /\ pc[p] = "idle" /\ UNCHANGED <<server, cid, broken, deleted, unseen>>
    /\ pc'[p] = Start[op]
    /\ job'[p].op = op /\ job'[p].image = i /\ job'[p].alias = a
    /\ \A q \in Proc : q # p => pc'[q] = pc[q] /\ job'[q] = job[q]
    /\ spent \subseteq spent'
    /\ \/ op = "create_stemcell" /\ a \notin spent /\ a \in spent'
          /\ ~Working(i, {"delete_stemcell"})
       \/ /\ op \in {"delete_stemcell", "create_vm"} /\ cid[i] = a
          /\ ~Working(i, {"delete_stemcell"})
          /\ op = "delete_stemcell" => ~Working(i, Ops)

LEMMA DirectorBegins ==
    ASSUME TypeOK, NEW p \in Proc, Director(p)
    PROVE  \E op \in Ops, i \in Image, a \in Alias : Begins(p, op, i, a)
<1>1. PICK op \in Ops, i \in Image, a \in Alias :
          /\ Call(p, op, i, a)
          /\ \/ op = "create_stemcell" /\ ~Working(i, {"delete_stemcell"}) /\ a \notin spent
                /\ spent' = spent \cup {a}
             \/ op = "delete_stemcell" /\ ~Working(i, Ops) /\ cid[i] = a /\ UNCHANGED spent
             \/ op = "create_vm" /\ ~Working(i, {"delete_stemcell"}) /\ cid[i] = a /\ UNCHANGED spent
  BY DEF Director, CallCreateStemcell, CallDeleteStemcell, CallCreateVM, Ops, TypeOK
<1>. DEFINE work == [NoJob EXCEPT !.op = op, !.image = i, !.alias = a]
<1>2. work.op = op /\ work.image = i /\ work.alias = a
  BY DEF NoJob
<1>3. Goto(p, Start[op], work)
  BY <1>1 DEF Call
<1>. HIDE DEF work
<1>4. ~Working(i, Ops) => ~Working(i, {"delete_stemcell"})
  BY DEF Working, Ops
<1>. QED
  BY <1>1, <1>2, <1>3, <1>4, After DEF Begins, Call

\* A call ends.
Ends(p, good) ==
    /\ pc[p] # "idle" /\ (good => pc[p] = "ok")
    /\ Conclude(job[p], good) /\ UNCHANGED <<server, unseen>>
    /\ pc'[p] = "idle" /\ job'[p] = NoJob
    /\ \A q \in Proc : q # p => pc'[q] = pc[q] /\ job'[q] = job[q]

LEMMA CallEnds ==
    ASSUME TypeOK, NEW p \in Proc, Reply(p) \/ Crash(p)
    PROVE  \E good \in BOOLEAN : Ends(p, good)
<1>1. Goto(p, "idle", NoJob) /\ UNCHANGED <<server, unseen>>
  BY DEF Reply, Crash
<1>2. CASE Reply(p)
  BY <1>1, <1>2, After DEF Reply, Ends
<1>3. CASE Crash(p)
  BY <1>1, <1>3, After DEF Crash, Ends
<1>. QED BY <1>2, <1>3

\* Every step is one of a call, of the director, or changes nothing of this.
LEMMA EveryStep ==
    ASSUME TypeOK, AliasInv, [Next]_vars
    PROVE  \/ UNCHANGED vars
           \/ \E p \in Proc : \/ GoesOn(p) /\ (Step(p) \/ Server(p))
                              \/ \E op \in Ops, i \in Image, a \in Alias : Begins(p, op, i, a)
                              \/ \E good \in BOOLEAN : Ends(p, good)
  BY CallGoes, DirectorBegins, CallEnds DEF Next

-----------------------------------------------------------------------------
(* The ids the director has *)

\* From the naming of its image on, a create_stemcell call has an alias that names the image.
Uploaded == \A p \in Proc : job[p].op = "create_stemcell" /\ pc[p] \in Named =>
    alias[job[p].alias] = job[p].image

UploadInv == Uploaded /\ CidUsable

\* Only delete_stemcell takes the alias of an image away, and only that of its own.
LEMMA AliasStays ==
    ASSUME TypeOK, AliasInv, NEW p \in Proc, GoesOn(p), NEW a \in Alias, alias[a] # None
    PROVE  alias'[a] = alias[a] \/ (job[p].op = "delete_stemcell" /\ job[p].image = alias[a])
<1>1. CASE Rests \/ Reads(p) \/ Uploads(p)
  BY <1>1 DEF Rests, Reads, Uploads, UploadImage
<1>2. CASE Names(p)
  BY <1>2 DEF Names, NameImage, TypeOK
<1>3. CASE Removes(p)
  BY <1>3, OpAt DEF Removes, RemoveImage
<1>. QED BY <1>1, <1>2, <1>3 DEF GoesOn

LEMMA NamedStep ==
    ASSUME TypeOK, AliasInv, Uploaded, NEW p \in Proc, GoesOn(p)
    PROVE  Uploaded'
<1>. SUFFICES ASSUME NEW q \in Proc, job'[q].op = "create_stemcell", pc'[q] \in Named
              PROVE  alias'[job'[q].alias] = job'[q].image
  BY DEF Uploaded
<1>0. job[q].op = "create_stemcell" /\ job'[q].image = job[q].image
  BY GoesJobs
<1>1. ASSUME pc[q] \in Named, job'[q].alias = job[q].alias
      PROVE  alias'[job'[q].alias] = job'[q].image
  <2>1. alias[job[q].alias] = job[q].image /\ job[q].image \in Image /\ job[q].alias \in Alias
    BY <1>0, <1>1, UnderWay DEF Uploaded, Named
  <2>2. ~(job[p].op = "delete_stemcell" /\ job[p].image = job[q].image)
    BY <1>0 DEF AliasInv, NotWhileDeleted
  <2>. QED BY <1>0, <1>1, <2>1, <2>2, AliasStays
<1>2. CASE q # p
  BY <1>1, <1>2, GoesJobs
<1>3. CASE q = p
  <2>1. CASE Rests
    BY <1>1, <1>3, <2>1 DEF Rests
  <2>2. CASE Reads(p)
    <3>1. PICK next, work :
             /\ Goes(p, next, work) /\ UNCHANGED <<image, alias>>
             /\ work.alias = job[p].alias \/ alias[work.alias] = work.image
             /\ job[p].op = "create_stemcell" /\ next \in Named =>
                    pc[p] \in Named \/ alias[work.alias] = work.image
      BY <2>2 DEF Reads
    <3>2. pc'[p] = next /\ job'[p] = work
      BY <3>1, After DEF Goes
    <3>. QED BY <1>0, <1>1, <1>3, <3>1, <3>2
  <2>3. CASE Uploads(p)
    BY <1>3, <2>3, After DEF Uploads, Goes, Named
  <2>4. CASE Names(p)
    <3>1. job'[p] = job[p] /\ job[p].alias \in Alias
      BY <2>4, After, UnderWay DEF Names, Goes
    <3>. QED BY <1>3, <2>4, <3>1 DEF Names, NameImage, TypeOK
  <2>5. CASE Removes(p)
    BY <1>0, <1>3, <2>5, OpAt DEF Removes
  <2>. QED BY <2>1, <2>2, <2>3, <2>4, <2>5 DEF GoesOn
<1>. QED BY <1>2, <1>3

LEMMA UsableStep ==
    ASSUME TypeOK, AliasInv, AliasInv', UploadInv, NEW p \in Proc, GoesOn(p)
    PROVE  UploadInv'
<1>1. CidUsable'
  <2>. SUFFICES ASSUME NEW i \in Image, cid'[i] # None, i \notin broken',
                       ~Working(i, {"delete_stemcell"})'
                PROVE  i \in image' /\ alias'[cid'[i]] = i
    BY DEF CidUsable
  <2>1. UNCHANGED <<cid, broken>> /\ ~Working(i, {"delete_stemcell"})
    BY GoesJobs DEF Knowledge, Working
  <2>2. alias[cid[i]] = i /\ cid[i] \in Alias
    BY <2>1 DEF UploadInv, CidUsable, TypeOK
  <2>3. alias'[cid[i]] = i
    BY <2>1, <2>2, AliasStays DEF Working
  <2>4. i \in image'
    BY <2>2, <2>3 DEF AliasInv, AliasesNameImages
  <2>. QED BY <2>1, <2>3, <2>4
<1>. QED BY <1>1, NamedStep DEF UploadInv

LEMMA UsableBegins ==
    ASSUME TypeOK, UploadInv, NEW p \in Proc, NEW op \in Ops, NEW i \in Image, NEW a \in Alias,
           Begins(p, op, i, a)
    PROVE  UploadInv'
<1>1. Uploaded'
  BY DEF UploadInv, Uploaded, Begins, Start, Named, Ops, server
<1>2. \A j \in Image : Working(j, {"delete_stemcell"}) => Working(j, {"delete_stemcell"})'
  <2>1. job[p].op # "delete_stemcell"
    BY Here DEF Begins, JobOK, NoJob, Ops
  <2>. QED BY <2>1 DEF Begins, Working
<1>3. CidUsable'
  BY <1>2 DEF UploadInv, CidUsable, Begins, server
<1>. QED BY <1>1, <1>3 DEF UploadInv

\* An answer that the stemcell is there is true, and one that fails marks it.
LEMMA UsableEnds ==
    ASSUME TypeOK, AliasInv, UploadInv, NEW p \in Proc, NEW good \in BOOLEAN, Ends(p, good)
    PROVE  UploadInv'
<1>. DEFINE j == job[p]
<1>0. j.op \in Ops /\ j.image \in Image /\ j.alias \in Alias /\ UNCHANGED <<image, alias>>
  BY UnderWay DEF Ends, server
<1>1. Uploaded'
  BY <1>0 DEF UploadInv, Uploaded, Ends, NoJob, Ops
<1>2. ASSUME NEW i \in Image, cid'[i] # None, i \notin broken', ~Working(i, {"delete_stemcell"})'
      PROVE  i \in image' /\ alias'[cid'[i]] = i
  <2>1. CASE i # j.image \/ j.op = "create_vm"
    <3>1. cid'[i] = cid[i] /\ i \notin broken
      BY <1>0, <1>2, <2>1 DEF Ends, Conclude, TypeOK
    <3>2. ~Working(i, {"delete_stemcell"})
      BY <1>2, <2>1 DEF Ends, Working
    <3>. QED BY <1>0, <3>1, <3>2, <1>2 DEF UploadInv, CidUsable
  <2>2. CASE i = j.image /\ j.op = "delete_stemcell"
    BY <1>0, <1>2, <2>2 DEF Ends, Conclude, TypeOK
  <2>3. CASE i = j.image /\ j.op = "create_stemcell"
    <3>1. good /\ cid'[i] = j.alias
      BY <1>0, <1>2, <2>3 DEF Ends, Conclude, TypeOK
    <3>2. alias[j.alias] = i
      BY <2>3, <3>1 DEF UploadInv, Uploaded, Named, Ends
    <3>. QED BY <1>0, <2>3, <3>1, <3>2 DEF AliasInv, AliasesNameImages
  <2>. QED BY <1>0, <2>1, <2>2, <2>3 DEF Ops
<1>. QED BY <1>1, <1>2 DEF UploadInv, CidUsable

LEMMA UsableNext == TypeOK /\ AliasInv /\ UploadInv /\ [Next]_vars => UploadInv'
<1>. SUFFICES ASSUME TypeOK, AliasInv, UploadInv, [Next]_vars PROVE UploadInv'
  OBVIOUS
<1>1. CASE UNCHANGED vars
  BY <1>1 DEF vars, server, director, UploadInv, Uploaded, CidUsable, Working
<1>. QED
  BY <1>1, EveryStep, AliasNext, UsableStep, UsableBegins, UsableEnds

\* A stemcell id the director has been given names its image until it asks for its deletion, for
\* every number of uploads of the stemcell at a time and whatever fails.
THEOREM CidStaysUsable == Spec => []CidUsable
<1>1. Init => UploadInv
  BY DEF Init, UploadInv, Uploaded, CidUsable, Named
<1>2. UploadInv => CidUsable
  BY DEF UploadInv
<1>. QED
  BY <1>1, <1>2, UsableNext, AliasInit, AliasNext, TypeCorrect, PTL DEF Spec

-----------------------------------------------------------------------------
(* What delete_stemcell leaves behind *)

\* While a stemcell is deleted no other call works on it.
DeletesAlone == \A p, q \in Proc :
    /\ job[p].op = "delete_stemcell" /\ job[q].op \in Ops
    /\ job[p].image = job[q].image
    => p = q

\* A predeployed VM is being made by one request, and is not there before.
MadeOnce == \A p \in Proc : making[p] # None /\ making[p].vm # None =>
    /\ instance[making[p].vm] = "none"
    /\ \A q \in Proc : making[q] # None /\ making[q].vm = making[p].vm => p = q

\* After its requests about the predeployed VM there is none, after all of them no image.
DeletesAll == \A p \in Proc : job[p].op = "delete_stemcell" /\ job[p].alias \notin unseen =>
    /\ pc[p] \in {"get_alias", "delete_image", "ok"} => ~Present(job[p].alias)
    /\ pc[p] = "ok" => job[p].image \notin image

\* What was deleted is no one's any more.
Gone == \A a \in deleted \ unseen :
    a \in spent /\ ~Present(a) /\ \A i \in Image : ~Of(a, i)

DeleteInv == DeletesAlone /\ MadeOnce /\ DeletesAll /\ Gone

\* A predeployed VM comes to be only by the CreateInstance of the create_stemcell that has the
\* alias, and DeleteInstance takes it away for good.
MakesOnly(p) ==
    /\ MadeOnce'
    /\ \A a \in Alias : Present(a)' =>
          \/ Present(a)
          \/ pc[p] = "create_instance" /\ job[p].op = "create_stemcell" /\ job[p].alias = a

LEMMA SameMakes ==
    ASSUME MadeOnce, NEW p \in Proc, UNCHANGED <<instance, making>>
    PROVE  MakesOnly(p)
  BY DEF MakesOnly, MadeOnce, Present, BeingMade

LEMMA CreateMakes ==
    ASSUME TypeOK, MadeOnce, NEW p \in Proc, CreateInstance(p)
    PROVE  MakesOnly(p)
<1>. DEFINE a == job[p].alias
            m == [image |-> alias[a], vm |-> IF job[p].op = "create_stemcell" THEN a ELSE None,
                  preparing |-> alias[a] \notin ready]
<1>0. a \in Alias /\ pc[p] = "create_instance" /\ making \in [Proc -> Making \cup {None}]
  BY UnderWay DEF CreateInstance, TypeOK
<1>1. CASE UNCHANGED server
  BY <1>1, SameMakes DEF server
<1>2. CASE StartMaking(p, a, job[p].op = "create_stemcell")
           /\ (job[p].op = "create_stemcell" => ~Present(a))
  <2>1. /\ making'[p] = m /\ instance' = instance
        /\ \A q \in Proc : q # p => making'[q] = making[q]
    BY <1>0, <1>2 DEF StartMaking
  <2>2. m.vm = IF job[p].op = "create_stemcell" THEN a ELSE None
    OBVIOUS
  <2>. HIDE DEF m
  <2>3. job[p].op = "create_stemcell" =>
            /\ instance[a] = "none"
            /\ \A q \in Proc : making[q] # None => making[q].vm # a
    BY <1>2 DEF Present, BeingMade
  <2>4. MadeOnce'
    BY <1>0, <2>1, <2>2, <2>3 DEF MadeOnce
  <2>5. ASSUME NEW b \in Alias, Present(b)'
        PROVE  Present(b) \/ (job[p].op = "create_stemcell" /\ b = a)
    BY <2>1, <2>2, <2>5 DEF Present, BeingMade
  <2>. QED BY <1>0, <2>4, <2>5 DEF MakesOnly
<1>. QED BY <1>1, <1>2 DEF CreateInstance, Request

LEMMA DescribeMakes ==
    ASSUME TypeOK, MadeOnce, NEW p \in Proc, DescribeInstance(p) \/ DeleteInstance(p)
    PROVE  MakesOnly(p)
<1>. DEFINE a == job[p].alias
<1>0. a \in Alias /\ instance \in [Alias -> {"none", "made", "described"}]
  BY UnderWay DEF DescribeInstance, DeleteInstance, TypeOK
<1>1. CASE UNCHANGED server
  BY <1>1, SameMakes DEF server
<1>2. ASSUME instance[a] # "none", NEW state, SetInstance(a, state) PROVE MakesOnly(p)
  <2>1. /\ making' = making /\ instance'[a] = state
        /\ \A b \in Alias : b # a => instance'[b] = instance[b]
    BY <1>0, <1>2 DEF SetInstance
  <2>2. \A q \in Proc : making[q] # None => making[q].vm # a
    BY <1>0, <1>2 DEF MadeOnce
  <2>3. \A q \in Proc : making[q] # None => making[q].vm \in Alias \cup {None}
    BY DEF TypeOK, Making
  <2>4. MadeOnce'
    BY <2>1, <2>2, <2>3 DEF MadeOnce
  <2>5. \A b \in Alias : Present(b)' => Present(b)
    BY <1>2, <2>1 DEF Present, BeingMade
  <2>. QED BY <2>4, <2>5 DEF MakesOnly
<1>. QED BY <1>1, <1>2 DEF DescribeInstance, DeleteInstance, Request

LEMMA ServerMakes ==
    ASSUME TypeOK, MadeOnce, NEW p \in Proc, Server(p)
    PROVE  MakesOnly(p)
<1>0. making \in [Proc -> Making \cup {None}] /\ making[p] # None
  BY DEF TypeOK, Server, InstanceCreated, InstanceFails
<1>1. CASE InstanceFails(p)
  <2>1. /\ instance' = instance /\ making'[p] \in {making[p], None}
        /\ \A q \in Proc : q # p => making'[q] = making[q]
    BY <1>0, <1>1 DEF InstanceFails
  <2>2. MadeOnce'
    BY <2>1 DEF MadeOnce
  <2>3. \A b \in Alias : Present(b)' => Present(b)
    BY <2>1 DEF Present, BeingMade
  <2>. QED BY <2>2, <2>3 DEF MakesOnly
<1>2. CASE InstanceCreated(p)
  <2>. DEFINE b == making[p].vm
  <2>1. /\ making'[p] = None
        /\ \A q \in Proc : q # p => making'[q] = making[q]
        /\ instance' = [a \in Alias |-> IF a = b THEN "made" ELSE instance[a]]
    BY <1>0, <1>2 DEF InstanceCreated
  <2>2. \A q \in Proc : making[q] # None => making[q].vm \in Alias \cup {None}
    BY DEF TypeOK, Making
  <2>3. \A q \in Proc : q # p /\ making[q] # None /\ making[q].vm # None => making[q].vm # b
    BY <1>0 DEF MadeOnce
  <2>4. MadeOnce'
    BY <2>1, <2>2, <2>3 DEF MadeOnce
  <2>5. \A a \in Alias : Present(a)' => Present(a)
    BY <1>0, <2>1 DEF Present, BeingMade
  <2>. QED BY <2>4, <2>5 DEF MakesOnly
<1>. QED BY <1>1, <1>2 DEF Server

LEMMA StepMakes ==
    ASSUME TypeOK, MadeOnce, NEW p \in Proc, Step(p) \/ Server(p)
    PROVE  MakesOnly(p)
<1>1. CASE CreateInstance(p) \/ DescribeInstance(p) \/ DeleteInstance(p) \/ Server(p)
  BY <1>1, CreateMakes, DescribeMakes, ServerMakes
<1>2. CASE \/ FindExistingImage(p) \/ GetInstance(p) \/ HasVM(p) \/ GetImageAlias(p)
           \/ GetImage(p) \/ TryLock(p) \/ LockTimeout(p) \/ Reply(p)
  BY <1>2, SameMakes
  DEF FindExistingImage, GetInstance, HasVM, GetImageAlias, GetImage, TryLock, LockTimeout, Reply,
      Read, Request, server
<1>3. CASE CreateImage(p) \/ CreateImageAlias(p) \/ DeleteImage(p)
  BY <1>3, SameMakes
  DEF CreateImage, CreateImageAlias, DeleteImage, Request, UploadImage, NameImage, RemoveImage, server
<1>. QED BY <1>1, <1>2, <1>3 DEF Step

LEMMA DeleteOwn ==
    ASSUME TypeOK, AliasInv, DeleteInv, NEW p \in Proc, Step(p) \/ Server(p),
           job[p].op = "delete_stemcell", NEW a \in Alias, a = job[p].alias, a \notin unseen',
           pc'[p] \in {"get_alias", "delete_image", "ok"}
    PROVE  /\ job'[p].alias = a /\ ~Present(a)'
           /\ pc'[p] = "ok" => job'[p].image \notin image'
<1>. DEFINE j == job[p]
<1>0. /\ pc[p] # "idle" /\ j \in Job
      /\ pc = [q \in Proc |-> pc[q]] /\ job = [q \in Proc |-> job[q]]
  <2>1. pc[p] # "idle"
    BY Here DEF JobOK, NoJob, Ops
  <2>. QED BY <2>1, Here DEF TypeOK
<1>1. CASE HasVM(p)
  <2>1. /\ UNCHANGED server /\ ~Present(a)
        /\ pc'[p] = "get_alias" /\ job'[p] = j
    BY <1>0, <1>1 DEF HasVM, Goto
  <2>. QED BY <2>1 DEF Present, BeingMade, server
<1>2. CASE DeleteInstance(p)
  <2>1. /\ instance[a] # "none" /\ SetInstance(a, "none")
        /\ pc'[p] = "get_alias" /\ job'[p] = j
    BY <1>0, <1>2 DEF DeleteInstance, Request, Goto, Fail
  <2>2. instance'[a] = "none" /\ making' = making
    BY <1>0, <2>1 DEF SetInstance, TypeOK
  <2>3. \A q \in Proc : making[q] # None => making[q].vm # a
    BY <1>0, <2>1, StemcellAssumption DEF DeleteInv, MadeOnce
  <2>. QED BY <2>1, <2>2, <2>3 DEF Present, BeingMade
<1>3. CASE GetImageAlias(p)
  <2>. DEFINE work == [j EXCEPT !.target = alias[a]]
  <2>1. /\ UNCHANGED server /\ pc[p] = "get_alias" /\ pc'[p] = "delete_image" /\ job'[p] = work
        /\ unseen' = unseen
    BY <1>0, <1>3 DEF GetImageAlias, Read, Request, Goto, Fail
  <2>2. work.alias = a
    BY <1>0 DEF Job
  <2>. HIDE DEF work
  <2>. QED BY <2>1, <2>2 DEF DeleteInv, DeletesAll, Present, BeingMade, server
<1>4. CASE DeleteImage(p)
  <2>1. /\ RemoveImage(j.target) /\ pc[p] = "delete_image" /\ pc'[p] = "ok" /\ job'[p] = j
        /\ unseen' = unseen
    BY <1>0, <1>4 DEF DeleteImage, Request, Goto, Fail
  <2>2. j.target = j.image
    BY <2>1 DEF AliasInv, DeletesOwn
  <2>. QED
    BY <2>1, <2>2 DEF DeleteInv, DeletesAll, Present, BeingMade, RemoveImage
<1>5. CASE Server(p)
  <2>1. pc[p] # "creating"
    BY OpAt
  <2>2. UNCHANGED <<pc, job, image, unseen>>
    BY <1>5, <2>1 DEF Server, InstanceCreated, InstanceFails
  <2>3. pc[p] # "create_instance" /\ MakesOnly(p)
    BY <1>5, <2>2, StepMakes DEF DeleteInv
  <2>. QED BY <1>0, <2>2, <2>3 DEF DeleteInv, DeletesAll, MakesOnly
<1>6. CASE Reply(p)
  BY <1>0, <1>6 DEF Reply, Goto
<1>. QED
  BY <1>1, <1>2, <1>3, <1>4, <1>5, <1>6, OpAt
  DEF Step, FindExistingImage, CreateImage, CreateImageAlias, GetInstance, DescribeInstance,
      CreateInstance, GetImage, TryLock, LockTimeout

LEMMA GoneStep ==
    ASSUME TypeOK, AliasInv, DeleteInv, NEW p \in Proc, GoesOn(p), Step(p) \/ Server(p)
    PROVE  DeleteInv'
<1>0. /\ MakesOnly(p)
      /\ \A q \in Proc : job'[q].op = job[q].op /\ job'[q].image = job[q].image
      /\ \A q \in Proc : q # p => pc'[q] = pc[q] /\ job'[q] = job[q]
      /\ UNCHANGED Knowledge /\ unseen \subseteq unseen'
  BY StepMakes, GoesJobs DEF DeleteInv
<1>1. DeletesAlone' /\ MadeOnce'
  BY <1>0 DEF DeleteInv, DeletesAlone, MakesOnly
<1>2. Gone'
  <2>. SUFFICES ASSUME NEW a \in deleted, a \notin unseen
                PROVE  a \in spent /\ ~Present(a)' /\ \A i \in Image : ~Of(a, i)'
    BY <1>0 DEF Gone, Knowledge
  <2>1. a \in Alias /\ a \in spent /\ ~Present(a) /\ \A i \in Image : ~Of(a, i)
    BY DEF DeleteInv, Gone, TypeOK
  <2>2. ~(pc[p] = "create_instance" /\ job[p].alias = a)
    BY <2>1, UnderWay DEF Of
  <2>. QED BY <1>0, <2>1, <2>2, GoesOf DEF MakesOnly
<1>3. DeletesAll'
  <2>. SUFFICES ASSUME NEW q \in Proc, job'[q].op = "delete_stemcell",
                       NEW a, a = job'[q].alias, a \notin unseen',
                       pc'[q] \in {"get_alias", "delete_image", "ok"}
                PROVE  /\ ~Present(a)'
                       /\ pc'[q] = "ok" => job'[q].image \notin image'
    BY DEF DeletesAll
  <2>0. job[q].op = "delete_stemcell" /\ pc[q] # "idle"
    BY <1>0, Here DEF JobOK, NoJob, Ops
  <2>. PICK b \in Alias, i \in Image : b = job[q].alias /\ i = job[q].image
    BY <2>0, UnderWay
  <2>3. a = b
    <3>1. CASE Rests \/ Removes(p) \/ Uploads(p) \/ Names(p)
      BY <3>1, After DEF Rests, Removes, Uploads, Names, Goes
    <3>2. CASE Reads(p)
      <4>1. PICK next, work :
               /\ Goes(p, next, work)
               /\ work.alias = job[p].alias \/ job[p].op = "create_stemcell"
        BY <3>2 DEF Reads
      <4>2. CASE q = p
        BY <2>0, <4>1, <4>2, After DEF Goes
      <4>3. CASE q # p
        BY <1>0, <4>3
      <4>. QED BY <4>2, <4>3
    <3>. QED BY <3>1, <3>2 DEF GoesOn
  <2>1. CASE q = p
    BY <2>0, <2>1, <2>3, DeleteOwn
  <2>2. CASE q # p
    <3>1. pc'[q] = pc[q] /\ job'[q] = job[q] /\ a \notin unseen
      BY <1>0, <2>2
    <3>3. ~(pc[p] = "create_instance" /\ job[p].op = "create_stemcell" /\ job[p].alias = a)
      <4>. SUFFICES ASSUME pc[p] = "create_instance", job[p].op = "create_stemcell", job[p].alias = a
                    PROVE  FALSE
        OBVIOUS
      <4>1. job[p].image \in Image /\ Of(b, job[p].image) /\ Of(b, i)
        BY <2>3, UnderWay DEF Of
      <4>2. job[p].image = i
        BY <4>1 DEF AliasInv, OneImage
      <4>. QED BY <2>0, <4>2 DEF AliasInv, NotWhileDeleted
    <3>4. Present(a)' => Present(a)
      BY <1>0, <2>3, <3>3 DEF MakesOnly
    <3>5. i \in image' => i \in image
      <4>1. CASE Uploads(p)
        <5>1. job[p].op = "create_stemcell" /\ image' = image \cup {job[p].image}
          BY <4>1, OpAt DEF Uploads, UploadImage
        <5>. QED BY <2>0, <5>1 DEF AliasInv, NotWhileDeleted
      <4>2. CASE Rests \/ Reads(p) \/ Names(p) \/ Removes(p)
        BY <4>2 DEF Rests, Reads, Names, NameImage, Removes, RemoveImage
      <4>. QED BY <4>1, <4>2 DEF GoesOn
    <3>. QED BY <2>0, <2>3, <3>1, <3>4, <3>5 DEF DeleteInv, DeletesAll
  <2>. QED BY <2>1, <2>2
<1>. QED BY <1>1, <1>2, <1>3 DEF DeleteInv

LEMMA GoneBegins ==
    ASSUME TypeOK, AliasInv, DeleteInv, NEW p \in Proc,
           NEW op \in Ops, NEW i \in Image, NEW a \in Alias, Begins(p, op, i, a)
    PROVE  DeleteInv'
<1>1. DeletesAlone'
  BY DEF DeleteInv, DeletesAlone, Begins, Working
<1>2. MadeOnce' /\ \A b : Present(b)' = Present(b)
  BY DEF Begins, server, DeleteInv, MadeOnce, Present, BeingMade
<1>3. DeletesAll'
  BY <1>2 DEF Begins, Start, Ops, DeleteInv, DeletesAll, server
<1>4. Gone'
  <2>. SUFFICES ASSUME NEW b \in deleted \ unseen
                PROVE  b \in spent' /\ ~Present(b)' /\ \A k \in Image : ~Of(b, k)'
    BY DEF Gone, Begins
  <2>1. b \in Alias /\ b \in spent /\ ~Present(b) /\ \A k \in Image : ~Of(b, k)
    BY DEF DeleteInv, Gone, TypeOK
  <2>2. b # a
    BY <2>1 DEF Begins, Of
  <2>. QED BY <1>2, <2>1, <2>2 DEF Begins, Of, server
<1>. QED BY <1>1, <1>2, <1>3, <1>4 DEF DeleteInv

\* The answer of delete_stemcell frees the alias: nothing names it, and nobody has it.
LEMMA GoneEnds ==
    ASSUME TypeOK, AliasInv, DeleteInv, NEW p \in Proc, NEW good \in BOOLEAN, Ends(p, good)
    PROVE  DeleteInv'
<1>. DEFINE j == job[p]
<1>0. /\ j.op \in Ops /\ j.image \in Image /\ j.alias \in Alias
      /\ UNCHANGED <<image, alias, instance, making, spent, unseen>>
      /\ cid \in [Image -> Alias \cup {None}] /\ None \notin Alias /\ NoJob.op = None /\ NoJob.alias = None
      /\ None \notin Ops
  BY UnderWay DEF Ends, Conclude, server, TypeOK, NoJob
<1>1. DeletesAlone'
  <2>1. ASSUME NEW q \in Proc, job'[q].op \in Ops PROVE job'[q] = job[q]
    BY <1>0, <2>1 DEF Ends
  <2>2. "delete_stemcell" \in Ops
    BY DEF Ops
  <2>. QED BY <2>1, <2>2 DEF DeleteInv, DeletesAlone
<1>2. MadeOnce' /\ \A b : Present(b)' = Present(b)
  BY <1>0 DEF DeleteInv, MadeOnce, Present, BeingMade
<1>3. DeletesAll'
  BY <1>0, <1>2 DEF Ends, Ops, DeleteInv, DeletesAll
<1>4. ASSUME NEW a \in Alias, NEW i \in Image, Of(a, i)' PROVE Of(a, i)
  <2>1. cid'[i] \in {cid[i], None} \/ (i = j.image /\ cid'[i] = j.alias)
    BY <1>0 DEF Ends, Conclude
  <2>. QED BY <1>0, <1>4, <2>1 DEF Ends, Of
<1>5. Gone'
  <2>. SUFFICES ASSUME NEW a \in deleted', a \notin unseen
                PROVE  a \in spent /\ ~Present(a)' /\ \A i \in Image : ~Of(a, i)'
    BY <1>0 DEF Gone
  <2>1. CASE a \in deleted
    <3>1. a \in Alias /\ a \in spent /\ ~Present(a) /\ \A i \in Image : ~Of(a, i)
      BY <2>1 DEF DeleteInv, Gone, TypeOK
    <3>. QED BY <1>2, <1>4, <3>1
  <2>2. CASE a \notin deleted
    <3>1. j.op = "delete_stemcell" /\ good /\ pc[p] = "ok" /\ a = j.alias
      BY <2>2 DEF Ends, Conclude
    <3>2. ~Present(a) /\ j.image \notin image
      BY <3>1 DEF DeleteInv, DeletesAll
    <3>3. Of(a, j.image) /\ a \in spent
      BY <1>0, <3>1 DEF Of, AliasInv, OneImage
    <3>4. ASSUME NEW i \in Image, Of(a, i)' PROVE FALSE
      <4>0. i = j.image
        BY <1>0, <1>4, <3>1, <3>3, <3>4 DEF AliasInv, OneImage
      <4>1. alias'[a] # i
        BY <1>0, <3>1, <3>2, <4>0 DEF AliasInv, AliasesNameImages
      <4>2. cid'[i] # a
        BY <1>0, <3>1, <4>0 DEF Ends, Conclude
      <4>3. ASSUME NEW q \in Proc, job'[q].alias = a, job'[q].image = i PROVE FALSE
        <5>1. q # p /\ job'[q] = job[q]
          BY <1>0, <3>1, <4>3 DEF Ends
        <5>2. job[q].op \in Ops
          <6>1. pc[q] # "idle"
            BY <1>0, <3>1, <4>3, <5>1, Here DEF JobOK
          <6>. QED BY <6>1, UnderWay
        <5>. QED BY <3>1, <4>0, <4>3, <5>1, <5>2 DEF DeleteInv, DeletesAlone
      <4>. QED BY <3>4, <4>1, <4>2, <4>3 DEF Of
    <3>. QED BY <1>2, <3>1, <3>2, <3>3, <3>4
  <2>. QED BY <2>1, <2>2
<1>. QED BY <1>1, <1>2, <1>3, <1>5 DEF DeleteInv

LEMMA GoneInit == Init => DeleteInv
  BY DEF Init, DeleteInv, DeletesAlone, MadeOnce, DeletesAll, Gone, NoJob, Ops

LEMMA GoneNext == TypeOK /\ AliasInv /\ DeleteInv /\ [Next]_vars => DeleteInv'
<1>. SUFFICES ASSUME TypeOK, AliasInv, DeleteInv, [Next]_vars PROVE DeleteInv'
  OBVIOUS
<1>1. CASE UNCHANGED vars
  <2>1. UNCHANGED <<pc, job, image, alias, instance, making, cid, spent, deleted, unseen>>
    BY <1>1 DEF vars, server, director
  <2>2. DeletesAlone' /\ MadeOnce'
    BY <2>1 DEF DeleteInv, DeletesAlone, MadeOnce
  <2>3. DeletesAll'
    BY <2>1 DEF DeleteInv, DeletesAll, Present, BeingMade
  <2>4. Gone'
    BY <2>1 DEF DeleteInv, Gone, Present, BeingMade, Of
  <2>. QED BY <2>2, <2>3, <2>4 DEF DeleteInv
<1>. QED
  BY <1>1, EveryStep, GoneStep, GoneBegins, GoneEnds

\* A delete_stemcell that was answered without an error left neither the alias nor the predeployed
\* VM, finished or under way, if it could look for it: also while other stemcells are uploaded
\* and deleted, and when requests for the same one had failed before.
THEOREM DeleteLeavesNothing == Spec => []DeletedClean
<1>1. TypeOK /\ DeleteInv => DeletedClean
  BY DEF DeleteInv, Gone, Of, DeletedClean, TypeOK
<1>. QED
  BY <1>1, GoneInit, GoneNext, AliasInit, AliasNext, TypeCorrect, PTL DEF Spec

-----------------------------------------------------------------------------
(* The images without an alias *)

\* A create_vm that failed explains no image.
Explains(p, i) == job[p].image = i /\ job[p].op # "create_vm" /\ pc[p] \in {"create_alias", "failed"}

StrayInv == \A i \in image :
    AliasesOf(i) = {} /\ unseen = {} => i \in broken \/ \E p \in Proc : Explains(p, i)

LEMMA StrayStep ==
    ASSUME TypeOK, StrayInv, NEW p \in Proc, GoesOn(p)
    PROVE  StrayInv'
<1>. SUFFICES ASSUME NEW i \in image', AliasesOf(i)' = {}, unseen' = {}, i \notin broken'
              PROVE  \E q \in Proc : Explains(q, i)'
  BY DEF StrayInv
<1>1. UNCHANGED broken /\ unseen = {}
  BY GoesJobs DEF Knowledge
<1>2. ASSUME NEW q \in Proc, q # p, Explains(q, i) PROVE Explains(q, i)'
  BY <1>2, GoesJobs DEF Explains
<1>3. ASSUME i \in image, AliasesOf(i) = {}, Explains(p, i) => Explains(p, i)'
      PROVE  \E q \in Proc : Explains(q, i)'
  <2>1. PICK q \in Proc : Explains(q, i)
    BY <1>1, <1>3 DEF StrayInv
  <2>. QED BY <1>2, <1>3, <2>1
<1>4. CASE Rests
  BY <1>3, <1>4 DEF Rests, AliasesOf, Explains
<1>5. CASE Reads(p)
  <2>1. PICK next, work :
           /\ Goes(p, next, work) /\ UNCHANGED <<image, alias>> /\ pc[p] # "failed"
           /\ pc[p] = "create_alias" => next = "failed"
    BY <1>5 DEF Reads
  <2>2. pc'[p] = next /\ job'[p] = work
    BY <2>1, After DEF Goes
  <2>. QED BY <1>3, <2>1, <2>2 DEF Goes, AliasesOf, Explains
<1>6. CASE Uploads(p)
  <2>1. /\ job'[p] = job[p] /\ pc'[p] \in {"create_alias", "failed"} /\ pc[p] = "create_image"
        /\ image' = image \cup {job[p].image} /\ UNCHANGED alias
    BY <1>6, After DEF Uploads, UploadImage, Goes
  <2>2. CASE i = job[p].image
    <3>1. job[p].op # "create_vm"
      BY <2>1, OpAt
    <3>. QED BY <2>1, <2>2, <3>1 DEF Explains
  <2>3. CASE i # job[p].image
    BY <1>3, <2>1, <2>3 DEF AliasesOf, Explains
  <2>. QED BY <2>2, <2>3
<1>7. CASE Names(p)
  <2>1. /\ UNCHANGED image /\ job[p].alias \in Alias /\ alias[job[p].alias] = None
        /\ alias' = [alias EXCEPT ![job[p].alias] = job[p].image]
    BY <1>7, UnderWay DEF Names, NameImage
  <2>2. i # job[p].image
    BY <2>1 DEF AliasesOf, TypeOK
  <2>3. AliasesOf(i) = {}
    BY <2>1, <2>2, StemcellAssumption DEF AliasesOf, TypeOK
  <2>. QED BY <1>3, <2>1, <2>2, <2>3 DEF Explains
<1>8. CASE Removes(p)
  <2>1. /\ image' = image \ {job[p].image} /\ pc[p] = "delete_image"
        /\ alias' = [a \in Alias |-> IF alias[a] = job[p].image THEN None ELSE alias[a]]
    BY <1>8 DEF Removes, RemoveImage
  <2>2. AliasesOf(i) = {}
    BY <2>1 DEF AliasesOf
  <2>. QED BY <1>3, <2>1, <2>2 DEF Explains
<1>. QED BY <1>4, <1>5, <1>6, <1>7, <1>8 DEF GoesOn

\* An answer without an error is given where the image has its alias, or is gone.
LEMMA StrayEnds ==
    ASSUME TypeOK, UploadInv, DeleteInv, StrayInv, NEW p \in Proc, NEW good \in BOOLEAN, Ends(p, good)
    PROVE  StrayInv'
<1>. DEFINE j == job[p]
<1>0. j.op \in Ops /\ j.image \in Image /\ j.alias \in Alias /\ UNCHANGED <<image, alias, unseen>>
  BY UnderWay DEF Ends, server
<1>. SUFFICES ASSUME NEW i \in image, AliasesOf(i) = {}, unseen = {}, i \notin broken'
              PROVE  \E q \in Proc : Explains(q, i)'
  BY <1>0 DEF StrayInv, AliasesOf
<1>1. CASE i = j.image /\ j.op # "create_vm"
  <2>1. good
    BY <1>1 DEF Ends, Conclude
  <2>2. pc[p] = "ok"
    BY <2>1 DEF Ends
  <2>3. j.op # "create_stemcell"
    BY <1>0, <1>1, <2>2 DEF UploadInv, Uploaded, Named, AliasesOf
  <2>4. j.op # "delete_stemcell"
    BY <1>1, <2>2 DEF DeleteInv, DeletesAll
  <2>. QED BY <1>0, <1>1, <2>3, <2>4 DEF Ops
<1>2. CASE i # j.image \/ j.op = "create_vm"
  <2>1. i \notin broken
    BY <1>2 DEF Ends, Conclude
  <2>2. PICK q \in Proc : Explains(q, i)
    BY <2>1 DEF StrayInv
  <2>3. q # p
    BY <1>2, <2>2 DEF Explains
  <2>. QED BY <2>2, <2>3 DEF Explains, Ends
<1>. QED BY <1>1, <1>2

LEMMA StrayNext == TypeOK /\ AliasInv /\ UploadInv /\ DeleteInv /\ StrayInv /\ [Next]_vars => StrayInv'
<1>. SUFFICES ASSUME TypeOK, AliasInv, UploadInv, DeleteInv, StrayInv, [Next]_vars PROVE StrayInv'
  OBVIOUS
<1>1. CASE UNCHANGED vars
  BY <1>1 DEF vars, server, director, StrayInv, AliasesOf, Explains
<1>2. ASSUME NEW p \in Proc, NEW op \in Ops, NEW i \in Image, NEW a \in Alias, Begins(p, op, i, a)
      PROVE  StrayInv'
  <2>1. UNCHANGED <<image, alias, broken, unseen>>
    BY <1>2 DEF Begins, server
  <2>2. ASSUME NEW q \in Proc, NEW k, Explains(q, k) PROVE Explains(q, k)'
    BY <1>2, <2>2 DEF Begins, Explains
  <2>. QED BY <2>1, <2>2 DEF StrayInv, AliasesOf
<1>. QED
  BY <1>1, <1>2, EveryStep, StrayStep, StrayEnds

\* Whatever uploads and deletions fail or die, an image that no call can find again is one that
\* is being given its alias or that the director was told of by an error.
THEOREM StraysAreReported == Spec => []NoStrayImage
<1>1. Init => UploadInv /\ StrayInv
  BY DEF Init, UploadInv, Uploaded, CidUsable, Named, StrayInv
<1>2. StrayInv => NoStrayImage
  BY DEF StrayInv, Explains, NoStrayImage
<1>. QED
  BY <1>1, <1>2, StrayNext, UsableNext, GoneInit, GoneNext, AliasInit, AliasNext, TypeCorrect, PTL DEF Spec

-----------------------------------------------------------------------------
(* What predeploy_stemcell prepares *)

\* The calls that may still make the predeployed VM, under the alias they generated.
Unmade(p) ==
    /\ job[p].op = "create_stemcell"
    /\ pc[p] \in {"find_image", "create_image", "create_alias", "create_instance"}

\* Nobody else makes it for them.
FreshInv ==
    /\ \A a \in Alias : Present(a) => a \in spent
    /\ \A p \in Proc : Unmade(p) =>
          /\ ~Present(job[p].alias)
          /\ \A q \in Proc : Unmade(q) /\ job[q].alias = job[p].alias => p = q

\* The calls that are about to have image i prepared.
Prepares(q, i) ==
    /\ job[q].op = "create_stemcell" /\ job[q].image = i
    /\ \/ pc[q] = "create_instance"
       \/ pc[q] = "creating" /\ making[q].image = i

PreparedInv == faults = 0 /\ PredeployStemcell =>
    \A a \in Alias : alias[a] # None =>
        alias[a] \in ready \/ \E q \in Proc : Prepares(q, alias[a])

\* A process waits for what it asked for itself.
LEMMA MakingOthers ==
    ASSUME TypeOK, NEW p \in Proc, Step(p) \/ Server(p)
    PROVE  /\ \A q \in Proc : q # p => making'[q] = making[q]
           /\ making[p] = None /\ making'[p] # None => CreateInstance(p)
<1>1. CASE CreateInstance(p)
  BY <1>1 DEF CreateInstance, Request, StartMaking, server, TypeOK
<1>2. CASE Server(p)
  BY <1>2 DEF Server, InstanceCreated, InstanceFails, TypeOK
<1>3. CASE \/ FindExistingImage(p) \/ GetInstance(p) \/ HasVM(p) \/ GetImageAlias(p)
           \/ GetImage(p) \/ TryLock(p) \/ LockTimeout(p) \/ Reply(p)
  BY <1>3
  DEF FindExistingImage, GetInstance, HasVM, GetImageAlias, GetImage, TryLock, LockTimeout, Reply,
      Read, Request, server
<1>4. CASE \/ CreateImage(p) \/ CreateImageAlias(p) \/ DeleteImage(p) \/ DescribeInstance(p)
           \/ DeleteInstance(p)
  BY <1>4
  DEF CreateImage, CreateImageAlias, DeleteImage, DescribeInstance, DeleteInstance, Request,
      UploadImage, NameImage, RemoveImage, SetInstance, server
<1>. QED BY <1>1, <1>2, <1>3, <1>4 DEF Step

\* A call comes closer to its predeployed VM, and makes it once.
LEMMA UnmadeStep ==
    ASSUME TypeOK, NEW p \in Proc, Step(p) \/ Server(p), Unmade(p)'
    PROVE  /\ Unmade(p) /\ job'[p] = job[p]
           /\ pc[p] = "create_instance" => Server(p)
<1>0. \A next, work : Goto(p, next, work) => pc'[p] = next /\ job'[p] = work
  BY After
<1>1. CASE Server(p)
  BY <1>0, <1>1 DEF Server, InstanceCreated, InstanceFails, Fail, Unmade
<1>2. CASE FindExistingImage(p)
  <2>1. pc[p] = "find_image" /\ job[p].op = "create_stemcell"
    BY <1>2, OpAt DEF FindExistingImage
  <2>2. \/ \E work : Goto(p, "ok", work)
        \/ Goto(p, "create_image", job[p])
        \/ Goto(p, "failed", job[p])
    BY <1>2 DEF FindExistingImage, Read, Request, Fail
  <2>. QED BY <1>0, <2>1, <2>2 DEF Unmade
<1>3. CASE CreateImage(p) \/ CreateImageAlias(p)
  BY <1>0, <1>3, OpAt DEF CreateImage, CreateImageAlias, Request, Fail, Unmade
<1>4. CASE GetInstance(p) \/ DescribeInstance(p) \/ CreateInstance(p) \/ Reply(p)
  BY <1>0, <1>4
  DEF GetInstance, DescribeInstance, CreateInstance, Reply, Read, Request, Fail, Unmade
<1>5. CASE HasVM(p) \/ DeleteInstance(p) \/ GetImageAlias(p) \/ DeleteImage(p)
  BY <1>0, <1>5, OpAt
  DEF HasVM, DeleteInstance, GetImageAlias, DeleteImage, Read, Request, Fail, Unmade
<1>6. CASE GetImage(p) \/ TryLock(p) \/ LockTimeout(p)
  BY <1>0, <1>6, OpAt DEF GetImage, TryLock, LockTimeout, Read, Request, Fail, Unmade
<1>. QED BY <1>1, <1>2, <1>4, <1>5, <1>6, <1>3 DEF Step

LEMMA ServerPresent ==
    ASSUME TypeOK, NEW p \in Proc, Server(p), NEW a \in Alias, Present(a)'
    PROVE  Present(a)
<1>1. /\ making[p] # None /\ making'[p] \in {making[p], None}
      /\ \A q \in Proc : q # p => making'[q] = making[q]
  BY DEF TypeOK, Server, InstanceCreated, InstanceFails
<1>2. instance'[a] = instance[a] \/ a = making[p].vm
  BY DEF Server, InstanceCreated, InstanceFails
<1>. QED BY <1>1, <1>2 DEF Present, BeingMade

LEMMA FreshStep ==
    ASSUME TypeOK, AliasInv, MadeOnce, FreshInv, NEW p \in Proc, Step(p) \/ Server(p), GoesOn(p)
    PROVE  FreshInv'
<1>1. \A q \in Proc : Unmade(q)' => Unmade(q) /\ job'[q] = job[q]
  BY UnmadeStep, GoesJobs DEF Unmade
<1>2. spent' = spent
  BY GoesJobs DEF Knowledge
<1>3. ASSUME NEW a \in Alias, Present(a)', ~Present(a)
      PROVE  Unmade(p) /\ job[p].alias = a /\ ~Unmade(p)'
  <2>1. ~Server(p)
    BY <1>3, ServerPresent
  <2>2. pc[p] = "create_instance" /\ job[p].op = "create_stemcell" /\ job[p].alias = a
    BY <1>3, StepMakes DEF MakesOnly
  <2>. QED BY <2>1, <2>2, UnmadeStep DEF Unmade
<1>4. \A a \in Alias : Present(a)' => a \in spent'
  <2>1. Unmade(p) => job[p].alias \in spent
    BY UnderWay DEF Unmade, AliasInv, OneImage, Of
  <2>. QED BY <1>2, <1>3, <2>1 DEF FreshInv
<1>5. ASSUME NEW q \in Proc, Unmade(q)' PROVE ~Present(job[q].alias)'
  <2>1. Unmade(q) /\ job'[q] = job[q] /\ job[q].alias \in Alias
    BY <1>1, <1>5, UnderWay DEF Unmade
  <2>2. ~Present(job[q].alias)
    BY <2>1 DEF FreshInv
  <2>3. ASSUME NEW a \in Alias, a = job[q].alias, Present(a)' PROVE FALSE
    BY <1>3, <1>5, <2>1, <2>2, <2>3 DEF FreshInv
  <2>4. PICK a \in Alias : a = job[q].alias
    BY <2>1
  <2>5. ~Present(a)'
    BY <2>3, <2>4
  <2>6. Present(job[q].alias)' <=> Present(a)'
    BY <2>1, <2>4 DEF Present, BeingMade
  <2>. QED BY <2>5, <2>6
<1>6. \A q, r \in Proc : Unmade(q)' /\ Unmade(r)' /\ job'[r].alias = job'[q].alias => q = r
  BY <1>1 DEF FreshInv
<1>. QED BY <1>4, <1>5, <1>6 DEF FreshInv

LEMMA FreshBegins ==
    ASSUME TypeOK, AliasInv, FreshInv, NEW p \in Proc, NEW op \in Ops, NEW i \in Image,
           NEW a \in Alias, Begins(p, op, i, a)
    PROVE  FreshInv'
<1>1. \A b \in Alias : Present(b)' <=> Present(b)
  BY DEF Begins, server, Present, BeingMade
<1>2. \A b \in Alias : Present(b)' => b \in spent'
  BY <1>1 DEF FreshInv, Begins
<1>3. ASSUME NEW q \in Proc, q # p, Unmade(q)'
      PROVE  /\ Unmade(q) /\ job'[q] = job[q] /\ job[q].alias \in spent /\ job[q].alias \in Alias
  <2>1. Unmade(q) /\ job'[q] = job[q]
    BY <1>3 DEF Begins, Unmade
  <2>. QED BY <2>1, UnderWay DEF Unmade, AliasInv, OneImage, Of
<1>4. Unmade(p)' => job'[p].alias = a /\ a \notin spent
  BY DEF Begins, Unmade
<1>5. \A q \in Proc : Unmade(q)' => ~Present(job[q].alias)'
  BY <1>1, <1>3, <1>4 DEF FreshInv
<1>6. \A q, r \in Proc : Unmade(q)' /\ Unmade(r)' /\ job'[r].alias = job'[q].alias => q = r
  BY <1>3, <1>4 DEF FreshInv
<1>. QED BY <1>2, <1>5, <1>6 DEF FreshInv

LEMMA FreshEnds ==
    ASSUME TypeOK, FreshInv, NEW p \in Proc, NEW good \in BOOLEAN, Ends(p, good)
    PROVE  FreshInv'
<1>1. \A b : Present(b)' <=> Present(b)
  BY DEF Ends, server, Present, BeingMade
<1>2. \A q \in Proc : Unmade(q)' => Unmade(q) /\ job'[q] = job[q]
  BY DEF Ends, Unmade
<1>3. spent' = spent
  BY DEF Ends, Conclude
<1>. QED BY <1>1, <1>2, <1>3 DEF FreshInv

LEMMA FreshNext == TypeOK /\ AliasInv /\ DeleteInv /\ FreshInv /\ [Next]_vars => FreshInv'
<1>. SUFFICES ASSUME TypeOK, AliasInv, DeleteInv, FreshInv, [Next]_vars PROVE FreshInv'
  OBVIOUS
<1>1. CASE UNCHANGED vars
  BY <1>1 DEF vars, server, director, FreshInv, Unmade, Present, BeingMade
<1>2. MadeOnce
  BY DEF DeleteInv
<1>. QED
  BY <1>1, <1>2, EveryStep, FreshStep, FreshBegins, FreshEnds

\* Without faults every image that has an alias is prepared, or about to be.
LEMMA PreparedStep ==
    ASSUME TypeOK, AliasInv, Uploaded, FreshInv, PreparedInv, NEW p \in Proc, Step(p) \/ Server(p),
           GoesOn(p)
    PROVE  PreparedInv'
<1>. SUFFICES ASSUME faults' = 0, PredeployStemcell, NEW a \in Alias, NEW i, i = alias'[a], i # None
              PROVE  i \in ready' \/ \E q \in Proc : Prepares(q, i)'
  BY DEF PreparedInv, Prepares
<1>1. ~Fault
  BY DEF Fault, TypeOK
<1>2. ASSUME NEW q \in Proc, q # p, Prepares(q, i) PROVE Prepares(q, i)'
  BY <1>2, MakingOthers, GoesJobs DEF Prepares
<1>3. ASSUME faults = 0, alias[a] = i, i \in ready => i \in ready',
             Prepares(p, i) => i \in ready' \/ Prepares(p, i)'
      PROVE  i \in ready' \/ \E q \in Proc : Prepares(q, i)'
  <2>1. i \in ready \/ \E q \in Proc : Prepares(q, i)
    BY <1>3 DEF PreparedInv
  <2>. QED BY <1>2, <1>3, <2>1
<1>4. ASSUME faults = 0, UNCHANGED <<alias, ready>>, Prepares(p, i) => Prepares(p, i)'
      PROVE  i \in ready' \/ \E q \in Proc : Prepares(q, i)'
  BY <1>3, <1>4
<1>5. CASE \/ FindExistingImage(p) \/ GetInstance(p) \/ HasVM(p) \/ GetImageAlias(p)
           \/ GetImage(p) \/ TryLock(p) \/ LockTimeout(p) \/ Reply(p)
           \/ CreateImage(p) \/ DescribeInstance(p) \/ DeleteInstance(p)
  <2>1. UNCHANGED <<alias, ready, faults>> /\ pc[p] \notin {"create_instance", "creating"}
    BY <1>1, <1>5
    DEF FindExistingImage, GetInstance, HasVM, GetImageAlias, GetImage, TryLock, LockTimeout, Reply,
        Read, Request, server, CreateImage, DescribeInstance, DeleteInstance, UploadImage, SetInstance
  <2>. QED BY <1>4, <2>1 DEF Prepares
<1>6. CASE CreateImageAlias(p)
  <2>1. job[p].alias \in Alias /\ pc[p] = "create_alias" /\ job[p].op = "create_stemcell"
    BY <1>6, UnderWay, OpAt DEF CreateImageAlias
  <2>2. CASE UNCHANGED server
    BY <1>1, <1>4, <1>6, <2>1, <2>2 DEF CreateImageAlias, Request, server, Prepares
  <2>3. CASE NameImage(job[p].alias, job[p].image) /\ Goto(p, "create_instance", job[p]) /\ UNCHANGED faults
    <3>1. pc'[p] = "create_instance" /\ job'[p] = job[p]
      BY <2>3, After
    <3>2. CASE a = job[p].alias
      BY <2>1, <2>3, <3>1, <3>2 DEF NameImage, TypeOK, Prepares
    <3>3. CASE a # job[p].alias
      BY <1>3, <2>1, <2>3, <3>3 DEF NameImage, TypeOK, Prepares
    <3>. QED BY <3>2, <3>3
  <2>. QED BY <1>1, <1>6, <2>2, <2>3 DEF CreateImageAlias, Request
<1>7. CASE CreateInstance(p)
  <2>. DEFINE b == job[p].alias
  <2>1. pc[p] = "create_instance" /\ UNCHANGED <<alias, ready, faults>>
    BY <1>1, <1>7 DEF CreateInstance, Request, StartMaking, server
  <2>2. CASE job[p].op = "create_stemcell"
    <3>1. alias[b] = job[p].image /\ alias[b] # None /\ ~Present(b)
      BY <2>1, <2>2, UnderWay DEF Uploaded, Named, FreshInv, Unmade
    <3>2. StartMaking(p, b, TRUE) /\ Goto(p, "creating", job[p])
      BY <1>1, <1>7, <2>2, <3>1 DEF CreateInstance, Request
    <3>3. making'[p].image = job[p].image
      BY <3>1, <3>2 DEF StartMaking, TypeOK
    <3>4. pc'[p] = "creating" /\ job'[p] = job[p]
      BY <3>2, After
    <3>. QED BY <1>4, <2>1, <2>2, <3>3, <3>4 DEF Prepares
  <2>3. CASE job[p].op # "create_stemcell"
    BY <1>4, <2>1, <2>3 DEF Prepares
  <2>. QED BY <2>2, <2>3
<1>8. CASE DeleteImage(p)
  <2>1. pc[p] = "delete_image" /\ UNCHANGED faults
    BY <1>1, <1>8 DEF DeleteImage, Request
  <2>2. CASE UNCHANGED server
    BY <1>4, <2>1, <2>2 DEF server, Prepares
  <2>3. CASE RemoveImage(job[p].target)
    BY <1>3, <2>1, <2>3 DEF RemoveImage, Prepares
  <2>. QED BY <1>8, <2>2, <2>3 DEF DeleteImage, Request
<1>9. CASE Server(p)
  <2>1. InstanceCreated(p)
    BY <1>1, <1>9 DEF Server, InstanceFails
  <2>2. /\ UNCHANGED <<alias, faults>> /\ ready \subseteq ready'
        /\ making[p].image \in image => making[p].image \in ready'
        /\ pc[p] # "creating" => UNCHANGED <<pc, job>>
    BY <2>1 DEF InstanceCreated
  <2>3. i \in image
    BY <2>2 DEF AliasInv, AliasesNameImages
  <2>. QED BY <1>3, <2>2, <2>3 DEF Prepares
<1>. QED BY <1>5, <1>6, <1>7, <1>8, <1>9 DEF Step

LEMMA PreparedBegins ==
    ASSUME TypeOK, PreparedInv, NEW p \in Proc, UNCHANGED <<server>>, faults' = 0 => faults = 0,
           faults' = 0 => pc[p] \notin {"create_instance", "creating"},
           \A q \in Proc : q # p => pc'[q] = pc[q] /\ job'[q] = job[q]
    PROVE  PreparedInv'
<1>1. \A q \in Proc, i \in Image : faults' = 0 /\ Prepares(q, i) => Prepares(q, i)'
  BY DEF Prepares, server
<1>. QED BY <1>1 DEF PreparedInv, server, TypeOK

LEMMA PreparedNext ==
    TypeOK /\ AliasInv /\ UploadInv /\ FreshInv /\ PreparedInv /\ [Next]_vars => PreparedInv'
<1>. SUFFICES ASSUME TypeOK, AliasInv, UploadInv, FreshInv, PreparedInv, [Next]_vars
              PROVE  PreparedInv'
  OBVIOUS
<1>1. CASE UNCHANGED vars
  BY <1>1 DEF vars, server, director, PreparedInv, Prepares
<1>2. ASSUME NEW p \in Proc, Step(p) \/ Server(p), ~Reply(p) PROVE PreparedInv'
  BY <1>2, CallGoes, PreparedStep DEF UploadInv
<1>3. ASSUME NEW p \in Proc, Director(p) PROVE PreparedInv'
  <2>1. PICK op \in Ops, i \in Image, a \in Alias : Begins(p, op, i, a)
    BY <1>3, DirectorBegins
  <2>2. UNCHANGED faults
    BY <1>3 DEF Director, CallCreateStemcell, CallDeleteStemcell, CallCreateVM, Call
  <2>. QED BY <2>1, <2>2, PreparedBegins DEF Begins
<1>4. ASSUME NEW p \in Proc, Reply(p) \/ Crash(p) PROVE PreparedInv'
  <2>1. PICK good \in BOOLEAN : Ends(p, good)
    BY <1>4, CallEnds
  <2>2. faults' = 0 => faults = 0 /\ Reply(p)
    <3>1. faults' = 0 => ~Fault
      BY DEF Fault, TypeOK
    <3>. QED BY <1>4, <3>1 DEF Reply, Crash
  <2>3. faults' = 0 => pc[p] \notin {"create_instance", "creating"}
    BY <2>2 DEF Reply
  <2>. QED BY <2>1, <2>2, <2>3, PreparedBegins DEF Ends
<1>. QED BY <1>1, <1>2, <1>3, <1>4 DEF Next

\* A create_vm that has to prepare its image does so beside the create_stemcell that will.
LEMMA ReadyStep ==
    ASSUME TypeOK, PreparedInv, [Next]_vars, NEW p \in Proc, PredeployStemcell, faults' = 0,
           making[p] = None, making'[p] # None, making'[p].vm = None, making'[p].preparing
    PROVE  Working(making'[p].image, {"create_stemcell"})
<1>. DEFINE a == job[p].alias
            m == [image |-> alias[a], vm |-> IF job[p].op = "create_stemcell" THEN a ELSE None,
                  preparing |-> alias[a] \notin ready]
<1>1. CreateInstance(p)
  <2>1. PICK q \in Proc : Step(q) \/ Server(q) \/ Director(q) \/ Crash(q)
    BY DEF Next, vars, server
  <2>2. ~Director(q) /\ ~Crash(q)
    BY DEF Director, CallCreateStemcell, CallDeleteStemcell, CallCreateVM, Call, Crash, server
  <2>. QED BY <2>1, <2>2, MakingOthers
<1>2. StartMaking(p, a, job[p].op = "create_stemcell") /\ alias[a] # None
  BY <1>1 DEF CreateInstance, Request, server
<1>3. making'[p] = m /\ a \in Alias
  BY <1>1, <1>2, UnderWay DEF StartMaking, TypeOK, CreateInstance
<1>4. faults = 0
  BY <1>1 DEF CreateInstance, Request, Fault, TypeOK
<1>5. m.image = alias[a] /\ (m.preparing => alias[a] \notin ready)
  OBVIOUS
<1>. HIDE DEF m
<1>6. PICK q \in Proc : Prepares(q, alias[a])
  BY <1>2, <1>3, <1>4, <1>5 DEF PreparedInv
<1>. QED BY <1>3, <1>5, <1>6 DEF Prepares, Working

\* For any number of VMs made from a stemcell at a time: when no request fails, none of them has to
\* prepare the image once the uploads of the stemcell have ended (predeploy_stemcell).
THEOREM PredeployPrepares == Spec => ImageReady
<1>1. Init => UploadInv /\ FreshInv /\ PreparedInv
  BY DEF Init, UploadInv, Uploaded, CidUsable, Named, FreshInv, Unmade, Present, BeingMade,
         PreparedInv, NoJob
<1>2. TypeOK /\ PreparedInv /\ [Next]_vars =>
        [\A p \in Proc :
          /\ PredeployStemcell /\ faults' = 0
          /\ making[p] = None /\ making'[p] # None
          /\ making'[p].vm = None /\ making'[p].preparing
          => Working(making'[p].image, {"create_stemcell"})]_vars
  BY ReadyStep
<1>. QED
  BY <1>1, <1>2, PreparedNext, FreshNext, UsableNext, GoneInit, GoneNext, AliasInit, AliasNext,
     TypeCorrect, PTL DEF Spec, ImageReady
=============================================================================
