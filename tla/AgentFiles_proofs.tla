-------------------------- MODULE AgentFiles_proofs --------------------------
(***************************************************************************)
(* Proofs about AgentFiles, for any number of processes, VMs and temporary *)
(* names: what a Write returns and saves, whose files it removes, what a   *)
(* Read finds, and that AgentFiles implements SettingsStore.               *)
(***************************************************************************)
EXTENDS AgentFilesRefinement, TLAPS

USE FilesAssumption

-----------------------------------------------------------------------------
(* Types *)

\* What TypeOK says of the locals of a call.
JobOK(at, j) ==
    /\ at = "idle" <=> j.vm = None
    /\ at \in {"format", "truncate", "save", "fill", "finalize", "read_back"} =>
           j.open # None /\ j.env # None

StoreOK ==
    /\ name \in [Name -> File \cup {None, Left}]
    /\ holds \in [File -> Setting \cup {None}]
    /\ json \in [VM -> Setting \cup {Absent, Torn}]

LEMMA Here ==
    ASSUME TypeOK, NEW p \in Proc
    PROVE  job[p] \in Job /\ JobOK(pc[p], job[p]) /\ pc[p] \in PC
  BY DEF TypeOK, JobOK

LEMMA VMHere == ASSUME TypeOK, NEW p \in Proc, pc[p] # "idle" PROVE job[p].vm \in VM
  BY Here DEF JobOK, Job

\* A call that goes on may end.
LEMMA MayEnd ==
    ASSUME TypeOK, NEW p \in Proc, pc[p] # "idle"
    PROVE  \A next \in PC \ {"idle", "format", "truncate", "save", "fill", "finalize", "read_back"} :
               JobOK(next, job[p])
  BY Here DEF JobOK

LEMMA GoOn ==
    ASSUME TypeOK, NEW p \in Proc, pc[p] \in {"format", "truncate", "save", "fill", "finalize", "read_back"}
    PROVE  \A next \in PC \ {"idle"} : JobOK(next, job[p])
  BY Here DEF JobOK

LEMMA StepType ==
    ASSUME TypeOK, NEW p \in Proc, NEW next \in PC, NEW work \in Job, JobOK(next, work),
           Goto(p, next, work), StoreOK', UNCHANGED faults \/ Fault, lost' \subseteq Name
    PROVE  TypeOK'
<1>1. /\ pc' \in [Proc -> PC] /\ job' \in [Proc -> Job]
      /\ \A q \in Proc : JobOK(pc'[q], job'[q])
  BY DEF Goto, TypeOK, JobOK
<1>2. faults' \in 0..MaxFaults
  BY DEF Fault, TypeOK
<1>3. kind' = kind /\ last' = last
  BY DEF Goto
<1>. QED
  BY <1>1, <1>2, <1>3 DEF TypeOK, JobOK, StoreOK

LEMMA StoreHere == TypeOK => StoreOK
  BY DEF TypeOK, StoreOK

LEMMA RenameType ==
    ASSUME TypeOK, NEW n \in Name, NEW f \in File \cup {None, Left}, Rename(n, f)
    PROVE  name' \in [Name -> File \cup {None, Left}]
  BY StoreHere DEF Rename, StoreOK

\* The locals of a Write that change.
LEMMA SetJob ==
    ASSUME NEW j \in Job
    PROVE  /\ \A n \in Name \cup {None} : [j EXCEPT !.temp = n] \in Job
           /\ \A f \in File \cup {None} : [j EXCEPT !.open = f] \in Job
           /\ \A e \in Setting \cup {None} : [j EXCEPT !.result = e] \in Job
  BY DEF Job

LEMMA SetTemp ==
    ASSUME NEW j \in Job, NEW n
    PROVE  LET w == [j EXCEPT !.temp = n] IN
           /\ w.op = j.op /\ w.vm = j.vm /\ w.env = j.env /\ w.temp = n
           /\ w.open = j.open /\ w.result = j.result
  BY DEF Job

LEMMA SetOpen ==
    ASSUME NEW j \in Job, NEW f
    PROVE  LET w == [j EXCEPT !.open = f] IN
           /\ w.op = j.op /\ w.vm = j.vm /\ w.env = j.env /\ w.temp = j.temp
           /\ w.open = f /\ w.result = j.result
  BY DEF Job

LEMMA SetResult ==
    ASSUME NEW j \in Job, NEW e
    PROVE  LET w == [j EXCEPT !.result = e] IN
           /\ w.op = j.op /\ w.vm = j.vm /\ w.env = j.env /\ w.temp = j.temp
           /\ w.open = j.open /\ w.result = e
  BY DEF Job

LEMMA Closed ==
    ASSUME NEW j \in Job
    PROVE  LET w == [j EXCEPT !.temp = None, !.open = None] IN
           /\ w \in Job
           /\ w.op = j.op /\ w.vm = j.vm /\ w.env = j.env /\ w.temp = None
           /\ w.open = None /\ w.result = j.result
  BY DEF Job

-----------------------------------------------------------------------------
(* The invariant *)

WithImage == {"format", "truncate", "save", "fill", "finalize", "read_back", "discard"}

Owns(p, n) == name[n] \in {<<p, "probe">>, <<p, "image">>}

LEMMA OwnFiles ==
    /\ \A p, f : f \in {p} \X {"probe", "image"} <=> f \in {<<p, "probe">>, <<p, "image">>}
    /\ \A p \in Proc : {<<p, "probe">>, <<p, "image">>} \subseteq File
    /\ \A p \in Proc, k \in {"probe", "image"} : <<p, k>> # None /\ <<p, k>> # Left
    /\ \A p, q : \A k, l \in {"probe", "image"} : p # q => <<p, k>> # <<q, l>>
<1>1. \A p, f : f \in {p} \X {"probe", "image"} <=> f \in {<<p, "probe">>, <<p, "image">>}
  OBVIOUS
<1>2. \A p \in Proc : {<<p, "probe">>, <<p, "image">>} \subseteq File
  BY DEF File
<1>3. \A p \in Proc, k \in {"probe", "image"} : <<p, k>> # None /\ <<p, k>> # Left
  BY <1>2
<1>4. \A p, q : \A k, l \in {"probe", "image"} : p # q => <<p, k>> # <<q, l>>
  OBVIOUS
<1>. QED
  BY <1>1, <1>2, <1>3, <1>4

\* A name that is renamed was, and is, no other process's.
OnlyOf(p) == \A n \in Name : name'[n] = name[n] \/ \A q \in Proc \ {p} : ~Owns(q, n) /\ ~Owns(q, n)'

LEMMA RenamesOwn ==
    ASSUME NEW p \in Proc, NEW n \in Name, name[n] = None \/ Owns(p, n),
           name'[n] \in {None, Left, <<p, "probe">>, <<p, "image">>},
           \A m \in Name \ {n} : name'[m] = name[m]
    PROVE  OnlyOf(p)
<1>1. ASSUME NEW q \in Proc, q # p
      PROVE  ~Owns(q, n) /\ ~Owns(q, n)'
  BY <1>1, OwnFiles DEF Owns
<1>. QED
  BY <1>1 DEF OnlyOf

\* The name a process drew is its own while it has a file under it, and at no other time.
Files(p) == \A n \in Name :
    /\ Owns(p, n) => job[p].temp = n /\ pc[p] \in WithImage \cup {"unprobe"}
    /\ job[p].temp = n /\ pc[p] = "unprobe" => name[n] = <<p, "probe">>
    /\ job[p].temp = n /\ pc[p] \in WithImage => name[n] = <<p, "image">>

\* The locals of each call at each of its steps.
Locals(p) ==
    /\ pc[p] \in WithImage \cup {"probe", "unprobe", "create"} => job[p].op = "write" /\ job[p].env \in Setting
    /\ pc[p] \in WithImage \cup {"unprobe", "create"} => job[p].temp \in Name
    /\ pc[p] \in WithImage \ {"discard"} => job[p].open = <<p, "image">>
    /\ pc[p] \notin {"discard", "ok"} => job[p].result = None
    /\ pc[p] = "read" => job[p].op = "read"
    /\ pc[p] = "delete" => job[p].op = "delete"
    /\ pc[p] = "ok" => job[p].op \in {"write", "read", "delete"}
    /\ pc[p] = "ok" /\ job[p].op # "delete" => job[p].result # None

\* What a call has saved is what it was given, and so is what its image holds.
Saved(p) ==
    /\ pc[p] \in {"fill", "finalize", "read_back"} => json[job[p].vm] = job[p].env
    /\ pc[p] = "read_back" => holds[<<p, "image">>] = job[p].env
    /\ job[p].op = "write" /\ job[p].result # None =>
           job[p].result = job[p].env /\ json[job[p].vm] = job[p].env
    /\ job[p].op = "read" /\ job[p].result # None => job[p].result = json[job[p].vm]
    /\ job[p].op = "delete" /\ pc[p] = "ok" => json[job[p].vm] = Absent

\* One call on a VM at a time.
Alone == \A p, q \in Proc : job[p].vm # None /\ job[p].vm = job[q].vm => p = q

Changing(v) == \E p \in Proc : job[p].vm = v /\ job[p].op \in {"write", "delete"}

\* Between the calls that change it, agent.json is what the last one left.
Stored == \A v \in VM : Changing(v) \/ last[v] \in {None, json[v]}

LeftLost == \A n \in Name : name[n] = Left => n \in lost

FilesInv ==
    /\ \A p \in Proc : Files(p) /\ Locals(p) /\ Saved(p)
    /\ Alone /\ Stored /\ LeftLost

\* A step of p is local to p: it renames no file of another process, writes to its own image
\* and to the agent.json of its own VM.
LEMMA OthersKeep ==
    ASSUME TypeOK, FilesInv, NEW p \in Proc, pc[p] # "idle", NEW q \in Proc, q # p,
           pc'[q] = pc[q], job'[q] = job[q],
           \A n \in Name : name'[n] = name[n] \/ (~Owns(q, n) /\ ~Owns(q, n)'),
           holds'[<<q, "image">>] = holds[<<q, "image">>],
           \A v \in VM \ {job[p].vm} : json'[v] = json[v]
    PROVE  (Files(q) /\ Locals(q) /\ Saved(q))'
<1>1. Files(q) /\ Locals(q) /\ Saved(q) /\ job[q] \in Job
  BY Here DEF FilesInv
<1>2. Files(q)'
  BY <1>1 DEF Files, Owns
<1>3. Locals(q)'
  BY <1>1 DEF Locals
<1>4. job[q].vm \in VM => json'[job[q].vm] = json[job[q].vm]
  BY VMHere DEF FilesInv, Alone
<1>5. pc[q] = "idle" => job[q].vm = None
  BY Here DEF JobOK
<1>6. CASE pc[q] # "idle"
  BY <1>1, <1>2, <1>3, <1>4, <1>6, VMHere DEF Saved
<1>7. CASE pc[q] = "idle"
  BY <1>1, <1>2, <1>3, <1>7 DEF Saved, Locals
<1>. QED
  BY <1>6, <1>7

LEMMA StepInv ==
    ASSUME TypeOK, FilesInv, NEW p \in Proc, pc[p] # "idle", NEW next, NEW work, Goto(p, next, work),
           work.op = job[p].op, work.vm = job[p].vm,
           OnlyOf(p),
           \A q \in Proc \ {p} : holds'[<<q, "image">>] = holds[<<q, "image">>],
           \A v \in VM \ {job[p].vm} : json'[v] = json[v],
           job[p].op \in {"write", "delete"} \/ json' = json,
           lost \subseteq lost', \A n \in Name : name'[n] = Left => name[n] = Left \/ n \in lost',
           (Files(p) /\ Locals(p) /\ Saved(p))'
    PROVE  FilesInv'
<1>1. /\ pc'[p] = next /\ job'[p] = work /\ last' = last
      /\ \A q \in Proc : q # p => pc'[q] = pc[q] /\ job'[q] = job[q]
  BY DEF TypeOK, Goto
<1>2. \A q \in Proc : job'[q].vm = job[q].vm /\ job'[q].op = job[q].op
  BY <1>1
<1>3. ASSUME NEW q \in Proc, q # p
      PROVE  (Files(q) /\ Locals(q) /\ Saved(q))'
  BY <1>1, <1>3, OthersKeep DEF OnlyOf
<1>4. Alone' /\ LeftLost'
  BY <1>2 DEF FilesInv, Alone, LeftLost
<1>5. Stored'
  <2>1. ASSUME NEW v \in VM
        PROVE  Changing(v)' <=> Changing(v)
    BY <1>2 DEF Changing
  <2>2. ASSUME NEW v \in VM, ~Changing(v)
        PROVE  json'[v] = json[v]
    BY <2>2 DEF Changing
  <2>. QED
    BY <1>1, <2>1, <2>2 DEF FilesInv, Stored
<1>. QED
  BY <1>3, <1>4, <1>5 DEF FilesInv

-----------------------------------------------------------------------------
(* The steps *)

BothInv == TypeOK /\ FilesInv


\* A call that fails without a file of its own, or leaves it behind.
LEMMA FailInv ==
    ASSUME BothInv, NEW p \in Proc, pc[p] \in {"probe", "create", "read", "delete"},
           Goto(p, "failed", job[p]), UNCHANGED <<name, lost, holds, json>>, Fault \/ NoFault
    PROVE  BothInv'
<1>1. TypeOK /\ FilesInv /\ job[p] \in Job /\ "failed" \in PC /\ Files(p) /\ Locals(p) /\ Saved(p)
  BY Here DEF BothInv, PC, FilesInv
<1>2. pc'[p] = "failed" /\ job'[p] = job[p]
  BY <1>1 DEF TypeOK, Goto
<1>3. TypeOK'
  BY <1>1, MayEnd, StoreHere, StepType DEF NoFault, StoreOK, TypeOK
<1>4. (Files(p) /\ Locals(p) /\ Saved(p))'
  BY <1>1, <1>2 DEF Files, Owns, Locals, Saved, WithImage
<1>. QED
  BY <1>1, <1>3, <1>4, StepInv DEF BothInv, OnlyOf

LEMMA AbandonInv ==
    ASSUME BothInv, NEW p \in Proc, pc[p] \in {"probe", "unprobe", "create"},
           NEW n \in Name, name[n] = None \/ Owns(p, n), \A m \in Name : Owns(p, m) => m = n,
           Goto(p, "failed", job[p]), Leave(n), UNCHANGED <<holds, json>>, Fault \/ NoFault
    PROVE  BothInv'
<1>1. TypeOK /\ FilesInv /\ job[p] \in Job /\ "failed" \in PC /\ Files(p) /\ Locals(p) /\ Saved(p)
  BY Here DEF BothInv, PC, FilesInv
<1>2. pc'[p] = "failed" /\ job'[p] = job[p]
  BY <1>1 DEF TypeOK, Goto
<1>3. /\ name'[n] = Left /\ lost' = lost \cup {n}
      /\ \A m \in Name \ {n} : name'[m] = name[m]
      /\ name' \in [Name -> File \cup {None, Left}]
  BY <1>1, RenameType DEF Leave, Rename, TypeOK
<1>4. TypeOK'
  BY <1>1, <1>3, MayEnd, StoreHere, StepType DEF NoFault, StoreOK, TypeOK
<1>5. OnlyOf(p) /\ ~Owns(p, n)'
  BY <1>3, RenamesOwn, OwnFiles DEF Owns
<1>6. (Files(p) /\ Locals(p) /\ Saved(p))'
  <2>1. \A m \in Name : ~Owns(p, m)'
    BY <1>3, <1>5 DEF Owns
  <2>. QED
    BY <1>1, <1>2, <2>1 DEF Files, Locals, Saved, WithImage
<1>. QED
  BY <1>1, <1>3, <1>4, <1>5, <1>6, StepInv DEF BothInv

\* A Write with its image goes on; what it says is saved or put into the image has been.
LEMMA ImageInv ==
    ASSUME BothInv, NEW p \in Proc, pc[p] \in WithImage \ {"discard"},
           NEW next \in WithImage, Goto(p, next, job[p]), UNCHANGED <<name, lost>>, Fault \/ NoFault,
           \/ UNCHANGED json
           \/ \E e \in {job[p].env, Torn} : json' = [json EXCEPT ![job[p].vm] = e],
           UNCHANGED holds \/ holds' = [holds EXCEPT ![job[p].open] = job[p].env],
           next \in {"fill", "finalize", "read_back"} => json'[job[p].vm] = job[p].env,
           next = "read_back" => holds'[<<p, "image">>] = job[p].env
    PROVE  BothInv'
<1>1. /\ TypeOK /\ FilesInv /\ job[p] \in Job /\ pc[p] # "idle"
      /\ WithImage \subseteq PC \ {"idle"} /\ Files(p) /\ Locals(p) /\ Saved(p)
  BY Here DEF BothInv, PC, FilesInv, WithImage
<1>2. pc'[p] = next /\ job'[p] = job[p]
  BY <1>1 DEF TypeOK, Goto
<1>3. /\ job[p].op = "write" /\ job[p].env \in Setting /\ job[p].vm \in VM
      /\ job[p].open = <<p, "image">> /\ job[p].result = None /\ <<p, "image">> \in File
  BY <1>1, VMHere DEF Locals, WithImage, File
<1>4. StoreOK'
  BY <1>1, <1>3, StoreHere DEF StoreOK
<1>5. TypeOK'
  <2>1. JobOK(next, job[p])
    BY <1>1, GoOn DEF WithImage
  <2>. QED
    BY <1>1, <1>4, <2>1, StepType DEF NoFault, TypeOK
<1>6. (Files(p) /\ Locals(p) /\ Saved(p))'
  BY <1>1, <1>2, <1>3 DEF Files, Owns, Locals, Saved, WithImage
<1>7. /\ \A q \in Proc \ {p} : holds'[<<q, "image">>] = holds[<<q, "image">>]
      /\ \A v \in VM \ {job[p].vm} : json'[v] = json[v]
  BY <1>1, <1>3 DEF TypeOK, File
<1>. QED
  BY <1>1, <1>3, <1>5, <1>6, <1>7, StepInv DEF BothInv, OnlyOf

LEMMA MakeProbeInv == ASSUME BothInv, NEW p \in Proc, MakeProbe(p) PROVE BothInv'
<1>1. /\ TypeOK /\ FilesInv /\ pc[p] = "probe" /\ job[p] \in Job /\ {"unprobe", "failed"} \subseteq PC
      /\ UNCHANGED <<holds, json>>
  BY Here DEF BothInv, MakeProbe, PC
<1>2. Files(p) /\ Locals(p) /\ Saved(p)
  BY <1>1 DEF FilesInv
<1>3. ASSUME NEW n \in Name, name[n] = None, Rename(n, <<p, "probe">>), NoFault, UNCHANGED lost,
             Goto(p, "unprobe", [job[p] EXCEPT !.temp = n])
      PROVE  BothInv'
  <2>. DEFINE work == [job[p] EXCEPT !.temp = n]
  <2>1. /\ work \in Job /\ work.op = job[p].op /\ work.vm = job[p].vm /\ work.env = job[p].env
        /\ work.temp = n /\ work.open = job[p].open /\ work.result = job[p].result
    BY <1>1, SetJob, SetTemp
  <2>. HIDE DEF work
  <2>2. pc'[p] = "unprobe" /\ job'[p] = work /\ name' = [name EXCEPT ![n] = <<p, "probe">>]
    BY <1>1, <1>3 DEF TypeOK, Goto, Rename, work
  <2>3. TypeOK'
    <3>1. StoreOK'
      BY <1>1, <2>2, StoreHere DEF StoreOK, File
    <3>2. JobOK("unprobe", work)
      BY <1>1, <2>1, Here DEF JobOK
    <3>. QED
      BY <1>1, <1>3, <2>1, <3>1, <3>2, StepType DEF work, NoFault, TypeOK
  <2>4. /\ \A m \in Name \ {n} : name'[m] = name[m]
        /\ name'[n] = <<p, "probe">> /\ name'[n] # Left
    BY <1>1, <1>3, <2>2, OwnFiles DEF TypeOK
  <2>7. OnlyOf(p)
    BY <1>3, <2>4, RenamesOwn
  <2>5. Files(p)'
    BY <1>1, <1>2, <2>1, <2>2, <2>4 DEF Files, Owns, WithImage
  <2>6. Locals(p)' /\ Saved(p)'
    BY <1>1, <1>2, <2>1, <2>2 DEF Locals, Saved, WithImage
  <2>. QED
    BY <1>1, <1>3, <2>1, <2>3, <2>4, <2>5, <2>6, <2>7, StepInv DEF BothInv, work
<1>4. ASSUME NEW n \in Name, name[n] = None, Leave(n), Fault, Goto(p, "failed", job[p])
      PROVE  BothInv'
  <2>1. \A m \in Name : ~Owns(p, m)
    BY <1>1, <1>2 DEF Files, WithImage
  <2>. QED
    BY <1>1, <1>4, <2>1, AbandonInv
<1>5. ASSUME UNCHANGED <<name, lost>>, Fault \/ NoFault, Goto(p, "failed", job[p])
      PROVE  BothInv'
  BY <1>1, <1>2, <1>5, FailInv
<1>. QED
  BY <1>3, <1>4, <1>5 DEF MakeProbe

LEMMA RemoveProbeInv == ASSUME BothInv, NEW p \in Proc, RemoveProbe(p) PROVE BothInv'
<1>. DEFINE n == job[p].temp
<1>1. /\ TypeOK /\ FilesInv /\ pc[p] = "unprobe" /\ job[p] \in Job /\ "create" \in PC
      /\ UNCHANGED <<holds, json>> /\ Files(p) /\ Locals(p) /\ Saved(p)
  BY Here DEF BothInv, RemoveProbe, PC, FilesInv
<1>2. n \in Name /\ Owns(p, n) /\ \A m \in Name : Owns(p, m) => m = n
  BY <1>1 DEF Locals, Files, Owns, WithImage
<1>3. ASSUME Rename(n, None), NoFault, UNCHANGED lost, Goto(p, "create", job[p])
      PROVE  BothInv'
  <2>1. /\ pc'[p] = "create" /\ job'[p] = job[p] /\ name'[n] = None
        /\ \A m \in Name \ {n} : name'[m] = name[m]
        /\ name' \in [Name -> File \cup {None, Left}]
    BY <1>1, <1>2, <1>3, RenameType DEF TypeOK, Goto, Rename
  <2>2. TypeOK'
    BY <1>1, <1>3, <2>1, MayEnd, StoreHere, StepType DEF NoFault, StoreOK, TypeOK
  <2>3. OnlyOf(p) /\ ~Owns(p, n)' /\ name'[n] # Left
    BY <1>2, <2>1, RenamesOwn, OwnFiles DEF Owns
  <2>4. (Files(p) /\ Locals(p) /\ Saved(p))'
    <3>1. \A m \in Name : ~Owns(p, m)'
      BY <1>2, <2>1, <2>3 DEF Owns
    <3>. QED
      BY <1>1, <2>1, <3>1 DEF Files, Locals, Saved, WithImage
  <2>. QED
    BY <1>1, <1>2, <1>3, <2>1, <2>2, <2>3, <2>4, StepInv DEF BothInv
<1>4. ASSUME Leave(n), Fault, Goto(p, "failed", job[p])
      PROVE  BothInv'
  BY <1>1, <1>2, <1>4, AbandonInv
<1>. QED
  BY <1>3, <1>4 DEF RemoveProbe

LEMMA CreateImageInv == ASSUME BothInv, NEW p \in Proc, CreateImage(p) PROVE BothInv'
<1>. DEFINE n == job[p].temp  f == <<p, "image">>
<1>1. /\ TypeOK /\ FilesInv /\ pc[p] = "create" /\ job[p] \in Job /\ "format" \in PC
      /\ UNCHANGED json /\ Files(p) /\ Locals(p) /\ Saved(p)
  BY Here DEF BothInv, CreateImage, PC, FilesInv
<1>2. n \in Name /\ f \in File /\ \A m \in Name : ~Owns(p, m)
  BY <1>1 DEF Locals, Files, File, WithImage
<1>3. ASSUME name[n] = None, Rename(n, f), holds' = [holds EXCEPT ![f] = None], NoFault, UNCHANGED lost,
             Goto(p, "format", [job[p] EXCEPT !.open = f])
      PROVE  BothInv'
  <2>. DEFINE work == [job[p] EXCEPT !.open = f]
  <2>1. /\ work \in Job /\ work.op = job[p].op /\ work.vm = job[p].vm /\ work.env = job[p].env
        /\ work.temp = n /\ work.open = f /\ work.result = job[p].result
    BY <1>1, <1>2, SetJob, SetOpen
  <2>. HIDE DEF work
  <2>2. /\ pc'[p] = "format" /\ job'[p] = work /\ name'[n] = f
        /\ \A m \in Name \ {n} : name'[m] = name[m]
    BY <1>1, <1>2, <1>3 DEF TypeOK, Goto, Rename, work
  <2>3. TypeOK'
    <3>1. StoreOK'
      BY <1>1, <1>2, <1>3, RenameType, StoreHere DEF StoreOK
    <3>2. JobOK("format", work)
      BY <1>1, <1>2, <2>1, Here DEF JobOK, Locals
    <3>. QED
      BY <1>1, <1>3, <2>1, <3>1, <3>2, StepType DEF work, NoFault, TypeOK
  <2>4. OnlyOf(p)
    BY <1>2, <1>3, <2>2, RenamesOwn
  <2>5. Files(p)'
    BY <1>1, <1>2, <2>1, <2>2 DEF Files, Owns, WithImage
  <2>6. Locals(p)' /\ Saved(p)'
    BY <1>1, <1>2, <2>1, <2>2 DEF Locals, Saved, WithImage
  <2>7. /\ \A q \in Proc \ {p} : holds'[<<q, "image">>] = holds[<<q, "image">>]
        /\ name'[n] # Left
    BY <1>1, <1>2, <1>3, <2>2, OwnFiles DEF TypeOK, File
  <2>. QED
    BY <1>1, <1>3, <2>1, <2>2, <2>3, <2>4, <2>5, <2>6, <2>7, StepInv DEF BothInv, work
<1>4. ASSUME name[n] = None, Fault, Leave(n), Goto(p, "failed", job[p]), UNCHANGED holds
      PROVE  BothInv'
  BY <1>1, <1>2, <1>4, AbandonInv
<1>5. ASSUME Fault \/ NoFault, Goto(p, "failed", job[p]), UNCHANGED <<name, holds, lost>>
      PROVE  BothInv'
  BY <1>1, <1>5, FailInv
<1>. QED
  BY <1>3, <1>4, <1>5 DEF CreateImage

LEMMA FormatInv ==
    ASSUME BothInv, NEW p \in Proc, FormatFAT32(p) \/ FormatISO(p) \/ Truncate(p) \/ Save(p)
    PROVE  BothInv'
<1>1. /\ pc[p] \in WithImage \ {"discard"} /\ UNCHANGED <<name, lost, holds>> /\ (Fault \/ NoFault)
      /\ {"truncate", "save", "fill", "discard"} \subseteq WithImage
  BY DEF FormatFAT32, FormatISO, Truncate, Save, Locally, WithImage
<1>2. CASE FormatFAT32(p) \/ FormatISO(p)
  BY <1>1, <1>2, ImageInv DEF FormatFAT32, FormatISO, Locally
<1>3. CASE Truncate(p)
  BY <1>1, <1>3, ImageInv DEF Truncate
<1>4. CASE Save(p)
  <2>1. job[p].vm \in VM /\ json \in [VM -> Setting \cup {Absent, Torn}]
    BY <1>1, VMHere DEF BothInv, TypeOK, WithImage
  <2>. QED
    BY <1>1, <1>4, <2>1, ImageInv DEF Save
<1>. QED
  BY <1>2, <1>3, <1>4

LEMMA FillInv ==
    ASSUME BothInv, NEW p \in Proc, FillFAT32(p) \/ FillISO(p) \/ Finalize(p)
    PROVE  BothInv'
<1>1. /\ pc[p] \in {"fill", "finalize"} /\ pc[p] \in WithImage \ {"discard"}
      /\ UNCHANGED <<name, lost, json>> /\ (Fault \/ NoFault)
      /\ {"finalize", "read_back", "discard"} \subseteq WithImage
  BY DEF FillFAT32, FillISO, Finalize, Locally, Put, WithImage
<1>2. /\ json[job[p].vm] = job[p].env /\ job[p].open = <<p, "image">> /\ <<p, "image">> \in File
      /\ holds \in [File -> Setting \cup {None}]
  BY <1>1 DEF BothInv, FilesInv, Saved, Locals, File, TypeOK
<1>3. CASE FillISO(p)
  BY <1>1, <1>2, <1>3, ImageInv DEF FillISO, Locally
<1>4. CASE Put(p, "read_back")
  BY <1>1, <1>2, <1>4, ImageInv DEF Put
<1>. QED
  BY <1>3, <1>4 DEF FillFAT32, Finalize

LEMMA ReadBackInv == ASSUME BothInv, NEW p \in Proc, ReadBack(p) PROVE BothInv'
<1>. DEFINE f == name[job[p].temp]
<1>1. /\ TypeOK /\ FilesInv /\ pc[p] = "read_back" /\ job[p] \in Job /\ "discard" \in PC
      /\ UNCHANGED <<name, lost, holds, json>> /\ Files(p) /\ Locals(p) /\ Saved(p)
      /\ Fault \/ NoFault
  BY Here DEF BothInv, ReadBack, PC, FilesInv
<1>2. f = <<p, "image">> /\ holds[f] = job[p].env /\ job[p].op = "write" /\ job[p].env \in Setting
      /\ json[job[p].vm] = job[p].env
  BY <1>1 DEF Locals, Files, Saved, WithImage
<1>3. CASE Goto(p, "discard", job[p])
  BY <1>1, <1>3, ImageInv DEF WithImage
<1>4. CASE Goto(p, "discard", [job[p] EXCEPT !.result = holds[f]])
  <2>. DEFINE work == [job[p] EXCEPT !.result = holds[f]]
  <2>1. /\ work \in Job /\ work.op = job[p].op /\ work.vm = job[p].vm /\ work.env = job[p].env
        /\ work.temp = job[p].temp /\ work.open = job[p].open /\ work.result = job[p].env
    BY <1>1, <1>2, SetJob, SetResult
  <2>. HIDE DEF work
  <2>2. pc'[p] = "discard" /\ job'[p] = work
    BY <1>1, <1>4 DEF TypeOK, Goto, work
  <2>3. TypeOK'
    <3>1. JobOK("discard", work) /\ StoreOK'
      BY <1>1, <2>1, Here, StoreHere DEF JobOK, StoreOK
    <3>. QED
      BY <1>1, <1>4, <2>1, <3>1, StepType DEF work, NoFault, TypeOK
  <2>4. (Files(p) /\ Locals(p) /\ Saved(p))'
    BY <1>1, <1>2, <2>1, <2>2 DEF Files, Owns, Locals, Saved, WithImage
  <2>. QED
    BY <1>1, <1>4, <2>1, <2>3, <2>4, StepInv DEF BothInv, OnlyOf, work
<1>. QED
  BY <1>3, <1>4 DEF ReadBack

LEMMA DiscardInv == ASSUME BothInv, NEW p \in Proc, Discard(p) PROVE BothInv'
<1>. DEFINE n == job[p].temp
            next == IF job[p].result # None THEN "ok" ELSE "failed"
            work == [job[p] EXCEPT !.temp = None, !.open = None]
<1>1. /\ TypeOK /\ FilesInv /\ pc[p] = "discard" /\ job[p] \in Job /\ {"ok", "failed"} \subseteq PC
      /\ UNCHANGED <<holds, json>> /\ Files(p) /\ Locals(p) /\ Saved(p) /\ (Fault \/ NoFault)
      /\ Goto(p, next, work)
  BY Here DEF BothInv, Discard, PC, FilesInv
<1>2. n \in Name /\ Owns(p, n) /\ \A m \in Name : Owns(p, m) => m = n
  BY <1>1 DEF Locals, Files, Owns, WithImage
<1>3. PICK left \in {None, Left} : Rename(n, left) /\ lost' = lost \cup IF left = Left THEN {n} ELSE {}
  BY DEF Discard, Leave
<1>4. /\ work \in Job /\ work.op = job[p].op /\ work.vm = job[p].vm /\ work.env = job[p].env
      /\ work.temp = None /\ work.open = None /\ work.result = job[p].result
  BY <1>1, Closed
<1>. HIDE DEF work
<1>5. /\ pc'[p] = next /\ job'[p] = work /\ name'[n] = left
      /\ \A m \in Name \ {n} : name'[m] = name[m]
      /\ name' \in [Name -> File \cup {None, Left}]
  BY <1>1, <1>2, <1>3, RenameType DEF TypeOK, Goto, Rename
<1>6. TypeOK'
  <2>1. StoreOK' /\ lost' \subseteq Name
    BY <1>1, <1>2, <1>3, <1>5, StoreHere DEF StoreOK, TypeOK
  <2>2. JobOK(next, work)
    BY <1>1, <1>4, Here DEF JobOK
  <2>. QED
    BY <1>1, <1>4, <2>1, <2>2, StepType DEF NoFault
<1>7. OnlyOf(p) /\ name'[n] \notin {<<p, "probe">>, <<p, "image">>}
  <2>1. name'[n] \in {None, Left}
    BY <1>3, <1>5
  <2>2. OnlyOf(p)
    BY <1>2, <1>5, <2>1, RenamesOwn
  <2>. QED
    BY <2>1, <2>2, OwnFiles
<1>8. (Files(p) /\ Locals(p) /\ Saved(p))'
  <2>1. \A m \in Name : ~Owns(p, m)'
    BY <1>2, <1>5, <1>7 DEF Owns
  <2>2. None \notin Name
    OBVIOUS
  <2>. QED
    BY <1>1, <1>4, <1>5, <2>1, <2>2 DEF Files, Locals, Saved, WithImage
<1>. QED
  BY <1>1, <1>3, <1>4, <1>5, <1>6, <1>7, <1>8, StepInv DEF BothInv

LEMMA ReadInv == ASSUME BothInv, NEW p \in Proc, Read(p) PROVE BothInv'
<1>. DEFINE e == json[job[p].vm]
<1>1. /\ TypeOK /\ FilesInv /\ pc[p] = "read" /\ job[p] \in Job /\ "ok" \in PC
      /\ UNCHANGED <<name, lost, holds, json>> /\ Files(p) /\ Locals(p) /\ Saved(p)
      /\ Fault \/ NoFault
  BY Here DEF BothInv, Read, PC, FilesInv
<1>2. CASE Goto(p, "failed", job[p])
  BY <1>1, <1>2, FailInv
<1>3. CASE e \in Setting /\ Goto(p, "ok", [job[p] EXCEPT !.result = e])
  <2>. DEFINE work == [job[p] EXCEPT !.result = e]
  <2>1. /\ work \in Job /\ work.op = job[p].op /\ work.vm = job[p].vm /\ work.env = job[p].env
        /\ work.temp = job[p].temp /\ work.open = job[p].open /\ work.result = e
    BY <1>1, <1>3, SetJob, SetResult
  <2>. HIDE DEF work
  <2>2. pc'[p] = "ok" /\ job'[p] = work
    BY <1>1, <1>3 DEF TypeOK, Goto, work
  <2>3. TypeOK'
    <3>1. JobOK("ok", work) /\ StoreOK'
      BY <1>1, <2>1, Here, StoreHere DEF JobOK, StoreOK
    <3>. QED
      BY <1>1, <1>3, <2>1, <3>1, StepType DEF work, NoFault, TypeOK
  <2>4. job[p].op = "read" /\ e # None
    BY <1>1, <1>3 DEF Locals
  <2>5. (Files(p) /\ Locals(p) /\ Saved(p))'
    BY <1>1, <2>1, <2>2, <2>4 DEF Files, Owns, Locals, Saved, WithImage
  <2>. QED
    BY <1>1, <1>3, <2>1, <2>3, <2>5, StepInv DEF BothInv, OnlyOf, work
<1>. QED
  BY <1>2, <1>3 DEF Read

LEMMA DeleteInv == ASSUME BothInv, NEW p \in Proc, Delete(p) PROVE BothInv'
<1>1. /\ TypeOK /\ FilesInv /\ pc[p] = "delete" /\ job[p] \in Job /\ "ok" \in PC /\ job[p].vm \in VM
      /\ UNCHANGED <<name, lost, holds>> /\ Files(p) /\ Locals(p) /\ Saved(p)
      /\ (Fault \/ NoFault) /\ job[p].op = "delete"
  BY Here, VMHere DEF BothInv, Delete, PC, FilesInv, Locals
<1>2. CASE Goto(p, "failed", job[p]) /\ UNCHANGED json
  BY <1>1, <1>2, FailInv
<1>3. CASE Goto(p, "ok", job[p]) /\ json' = [json EXCEPT ![job[p].vm] = Absent]
  <2>1. pc'[p] = "ok" /\ job'[p] = job[p]
    BY <1>1, <1>3 DEF TypeOK, Goto
  <2>2. /\ json' \in [VM -> Setting \cup {Absent, Torn}] /\ json'[job[p].vm] = Absent
        /\ \A v \in VM \ {job[p].vm} : json'[v] = json[v]
    BY <1>1, <1>3 DEF TypeOK
  <2>3. TypeOK'
    <3>1. StoreOK' /\ JobOK("ok", job[p])
      BY <1>1, <2>2, StoreHere, MayEnd DEF StoreOK
    <3>. QED
      BY <1>1, <1>3, <3>1, StepType DEF NoFault, TypeOK
  <2>4. (Files(p) /\ Locals(p) /\ Saved(p))'
    BY <1>1, <2>1, <2>2 DEF Files, Owns, Locals, Saved, WithImage
  <2>. QED
    BY <1>1, <1>3, <2>2, <2>3, <2>4, StepInv DEF BothInv, OnlyOf
<1>. QED
  BY <1>2, <1>3 DEF Delete

LEMMA CallInv == ASSUME BothInv, NEW p \in Proc, Call(p) PROVE BothInv'
<1>1. PICK op \in {"write", "read", "delete"}, v \in VM, e \in Setting :
          /\ \A q \in Proc : job[q].vm # v
          /\ Goto(p, IF op = "write" THEN "probe" ELSE op,
                  [NoJob EXCEPT !.op = op, !.vm = v, !.env = IF op = "write" THEN e ELSE None])
          /\ UNCHANGED <<name, lost, holds, json, faults>> /\ pc[p] = "idle"
  BY DEF Call
<1>. DEFINE next == IF op = "write" THEN "probe" ELSE op
            env == IF op = "write" THEN e ELSE None
            work == [NoJob EXCEPT !.op = op, !.vm = v, !.env = env]
<1>2. /\ work.op = op /\ work.vm = v /\ work.env = env /\ work.temp = None /\ work.open = None
      /\ work.result = None /\ work \in Job
  <2>1. NoJob \in Job
    BY DEF NoJob, Job
  <2>2. [NoJob EXCEPT !.op = op] \in Job
    BY <2>1 DEF Job
  <2>3. [[NoJob EXCEPT !.op = op] EXCEPT !.vm = v] \in Job
    BY <2>2 DEF Job
  <2>4. [[[NoJob EXCEPT !.op = op] EXCEPT !.vm = v] EXCEPT !.env = env] \in Job
    BY <2>3 DEF Job
  <2>5. work \in Job
    BY <2>4
  <2>. QED
    BY <2>5 DEF NoJob
<1>3. Goto(p, next, work)
  BY <1>1
<1>. HIDE DEF work, env
<1>4. TypeOK /\ FilesInv /\ Files(p) /\ Locals(p) /\ Saved(p) /\ next \in PC \ {"idle"}
  BY DEF BothInv, FilesInv, PC
<1>5. /\ pc'[p] = next /\ job'[p] = work /\ last' = last
      /\ \A q \in Proc : q # p => pc'[q] = pc[q] /\ job'[q] = job[q]
  BY <1>3, <1>4 DEF TypeOK, Goto
<1>6. TypeOK'
  <2>1. StoreOK' /\ JobOK(next, work)
    BY <1>1, <1>2, <1>4, StoreHere DEF StoreOK, JobOK
  <2>. QED
    BY <1>1, <1>2, <1>3, <1>4, <2>1, StepType DEF TypeOK
<1>7. (Files(p) /\ Locals(p) /\ Saved(p))'
  <2>1. \A n \in Name : ~Owns(p, n)'
    BY <1>1, <1>4 DEF Files, Owns, WithImage
  <2>2. op = "write" => work.env \in Setting
    BY <1>2 DEF env
  <2>. QED
    BY <1>1, <1>2, <1>4, <1>5, <2>1, <2>2 DEF Files, Locals, Saved, WithImage
<1>8. ASSUME NEW q \in Proc, q # p
      PROVE  (Files(q) /\ Locals(q) /\ Saved(q))'
  <2>1. Files(q) /\ Locals(q) /\ Saved(q)
    BY DEF BothInv, FilesInv
  <2>. QED
    BY <1>1, <1>5, <1>8, <2>1 DEF Files, Owns, Locals, Saved
<1>9. Alone' /\ LeftLost'
  BY <1>1, <1>2, <1>4, <1>5 DEF FilesInv, Alone, LeftLost
<1>10. Stored'
  <2>1. ASSUME NEW u \in VM, Changing(u)
        PROVE  Changing(u)'
    <3>1. job[p].vm = None
      BY <1>1, <1>4, Here DEF JobOK
    <3>. QED
      BY <1>5, <2>1, <3>1 DEF Changing
  <2>. QED
    BY <1>1, <1>4, <1>5, <2>1 DEF FilesInv, Stored
<1>. QED
  BY <1>6, <1>7, <1>8, <1>9, <1>10 DEF BothInv, FilesInv

\* A call that ends, answered or killed: its VM holds what it was to hold, or nobody knows.
LEMMA EndInv ==
    ASSUME BothInv, NEW p \in Proc, pc[p] # "idle", NEW good \in BOOLEAN, good <=> pc[p] = "ok" /\ good,
           End(p, good), UNCHANGED faults \/ Fault,
           lost \subseteq lost', lost' \subseteq Name,
           \A n \in Name :
               IF Owns(p, n) THEN name'[n] = Left /\ n \in lost' ELSE name'[n] = name[n],
           name' \in [Name -> File \cup {None, Left}]
    PROVE  BothInv'
<1>. DEFINE j == job[p]
<1>1. TypeOK /\ FilesInv /\ j.vm \in VM /\ Files(p) /\ Locals(p) /\ Saved(p) /\ j \in Job
  BY VMHere, Here DEF BothInv, FilesInv
<1>2. /\ pc'[p] = "idle" /\ job'[p] = NoJob
      /\ \A q \in Proc : q # p => pc'[q] = pc[q] /\ job'[q] = job[q]
      /\ last' = [last EXCEPT ![j.vm] = IF j.op = "read" THEN @ ELSE IF ~good THEN None
                                        ELSE IF j.op = "write" THEN j.env ELSE Absent]
      /\ UNCHANGED <<kind, holds, json>>
  BY <1>1 DEF End, TypeOK
<1>3. /\ NoJob \in Job /\ NoJob.vm = None /\ NoJob.op = None /\ NoJob.temp = None /\ NoJob.result = None
      /\ "idle" \in PC
  BY DEF NoJob, Job, PC
<1>4. last' \in [VM -> Setting \cup {Absent, None}]
  <2>1. good /\ j.op = "write" => j.env \in Setting
    BY <1>1 DEF Locals, Saved, Job
  <2>. QED
    BY <1>1, <1>2, <2>1 DEF TypeOK
<1>5. TypeOK'
  <2>1. pc' \in [Proc -> PC] /\ job' \in [Proc -> Job] /\ faults' \in 0..MaxFaults
    BY <1>1, <1>3 DEF End, TypeOK, Fault
  <2>2. \A q \in Proc : JobOK(pc'[q], job'[q])
    BY <1>1, <1>2, <1>3, Here DEF JobOK
  <2>. QED
    BY <1>1, <1>2, <1>4, <2>1, <2>2 DEF TypeOK, JobOK
<1>6. (Files(p) /\ Locals(p) /\ Saved(p))'
  <2>1. \A n \in Name : ~Owns(p, n)'
    BY OwnFiles DEF Owns
  <2>. QED
    BY <1>2, <1>3, <2>1 DEF Files, Locals, Saved, WithImage
<1>7. ASSUME NEW q \in Proc, q # p
      PROVE  (Files(q) /\ Locals(q) /\ Saved(q))'
  <2>1. \A n \in Name : name'[n] = name[n] \/ (~Owns(q, n) /\ ~Owns(q, n)')
    BY <1>7, OwnFiles DEF Owns
  <2>. QED
    BY <1>1, <1>2, <1>7, <2>1, OthersKeep
<1>8. Alone'
  BY <1>1, <1>2, <1>3 DEF FilesInv, Alone
<1>9. LeftLost'
  BY <1>1 DEF FilesInv, LeftLost
<1>10. Stored'
  <2>1. ASSUME NEW v \in VM, v # j.vm
        PROVE  Changing(v)' \/ last'[v] \in {None, json'[v]}
    <3>1. Changing(v) <=> Changing(v)'
      BY <1>1, <1>2, <1>3, <2>1 DEF Changing
    <3>. QED
      BY <1>1, <1>2, <2>1, <3>1 DEF FilesInv, Stored, TypeOK
  <2>2. CASE j.op = "read"
    <3>1. ~Changing(j.vm)
      BY <1>1, <2>2 DEF FilesInv, Alone, Changing
    <3>2. last'[j.vm] = last[j.vm]
      BY <1>1, <1>2, <2>2 DEF TypeOK
    <3>. QED
      BY <1>1, <1>2, <2>1, <3>1, <3>2 DEF FilesInv, Stored
  <2>3. CASE j.op # "read" /\ ~good
    <3>1. last'[j.vm] = None
      BY <1>1, <1>2, <2>3 DEF TypeOK
    <3>. QED
      BY <2>1, <3>1 DEF Stored
  <2>4. CASE j.op # "read" /\ good
    <3>1. last'[j.vm] = IF j.op = "write" THEN j.env ELSE Absent
      BY <1>1, <1>2, <2>4 DEF TypeOK
    <3>2. json[j.vm] = IF j.op = "write" THEN j.env ELSE Absent
      BY <1>1, <2>4 DEF Locals, Saved
    <3>. QED
      BY <1>2, <2>1, <3>1, <3>2 DEF Stored
  <2>. QED
    BY <2>2, <2>3, <2>4
<1>. QED
  BY <1>5, <1>6, <1>7, <1>8, <1>9, <1>10 DEF BothInv, FilesInv

LEMMA ReplyInv == ASSUME BothInv, NEW p \in Proc, Reply(p) PROVE BothInv'
<1>1. /\ pc[p] \in {"ok", "failed"} /\ End(p, pc[p] = "ok") /\ UNCHANGED <<name, lost, faults>>
      /\ TypeOK /\ Files(p)
  BY DEF Reply, BothInv, FilesInv
<1>2. \A n \in Name : ~Owns(p, n)
  BY <1>1 DEF Files, WithImage
<1>3. (pc[p] = "ok") \in BOOLEAN
  OBVIOUS
<1>. QED
  BY <1>1, <1>2, <1>3, EndInv DEF TypeOK

LEMMA CrashInv == ASSUME BothInv, NEW p \in Proc, Crash(p) PROVE BothInv'
<1>. DEFINE own == {n \in Name : Owns(p, n)}
<1>1. /\ pc[p] # "idle" /\ Fault /\ End(p, FALSE) /\ TypeOK
      /\ name' = [n \in Name |-> IF n \in own THEN Left ELSE name[n]]
      /\ lost' = lost \cup own
  BY OwnFiles DEF Crash, BothInv, Owns
<1>. QED
  BY <1>1, EndInv DEF TypeOK

LEMMA InvInit == Init => BothInv
<1>. SUFFICES ASSUME Init
              PROVE  BothInv
  OBVIOUS
<1>1. NoJob \in Job /\ NoJob.vm = None /\ NoJob.op = None /\ NoJob.temp = None /\ NoJob.result = None
  BY DEF NoJob, Job
<1>2. TypeOK
  BY <1>1 DEF Init, TypeOK, PC
<1>3. FilesInv
  BY <1>1, OwnFiles DEF Init, FilesInv, Files, Owns, Locals, Saved, WithImage, Alone, Stored, LeftLost
<1>. QED
  BY <1>2, <1>3 DEF BothInv

LEMMA InvNext == BothInv /\ [Next]_vars => BothInv'
<1>. SUFFICES ASSUME BothInv, [Next]_vars
              PROVE  BothInv'
  OBVIOUS
<1>1. ASSUME NEW p \in Proc, Write(p)
      PROVE  BothInv'
  BY <1>1, MakeProbeInv, RemoveProbeInv, CreateImageInv, FormatInv, FillInv, ReadBackInv, DiscardInv
  DEF Write
<1>2. ASSUME NEW p \in Proc, Read(p) \/ Delete(p) \/ Call(p) \/ Reply(p) \/ Crash(p)
      PROVE  BothInv'
  BY <1>2, ReadInv, DeleteInv, CallInv, ReplyInv, CrashInv
<1>3. CASE UNCHANGED vars
  BY <1>3 DEF vars, BothInv, TypeOK, FilesInv, Files, Owns, Locals, Saved, Alone, Stored, Changing, LeftLost
<1>. QED
  BY <1>1, <1>2, <1>3 DEF Next

-----------------------------------------------------------------------------
(* The results *)

\* Every reachable state has its types (agentmgr).
THEOREM TypeCorrect == Spec => []TypeOK
<1>1. BothInv => TypeOK
  BY DEF BothInv
<1>. QED
  BY <1>1, InvInit, InvNext, PTL DEF Spec

\* What a Write returns and saves is what it was given, however many processes draw the same
\* temporary name and wherever they fail (tempFileName, diskfs.Create).
THEOREM WritesOwnImage == Spec => []OwnImage
<1>1. BothInv => OwnImage
  <2>. SUFFICES ASSUME BothInv, NEW p \in Proc, pc[p] = "ok", job[p].op = "write"
                PROVE  job[p].result = job[p].env /\ json[job[p].vm] = job[p].env
    BY DEF OwnImage
  <2>. QED
    BY DEF BothInv, FilesInv, Locals, Saved
<1>. QED
  BY <1>1, InvInit, InvNext, PTL DEF Spec

\* Temporary files are left by killed processes and failed removals only (Write).
THEOREM NothingLeft == Spec => []NoLeftover
<1>1. BothInv => NoLeftover
  <2>. SUFFICES ASSUME BothInv, NEW n \in Name \ lost, name[n] # None
                PROVE  \E p \in Proc : job[p].temp = n /\ name[n] \in {p} \X {"probe", "image"}
    BY DEF NoLeftover
  <2>1. name[n] \in File
    BY DEF BothInv, FilesInv, LeftLost, TypeOK
  <2>2. PICK p \in Proc : Owns(p, n)
    BY <2>1 DEF File, Owns
  <2>. QED
    BY <2>2, OwnFiles DEF BothInv, FilesInv, Files, Owns
<1>. QED
  BY <1>1, InvInit, InvNext, PTL DEF Spec

\* A Read finds what the last call that changed the VM's agent.json left (Read, writeAgentEnv).
THEOREM ReadsTheLast == Spec => []ReadsLast
<1>1. BothInv => ReadsLast
  <2>. SUFFICES ASSUME BothInv, NEW p \in Proc, pc[p] = "ok", job[p].op = "read"
                PROVE  last[job[p].vm] \in {None, job[p].result}
    BY DEF ReadsLast
  <2>1. job[p].vm \in VM /\ job[p].result = json[job[p].vm]
    BY VMHere DEF BothInv, FilesInv, Locals, Saved
  <2>2. ~Changing(job[p].vm)
    BY <2>1 DEF BothInv, FilesInv, Alone, Changing
  <2>. QED
    BY <2>1, <2>2 DEF BothInv, FilesInv, Stored
<1>. QED
  BY <1>1, InvInit, InvNext, PTL DEF Spec

\* Every step renames files of the process that takes it, which goes on by it.
LEMMA StepsOwn ==
    ASSUME BothInv, NEW p \in Proc, Write(p) \/ Read(p) \/ Delete(p) \/ Call(p) \/ Reply(p) \/ Crash(p),
           NEW q \in Proc, NEW n \in Name, Owns(q, n), name'[n] # name[n]
    PROVE  pc'[q] # pc[q]
<1>1. /\ TypeOK /\ Files(p) /\ Locals(p)
      /\ name[n] # None /\ (q # p => ~Owns(p, n))
  BY OwnFiles DEF BothInv, FilesInv, Owns
<1>2. CASE RemoveProbe(p) \/ Discard(p)
  <2>1. /\ name' = [name EXCEPT ![job[p].temp] = name'[job[p].temp]]
        /\ pc'[p] # pc[p]
    BY <1>1, <1>2 DEF RemoveProbe, Discard, Rename, Leave, Goto, TypeOK
  <2>2. job[p].temp \in Name /\ Owns(p, job[p].temp)
    BY <1>1, <1>2 DEF RemoveProbe, Discard, Locals, Files, Owns, WithImage
  <2>. QED
    BY <1>1, <2>1, <2>2 DEF TypeOK
<1>3. CASE MakeProbe(p) \/ CreateImage(p)
  <2>1. \A m \in Name : name'[m] = name[m] \/ name[m] = None
    BY <1>1, <1>3 DEF MakeProbe, CreateImage, Rename, Leave, TypeOK
  <2>. QED
    BY <1>1, <2>1
<1>4. CASE Crash(p)
  <2>1. pc'[p] # pc[p]
    BY <1>1, <1>4 DEF Crash, End, TypeOK
  <2>2. name' = [m \in Name |-> IF Owns(p, m) THEN Left ELSE name[m]]
    BY <1>4, OwnFiles DEF Crash, Owns
  <2>. QED
    BY <1>1, <2>1, <2>2
<1>5. CASE \/ FormatFAT32(p) \/ FormatISO(p) \/ Truncate(p) \/ Save(p) \/ FillFAT32(p) \/ FillISO(p)
           \/ Finalize(p) \/ ReadBack(p) \/ Read(p) \/ Delete(p) \/ Call(p) \/ Reply(p)
  BY <1>5 DEF FormatFAT32, FormatISO, Truncate, Save, FillFAT32, FillISO, Finalize, ReadBack, Locally,
     Put, Read, Delete, Call, Reply
<1>. QED
  BY <1>2, <1>3, <1>4, <1>5 DEF Write

\* Nobody removes or replaces a temporary file of another process, although names are drawn,
\* given up and drawn again (tempFileName).
THEOREM RemovesItsOwn == Spec => RemovesOwn
<1>1. ASSUME BothInv, [Next]_vars
      PROVE  [\A n \in Name, p \in Proc :
                 name[n] \in {p} \X {"probe", "image"} /\ name'[n] # name[n] => pc'[p] # pc[p]]_vars
  <2>1. SUFFICES ASSUME Next, NEW n \in Name, NEW q \in Proc,
                        name[n] \in {q} \X {"probe", "image"}, name'[n] # name[n]
                 PROVE  pc'[q] # pc[q]
    BY <1>1
  <2>2. Owns(q, n)
    BY <2>1, OwnFiles DEF Owns
  <2>. QED
    BY <1>1, <2>1, <2>2, StepsOwn DEF Next
<1>. QED
  BY <1>1, InvInit, InvNext, PTL DEF Spec, RemovesOwn


-----------------------------------------------------------------------------
(* AgentFiles implements SettingsStore: the invariant of the history variable *)

\* While a Write is under way, agent.json is what it was, torn, or what it is to be; otherwise
\* the history variable and the file are the same.
Kept(p) == job[p].op = "write" /\ UnderWay(p) =>
    json[job[p].vm] \in {file[job[p].vm], Torn, job[p].env}

SeenInv ==
    /\ file \in [VM -> Setting \cup {Absent, Torn}]
    /\ \A v \in VM : ~Writing(v) => file[v] = json[v]
    /\ \A p \in Proc : Kept(p) /\ (pc[p] = "idle" => job[p] = NoJob)

CallOf(op, v, env, stage, result) ==
    [op |-> op, vm |-> v, env |-> env, stage |-> stage, result |-> result]

\* What SettingsStore sees of a process.
Asked(p) == [op |-> job[p].op, vm |-> job[p].vm, env |-> job[p].env, stage |-> StageOf(pc[p]),
             result |-> IF UnderWay(p) THEN None ELSE job[p].result]
Calls == [p \in Proc |-> Asked(p)]

\* p takes a step on v alone.
StepOn(p, v) ==
    /\ \A q \in Proc \ {p} : pc'[q] = pc[q] /\ job'[q] = job[q]
    /\ v \in VM /\ v \in {job[p].vm, job'[p].vm} /\ {job[p].vm, job'[p].vm} \subseteq {v, None}
    /\ \A u \in VM \ {v} : json'[u] = json[u]

WritesOn(p, v) == job[p].vm = v /\ job[p].op = "write" /\ UnderWay(p)

LEMMA OthersAway ==
    ASSUME BothInv, BothInv', NEW p \in Proc, NEW v, StepOn(p, v), NEW q \in Proc, q # p
    PROVE  job[q].vm # v /\ job'[q].vm # v
<1>1. None \notin VM
  OBVIOUS
<1>. QED BY <1>1 DEF StepOn, BothInv, FilesInv, Alone

LEMMA StoreFile ==
    ASSUME BothInv, BothInv', SeenInv, Remember, NEW p \in Proc, NEW v, StepOn(p, v)
    PROVE  /\ file' = [file EXCEPT ![v] = IF WritesOn(p, v)' THEN file[v] ELSE json'[v]]
           /\ file' \in [VM -> Setting \cup {Absent, Torn}]
<1>1. Writing(v)' <=> WritesOn(p, v)'
  BY OthersAway DEF Writing, WritesOn
<1>2. ASSUME NEW u \in VM \ {v}
      PROVE  file'[u] = file[u]
  <2>1. u # None
    OBVIOUS
  <2>2. Writing(u)' <=> Writing(u)
    BY <1>2, <2>1 DEF Writing, UnderWay, StepOn
  <2>. QED BY <1>2, <2>2 DEF Remember, SeenInv, StepOn
<1>3. file'[v] = IF WritesOn(p, v)' THEN file[v] ELSE json'[v]
  BY <1>1 DEF Remember, StepOn
<1>4. file' = [u \in VM |-> file'[u]] /\ file = [u \in VM |-> file[u]]
  BY DEF Remember, SeenInv
<1>5. file' = [file EXCEPT ![v] = IF WritesOn(p, v)' THEN file[v] ELSE json'[v]]
  BY <1>2, <1>3, <1>4 DEF StepOn
<1>6. json'[v] \in Setting \cup {Absent, Torn}
  BY DEF BothInv, TypeOK, StepOn
<1>. QED BY <1>5, <1>6 DEF SeenInv

LEMMA StoreSeen ==
    ASSUME BothInv, BothInv', SeenInv, Remember, NEW p \in Proc, NEW v, StepOn(p, v),
           WritesOn(p, v)' => json'[v] \in {file[v], Torn, job'[p].env},
           pc'[p] = "idle" => job'[p] = NoJob
    PROVE  SeenInv'
<1>1. \A u \in VM : ~Writing(u)' => file'[u] = json'[u]
  BY DEF Remember
<1>2. Kept(p)'
  <2>1. UnderWay(p)' => job'[p].vm # None
    BY DEF BothInv, TypeOK, UnderWay
  <2>2. v \in VM /\ job'[p].vm \in {v, None}
    BY DEF StepOn
  <2>3. WritesOn(p, v)' => file'[v] = file[v]
    BY <2>2, StoreFile DEF SeenInv
  <2>. QED BY <2>1, <2>2, <2>3 DEF Kept, WritesOn, UnderWay
<1>3. ASSUME NEW q \in Proc, q # p
      PROVE  Kept(q)'
  <2>1. job[q].vm # v /\ job'[q] = job[q] /\ pc'[q] = pc[q]
    BY <1>3, OthersAway DEF StepOn
  <2>2. UnderWay(q) => job[q].vm \in VM \ {v}
    BY <2>1, VMHere DEF UnderWay, BothInv
  <2>. QED BY <2>1, <2>2, StoreFile DEF Kept, UnderWay, SeenInv, StepOn
<1>4. \A q \in Proc : pc'[q] = "idle" => job'[q] = NoJob
  BY DEF StepOn, SeenInv
<1>. QED BY <1>1, <1>2, <1>3, <1>4, StoreFile DEF SeenInv

LEMMA StoreCalls ==
    ASSUME NEW p \in Proc, NEW v, StepOn(p, v)
    PROVE  Calls' = [Calls EXCEPT ![p] = Asked(p)']
<1>1. \A q \in Proc \ {p} : Asked(q)' = Asked(q)
  BY DEF StepOn, Asked, UnderWay
<1>. QED BY <1>1 DEF Calls


-----------------------------------------------------------------------------
(* Every step of AgentFiles is one of SettingsStore, or rests *)

LEMMA CallsAre == \A p \in Proc : Calls[p] = Asked(p)
  BY DEF Calls

\* A Write goes on or ends; agent.json stays, is cut, or gets its settings.
WriteGoes(p) ==
    /\ job[p].op = "write" /\ UnderWay(p)
    /\ pc'[p] # "idle" /\ job'[p].op = "write" /\ job'[p].vm = job[p].vm /\ job'[p].env = job[p].env
    /\ \A q \in Proc \ {p} : pc'[q] = pc[q] /\ job'[q] = job[q]
    /\ \E e \in {json[job[p].vm], Torn, job[p].env} : json' = [json EXCEPT ![job[p].vm] = e]

LEMMA GotoIs ==
    ASSUME TypeOK, NEW p \in Proc, NEW next, NEW work, Goto(p, next, work)
    PROVE  /\ pc'[p] = next /\ job'[p] = work
           /\ \A q \in Proc \ {p} : pc'[q] = pc[q] /\ job'[q] = job[q]
  BY DEF Goto, TypeOK

LEMMA Rests == ASSUME TypeOK, NEW p \in Proc, pc[p] # "idle", UNCHANGED json
    PROVE  \E e \in {json[job[p].vm], Torn, job[p].env} : json' = [json EXCEPT ![job[p].vm] = e]
  BY VMHere DEF TypeOK

LEMMA WriteRests ==
    ASSUME TypeOK, NEW p \in Proc, job[p].op = "write", UnderWay(p), UNCHANGED json,
           NEW next, next # "idle", NEW work, Goto(p, next, work),
           work.op = job[p].op, work.vm = job[p].vm, work.env = job[p].env
    PROVE  WriteGoes(p)
  BY GotoIs, Rests DEF WriteGoes, UnderWay

LEMMA EveryWrite ==
    ASSUME BothInv, NEW p \in Proc, Write(p)
    PROVE  WriteGoes(p)
<1>1. TypeOK /\ Locals(p) /\ job[p] \in Job
  BY Here DEF BothInv, FilesInv
<1>2. CASE MakeProbe(p) \/ RemoveProbe(p) \/ CreateImage(p)
  <2>1. job[p].op = "write" /\ UnderWay(p) /\ UNCHANGED json
    BY <1>1, <1>2 DEF MakeProbe, RemoveProbe, CreateImage, Locals, UnderWay
  <2>2. PICK next \in {"unprobe", "create", "format", "failed"} :
            \/ Goto(p, next, job[p])
            \/ \E n \in Name : Goto(p, next, [job[p] EXCEPT !.temp = n])
            \/ Goto(p, next, [job[p] EXCEPT !.open = <<p, "image">>])
    BY <1>2 DEF MakeProbe, RemoveProbe, CreateImage
  <2>3. CASE Goto(p, next, job[p])
    BY <1>1, <2>1, <2>3, WriteRests
  <2>4. CASE \E n \in Name : Goto(p, next, [job[p] EXCEPT !.temp = n])
    BY <1>1, <2>1, <2>4, WriteRests, SetTemp
  <2>5. CASE Goto(p, next, [job[p] EXCEPT !.open = <<p, "image">>])
    BY <1>1, <2>1, <2>5, WriteRests, SetOpen
  <2>. QED BY <2>2, <2>3, <2>4, <2>5
<1>3. CASE FormatFAT32(p) \/ FormatISO(p) \/ FillISO(p) \/ FillFAT32(p) \/ Finalize(p)
  <2>1. job[p].op = "write" /\ UnderWay(p) /\ UNCHANGED json /\ pc[p] # "idle"
    BY <1>1, <1>3 DEF FormatFAT32, FormatISO, FillISO, FillFAT32, Finalize, Locally, Put, Locals,
       UnderWay, WithImage
  <2>2. \E next \in {"truncate", "finalize", "read_back", "discard"} : Goto(p, next, job[p])
    BY <1>3 DEF FormatFAT32, FormatISO, FillISO, FillFAT32, Finalize, Locally, Put
  <2>. QED BY <1>1, <2>1, <2>2, GotoIs, Rests DEF WriteGoes
<1>4. CASE Truncate(p) \/ Save(p)
  <2>1. job[p].op = "write" /\ UnderWay(p) /\ pc[p] # "idle"
    BY <1>1, <1>4 DEF Truncate, Save, Locals, UnderWay, WithImage
  <2>2. \E next \in {"save", "fill", "discard"} : Goto(p, next, job[p])
    BY <1>4 DEF Truncate, Save
  <2>3. \E e \in {json[job[p].vm], Torn, job[p].env} : json' = [json EXCEPT ![job[p].vm] = e]
    BY <1>1, <1>4, <2>1, Rests DEF Truncate, Save
  <2>. QED BY <1>1, <2>1, <2>2, <2>3, GotoIs DEF WriteGoes
<1>5. CASE ReadBack(p) \/ Discard(p)
  <2>1. job[p].op = "write" /\ UnderWay(p) /\ UNCHANGED json
    BY <1>1, <1>5 DEF ReadBack, Discard, Locals, UnderWay, WithImage
  <2>2. PICK next \in {"discard", "ok", "failed"} :
            \/ Goto(p, next, job[p])
            \/ \E e : Goto(p, next, [job[p] EXCEPT !.result = e])
            \/ Goto(p, next, [job[p] EXCEPT !.temp = None, !.open = None])
    BY <1>5 DEF ReadBack, Discard
  <2>3. CASE Goto(p, next, job[p])
    BY <1>1, <2>1, <2>3, WriteRests
  <2>4. CASE \E e : Goto(p, next, [job[p] EXCEPT !.result = e])
    BY <1>1, <2>1, <2>4, WriteRests, SetResult
  <2>5. CASE Goto(p, next, [job[p] EXCEPT !.temp = None, !.open = None])
    BY <1>1, <2>1, <2>5, WriteRests, Closed
  <2>. QED BY <2>2, <2>3, <2>4, <2>5
<1>. QED BY <1>2, <1>3, <1>4, <1>5 DEF Write


LEMMA StageIs ==
    ASSUME NEW p \in Proc
    PROVE  /\ UnderWay(p) => StageOf(pc[p]) = "asked"
           /\ pc[p] \in {"ok", "failed"} => StageOf(pc[p]) = pc[p] /\ ~UnderWay(p)
           /\ pc[p] = "idle" => StageOf(pc[p]) = None /\ ~UnderWay(p)
  BY DEF StageOf, UnderWay

LEMMA AsksIs ==
    ASSUME NEW p \in Proc, NEW op, UnderWay(p), job[p].op = op
    PROVE  Store!Asks(p, op)
  BY StageIs DEF Store!Asks

LEMMA AnswerIs ==
    ASSUME NEW p \in Proc, NEW v, StepOn(p, v), NEW st, NEW r,
           job'[p].op = job[p].op, job'[p].vm = job[p].vm, job'[p].env = job[p].env,
           StageOf(pc'[p]) = st, r = IF UnderWay(p)' THEN None ELSE job'[p].result
    PROVE  Store!Answer(p, st, r)
<1>1. Calls' = [Calls EXCEPT ![p] = Asked(p)']
  BY StoreCalls
<1>2. Asked(p)' = CallOf(job[p].op, job[p].vm, job[p].env, st, r)
  BY DEF Asked, CallOf, UnderWay, StageOf
<1>3. Asked(p)' = [Asked(p) EXCEPT !.stage = st, !.result = r]
  <2>1. PICK op, u, env, stage, result :
            Asked(p) = CallOf(op, u, env, stage, result) /\ Asked(p)' = CallOf(op, u, env, st, r)
    BY <1>2 DEF Asked, CallOf
  <2>2. [CallOf(op, u, env, stage, result) EXCEPT !.stage = st, !.result = r]
        = CallOf(op, u, env, st, r)
    <3>1. [CallOf(op, u, env, stage, result) EXCEPT !.stage = st] = CallOf(op, u, env, st, result)
      BY DEF CallOf
    <3>2. [CallOf(op, u, env, st, result) EXCEPT !.result = r] = CallOf(op, u, env, st, r)
      BY DEF CallOf
    <3>3. \A c : [c EXCEPT !.stage = st, !.result = r] = [[c EXCEPT !.stage = st] EXCEPT !.result = r]
      OBVIOUS
    <3>. QED BY <3>1, <3>2, <3>3
  <2>. QED BY <2>1, <2>2
<1>4. Calls' = [Calls EXCEPT ![p].stage = st, ![p].result = r]
  BY <1>1, <1>3 DEF Calls
<1>. QED BY <1>4 DEF Store!Answer, Calls, Asked

\* The moment of a Write is its last step.
LEMMA WriteMaps ==
    ASSUME BothInv, BothInv', SeenInv, Remember, NEW p \in Proc, WriteGoes(p)
    PROVE  SeenInv' /\ (Store!Next \/ UNCHANGED <<file, Calls>>)
<1>0. PICK v \in VM, env \in Setting \cup {None} : v = job[p].vm /\ env = job[p].env
  BY VMHere, Here DEF WriteGoes, UnderWay, BothInv, Job
<1>. DEFINE e == json'[v]
<1>1. v \in VM /\ StepOn(p, v) /\ TypeOK /\ pc[p] # "idle"
  BY <1>0 DEF WriteGoes, UnderWay, StepOn, BothInv, TypeOK
<1>2. e \in {json[v], Torn, env} /\ json[v] \in {file[v], Torn, env}
  BY <1>0, <1>1 DEF WriteGoes, SeenInv, Kept, TypeOK
<1>3. e \in {file[v], Torn, env} /\ job'[p].env = env
  BY <1>0, <1>2 DEF WriteGoes
<1>4. SeenInv'
  BY <1>1, <1>3, StoreSeen DEF WriteGoes
<1>5. CASE UnderWay(p)'
  <2>1. WritesOn(p, v)'
    BY <1>0, <1>5 DEF WritesOn, WriteGoes, UnderWay
  <2>2. file' = [file EXCEPT ![v] = file[v]]
    BY <1>1, <2>1, StoreFile
  <2>3. file' = file
    BY <2>2 DEF SeenInv
  <2>4. Asked(p)' = Asked(p)
    BY <1>5, StageIs DEF Asked, WriteGoes, StageOf, UnderWay
  <2>5. Calls' = Calls
    BY <1>1, <2>4, StoreCalls DEF Calls
  <2>. QED BY <1>4, <2>3, <2>5
<1>6. CASE ~UnderWay(p)'
  <2>1. pc'[p] \in {"ok", "failed"}
    BY <1>6 DEF UnderWay, WriteGoes
  <2>2. file' = [file EXCEPT ![v] = e]
    BY <1>1, <1>6, StoreFile DEF WritesOn
  <2>3. job'[p].op = "write" /\ Locals(p)' /\ Saved(p)' /\ job'[p].vm = v
    BY <1>0 DEF WriteGoes, BothInv, FilesInv
  <2>4. Store!Asks(p, "write")
    BY AsksIs DEF WriteGoes
  <2>5. CASE pc'[p] = "ok"
    <3>1. job'[p].result = env /\ e = env
      BY <1>3, <2>3, <2>5 DEF Locals, Saved
    <3>2. Store!Answer(p, "ok", env)
      BY <1>1, <1>6, <2>5, <3>1, AnswerIs DEF WriteGoes, StageOf
    <3>3. Store!Write(p)
      BY <1>0, <2>2, <2>4, <3>1, <3>2 DEF Store!Write, Store!Stores, Store!Answer
    <3>. QED BY <1>4, <3>3 DEF Store!Next
  <2>6. CASE pc'[p] = "failed"
    <3>1. job'[p].result = None
      BY <2>3, <2>6 DEF Locals
    <3>2. Store!Answer(p, "failed", None)
      BY <1>1, <1>6, <2>6, <3>1, AnswerIs DEF WriteGoes, StageOf
    <3>3. Store!Interrupt(p)
      BY <1>0, <1>3, <2>2 DEF Store!Interrupt, Store!Stores
    <3>4. Store!Write(p)
      BY <1>0, <2>4, <3>2, <3>3 DEF Store!Write
    <3>. QED BY <1>4, <3>4 DEF Store!Next
  <2>. QED BY <2>1, <2>5, <2>6
<1>. QED BY <1>5, <1>6


\* Read and Delete are one step each, of the file that is there.
LEMMA ReadMaps ==
    ASSUME BothInv, BothInv', SeenInv, Remember, NEW p \in Proc, Read(p)
    PROVE  SeenInv' /\ Store!Next
<1>1. PICK v \in VM, e \in Setting \cup {Absent, Torn} : v = job[p].vm /\ e = json[v]
  BY VMHere DEF Read, BothInv, TypeOK
<1>2. TypeOK /\ Locals(p) /\ job[p] \in Job /\ pc[p] = "read" /\ UNCHANGED json /\ Alone
  BY Here DEF Read, BothInv, FilesInv
<1>3. PICK next \in {"ok", "failed"}, r \in Setting \cup {None} :
          /\ Goto(p, next, [job[p] EXCEPT !.result = r])
          /\ next = "ok" => e \in Setting /\ r = e
          /\ next = "failed" => r = None
  <2>1. CASE Goto(p, "failed", job[p])
    <3>1. job[p].result = None
      BY <1>2 DEF Locals
    <3>2. [job[p] EXCEPT !.result = None] = job[p]
      BY <1>2, <3>1 DEF Job
    <3>. QED BY <2>1, <3>2
  <2>2. CASE Goto(p, "ok", [job[p] EXCEPT !.result = e]) /\ e \in Setting
    BY <2>2
  <2>. QED BY <1>1, <2>1, <2>2 DEF Read
<1>4. /\ pc'[p] = next /\ job'[p].op = job[p].op /\ job'[p].vm = v /\ job'[p].env = job[p].env
      /\ job'[p].result = r /\ StepOn(p, v) /\ UnderWay(p) /\ ~UnderWay(p)' /\ StageOf(pc'[p]) = next
  <2>1. /\ pc'[p] = next /\ job'[p] = [job[p] EXCEPT !.result = r]
        /\ \A q \in Proc \ {p} : pc'[q] = pc[q] /\ job'[q] = job[q]
    BY <1>2, <1>3, GotoIs
  <2>2. /\ job'[p].op = job[p].op /\ job'[p].vm = v /\ job'[p].env = job[p].env
        /\ job'[p].result = r
    BY <1>1, <1>2, <2>1, SetResult
  <2>. QED BY <1>1, <1>2, <2>1, <2>2 DEF StepOn, UnderWay, StageOf
<1>5. file[v] = e
  BY <1>1, <1>2, <1>4, OthersAway DEF SeenInv, Writing, Locals
<1>6. SeenInv' /\ file' = [file EXCEPT ![v] = json'[v]]
  BY <1>4, StoreSeen, StoreFile DEF WritesOn
<1>7. UNCHANGED file
  BY <1>1, <1>2, <1>5, <1>6 DEF SeenInv
<1>8. Store!Answer(p, next, r)
  BY <1>1, <1>4, AnswerIs
<1>9. Store!Asks(p, "read")
  BY <1>2, <1>4, AsksIs DEF Locals
<1>10. Store!Read(p)
  BY <1>1, <1>3, <1>5, <1>7, <1>8, <1>9 DEF Store!Read, Store!Answer
<1>. QED BY <1>6, <1>10 DEF Store!Next

LEMMA DeleteMaps ==
    ASSUME BothInv, BothInv', SeenInv, Remember, NEW p \in Proc, Delete(p)
    PROVE  SeenInv' /\ Store!Next
<1>1. PICK v \in VM : v = job[p].vm
  BY VMHere DEF Delete, BothInv
<1>2. TypeOK /\ Locals(p) /\ job[p] \in Job /\ pc[p] = "delete" /\ job[p].result = None
  BY Here DEF Delete, BothInv, FilesInv, Locals
<1>3. PICK next \in {"ok", "failed"} :
          /\ Goto(p, next, job[p])
          /\ next = "ok" => json' = [json EXCEPT ![v] = Absent]
          /\ next = "failed" => json' = json
  BY <1>1 DEF Delete
<1>4. /\ pc'[p] = next /\ job'[p] = job[p] /\ UnderWay(p) /\ ~UnderWay(p)' /\ StageOf(pc'[p]) = next
      /\ StepOn(p, v)
  BY <1>1, <1>2, <1>3, GotoIs DEF StepOn, UnderWay, StageOf, TypeOK
<1>5. file[v] = json[v]
  BY <1>1, <1>2, <1>4, OthersAway DEF SeenInv, Writing, Locals
<1>6. SeenInv' /\ file' = [file EXCEPT ![v] = json'[v]]
  BY <1>4, StoreSeen, StoreFile DEF WritesOn
<1>7. Store!Answer(p, next, None) /\ Store!Asks(p, "delete")
  BY <1>2, <1>4, AnswerIs, AsksIs DEF Locals
<1>8. CASE next = "ok"
  <2>1. file' = [file EXCEPT ![v] = Absent]
    BY <1>2, <1>3, <1>6, <1>8 DEF TypeOK
  <2>. QED BY <1>1, <1>6, <1>7, <1>8, <2>1 DEF Store!Next, Store!Delete, Store!Stores
<1>9. CASE next = "failed"
  <2>1. UNCHANGED file
    BY <1>3, <1>5, <1>6, <1>9 DEF SeenInv
  <2>. QED BY <1>6, <1>7, <1>9, <2>1 DEF Store!Next, Store!Delete
<1>. QED BY <1>8, <1>9

LEMMA CallMaps ==
    ASSUME BothInv, BothInv', SeenInv, Remember, NEW p \in Proc, Call(p)
    PROVE  SeenInv' /\ Store!Next
<1>1. PICK op \in {"write", "read", "delete"}, v \in VM, e \in Setting :
          /\ \A q \in Proc : job[q].vm # v
          /\ Goto(p, IF op = "write" THEN "probe" ELSE op,
                  [NoJob EXCEPT !.op = op, !.vm = v, !.env = IF op = "write" THEN e ELSE None])
  BY DEF Call
<1>2. PICK env : env = IF op = "write" THEN e ELSE None
  OBVIOUS
<1>3. TypeOK /\ pc[p] = "idle" /\ UNCHANGED json /\ job[p].vm = None
  BY Here DEF Call, BothInv, JobOK
<1>4. /\ job'[p].op = op /\ job'[p].vm = v /\ job'[p].env = env
      /\ UnderWay(p)' /\ StageOf(pc'[p]) = "asked" /\ pc'[p] # "idle" /\ StepOn(p, v)
  <2>1. PICK next \in {"probe", "read", "delete"} :
            /\ pc'[p] = next /\ job'[p] = [NoJob EXCEPT !.op = op, !.vm = v, !.env = env]
            /\ \A q \in Proc \ {p} : pc'[q] = pc[q] /\ job'[q] = job[q]
    BY <1>1, <1>2, <1>3, GotoIs
  <2>2. /\ job'[p].op = op /\ job'[p].vm = v /\ job'[p].env = env
    BY <2>1 DEF NoJob
  <2>. QED BY <1>3, <2>1, <2>2 DEF StepOn, UnderWay, StageOf
<1>5. file[v] = json[v] /\ file' \in [VM -> Setting \cup {Absent, Torn}]
  BY <1>1, <1>4, StoreFile DEF SeenInv, Writing
<1>6. file' = [file EXCEPT ![v] = file[v]]
  BY <1>3, <1>4, <1>5, StoreFile
<1>7. UNCHANGED file /\ SeenInv'
  BY <1>3, <1>4, <1>5, <1>6, StoreSeen DEF SeenInv
<1>8. Asked(p)' = CallOf(op, v, env, "asked", None)
  BY <1>4 DEF Asked, CallOf, UnderWay, StageOf
<1>9. Calls' = [Calls EXCEPT ![p] = CallOf(op, v, env, "asked", None)]
  BY <1>4, <1>8, StoreCalls
<1>10. Calls[p] = Store!Idle
  BY <1>3 DEF SeenInv, Calls, Asked, NoJob, UnderWay, StageOf, Store!Idle
<1>11. \A q \in Proc : Calls[q].vm # v
  BY <1>1 DEF Calls, Asked
<1>12. Store!Ask(p)
  BY <1>2, <1>7, <1>9, <1>10, <1>11 DEF Store!Ask, Calls, Asked, CallOf
<1>. QED BY <1>7, <1>12 DEF Store!Next


\* What is left of a call that ends, by its answer or with its process.
LEMMA EndMaps ==
    ASSUME BothInv, BothInv', SeenInv, Remember, NEW p \in Proc, Reply(p) \/ Crash(p)
    PROVE  SeenInv' /\ Store!Next
<1>1. PICK v \in VM, env \in Setting \cup {None} : v = job[p].vm /\ env = job[p].env
  BY VMHere, Here DEF Reply, Crash, BothInv, Job
<1>2. /\ TypeOK /\ pc[p] # "idle" /\ UNCHANGED json /\ pc'[p] = "idle" /\ job'[p] = NoJob
      /\ \A q \in Proc \ {p} : pc'[q] = pc[q] /\ job'[q] = job[q]
      /\ NoJob.vm = None
  BY DEF Reply, Crash, End, BothInv, TypeOK, NoJob
<1>3. StepOn(p, v) /\ ~WritesOn(p, v)'
  BY <1>1, <1>2 DEF StepOn, WritesOn, UnderWay
<1>4. SeenInv' /\ file' = [file EXCEPT ![v] = json[v]]
  BY <1>2, <1>3, StoreSeen, StoreFile
<1>5. Asked(p)' = Store!Idle
  BY <1>2 DEF Asked, NoJob, UnderWay, StageOf, Store!Idle
<1>6. Calls' = [Calls EXCEPT ![p] = Store!Idle]
  BY <1>3, <1>5, StoreCalls
<1>7. ASSUME ~(UnderWay(p) /\ job[p].op = "write")
      PROVE  UNCHANGED file
  <2>1. ~Writing(v)
    BY <1>3, <1>7, OthersAway DEF Writing
  <2>. QED BY <1>2, <1>4, <2>1 DEF SeenInv
<1>8. CASE Reply(p)
  <2>1. pc[p] \in {"ok", "failed"} /\ UNCHANGED file
    BY <1>7, <1>8 DEF Reply, UnderWay
  <2>. QED BY <1>4, <1>6, <2>1, StageIs DEF Store!Next, Store!Return, Calls, Asked
<1>9. CASE Crash(p) /\ UnderWay(p) /\ job[p].op = "write"
  <2>1. Store!Asks(p, "write")
    BY <1>9, AsksIs
  <2>2. json[v] \in {file[v], Torn, env}
    BY <1>1, <1>9 DEF SeenInv, Kept
  <2>3. Store!Interrupt(p)
    BY <1>1, <1>4, <2>2 DEF Store!Interrupt, Store!Stores
  <2>4. Calls[p] # Store!Idle
    BY <1>1 DEF Calls, Asked, Store!Idle
  <2>. QED BY <1>4, <1>6, <2>1, <2>3, <2>4 DEF Store!Next, Store!Kill, Calls, Asked
<1>10. CASE Crash(p) /\ ~(UnderWay(p) /\ job[p].op = "write")
  <2>1. UNCHANGED file
    BY <1>7, <1>10
  <2>2. ~Store!Asks(p, "write")
    BY <1>2, <1>10, StageIs DEF Store!Asks, UnderWay
  <2>3. Calls[p] # Store!Idle
    BY <1>1 DEF Calls, Asked, Store!Idle
  <2>. QED BY <1>4, <1>6, <2>1, <2>2, <2>3 DEF Store!Next, Store!Kill, Calls, Asked
<1>. QED BY <1>8, <1>9, <1>10

StoreInv == BothInv /\ SeenInv

LEMMA StoreInit == HistoryInit => StoreInv /\ Store!Init
<1>. SUFFICES ASSUME HistoryInit PROVE StoreInv /\ Store!Init
  OBVIOUS
<1>1. BothInv /\ Init /\ file = [v \in VM |-> Absent]
  BY InvInit DEF HistoryInit, Init
<1>2. \A p \in Proc : pc[p] = "idle" /\ job[p] = NoJob
  BY <1>1 DEF Init
<1>3. SeenInv
  BY <1>1, <1>2 DEF HistoryInit, SeenInv, Kept, UnderWay
<1>4. \A p \in Proc : Asked(p) = Store!Idle
  BY <1>2 DEF Asked, NoJob, UnderWay, StageOf, Store!Idle
<1>5. Calls = [p \in Proc |-> Store!Idle]
  BY <1>4 DEF Calls
<1>. QED BY <1>1, <1>3, <1>5 DEF StoreInv, Store!Init, Calls, Asked

LEMMA StoreNext ==
    ASSUME StoreInv, [HistoryNext]_<<vars, file>>
    PROVE  StoreInv' /\ (Store!Next \/ UNCHANGED <<file, Calls>>)
<1>1. BothInv /\ SeenInv /\ BothInv'
  BY InvNext DEF StoreInv, HistoryNext, vars
<1>2. CASE HistoryNext
  <2>1. PICK p \in Proc : Write(p) \/ Read(p) \/ Delete(p) \/ Call(p) \/ Reply(p) \/ Crash(p)
    BY <1>2 DEF HistoryNext, Next
  <2>. QED
    BY <1>1, <1>2, <2>1, EveryWrite, WriteMaps, ReadMaps, DeleteMaps, CallMaps, EndMaps
    DEF HistoryNext, StoreInv
<1>3. CASE UNCHANGED <<vars, file>>
  <2>1. UNCHANGED <<json, pc, job, file>>
    BY <1>3 DEF vars
  <2>2. SeenInv' /\ UNCHANGED Calls
    BY <1>1, <2>1 DEF SeenInv, Writing, Kept, UnderWay, Calls, Asked
  <2>. QED BY <1>1, <2>1, <2>2 DEF StoreInv
<1>. QED BY <1>2, <1>3

\* For all other calls each Write, Read and Delete happens at one moment, however many processes
\* share the directories and whatever fails: a Write that fails or is killed leaves the old
\* settings, the new ones or a torn file, and one that returns has stored what its image holds.
\* This is what VMLifecycle takes Write, Read and Delete for.
THEOREM ImplementsStore == HistorySpec => KeepsStore
<1>1. StoreInv /\ [HistoryNext]_<<vars, file>> => StoreInv' /\ [Store!Next]_(Store!vars)
  BY StoreNext DEF Store!vars, Calls, Asked
<1>. QED BY <1>1, StoreInit, PTL DEF HistorySpec, KeepsStore, Store!Spec

=============================================================================
