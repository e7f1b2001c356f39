------------------------ MODULE AgentFilesRefinement ------------------------
(***************************************************************************)
(* AgentFiles implements SettingsStore: the moment of a Write is its last  *)
(* step, and until then agent.json counts as what it was when the call     *)
(* began.  The history variable file remembers that; it changes no step    *)
(* of AgentFiles.                                                          *)
(***************************************************************************)
EXTENDS AgentFiles

VARIABLE file   \* file[v]: the agent.json of v, the Write under way left aside

UnderWay(p) == pc[p] \notin {"idle", "ok", "failed"}

Writing(v) == \E p \in Proc : job[p].vm = v /\ job[p].op = "write" /\ UnderWay(p)

Remember == file' = [v \in VM |-> IF Writing(v)' THEN file[v] ELSE json'[v]]

HistoryInit == Init /\ file = json
HistoryNext == Next /\ Remember
HistorySpec == HistoryInit /\ [][HistoryNext]_<<vars, file>>

-----------------------------------------------------------------------------

StageOf(at) ==
    CASE at = "idle" -> None
      [] at \in {"ok", "failed"} -> at
      [] OTHER -> "asked"

Store == INSTANCE SettingsStore WITH
    call <- [p \in Proc |-> [op |-> job[p].op, vm |-> job[p].vm, env |-> job[p].env,
                             stage |-> StageOf(pc[p]),
                             result |-> IF UnderWay(p) THEN None ELSE job[p].result]]

\* Write, Read and Delete each happen at one moment for all other calls, whatever file system
\* calls fail in between: a Write that returns an image has stored the settings in it, one that
\* fails has left the old ones, the new ones or a torn file (agentFileManager, the managers).
KeepsStore == Store!Spec
=============================================================================
