------------------------------- MODULE ToolCalls -------------------------------
(***************************************************************************)
(* The tool calls of one conversation on one file of its session: each is  *)
(* reviewed, may wait for the user, runs, and returns                      *)
(* (execution/tool/tool-registry.service.ts for the calls of a task,       *)
(* runtime/host/tool-gateway.service.ts for those of a plugin).            *)
(***************************************************************************)
EXTENDS RuntimePermission, FileFreshness

CONSTANT Asking \* the operations the permission policy asks for

ASSUME ToolConstants == Asking \subseteq Operations

vars == <<permissionVars, fileVars>>

Init == PermissionInit /\ FilesInit

\* The operations a tool requires. A command that uses the network requires a second one.
Needs(t) ==
  CASE t = "read" -> {{"file.read"}}
    [] t \in {"write", "append"} -> {{"file.write"}}
    [] t = "edit" -> {{"file.edit"}}
    [] t = "shell" -> {{"command.execute"}, {"command.execute", "network.access"}}

Reviews(c) ==
  /\ phase[c] = "out"
  /\ \E t \in Tools :
       /\ Picks(c, t)
       /\ \/ ReviewRefuses(c)
          \/ ReviewPasses(c)
          \/ \E needed \in Needs(t) : ReviewAsks(c, needed \intersect Asking)

Answers ==
  /\ \/ \E c \in Calls, d \in Decisions : Reply(c, d)
     \/ \E c \in Calls : Abort(c)
     \/ DeleteConversation
  /\ UNCHANGED fileVars

Resumes(c) == ReviewResumes(c) /\ UNCHANGED fileVars

Begins(c) ==
  /\ stage[c] = "allowed"
  /\ Starts(c)
  /\ UNCHANGED permissionVars

\* The tool works; when it is done the call returns.
Works(c) ==
  /\ FileStep(c)
  /\ IF phase'[c] = "out" THEN EndCall(c) ELSE UNCHANGED permissionVars

IsRefused(c) ==
  /\ stage[c] = "refused"
  /\ Leaves(c)
  /\ EndCall(c)
  /\ UNCHANGED <<disk, stamp, tail, previous, lost>>

EnvironmentGoes ==
  /\ ~exists
  /\ RemovesEnvironment
  /\ UNCHANGED permissionVars

Restart == PermissionRestart /\ FilesRestart

Next ==
  \/ \E c \in Calls : Reviews(c) \/ Resumes(c) \/ Begins(c) \/ Works(c) \/ IsRefused(c)
  \/ Answers
  \/ EnvironmentGoes
  \/ Restart

Spec == Init /\ [][Next]_vars
===============================================================================
