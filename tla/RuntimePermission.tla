--------------------------- MODULE RuntimePermission ---------------------------
(***************************************************************************)
(* The permission questions of one conversation                            *)
(* (execution/runtime/runtime-tool-permission.service.ts): a tool call is  *)
(* reviewed, waits for the user's answer or for the abort of its task, and *)
(* is then allowed or refused; "always" is kept with the conversation.     *)
(***************************************************************************)
EXTENDS SessionCalls

CONSTANTS
  Signalled,   \* those of a task: the registry passes its abort signal; the host API passes none
  Operations   \* backend kind and operation, the key of an approval

ASSUME PermissionConstants == Signalled \subseteq Calls

VARIABLES
  exists,     \* the conversation is in the store
  stored,     \* runtimePermissionApprovals of the stored conversation
  loaded,     \* approvals has an entry for the conversation
  approvals,  \* that entry
  stage,      \* where each call is in review
  asks,       \* the operations its request asks for
  decision,   \* the answer its review will resume with
  pending,    \* pendingRequests
  listening,  \* calls with an abort listener
  aborted,    \* calls whose signal is aborted
  told        \* the last event the conversation's listeners got about the call

permissionVars == <<exists, stored, loaded, approvals, stage, asks, decision, pending,
                    listening, aborted, told>>

Stages == {"idle", "waiting", "decided", "allowed", "refused"}
Decisions == {"once", "always", "reject"}
Events == {"none", "request", "approved", "rejected"}

PermissionInit ==
  /\ exists = TRUE
  /\ stored = {} /\ loaded = FALSE /\ approvals = {}
  /\ stage = [c \in Calls |-> "idle"]
  /\ asks = [c \in Calls |-> {}]
  /\ decision = [c \in Calls |-> "none"]
  /\ pending = {} /\ listening = {} /\ aborted = {}
  /\ told = [c \in Calls |-> "none"]

\* readApprovalSet: the cached set, loaded from the conversation when it is missing.
ApprovalSet == IF loaded THEN approvals ELSE stored
ReadsApprovalSet == loaded' = TRUE /\ approvals' = ApprovalSet

ToStage(c, s) == stage' = [stage EXCEPT ![c] = s]
Tell(c, event) == told' = [told EXCEPT ![c] = event]

(* review *)

\* A denied or unsupported capability, or a conversation that is neither cached nor stored.
ReviewRefuses(c) ==
  /\ stage[c] = "idle"
  /\ ToStage(c, "refused")
  /\ UNCHANGED <<exists, stored, loaded, approvals, asks, decision, pending, listening, aborted, told>>

\* "yolo", a subagent's conversation, or a policy that asks for nothing.
ReviewPasses(c) ==
  /\ stage[c] = "idle"
  /\ ToStage(c, "allowed")
  /\ UNCHANGED <<exists, stored, loaded, approvals, asks, decision, pending, listening, aborted, told>>

\* The policy asks for operations, of which those that are not approved yet need an answer.
ReviewAsks(c, operations) ==
  /\ stage[c] = "idle"
  /\ loaded \/ exists
  /\ ReadsApprovalSet
  /\ LET open == operations \ ApprovalSet
     IN \/ /\ open = {}
           /\ ToStage(c, "allowed")
           /\ UNCHANGED <<asks, pending, listening, told>>
        \/ /\ open # {} /\ c \in aborted
           /\ ToStage(c, "refused")
           /\ Tell(c, "rejected")
           /\ UNCHANGED <<asks, pending, listening>>
        \/ /\ open # {} /\ c \notin aborted
           /\ ToStage(c, "waiting")
           /\ asks' = [asks EXCEPT ![c] = open]
           /\ pending' = pending \union {c}
           /\ listening' = IF c \in Signalled THEN listening \union {c} ELSE listening
           /\ Tell(c, "request")
  /\ UNCHANGED <<exists, stored, decision, aborted>>

(* reply, and the continuation of review *)

ReviewIsOver(c) ==
  /\ asks' = [asks EXCEPT ![c] = {}]
  /\ decision' = [decision EXCEPT ![c] = "none"]

\* Fault: reply leaves the abort listener attached.
ReplyKeepsListener(c, d) ==
  /\ exists
  /\ c \in pending
  /\ pending' = pending \ {c}
  /\ Tell(c, IF d = "reject" THEN "rejected" ELSE "approved")
  /\ decision' = [decision EXCEPT ![c] = d]
  /\ ToStage(c, "decided")
  /\ UNCHANGED <<exists, stored, loaded, approvals, asks, listening, aborted>>

Reply(c, d) ==
  /\ exists
  /\ c \in pending
  /\ pending' = pending \ {c}
  /\ listening' = listening \ {c}
  /\ Tell(c, IF d = "reject" THEN "rejected" ELSE "approved")
  /\ decision' = [decision EXCEPT ![c] = d]
  /\ ToStage(c, "decided")
  /\ UNCHANGED <<exists, stored, loaded, approvals, asks, aborted>>

\* Fault: "always" is kept in memory only.
ReviewResumesUnsaved(c) ==
  /\ stage[c] = "decided"
  /\ approvals' = IF decision[c] = "always" THEN approvals \union asks[c] ELSE approvals
  /\ ToStage(c, IF decision[c] = "reject" THEN "refused" ELSE "allowed")
  /\ ReviewIsOver(c)
  /\ UNCHANGED <<exists, stored, loaded, pending, listening, aborted, told>>

\* Fault: the rejection is not looked at.
ReviewResumesAnyway(c) ==
  /\ stage[c] = "decided"
  /\ LET kept == IF decision[c] = "always" THEN asks[c] ELSE {}
     IN approvals' = approvals \union kept /\ stored' = stored \union kept
  /\ ToStage(c, "allowed")
  /\ ReviewIsOver(c)
  /\ UNCHANGED <<exists, loaded, pending, listening, aborted, told>>

\* "always" is marked operation by operation; saving the first one fails when the conversation is gone.
ReviewResumes(c) ==
  /\ stage[c] = "decided"
  /\ \/ /\ decision[c] = "always" /\ exists
        /\ approvals' = approvals \union asks[c]
        /\ stored' = stored \union asks[c]
        /\ ToStage(c, "allowed")
     \/ /\ decision[c] = "always" /\ ~exists
        /\ \E o \in asks[c] : approvals' = approvals \union {o}
        /\ UNCHANGED stored
        /\ ToStage(c, "refused")
     \/ /\ decision[c] # "always"
        /\ ToStage(c, IF decision[c] = "reject" THEN "refused" ELSE "allowed")
        /\ UNCHANGED <<approvals, stored>>
  /\ ReviewIsOver(c)
  /\ UNCHANGED <<exists, loaded, pending, listening, aborted, told>>

\* The task of the call is stopped: rejectByAbort, if it still listens.
Abort(c) ==
  /\ c \in Signalled \ aborted
  /\ aborted' = aborted \union {c}
  /\ listening' = listening \ {c}
  /\ IF c \in listening
     THEN pending' = pending \ {c} /\ Tell(c, "rejected") /\ ToStage(c, "refused") /\ ReviewIsOver(c)
     ELSE UNCHANGED <<pending, told, stage, asks, decision>>
  /\ UNCHANGED <<exists, stored, loaded, approvals>>

\* The call has returned; the next one in its place belongs to the same task or to a new one.
EndCall(c) ==
  /\ stage[c] \in {"allowed", "refused"}
  /\ ToStage(c, "idle")
  /\ Tell(c, "none")
  /\ aborted' \in {aborted, aborted \ {c}}
  /\ UNCHANGED <<exists, stored, loaded, approvals, asks, decision, pending, listening>>

\* The store forgets the conversation. Questions and cached approvals stay where they are.
DeleteConversation ==
  /\ exists
  /\ exists' = FALSE /\ stored' = {}
  /\ UNCHANGED <<loaded, approvals, stage, asks, decision, pending, listening, aborted, told>>

\* A crash or a redeployment: the file remains.
PermissionRestart ==
  /\ loaded' = FALSE /\ approvals' = {}
  /\ stage' = [c \in Calls |-> "idle"]
  /\ asks' = [c \in Calls |-> {}]
  /\ decision' = [c \in Calls |-> "none"]
  /\ pending' = {} /\ listening' = {} /\ aborted' = {}
  /\ told' = [c \in Calls |-> "none"]
  /\ UNCHANGED <<exists, stored>>
===============================================================================
