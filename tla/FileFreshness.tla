----------------------------- MODULE FileFreshness -----------------------------
(***************************************************************************)
(* One file of one session and the tool calls on it                        *)
(* (execution/runtime/runtime-file-freshness.service.ts, the read, write,  *)
(* edit and shell tools, the host backend): the file's lock, the stamp     *)
(* left by a read, and the check before a write.                           *)
(*                                                                         *)
(* Of a content only its origin counts: "known" was returned or written by *)
(* a tool of the session, "foreign" was made by a shell, "exposed" as well *)
(* but while a file tool was between two of its awaits.                    *)
(***************************************************************************)
EXTENDS SessionCalls

CONSTANT NoCall

ASSUME FileConstants == NoCall \notin Calls

VARIABLES
  disk,      \* the origin of the content, or "absent"
  stamp,     \* the remembered mtime and size: "none", "fresh" (the file's) or "stale"
  tail,      \* fileLocks: the last call in the chain of promises
  previous,  \* the call whose promise each call awaits, NoCall when it is resolved
  phase,     \* the await each call is suspended in
  tool,      \* what it does
  existed,   \* calls whose statBeforeWrite found the file
  base,      \* the content a call has read: "same" while it is the file's, then its origin
  lost       \* history: a file tool has replaced a foreign content

fileVars == <<disk, stamp, tail, previous, phase, tool, existed, base, lost>>

Tools == {"read", "write", "append", "edit", "shell"}
Writers == {"write", "append", "edit"}
Contents == {"known", "foreign", "exposed"}
Phases == {"out", "running", "reading", "queued", "holding", "statted", "checked", "based", "written"}
Locked == {"holding", "statted", "checked", "based", "written"}

\* Awaits during which a change of the file goes unnoticed by the call.
Unguarded == {"reading", "statted", "checked", "based", "written"}

FilesInit ==
  /\ disk \in {"absent", "foreign"}
  /\ stamp = "none"
  /\ tail = NoCall
  /\ previous = [c \in Calls |-> NoCall]
  /\ phase = [c \in Calls |-> "out"]
  /\ tool = [c \in Calls |-> "none"]
  /\ existed = {}
  /\ base = [c \in Calls |-> "none"]
  /\ lost = FALSE

ToPhase(c, p) == phase' = [phase EXCEPT ![c] = p]

\* The file gets another content, or goes.
Becomes(content) ==
  /\ disk' = content
  /\ stamp' = IF stamp = "fresh" THEN "stale" ELSE stamp
  /\ base' = [d \in Calls |-> IF base[d] = "same" THEN disk ELSE base[d]]

\* A call returns.
Leaves(c) ==
  /\ ToPhase(c, "out")
  /\ tool' = [tool EXCEPT ![c] = "none"]
  /\ existed' = existed \ {c}
  /\ base' = [base EXCEPT ![c] = "none"]

Picks(c, t) ==
  /\ phase[c] = "out"
  /\ tool' = [tool EXCEPT ![c] = t]
  /\ UNCHANGED <<disk, stamp, tail, previous, phase, existed, base, lost>>

Starts(c) ==
  /\ phase[c] = "out"
  /\ ToPhase(c, "running")
  /\ UNCHANGED <<disk, stamp, tail, previous, tool, existed, base, lost>>

(* bash: no lock, no stamp *)

ShellWrites(c) ==
  /\ phase[c] = "running" /\ tool[c] = "shell"
  /\ Becomes(IF \E d \in Calls : phase[d] \in Unguarded THEN "exposed" ELSE "foreign")
  /\ UNCHANGED <<tail, previous, phase, tool, existed, lost>>

ShellRemoves(c) ==
  /\ phase[c] = "running" /\ tool[c] = "shell"
  /\ Becomes("absent")
  /\ UNCHANGED <<tail, previous, phase, tool, existed, lost>>

ShellEnds(c) ==
  /\ phase[c] = "running" /\ tool[c] = "shell"
  /\ Leaves(c)
  /\ UNCHANGED <<disk, stamp, tail, previous, lost>>

(* read: readPathRange, then rememberRead *)

Reads(c) ==
  /\ phase[c] = "running" /\ tool[c] = "read"
  /\ IF disk = "absent"
     THEN Leaves(c) /\ UNCHANGED disk
     ELSE /\ ToPhase(c, "reading")
          /\ disk' = "known"
          /\ UNCHANGED <<tool, existed, base>>
  /\ UNCHANGED <<stamp, tail, previous, lost>>

\* rememberRead takes mtime and size when it is called.
RememberRead == stamp' = IF disk = "absent" THEN stamp ELSE "fresh"

RemembersRead(c) ==
  /\ phase[c] = "reading"
  /\ RememberRead
  /\ Leaves(c)
  /\ UNCHANGED <<disk, tail, previous, lost>>

(* withFileLock *)

Enqueues(c) ==
  /\ phase[c] = "running" /\ tool[c] \in Writers
  /\ previous' = [previous EXCEPT ![c] = tail]
  /\ tail' = c
  /\ ToPhase(c, "queued")
  /\ UNCHANGED <<disk, stamp, tool, existed, base, lost>>

Acquires(c) ==
  /\ phase[c] = "queued"
  /\ previous[c] = NoCall
  /\ ToPhase(c, "holding")
  /\ UNCHANGED <<disk, stamp, tail, previous, tool, existed, base, lost>>

\* Fault: the chain is forgotten though other calls wait in it.
ReleasesForgetting(c) ==
  /\ tail' = NoCall
  /\ previous' = [d \in Calls |-> IF previous[d] = c THEN NoCall ELSE previous[d]]

\* The finally of withFileLock.
Releases(c) ==
  /\ tail' = IF tail = c THEN NoCall ELSE tail
  /\ previous' = [d \in Calls |-> IF previous[d] = c THEN NoCall ELSE previous[d]]

(* withWriteFreshnessGuard *)

StatsBeforeWrite(c) ==
  /\ phase[c] = "holding"
  /\ existed' = IF disk = "absent" THEN existed ELSE existed \union {c}
  /\ ToPhase(c, "statted")
  /\ UNCHANGED <<disk, stamp, tail, previous, tool, base, lost>>

\* assertCanWrite
CanWrite == disk = "absent" \/ stamp = "fresh"

Checks(c) ==
  /\ phase[c] = "statted"
  /\ IF tool[c] = "append" \/ CanWrite
     THEN ToPhase(c, "checked") /\ UNCHANGED <<tail, previous, tool, existed, base>>
     ELSE Releases(c) /\ Leaves(c)
  /\ UNCHANGED <<disk, stamp, lost>>

\* The content an edit replaces in, an append extends, and the diff starts from.
ReadsBase(c) ==
  /\ phase[c] = "checked"
  /\ base' = [base EXCEPT ![c] = "same"]
  /\ ToPhase(c, "based")
  /\ UNCHANGED <<disk, stamp, tail, previous, tool, existed, lost>>

\* Fault: an error of the write leaves the promise of the lock unresolved.
WriteFailsLocked(c) ==
  /\ phase[c] = "based"
  /\ Leaves(c)
  /\ UNCHANGED <<disk, stamp, tail, previous, lost>>

\* The text to replace is missing or ambiguous, or the directory is gone.
WriteFails(c) ==
  /\ phase[c] = "based"
  /\ Releases(c)
  /\ Leaves(c)
  /\ UNCHANGED <<disk, stamp, lost>>

\* A new text is the session's own; one made from a base is known as far as the base was, and
\* comes from the await in which a shell changed the file under it.
Origin(c) ==
  CASE tool[c] = "write" \/ base[c] = "absent" -> "known"
    [] tool[c] # "write" /\ base[c] = "same" -> IF disk = "absent" THEN "known" ELSE disk
    [] tool[c] # "write" /\ base[c] \in Contents -> IF base[c] = "known" THEN "known" ELSE "exposed"

Writes(c) ==
  /\ phase[c] = "based"
  /\ Becomes(Origin(c))
  /\ lost' = (lost \/ (disk = "foreign" /\ ~(tool[c] # "write" /\ base[c] = "same")))
  /\ ToPhase(c, "written")
  /\ UNCHANGED <<tail, previous, tool, existed>>

\* Fault: an append stamps a file it has not read.
RemembersAnyWrite(c) ==
  /\ phase[c] = "written"
  /\ RememberRead
  /\ Releases(c)
  /\ Leaves(c)
  /\ UNCHANGED <<disk, lost>>

\* rememberRead after the write, unless an append found the file, and the end of the lock.
RemembersWrite(c) ==
  /\ phase[c] = "written"
  /\ IF tool[c] # "append" \/ c \notin existed THEN RememberRead ELSE UNCHANGED stamp
  /\ Releases(c)
  /\ Leaves(c)
  /\ UNCHANGED <<disk, lost>>

\* deleteSessionEnvironment
RemovesEnvironment ==
  /\ Becomes("absent")
  /\ UNCHANGED <<tail, previous, phase, tool, existed, lost>>

\* A crash or a redeployment: the file and what the model was shown remain.
FilesRestart ==
  /\ stamp' = "none" /\ tail' = NoCall
  /\ previous' = [c \in Calls |-> NoCall]
  /\ phase' = [c \in Calls |-> "out"]
  /\ tool' = [c \in Calls |-> "none"]
  /\ existed' = {}
  /\ base' = [c \in Calls |-> "none"]
  /\ UNCHANGED <<disk, lost>>

FileStep(c) ==
  \/ ShellWrites(c) \/ ShellRemoves(c) \/ ShellEnds(c)
  \/ Reads(c) \/ RemembersRead(c)
  \/ Enqueues(c) \/ Acquires(c) \/ StatsBeforeWrite(c) \/ Checks(c)
  \/ ReadsBase(c) \/ WriteFails(c) \/ Writes(c) \/ RemembersWrite(c)
===============================================================================
