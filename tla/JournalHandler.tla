--------------------------- MODULE JournalHandler ---------------------------
(***************************************************************************)
(* The handler between slog and the journal                                *)
(* (pkg/log/handler/journal_handler).  Handle leaves the priority of a     *)
(* record in a variable, and Write, which the encoder calls, reads it      *)
(* there.  WithAttrs and WithGroup derive handlers that share the variable *)
(* and the lock.                                                           *)
(***************************************************************************)
CONSTANTS
  Records,  \* records logged at once, each by a handler of its own
  None      \* no entry

Levels == {"debug", "info", "warn", "error", "custom"}
Priorities == {"debug", "info", "warning", "err"}

VARIABLES
  level,    \* the level of each record
  pc,       \* where its Handle is
  current,  \* the priority in the variable they share
  entry     \* the priority each record's entry was sent with

vars == <<level, pc, current, entry>>

TypeOK ==
  /\ level \in [Records -> Levels]
  /\ pc \in [Records -> {"start", "locked", "encoding", "leaving", "done"}]
  /\ current \in Priorities
  /\ entry \in [Records -> Priorities \union {None}]

Init ==
  /\ level \in [Records -> Levels]
  /\ pc = [r \in Records |-> "start"]
  /\ current = "info"
  /\ entry = [r \in Records |-> None]

PriorityOf(l) ==
  CASE l = "debug" -> "debug" [] l = "warn" -> "warning" [] l = "error" -> "err"
    [] OTHER -> "info"

Goto(r, stage) == pc' = [pc EXCEPT ![r] = stage]

\* Fault: a derived handler has a lock of its own.
LockOwn(r) ==
  /\ pc[r] = "start" /\ Goto(r, "locked")
  /\ UNCHANGED <<level, current, entry>>

Lock(r) ==
  /\ pc[r] = "start" /\ \A q \in Records : pc[q] \in {"start", "done"}
  /\ Goto(r, "locked")
  /\ UNCHANGED <<level, current, entry>>

SetPriority(r) ==
  /\ pc[r] = "locked" /\ Goto(r, "encoding")
  /\ current' = PriorityOf(level[r])
  /\ UNCHANGED <<level, entry>>

\* The encoder writes what it encoded, and the entry is sent or is not.
Write(r) ==
  /\ pc[r] = "encoding" /\ Goto(r, "leaving")
  /\ entry' \in {entry, [entry EXCEPT ![r] = current]}
  /\ UNCHANGED <<level, current>>

Unlock(r) ==
  /\ pc[r] = "leaving" /\ Goto(r, "done")
  /\ UNCHANGED <<level, current, entry>>

Next == \E r \in Records : Lock(r) \/ SetPriority(r) \/ Write(r) \/ Unlock(r)

Spec == Init /\ [][Next]_vars

\* Goroutines run, and the encoder and the journal return.
Fairness == WF_vars(Next)

----------------------------------------------------------------------------
(* Properties *)

\* "concurrent records cannot take each other's priority": whatever handlers they
\* are logged with, an entry has the priority of its own record's level, and a level
\* of the program's own is information.
EntriesKeepPriority ==
  \A r \in Records : entry[r] # None => entry[r] = PriorityOf(level[r])

EveryRecordReturns == \A r \in Records : <>(pc[r] = "done")
=============================================================================
