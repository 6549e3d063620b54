------------------------------ MODULE ErrGroup ------------------------------
(***************************************************************************)
(* A group of goroutines with the first error and a context it cancels     *)
(* (pkg/sync/errgroup), as the actions its users are composed of.  An      *)
(* error is known by the task that returned it.                            *)
(***************************************************************************)
EXTENDS Integers, FiniteSets

CONSTANTS
  Tasks,      \* the functions given to Go
  Nil,        \* no error, no cause
  Cancelled   \* context.Canceled, the cause where there was no error

VARIABLES
  stage,    \* where each task is
  err,      \* Group.err
  cause,    \* the cause of the context's end, Nil while it lasts
  failures  \* history: the tasks that returned an error

group == <<stage, err, cause, failures>>

GroupTypeOK ==
  /\ stage \in [Tasks -> {"unborn", "running", "failed", "cancelling", "over"}]
  /\ err \in Tasks \union {Nil}
  /\ cause \in Tasks \union {Nil, Cancelled}
  /\ failures \subseteq Tasks

GroupInit ==
  /\ stage = [t \in Tasks |-> "unborn"]
  /\ err = Nil /\ cause = Nil /\ failures = {}

Becomes(t, s) == stage' = [stage EXCEPT ![t] = s]

Go(t) ==
  /\ stage[t] = "unborn" /\ Becomes(t, "running")
  /\ UNCHANGED <<err, cause, failures>>

Succeed(t) ==
  /\ stage[t] = "running" /\ Becomes(t, "over")
  /\ UNCHANGED <<err, cause, failures>>

Fail(t) ==
  /\ stage[t] = "running" /\ Becomes(t, "failed")
  /\ failures' = failures \union {t}
  /\ UNCHANGED <<err, cause>>

\* Fault: the error is kept without errOnce.
RecordEach(t) ==
  /\ stage[t] = "failed" /\ Becomes(t, "cancelling")
  /\ err' = t
  /\ UNCHANGED <<cause, failures>>

\* The first to come to errOnce keeps its error, and cancels before it leaves.
Record(t) ==
  /\ stage[t] = "failed" /\ err = Nil /\ Becomes(t, "cancelling")
  /\ err' = t
  /\ UNCHANGED <<cause, failures>>

Ended(reason) == cause' = IF cause = Nil THEN reason ELSE cause

Cancel(t) ==
  /\ stage[t] = "cancelling" /\ Becomes(t, "over")
  /\ Ended(err)
  /\ UNCHANGED <<err, failures>>

\* The others wait until errOnce is done, and leave.
ComeLate(t) ==
  /\ stage[t] = "failed" /\ err # Nil /\ stage[err] = "over"
  /\ Becomes(t, "over")
  /\ UNCHANGED <<err, cause, failures>>

\* The wait group's counter is zero.
AllOver == \A t \in Tasks : stage[t] \in {"unborn", "over"}

\* Wait returns err; the context has ended with it.
Wait ==
  /\ AllOver
  /\ Ended(IF err = Nil THEN Cancelled ELSE err)
  /\ UNCHANGED <<stage, err, failures>>

Leave(t) == Record(t) \/ Cancel(t) \/ ComeLate(t)
=============================================================================
