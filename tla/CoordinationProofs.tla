-------------------------- MODULE CoordinationProofs --------------------------
(***************************************************************************)
(* The components of Coordination, each of any size: none disturbs         *)
(* another, and each does what it promises.                                *)
(*                                                                         *)
(* The first two are goroutines that wait for one another.  A cache group  *)
(* implements Memo, so that each key has one answer that every call for it *)
(* gets, and the zero value that no function returned comes of a panic in  *)
(* another call only; the first error of a group that loads files is what  *)
(* is returned and what cancels it, and endpoints are returned of every    *)
(* file, in their order, or not at all.                                    *)
(***************************************************************************)
EXTENDS Coordination, RateLimiterProofs, FiniteSetTheorems, SequenceTheorems,
        WellFoundedInduction, TLAPS

USE CacheAssumption, LoadAssumption

Tasks == 1 .. Files

USE DEF Tasks

----------------------------------------------------------------------------
(* The cache group *)

Performing == {"perform", "release", "panic"}
Released(k) == performer[k] # Nil /\ waitGroup[k] = 0

\* The performer of a key is the call that holds its wait group.
Held ==
  /\ \A c \in Calls : pc[c] \in Performing =>
       performer[key[c]] = c /\ waitGroup[key[c]] = 1
  /\ \A k \in Keys : waitGroup[k] = 1 =>
       performer[k] \in Calls /\ key[performer[k]] = k /\ pc[performer[k]] \in Performing

\* Nobody comes past the start without an entry, nor past the wait before its release.
Waited ==
  \A c \in Calls :
    /\ pc[c] # "start" => performer[key[c]] # Nil
    /\ pc[c] \in {"read", "done"} => waitGroup[key[c]] = 0
    /\ pc[c] = "done" <=> result[c] # Nil

CacheInv == Cache!TypeOK /\ Held /\ Waited

\* A released entry holds the zero value only where its performer panicked.
Caused ==
  /\ \A c \in Calls : pc[c] = "release" => stored[key[c]] # Zero
  /\ \A c \in Calls : pc[c] = "done" => result[c] = stored[key[c]]
  /\ \A k \in Keys : Released(k) /\ stored[k] = Zero =>
       performer[k] \in Calls /\ key[performer[k]] = k /\ pc[performer[k]] = "panicked"

----------------------------------------------------------------------------
\* The invariant holds at the start.
LEMMA CacheInit == Cache!Init => CacheInv
BY DEF Cache!Init, CacheInv, Cache!TypeOK, Held, Waited, Performing

\* Every step of a call keeps it.
LEMMA CacheStep ==
  ASSUME CacheInv, NEW c \in Calls,
         \/ Cache!Find(c) \/ Cache!Insert(c) \/ Cache!Perform(c) \/ Cache!Panic(c) \/ Cache!Release(c) \/ Cache!Awake(c) \/ Cache!Return(c)
  PROVE  CacheInv'
<1> USE DEF CacheInv, Cache!TypeOK, Held, Waited, Performing, Cache!Goto
<1>1. CASE Cache!Find(c)
  BY <1>1 DEF Cache!Find
<1>2. CASE Cache!Insert(c)
  BY <1>2 DEF Cache!Insert
<1>3. CASE Cache!Perform(c)
  BY <1>3 DEF Cache!Perform
<1>4. CASE Cache!Panic(c)
  BY <1>4 DEF Cache!Panic
<1>5. CASE Cache!Release(c)
  BY <1>5 DEF Cache!Release
<1>6. CASE Cache!Awake(c)
  BY <1>6 DEF Cache!Awake
<1>7. CASE Cache!Return(c)
  BY <1>7 DEF Cache!Return
<1> QED
  BY <1>1, <1>2, <1>3, <1>4, <1>5, <1>6, <1>7

\* Type correctness and the invariant, for every cache group.
THEOREM CacheInvariant == Cache!Spec => []CacheInv
<1>1. Cache!Init => CacheInv
  BY CacheInit
<1>2. CacheInv /\ [Cache!Next]_(Cache!vars) => CacheInv'
  <2> SUFFICES ASSUME CacheInv, [Cache!Next]_(Cache!vars) PROVE CacheInv'
    OBVIOUS
  <2>1. CASE Cache!Next
    BY <2>1, CacheStep DEF Cache!Next
  <2>2. CASE UNCHANGED Cache!vars
    BY <2>2 DEF CacheInv, Cache!TypeOK, Held, Waited, Performing, Cache!vars
  <2> QED
    BY <2>1, <2>2
<1> QED
  BY <1>1, <1>2, PTL DEF Cache!Spec

----------------------------------------------------------------------------
\* The entry of a call's key, by the invariant.
LEMMA StoredIsSomething == ASSUME CacheInv, NEW k \in Keys PROVE stored[k] # Nil
BY DEF CacheInv, Cache!TypeOK

\* A cache group begins as its promise does.
LEMMA InitPromise == Cache!Init => Cache!Promise!Init
BY DEF Cache!Init, Cache!Promise!Init

\* The release of an entry decides the answer of its key.
LEMMA ReleaseDecides ==
  ASSUME Cache!TypeOK, NEW k \in Keys, performer[k] # Nil, waitGroup[k] = 1,
         waitGroup' = [waitGroup EXCEPT ![k] = 0], UNCHANGED <<key, performer, stored, result>>
  PROVE  Cache!Promise!Next
<1>1. stored[k] \in Answers \union {Zero}
  BY DEF Cache!TypeOK
<1>2. \A j \in Keys : j # k => waitGroup'[j] = waitGroup[j]
  BY DEF Cache!TypeOK
<1>3. waitGroup'[k] = 0
  BY DEF Cache!TypeOK
<1>4. [j \in Keys |-> IF performer'[j] # Nil /\ waitGroup'[j] = 0 THEN stored'[j] ELSE Nil]
      = [[j \in Keys |-> IF performer[j] # Nil /\ waitGroup[j] = 0 THEN stored[j] ELSE Nil]
           EXCEPT ![k] = stored[k]]
  BY <1>2, <1>3
<1>5. Cache!Promise!Decide(k)
  <2> DEFINE shown == [j \in Keys |-> IF performer[j] # Nil /\ waitGroup[j] = 0 THEN stored[j] ELSE Nil]
  <2>1. shown[k] = Nil
    OBVIOUS
  <2>2. \E a \in Answers \union {Zero} : shown' = [shown EXCEPT ![k] = a]
    BY <1>1, <1>4, Zenon
  <2> QED
    BY <2>1, <2>2, Zenon DEF Cache!Promise!Decide
<1> QED
  BY <1>5 DEF Cache!Promise!Next

\* The release of an entry decides its key's answer, a call that returns takes it,
\* and no other step shows.
LEMMA StepPromise ==
  ASSUME CacheInv, NEW c \in Calls,
         \/ Cache!Find(c) \/ Cache!Insert(c) \/ Cache!Perform(c) \/ Cache!Panic(c) \/ Cache!Release(c) \/ Cache!Awake(c) \/ Cache!Return(c)
  PROVE  [Cache!Promise!Next]_(Cache!Promise!vars)
<1> USE DEF CacheInv, Cache!TypeOK, Held, Waited, Performing, Cache!Goto, Cache!Promise!vars
<1>1. CASE Cache!Find(c)
  BY <1>1 DEF Cache!Find
<1>2. CASE Cache!Insert(c)
  BY <1>2 DEF Cache!Insert
<1>3. CASE Cache!Perform(c)
  BY <1>3 DEF Cache!Perform
<1>4. CASE Cache!Panic(c)
  BY <1>4 DEF Cache!Panic
<1>5. CASE Cache!Release(c)
  <2>1. key[c] \in Keys /\ performer[key[c]] # Nil /\ waitGroup[key[c]] = 1
    BY <1>5 DEF Cache!Release
  <2>2. waitGroup' = [waitGroup EXCEPT ![key[c]] = 0] /\ UNCHANGED <<key, performer, stored, result>>
    BY <1>5, <2>1 DEF Cache!Release
  <2>3. Cache!Promise!Next
    BY <2>1, <2>2, ReleaseDecides
  <2> QED
    BY <2>3
<1>6. CASE Cache!Awake(c)
  BY <1>6 DEF Cache!Awake
<1>7. CASE Cache!Return(c)
  <2>1. key[c] \in Keys /\ stored[key[c]] # Nil
    BY StoredIsSomething
  <2>2. performer[key[c]] # Nil /\ waitGroup[key[c]] = 0 /\ result[c] = Nil
    BY <1>7 DEF Cache!Return
  <2>3. result' = [result EXCEPT ![c] = stored[key[c]]] /\ UNCHANGED <<key, performer, waitGroup, stored>>
    BY <1>7 DEF Cache!Return
  <2>4. Cache!Promise!Return(c)
    BY <2>1, <2>2, <2>3 DEF Cache!Promise!Return
  <2> QED
    BY <2>4 DEF Cache!Promise!Next
<1> QED
  BY <1>1, <1>2, <1>3, <1>4, <1>5, <1>6, <1>7

\* Do hands every call for a key the one answer of that key: CacheGroup implements
\* Memo.
THEOREM CacheImplementsMemo == Cache!Spec => Cache!Memoized
<1>1. Cache!Init => Cache!Promise!Init
  BY InitPromise
<1>2. CacheInv /\ [Cache!Next]_(Cache!vars) => [Cache!Promise!Next]_(Cache!Promise!vars)
  <2> SUFFICES ASSUME CacheInv, [Cache!Next]_(Cache!vars) PROVE [Cache!Promise!Next]_(Cache!Promise!vars)
    OBVIOUS
  <2>1. CASE Cache!Next
    BY <2>1, StepPromise DEF Cache!Next
  <2>2. CASE UNCHANGED Cache!vars
    BY <2>2 DEF Cache!vars, Cache!Promise!vars
  <2> QED
    BY <2>1, <2>2
<1> QED
  BY <1>1, <1>2, CacheInvariant, PTL DEF Cache!Spec, Cache!Memoized, Cache!Promise!Spec

----------------------------------------------------------------------------
\* Every step keeps the zero value's cause.
LEMMA StepCaused ==
  ASSUME CacheInv, Caused, NEW c \in Calls,
         \/ Cache!Find(c) \/ Cache!Insert(c) \/ Cache!Perform(c) \/ Cache!Panic(c) \/ Cache!Release(c) \/ Cache!Awake(c) \/ Cache!Return(c)
  PROVE  Caused'
<1> USE DEF CacheInv, Cache!TypeOK, Held, Waited, Performing, Cache!Goto, Caused, Released
<1>1. CASE Cache!Find(c)
  BY <1>1 DEF Cache!Find
<1>2. CASE Cache!Insert(c)
  BY <1>2 DEF Cache!Insert
<1>3. CASE Cache!Perform(c)
  BY <1>3 DEF Cache!Perform
<1>4. CASE Cache!Panic(c)
  BY <1>4 DEF Cache!Panic
<1>5. CASE Cache!Release(c)
  BY <1>5 DEF Cache!Release
<1>6. CASE Cache!Awake(c)
  BY <1>6 DEF Cache!Awake
<1>7. CASE Cache!Return(c)
  BY <1>7 DEF Cache!Return
<1> QED
  BY <1>1, <1>2, <1>3, <1>4, <1>5, <1>6, <1>7

\* Where a call is handed a zero value that no function returned, another call for
\* its key panicked.
THEOREM ZeroForCauseCorrect == Cache!Spec => []Cache!ZeroForCause
<1>1. Cache!Init => Caused
  BY DEF Cache!Init, Caused, Released
<1>2. CacheInv /\ Caused /\ [Cache!Next]_(Cache!vars) => Caused'
  <2> SUFFICES ASSUME CacheInv, Caused, [Cache!Next]_(Cache!vars) PROVE Caused'
    OBVIOUS
  <2>1. CASE Cache!Next
    BY <2>1, StepCaused DEF Cache!Next
  <2>2. CASE UNCHANGED Cache!vars
    BY <2>2 DEF Caused, Released, Cache!vars
  <2> QED
    BY <2>1, <2>2
<1>3. CacheInv /\ Caused => Cache!ZeroForCause
  <2> SUFFICES ASSUME CacheInv, Caused, NEW c \in Calls, result[c] = Zero
               PROVE  \E d \in Calls \ {c} : key[d] = key[c] /\ pc[d] = "panicked"
    BY DEF Cache!ZeroForCause
  <2>1. pc[c] = "done" /\ Released(key[c]) /\ stored[key[c]] = Zero
    BY DEF CacheInv, Waited, Caused, Released
  <2>2. /\ performer[key[c]] \in Calls
        /\ key[performer[key[c]]] = key[c] /\ pc[performer[key[c]]] = "panicked"
    BY <2>1 DEF CacheInv, Cache!TypeOK, Caused
  <2> QED
    BY <2>1, <2>2
<1> QED
  BY <1>1, <1>2, <1>3, CacheInvariant, PTL DEF Cache!Spec

----------------------------------------------------------------------------
(* Loading *)

\* The error is that of a failed task, which is past errOnce or alone in it.
Settled ==
  /\ err # Nil => err \in failures /\ stage[err] \in {"cancelling", "over"}
  /\ err # Nil /\ cause = Nil => stage[err] = "cancelling"
  /\ \A t \in Tasks : stage[t] = "cancelling" => err = t
  /\ \A t \in Tasks : stage[t] = "failed" => t \in failures
  /\ failures # {} /\ err = Nil => \E t \in failures : stage[t] = "failed"
  /\ cause \in Tasks => cause = err
  /\ cause = Cancelled => err = Nil /\ loader = "returned" /\ Load!AllOver

\* What is returned is settled, and nothing runs that could still unsettle it.
Answered ==
  /\ loader # "returned" => answer.kind = "none"
  /\ loader = "returned" => answer.kind \in {"walk", "error", "endpoints"}
  /\ answer.kind \in {"error", "endpoints"} => Load!AllOver /\ cause # Nil
  /\ answer.kind = "error" => err # Nil /\ answer.of = err
  /\ answer.kind = "endpoints" => err = Nil

DecisionInv == Load!TypeOK /\ Settled /\ Answered

----------------------------------------------------------------------------
\* The invariant holds at the start.
LEMMA LoadInit == Load!Init => DecisionInv
BY DEF Load!Init, Load!GroupInit, Load!NoAnswer, DecisionInv, Load!TypeOK, Load!GroupTypeOK, Settled, Answered

\* What the function does keeps it.
LEMMA LoaderDecision ==
  ASSUME DecisionInv, Load!Launch \/ Load!PassOver \/ Load!WalkFails \/ Load!EndWalk \/ Load!Finish
  PROVE  DecisionInv'
<1> USE DEF DecisionInv, Load!TypeOK, Load!GroupTypeOK, Settled, Answered, Load!AllOver, Load!walk, Load!group
<1>1. CASE Load!Launch
  <2>1. /\ loader = "walking" /\ next \in Tasks /\ cause = Nil
        /\ stage[next] = "unborn" /\ stage' = [stage EXCEPT ![next] = "running"]
        /\ next' \in 1 .. Files + 1
        /\ UNCHANGED <<err, cause, failures, source, rank, loader, loaded, answer>>
    BY <1>1 DEF Load!Launch, Load!Go, Load!Becomes
  <2> QED
    BY <2>1
<1>2. CASE Load!PassOver
  BY <1>2 DEF Load!PassOver
<1>3. CASE Load!WalkFails
  BY <1>3 DEF Load!WalkFails
<1>4. CASE Load!EndWalk
  BY <1>4 DEF Load!EndWalk
<1>5. CASE Load!Finish
  <2>1. Load!AllOver /\ loader = "waiting" /\ loader' = "returned"
    BY <1>5 DEF Load!Finish, Load!Wait
  <2>2. UNCHANGED <<stage, err, failures, source, rank, next, loaded>>
    BY <1>5 DEF Load!Finish, Load!Wait
  <2>3. cause' = IF cause = Nil THEN (IF err = Nil THEN Cancelled ELSE err) ELSE cause
    BY <1>5 DEF Load!Finish, Load!Wait, Load!Ended
  <2>4. \/ err # Nil /\ answer'.kind = "error" /\ answer'.of = err
        \/ err = Nil /\ answer'.kind = "endpoints"
    BY <1>5 DEF Load!Finish
  <2> QED
    BY <2>1, <2>2, <2>3, <2>4
<1> QED
  BY <1>1, <1>2, <1>3, <1>4, <1>5

\* What a goroutine does keeps it.
LEMMA TaskDecision ==
  ASSUME DecisionInv, NEW t \in Tasks, Load!Load(t) \/ Load!NoSmaller(t) \/ Load!Fails(t) \/ Load!Leaves(t)
  PROVE  DecisionInv'
<1> USE DEF DecisionInv, Load!TypeOK, Load!GroupTypeOK, Settled, Answered, Load!AllOver, Load!walk, Load!Becomes
<1>1. CASE Load!Load(t)
  BY <1>1 DEF Load!Load, Load!Succeed
<1>2. CASE Load!NoSmaller(t)
  BY <1>2 DEF Load!NoSmaller, Load!Succeed
<1>3. CASE Load!Fails(t)
  <2>1. /\ stage[t] = "running" /\ stage' = [stage EXCEPT ![t] = "failed"]
        /\ failures' = failures \union {t}
        /\ UNCHANGED <<err, cause, source, rank, next, loader, loaded, answer>>
    BY <1>3 DEF Load!Fails, Load!Fail
  <2>2. stage'[t] = "failed" /\ t \in failures' /\ \A u \in Tasks \ {t} : stage'[u] = stage[u]
    BY <2>1
  <2>3. Load!TypeOK'
    BY <2>1
  <2>4. Settled'
    BY <2>1, <2>2
  <2>5. Answered'
    BY <2>1, <2>2
  <2> QED
    BY <2>3, <2>4, <2>5
<1>4. CASE Load!Leaves(t)
  <2>1. CASE Load!Record(t)
    <3>1. /\ stage[t] = "failed" /\ stage' = [stage EXCEPT ![t] = "cancelling"]
          /\ err = Nil /\ err' = t
          /\ UNCHANGED <<failures, cause, source, rank, next, loader, loaded, answer>>
      BY <1>4, <2>1 DEF Load!Leaves, Load!Record
    <3>2. stage'[t] = "cancelling" /\ t \in failures /\ \A u \in Tasks \ {t} : stage'[u] = stage[u]
      BY <3>1
    <3>3. Load!TypeOK'
      BY <3>1
    <3>4. cause \notin Tasks /\ cause # Cancelled
      BY <3>1
    <3>5. Settled'
      BY <3>1, <3>2, <3>4
    <3>6. Answered'
      BY <3>1, <3>2
    <3> QED
      BY <3>3, <3>5, <3>6
  <2>2. CASE Load!Cancel(t)
    BY <1>4, <2>2 DEF Load!Leaves, Load!Cancel, Load!Ended
  <2>3. CASE Load!ComeLate(t)
    BY <1>4, <2>3 DEF Load!Leaves, Load!ComeLate
  <2> QED
    BY <1>4, <2>1, <2>2, <2>3 DEF Load!Leaves, Load!Leave
<1> QED
  BY <1>1, <1>2, <1>3, <1>4

\* Type correctness and the invariant, for any number of files.
THEOREM DecisionInvariant == Load!Spec => []DecisionInv
<1>1. Load!Init => DecisionInv
  BY LoadInit
<1>2. DecisionInv /\ [Load!Next]_(Load!vars) => DecisionInv'
  <2> SUFFICES ASSUME DecisionInv, [Load!Next]_(Load!vars) PROVE DecisionInv'
    OBVIOUS
  <2>1. CASE Load!Next
    BY <2>1, LoaderDecision, TaskDecision DEF Load!Next
  <2>2. CASE UNCHANGED Load!vars
    BY <2>2 DEF DecisionInv, Load!TypeOK, Load!GroupTypeOK, Settled, Answered, Load!AllOver, Load!vars, Load!group, Load!walk
  <2> QED
    BY <2>1, <2>2
<1> QED
  BY <1>1, <1>2, PTL DEF Load!Spec

\* The first task to fail decides the error that is returned and the cause of the
\* context's end, whatever the order the others return in.
THEOREM LoadFirstError == Load!Spec => []Load!FirstErrorDecides
<1>1. DecisionInv => Load!FirstErrorDecides
  BY DEF DecisionInv, Load!TypeOK, Load!GroupTypeOK, Settled, Answered, Load!AllOver, Load!FirstErrorDecides
<1> QED
  BY <1>1, DecisionInvariant, PTL

----------------------------------------------------------------------------
\* What was added is what succeeded, each task once; and every file was launched
\* as long as nothing failed.
Added ==
  /\ Len(loaded) = Cardinality(Load!Occurs(loaded))
  /\ \A t \in Load!Occurs(loaded) : stage[t] = "over"
  /\ source # "encodings" =>
       \A t \in Tasks \ failures : stage[t] = "over" => t \in Load!Occurs(loaded)

Launched ==
  /\ cause \notin Tasks => \A t \in Tasks : t < next => stage[t] # "unborn"
  /\ loader = "waiting" \/ answer.kind = "endpoints" => next = Files + 1

Whole == answer.kind = "endpoints" => answer.are \in Load!Sorted

WholeInv == Added /\ Launched /\ Whole

----------------------------------------------------------------------------
\* What is in a sequence after an Append.
LEMMA OccursAppend ==
  ASSUME NEW S, NEW s \in Seq(S), NEW x \in S
  PROVE  Load!Occurs(Append(s, x)) = Load!Occurs(s) \union {x}
<1>1. DOMAIN Append(s, x) = DOMAIN s \union {Len(s) + 1} /\ Append(s, x)[Len(s) + 1] = x
  OBVIOUS
<1>2. \A i \in DOMAIN s : Append(s, x)[i] = s[i]
  OBVIOUS
<1> QED
  BY <1>1, <1>2 DEF Load!Occurs

\* What was added is a set of tasks, and finite.
LEMMA OccursFinite ==
  ASSUME Load!TypeOK
  PROVE  Load!Occurs(loaded) \subseteq Tasks /\ IsFiniteSet(Load!Occurs(loaded))
<1>1. Load!Occurs(loaded) \subseteq Tasks
  BY DEF Load!TypeOK, Load!Occurs
<1>2. IsFiniteSet(Tasks)
  BY FS_Interval
<1> QED
  BY <1>1, <1>2, FS_Subset

\* The invariant holds at the start.
LEMMA WholeInit == Load!Init => WholeInv
<1> SUFFICES ASSUME Load!Init PROVE WholeInv
  OBVIOUS
<1>1. Load!Occurs(loaded) = {} /\ Len(loaded) = 0
  BY DEF Load!Init, Load!Occurs
<1>2. Cardinality({}) = 0
  BY FS_EmptySet
<1>3. Added
  BY <1>1, <1>2 DEF Load!Init, Load!GroupInit, Added
<1> QED
  BY <1>3 DEF Load!Init, Load!GroupInit, Load!NoAnswer, Launched, Whole, WholeInv

\* What the function does keeps it.
LEMMA WholeLoader ==
  ASSUME DecisionInv, WholeInv, Load!Launch \/ Load!PassOver \/ Load!WalkFails \/ Load!EndWalk \/ Load!Finish
  PROVE  WholeInv'
<1>1. Added'
  <2>1. UNCHANGED <<loaded, source, failures>>
    BY DEF Load!Launch, Load!PassOver, Load!WalkFails, Load!EndWalk, Load!Finish, Load!Go, Load!Wait, Load!group
  <2>2. \A t \in Tasks : stage[t] = "over" <=> stage'[t] = "over"
    BY DEF Load!Launch, Load!PassOver, Load!WalkFails, Load!EndWalk, Load!Finish, Load!Go, Load!Becomes, Load!Wait, Load!group,
           DecisionInv, Load!TypeOK, Load!GroupTypeOK
  <2>3. Load!Occurs(loaded') = Load!Occurs(loaded) /\ Load!Occurs(loaded) \subseteq Tasks
    BY <2>1, OccursFinite DEF DecisionInv
  <2> QED
    BY <2>1, <2>2, <2>3 DEF WholeInv, Added
<1>2. Launched' /\ Whole'
  <2> USE DEF DecisionInv, Load!TypeOK, Load!GroupTypeOK, Settled, Answered, WholeInv, Launched,
              Load!group, Load!walk
  <2>1. CASE Load!Launch
    BY <2>1 DEF Load!Launch, Load!Go, Load!Becomes, Whole
  <2>2. CASE Load!PassOver
    BY <2>2 DEF Load!PassOver, Whole
  <2>3. CASE Load!WalkFails
    BY <2>3 DEF Load!WalkFails, Whole
  <2>4. CASE Load!EndWalk
    BY <2>4 DEF Load!EndWalk, Whole
  <2>5. CASE Load!Finish
    <3>1. Launched'
      BY <2>5 DEF Load!Finish, Load!Wait, Load!Ended
    <3>2. UNCHANGED <<loaded, rank>>
      BY <2>5 DEF Load!Finish
    <3>3. answer'.kind = "error" \/ answer'.are \in Load!Sorted
      BY <2>5 DEF Load!Finish
    <3>4. Load!Sorted' = Load!Sorted
      BY <3>2 DEF Load!Sorted, Load!Occurs
    <3> QED
      BY <3>1, <3>3, <3>4 DEF Whole
  <2> QED
    BY <2>1, <2>2, <2>3, <2>4, <2>5
<1> QED
  BY <1>1, <1>2 DEF WholeInv

\* What a goroutine does keeps it: none adds anything once the function has returned.
LEMMA WholeTask ==
  ASSUME DecisionInv, WholeInv, NEW t \in Tasks,
         Load!Load(t) \/ Load!NoSmaller(t) \/ Load!Fails(t) \/ Load!Leaves(t)
  PROVE  WholeInv'
<1> DEFINE seen == Load!Occurs(loaded)
<1>1. seen \subseteq Tasks /\ IsFiniteSet(seen)
  BY OccursFinite DEF DecisionInv
<1>2. stage[t] \notin {"unborn", "over"} /\ answer.kind # "endpoints"
  BY DEF Load!Load, Load!NoSmaller, Load!Fails, Load!Leaves, Load!Succeed, Load!Fail, Load!Leave, Load!Record, Load!Cancel, Load!ComeLate,
         DecisionInv, Answered, Load!AllOver
<1>3. UNCHANGED <<answer, loader, next, source>>
  BY DEF Load!Load, Load!NoSmaller, Load!Fails, Load!Leaves, Load!walk
<1>4. \A u \in Tasks \ {t} : stage'[u] = stage[u]
  BY DEF Load!Load, Load!NoSmaller, Load!Fails, Load!Leaves, Load!Succeed, Load!Fail, Load!Leave, Load!Record, Load!Cancel, Load!ComeLate,
         Load!Becomes, DecisionInv, Load!TypeOK, Load!GroupTypeOK
<1>5. stage'[t] # "unborn"
  BY DEF Load!Load, Load!NoSmaller, Load!Fails, Load!Leaves, Load!Succeed, Load!Fail, Load!Leave, Load!Record, Load!Cancel, Load!ComeLate,
         Load!Becomes, DecisionInv, Load!TypeOK, Load!GroupTypeOK
<1>6. cause' \notin Tasks => cause \notin Tasks
  BY DEF Load!Load, Load!NoSmaller, Load!Fails, Load!Leaves, Load!Succeed, Load!Fail, Load!Leave, Load!Record, Load!Cancel, Load!ComeLate, Load!Ended
<1>7. Launched' /\ Whole'
  BY <1>2, <1>3, <1>4, <1>5, <1>6 DEF WholeInv, Launched, Whole
<1>8. Added'
  <2>1. CASE Load!Load(t)
    <3>1. /\ loaded' = Append(loaded, t) /\ stage'[t] = "over"
          /\ failures' = failures
      BY <2>1 DEF Load!Load, Load!Succeed, Load!Becomes, DecisionInv, Load!TypeOK, Load!GroupTypeOK
    <3>2. loaded \in Seq(Tasks)
      BY DEF DecisionInv, Load!TypeOK
    <3>3. Load!Occurs(loaded') = seen \union {t} /\ t \notin seen
      BY <1>2, <3>1, <3>2, OccursAppend DEF WholeInv, Added
    <3>4. Cardinality(seen \union {t}) = Cardinality(seen) + 1
      BY <1>1, <3>3, FS_AddElement
    <3>5. Len(loaded') = Len(loaded) + 1
      BY <3>1, <3>2
    <3> QED
      BY <1>1, <1>3, <1>4, <3>1, <3>3, <3>4, <3>5 DEF WholeInv, Added
  <2>2. CASE Load!NoSmaller(t)
    BY <1>1, <1>3, <1>4, <1>2, <2>2 DEF Load!NoSmaller, Load!Succeed, Load!walk, WholeInv, Added, Load!Occurs
  <2>3. CASE Load!Fails(t) \/ Load!Leaves(t)
    <3>1. UNCHANGED loaded /\ failures \subseteq failures' /\ t \in failures'
      BY <2>3 DEF Load!Fails, Load!Leaves, Load!Fail, Load!Leave, Load!Record, Load!Cancel, Load!ComeLate, Load!walk,
                  DecisionInv, Settled
    <3>2. Load!Occurs(loaded') = seen /\ t \notin seen
      BY <1>2, <3>1 DEF WholeInv, Added
    <3> QED
      BY <1>1, <1>3, <1>4, <3>1, <3>2 DEF WholeInv, Added
  <2> QED
    BY <2>1, <2>2, <2>3
<1> QED
  BY <1>7, <1>8 DEF WholeInv

\* The invariant, for any number of files.
THEOREM WholeInvariant == Load!Spec => []WholeInv
<1>1. Load!Init => WholeInv
  BY WholeInit
<1>2. DecisionInv /\ WholeInv /\ [Load!Next]_(Load!vars) => WholeInv'
  <2> SUFFICES ASSUME DecisionInv, WholeInv, [Load!Next]_(Load!vars) PROVE WholeInv'
    OBVIOUS
  <2>1. CASE Load!Next
    BY <2>1, WholeLoader, WholeTask DEF Load!Next
  <2>2. CASE UNCHANGED Load!vars
    <3>1. UNCHANGED <<stage, err, cause, failures, source, rank, next, loader, loaded, answer>>
      BY <2>2 DEF Load!vars, Load!group, Load!walk
    <3>2. Added' /\ Launched'
      <4>1. Load!Occurs(loaded') = Load!Occurs(loaded)
        BY <3>1 DEF Load!Occurs
      <4> QED
        BY <3>1, <4>1 DEF WholeInv, Added, Launched
    <3>3. Load!Sorted' = Load!Sorted
      BY <3>1 DEF Load!Sorted, Load!Occurs
    <3> QED
      BY <3>1, <3>2, <3>3 DEF WholeInv, Whole
  <2> QED
    BY <2>1, <2>2
<1> QED
  BY <1>1, <1>2, DecisionInvariant, PTL DEF Load!Spec

\* The instance counts as FiniteSets does.
LEMMA CountsAlike == \A S : Load!Cardinality(S) = Cardinality(S)
BY DEF Load!Cardinality, Cardinality

\* Endpoints come of every file, each once and in the order of their paths, or an
\* error comes; whatever order the goroutines end in.
THEOREM LoadWhole == Load!Spec => []Load!LoadedWhole
<1>1. DecisionInv /\ WholeInv => Load!LoadedWhole
  <2> SUFFICES ASSUME DecisionInv, WholeInv, answer.kind = "endpoints" PROVE Load!LoadedWhole
    BY DEF Load!LoadedWhole
  <2> DEFINE files == answer.are
  <2>1. Load!AllOver /\ err = Nil /\ failures = {} /\ cause \notin Tasks /\ next = Files + 1
    BY DEF DecisionInv, Load!TypeOK, Load!GroupTypeOK, Settled, Answered, Load!AllOver, WholeInv, Launched
  <2>2. \A t \in Tasks : stage[t] = "over"
    BY <2>1 DEF Load!AllOver, WholeInv, Launched, DecisionInv, Load!TypeOK, Load!GroupTypeOK
  <2>3. /\ files \in [DOMAIN loaded -> Load!Occurs(loaded)] /\ Load!Occurs(files) = Load!Occurs(loaded)
        /\ \A i, j \in DOMAIN files : i < j => rank[files[i]] <= rank[files[j]]
    BY DEF WholeInv, Whole, Load!Sorted
  <2>4. Len(files) = Len(loaded)
    <3>1. DOMAIN loaded = 1 .. Len(loaded) /\ Len(loaded) \in Nat
      BY DEF DecisionInv, Load!TypeOK
    <3>2. files \in Seq(Load!Occurs(loaded))
      BY <2>3, <3>1, SeqDef
    <3>3. DOMAIN files = 1 .. Len(files) /\ Len(files) \in Nat
      BY <3>2
    <3> QED
      BY <2>3, <3>1, <3>3
  <2>5. Len(files) = Cardinality(Load!Occurs(files))
    BY <2>3, <2>4 DEF WholeInv, Added
  <2>6. source # "encodings" => Load!Occurs(files) = Tasks
    BY <2>1, <2>2, <2>3, OccursFinite DEF WholeInv, Added, DecisionInv
  <2>7. Len(files) = Len(loaded) /\ Len(files) = Cardinality(Load!Occurs(files))
    BY <2>4, <2>5
  <2> QED
    BY <2>2, <2>3, <2>6, <2>7, CountsAlike DEF Load!LoadedWhole
<1> QED
  BY <1>1, DecisionInvariant, WholeInvariant, PTL

----------------------------------------------------------------------------
(* Both, among the components of Coordination *)

\* The others leave a cache group alone.
LEMMA CacheAlone == CoordinationSpec => Cache!Spec
<1>1. CoordinationInit => Cache!Init
  BY DEF CoordinationInit
<1>2. [CoordinationNext]_all => [Cache!Next]_(Cache!vars)
  BY DEF CoordinationNext, Only, all, cache, Cache!vars
<1> QED
  BY <1>1, <1>2, PTL DEF CoordinationSpec, Cache!Spec

\* The others leave a loader alone.
LEMMA LoadAlone == CoordinationSpec => Load!Spec
<1>1. CoordinationInit => Load!Init
  BY DEF CoordinationInit
<1>2. [CoordinationNext]_all => [Load!Next]_(Load!vars)
  BY DEF CoordinationNext, Only, all, load, Load!vars, Load!group, Load!walk
<1> QED
  BY <1>1, <1>2, PTL DEF CoordinationSpec, Load!Spec

\* Do hands every call for a key the one answer of that key.
THEOREM MemoizedCorrect == CoordinationSpec => Memoized
BY CacheAlone, CacheImplementsMemo, PTL DEF Memoized

\* The first task to fail decides the error that is returned and the cause of the
\* context's end, whatever the order the others return in.
THEOREM FirstErrorDecidesCorrect == CoordinationSpec => []FirstErrorDecides
<1>1. Load!FirstErrorDecides => FirstErrorDecides
  BY DEF FirstErrorDecides
<1> QED
  BY <1>1, LoadAlone, LoadFirstError, PTL

\* Endpoints come of every file, each once and in the order of their paths, or an
\* error comes; whatever order the goroutines end in.
THEOREM LoadedWholeCorrect == CoordinationSpec => []LoadedWhole
<1>1. Load!LoadedWhole => LoadedWhole
  BY DEF LoadedWhole
<1> QED
  BY <1>1, LoadAlone, LoadWhole, PTL

HIDE DEF Tasks

----------------------------------------------------------------------------
(* The rate limiter *)

\* The others leave the limiter alone.
LEMMA LimiterAlone == CoordinationSpec => Spec
<1>1. CoordinationInit => Init
  BY DEF CoordinationInit
<1>2. [CoordinationNext]_all => [Next]_vars
  BY DEF CoordinationNext, Only, all, vars
<1> QED
  BY <1>1, <1>2, PTL DEF CoordinationSpec, Spec

----------------------------------------------------------------------------
(* The journal *)

Holding(r) == recordPc[r] \notin {"start", "done"}

\* One record holds the lock, and while it is encoded the variable is its own.
JournalInv ==
  /\ Journal!TypeOK
  /\ \A r, q \in Records : Holding(r) /\ Holding(q) => r = q
  /\ \A r \in Records : recordPc[r] = "encoding" => current = Journal!PriorityOf(level[r])
  /\ Journal!EntriesKeepPriority

\* Every level has a priority.
LEMMA PriorityType == ASSUME NEW l \in Journal!Levels PROVE Journal!PriorityOf(l) \in Journal!Priorities
BY DEF Journal!Levels, Journal!Priorities, Journal!PriorityOf

\* A step of a record keeps the invariant.
LEMMA JournalStep ==
  ASSUME JournalInv, NEW r \in Records,
         Journal!Lock(r) \/ Journal!SetPriority(r) \/ Journal!Write(r) \/ Journal!Unlock(r)
  PROVE  JournalInv'
<1> USE DEF JournalInv, Journal!TypeOK, Holding, Journal!EntriesKeepPriority, Journal!Goto
<1>1. CASE Journal!Lock(r)
  BY <1>1 DEF Journal!Lock
<1>2. CASE Journal!SetPriority(r)
  BY <1>2, PriorityType DEF Journal!SetPriority
<1>3. CASE Journal!Write(r)
  <2>1. current = Journal!PriorityOf(level[r]) /\ current \in Journal!Priorities
    BY <1>3 DEF Journal!Write
  <2>2. /\ recordPc[r] = "encoding" /\ recordPc' = [recordPc EXCEPT ![r] = "leaving"]
        /\ UNCHANGED <<level, current>>
    BY <1>3 DEF Journal!Write
  <2>3. entry' = entry \/ entry' = [entry EXCEPT ![r] = current]
    BY <1>3 DEF Journal!Write
  <2> QED
    BY <2>1, <2>2, <2>3
<1>4. CASE Journal!Unlock(r)
  BY <1>4 DEF Journal!Unlock
<1> QED
  BY <1>1, <1>2, <1>3, <1>4

\* The invariant, for any number of records.
LEMMA JournalInvariant == CoordinationSpec => []JournalInv
<1> USE DEF JournalInv, Journal!TypeOK, Holding, Journal!EntriesKeepPriority
<1>1. CoordinationInit => JournalInv
  <2>1. CoordinationInit => Journal!Init
    BY DEF CoordinationInit
  <2> QED
    BY <2>1 DEF Journal!Init, Journal!Priorities
<1>2. [CoordinationNext]_all => [Journal!Next]_(Journal!vars)
  BY DEF CoordinationNext, Only, all, journal, Journal!vars
<1>3. JournalInv /\ [Journal!Next]_(Journal!vars) => JournalInv'
  BY JournalStep DEF Journal!Next, Journal!vars
<1> QED
  BY <1>1, <1>2, <1>3, PTL DEF CoordinationSpec

\* Concurrent records never take each other's priority, whatever handlers derived
\* from one another they are logged with.
THEOREM EntriesKeepPriorityCorrect == CoordinationSpec => []EntriesKeepPriority
<1>1. JournalInv => EntriesKeepPriority
  BY DEF JournalInv, EntriesKeepPriority
<1> QED
  BY <1>1, JournalInvariant, PTL

----------------------------------------------------------------------------
(* The proxy *)

InFlight(c) == clientStage[c] \in {"dialing", "piping"}

\* A connection that is over was closed first, and none is accepted or in flight
\* once serve is done.
ProxyInv ==
  /\ Proxy!TypeOK
  /\ \A c \in Clients : clientStage[c] = "over" => closed[c] /\ copying[c] = {}
  /\ \A c \in Clients : clientStage[c] = "piping" => closed[c] \/ copying[c] = Proxy!Directions
  /\ \A c \in Clients : clientStage[c] \notin {"piping", "over"} => copying[c] = {}
  /\ acceptor = "done" => \A c \in Clients : ~ InFlight(c)
  /\ main # "serving" => ~ listening
  /\ main = "returned" => acceptor = "done"

\* What happens around the proxy, and what proxy does, keeps it.
LEMMA ProxyAround ==
  ASSUME ProxyInv,
         \/ Proxy!ContextEnds \/ Proxy!CommandExits \/ Proxy!AcceptFails \/ Proxy!Drained
         \/ Proxy!Stop \/ Proxy!Return
  PROVE  ProxyInv'
<1> USE DEF ProxyInv, Proxy!TypeOK, InFlight, Proxy!proxy, Proxy!serve, Proxy!connections
<1>1. CASE Proxy!ContextEnds
  BY <1>1 DEF Proxy!ContextEnds
<1>2. CASE Proxy!CommandExits
  BY <1>2 DEF Proxy!CommandExits
<1>3. CASE Proxy!AcceptFails
  BY <1>3 DEF Proxy!AcceptFails
<1>4. CASE Proxy!Drained
  BY <1>4 DEF Proxy!Drained
<1>5. CASE Proxy!Stop
  BY <1>5 DEF Proxy!Stop
<1>6. CASE Proxy!Return
  BY <1>6 DEF Proxy!Return
<1> QED
  BY <1>1, <1>2, <1>3, <1>4, <1>5, <1>6

\* What a connection goes through keeps it.
LEMMA ProxyConnection ==
  ASSUME ProxyInv, NEW c \in Clients,
         \/ Proxy!Connect(c) \/ Proxy!End(c) \/ Proxy!Accept(c) \/ Proxy!DialFails(c)
         \/ Proxy!Dialed(c) \/ Proxy!Piped(c)
         \/ \E d \in Proxy!Directions : Proxy!CopyEnds(c, d)
  PROVE  ProxyInv'
<1> USE DEF ProxyInv, Proxy!TypeOK, InFlight, Proxy!proxy, Proxy!serve, Proxy!connections,
            Proxy!Becomes, Proxy!Close
<1>1. CASE Proxy!Connect(c)
  BY <1>1 DEF Proxy!Connect
<1>2. CASE Proxy!End(c)
  BY <1>2 DEF Proxy!End
<1>3. CASE Proxy!Accept(c)
  BY <1>3 DEF Proxy!Accept
<1>4. CASE Proxy!DialFails(c)
  BY <1>4 DEF Proxy!DialFails
<1>5. CASE Proxy!Dialed(c)
  BY <1>5 DEF Proxy!Dialed, Proxy!Directions
<1>6. CASE Proxy!Piped(c)
  BY <1>6 DEF Proxy!Piped, Proxy!Directions
<1>7. CASE \E d \in Proxy!Directions : Proxy!CopyEnds(c, d)
  <2>1. PICK d \in Proxy!Directions : Proxy!CopyEnds(c, d)
    BY <1>7
  <2> QED
    BY <2>1 DEF Proxy!CopyEnds
<1> QED
  BY <1>1, <1>2, <1>3, <1>4, <1>5, <1>6, <1>7

\* The invariant, for any number of clients.
LEMMA ProxyInvariant == CoordinationSpec => []ProxyInv
<1>1. CoordinationInit => ProxyInv
  <2>1. CoordinationInit => Proxy!Init
    BY DEF CoordinationInit
  <2> QED
    BY <2>1 DEF Proxy!Init, ProxyInv, Proxy!TypeOK, InFlight
<1>2. [CoordinationNext]_all => [Proxy!Next]_(Proxy!vars)
  BY DEF CoordinationNext, Only, all, proxy, Proxy!vars, Proxy!proxy, Proxy!serve, Proxy!connections
<1>3. ProxyInv /\ [Proxy!Next]_(Proxy!vars) => ProxyInv'
  <2> SUFFICES ASSUME ProxyInv, [Proxy!Next]_(Proxy!vars) PROVE ProxyInv'
    OBVIOUS
  <2>1. CASE Proxy!Next
    <3>1. \/ Proxy!ContextEnds \/ Proxy!CommandExits \/ Proxy!AcceptFails \/ Proxy!Drained
          \/ Proxy!Stop \/ Proxy!Return
          \/ \E c \in Clients :
               \/ Proxy!Connect(c) \/ Proxy!End(c) \/ Proxy!Accept(c) \/ Proxy!DialFails(c)
               \/ Proxy!Dialed(c) \/ Proxy!Piped(c)
               \/ \E d \in Proxy!Directions : Proxy!CopyEnds(c, d)
      BY <2>1 DEF Proxy!Next, Proxy!Step
    <3> QED
      BY <3>1, ProxyAround, ProxyConnection
  <2>2. CASE UNCHANGED Proxy!vars
    BY <2>2 DEF ProxyInv, Proxy!TypeOK, InFlight, Proxy!vars, Proxy!proxy, Proxy!serve,
                Proxy!connections
  <2> QED
    BY <2>1, <2>2
<1> QED
  BY <1>1, <1>2, <1>3, PTL DEF CoordinationSpec

\* A proxy that has returned left no connection open and copies nothing.
THEOREM NothingLeftOpenCorrect == CoordinationSpec => []NothingLeftOpen
<1>1. ProxyInv => NothingLeftOpen
  BY DEF ProxyInv, Proxy!TypeOK, InFlight, Proxy!NothingLeftOpen, NothingLeftOpen
<1> QED
  BY <1>1, ProxyInvariant, PTL

----------------------------------------------------------------------------
(* Virtual hosts *)

\* Until a mux has written nothing went to the client; the defaults are the outer
\* mux's but while the inner one has the request; and what went to the client is what
\* was written, or the end of the connection.
VhostInv ==
  /\ Vhost!TypeOK
  /\ requestPc \in {"innerFirewall", "inner"} => defaults = "inner"
  /\ requestPc \notin {"innerFirewall", "inner", "returned", "aborted"} => defaults = "outer"
  /\ requestPc \in {"firewall", "route", "innerFirewall", "inner"} =>
       written = "nobody" /\ wire = "nobody"
  /\ written # "nobody" => under = written
  /\ wire = written \/ wire = "closed"
  /\ requestPc \in {"finish", "done"} => written # "nobody"
  /\ requestPc = "done" => recorded = written
  /\ requestPc \in {"dropped", "aborted"} => wire = "closed" /\ written = "nobody"

\* The invariant holds of every request.
LEMMA VhostInvariant == CoordinationSpec => []VhostInv
<1>1. CoordinationInit => VhostInv
  <2>1. CoordinationInit => Vhost!Init
    BY DEF CoordinationInit
  <2> QED
    BY <2>1 DEF Vhost!Init, VhostInv, Vhost!TypeOK
<1>2. [CoordinationNext]_all => [Vhost!Next]_(Vhost!vars)
  BY DEF CoordinationNext, Only, all, vhost, Vhost!vars
<1>3. VhostInv /\ [Vhost!Next]_(Vhost!vars) => VhostInv'
  <2> SUFFICES ASSUME VhostInv, [Vhost!Next]_(Vhost!vars) PROVE VhostInv'
    OBVIOUS
  <2> USE DEF VhostInv, Vhost!TypeOK, Vhost!WriteHeader
  <2>1. CASE Vhost!Accept \/ Vhost!Reject \/ Vhost!HijackFails \/ Vhost!Drop
    BY <2>1 DEF Vhost!Accept, Vhost!Reject, Vhost!HijackFails, Vhost!Drop
  <2>2. CASE Vhost!RouteNowhere \/ Vhost!RouteInside \/ Vhost!InnerPasses
    BY <2>2 DEF Vhost!RouteNowhere, Vhost!RouteInside, Vhost!InnerPasses
  <2>3. CASE Vhost!InnerDrops \/ Vhost!InnerAnswers \/ Vhost!Return
    BY <2>3 DEF Vhost!InnerDrops, Vhost!InnerAnswers, Vhost!Return
  <2>4. CASE Vhost!Write \/ Vhost!DoneCallback
    BY <2>4 DEF Vhost!Write, Vhost!DoneCallback
  <2>5. CASE UNCHANGED Vhost!vars
    BY <2>5 DEF Vhost!vars
  <2> QED
    BY <2>1, <2>2, <2>3, <2>4, <2>5 DEF Vhost!Next
<1> QED
  BY <1>1, <1>2, <1>3, PTL DEF CoordinationSpec

\* One of two muxes answers a request, under its own defaults, and the callback is
\* told of it.
THEOREM AnsweredByOneMuxCorrect == CoordinationSpec => []AnsweredByOneMux
<1>1. VhostInv => AnsweredByOneMux
  BY DEF VhostInv, Vhost!TypeOK, AnsweredByOneMux, Vhost!AnsweredByOneMux
<1> QED
  BY <1>1, VhostInvariant, PTL

----------------------------------------------------------------------------
(* Chrome *)

\* A process that was reaped runs no more, and is reaped before its group is swept.
ChromeInv ==
  /\ Browser!TypeOK
  /\ exited => ~ running
  /\ closer = "sweeping" => exited
  /\ Browser!GroupGone

\* The invariant holds of every browser.
LEMMA ChromeInvariant == CoordinationSpec => []ChromeInv
<1>1. CoordinationInit => ChromeInv
  <2>1. CoordinationInit => Browser!Init
    BY DEF CoordinationInit
  <2> QED
    BY <2>1 DEF Browser!Init, ChromeInv, Browser!TypeOK, Browser!GroupGone
<1>2. [CoordinationNext]_all => [Browser!Next]_(Browser!vars)
  BY DEF CoordinationNext, Only, all, chrome, Browser!vars, Browser!process
<1>3. ChromeInv /\ [Browser!Next]_(Browser!vars) => ChromeInv'
  <2> SUFFICES ASSUME ChromeInv, [Browser!Next]_(Browser!vars) PROVE ChromeInv'
    OBVIOUS
  <2> USE DEF ChromeInv, Browser!TypeOK, Browser!GroupGone, Browser!Closing, Browser!process,
              Browser!KillGroup
  <2>1. CASE Browser!Exits
    BY <2>1 DEF Browser!Exits
  <2>2. CASE Browser!ChildrenExit
    BY <2>2 DEF Browser!ChildrenExit
  <2>3. CASE Browser!ContextEnds
    BY <2>3 DEF Browser!ContextEnds
  <2>4. CASE Browser!Obeys
    BY <2>4 DEF Browser!Obeys, Browser!Exits
  <2>5. CASE Browser!Connects
    BY <2>5 DEF Browser!Connects
  <2>6. CASE Browser!LaunchFails
    BY <2>6 DEF Browser!LaunchFails
  <2>7. CASE Browser!Close
    BY <2>7 DEF Browser!Close
  <2>8. CASE Browser!Cancel
    BY <2>8 DEF Browser!Cancel
  <2>9. CASE Browser!WaitReturns
    BY <2>9 DEF Browser!WaitReturns
  <2>10. CASE Browser!TimePasses
    BY <2>10 DEF Browser!TimePasses
  <2>11. CASE Browser!Asked
    BY <2>11 DEF Browser!Asked
  <2>12. CASE Browser!Gone
    BY <2>12 DEF Browser!Gone
  <2>13. CASE Browser!Kill
    BY <2>13 DEF Browser!Kill
  <2>14. CASE Browser!Sweep
    BY <2>14 DEF Browser!Sweep
  <2>15. CASE UNCHANGED Browser!vars
    BY <2>15 DEF Browser!vars
  <2> QED
    BY <2>1, <2>2, <2>3, <2>4, <2>5, <2>6, <2>7, <2>8, <2>9,
       <2>10, <2>11, <2>12, <2>13, <2>14, <2>15
    DEF Browser!Next, Browser!Step
<1> QED
  BY <1>1, <1>2, <1>3, PTL DEF CoordinationSpec

\* Nothing of a browser's group runs once it is closed, and its process is reaped.
THEOREM GroupGoneCorrect == CoordinationSpec => []GroupGone
<1>1. ChromeInv => GroupGone
  BY DEF ChromeInv, GroupGone
<1> QED
  BY <1>1, ChromeInvariant, PTL

----------------------------------------------------------------------------
(* Loopback authorization *)

\* Only a redirect of this authorization is offered; until one is caught the channel
\* holds the first; and what is returned is what the one that was caught says.
LoopbackInv ==
  /\ Authorization!TypeOK
  /\ \A r \in Redirects : redirectStage[r] = "answered" => says[r] # "stray"
  /\ first # None => says[first] # "stray"
  /\ caught = None => place = first
  /\ caught # None => caught = first
  /\ authorizer \in {"opening", "waiting"} => caught = None
  /\ authorizer \in {"opening", "waiting", "exchanging"} => outcome = None
  /\ authorizer = "exchanging" \/ outcome = "token" => caught # None /\ says[caught] = "code"
  /\ outcome = "refused" => caught # None /\ says[caught] \in {"denied", "codeless"}

\* The invariant, for any number of requests.
LEMMA LoopbackInvariant == CoordinationSpec => []LoopbackInv
<1> USE NoneAssumption
<1>1. CoordinationInit => LoopbackInv
  <2>1. CoordinationInit => Authorization!Init
    BY DEF CoordinationInit
  <2> QED
    BY <2>1 DEF Authorization!Init, LoopbackInv, Authorization!TypeOK
<1>2. [CoordinationNext]_all => [Authorization!Next]_(Authorization!vars)
  BY DEF CoordinationNext, Only, all, loopback, Authorization!vars
<1>3. LoopbackInv /\ [Authorization!Next]_(Authorization!vars) => LoopbackInv'
  <2> SUFFICES ASSUME LoopbackInv, [Authorization!Next]_(Authorization!vars) PROVE LoopbackInv'
    OBVIOUS
  <2> USE DEF LoopbackInv, Authorization!TypeOK, Authorization!Fails, Authorization!Becomes,
              Authorization!Contents
  <2>1. CASE Authorization!Catch
    <3>1. /\ authorizer = "waiting" /\ place # None /\ place' = None /\ caught' = place
          /\ UNCHANGED <<says, redirectStage, first, authorizeDone, serving>>
      BY <2>1 DEF Authorization!Catch
    <3>2. place = first /\ place \in Redirects /\ says[place] \in Authorization!Contents \ {"stray"}
      BY <3>1
    <3>3. CASE says[place] = "code"
      <4>1. authorizer' = "exchanging" /\ outcome' = outcome
        BY <2>1, <3>3 DEF Authorization!Catch
      <4> QED
        BY <3>1, <3>2, <3>3, <4>1
    <3>4. CASE says[place] # "code"
      <4>1. authorizer' = "stopping" /\ outcome' = "refused"
        BY <2>1, <3>4 DEF Authorization!Catch
      <4> QED
        BY <3>1, <3>2, <3>4, <4>1
    <3> QED
      BY <3>3, <3>4
  <2>2. CASE Authorization!GiveUp \/ Authorization!Exchange
    BY <2>2 DEF Authorization!GiveUp, Authorization!Exchange
  <2>3. CASE Authorization!Return \/ Authorization!OpenUrl
    BY <2>3 DEF Authorization!Return, Authorization!OpenUrl
  <2>4. CASE Authorization!ServeFails \/ Authorization!ContextEnds
    BY <2>4 DEF Authorization!ServeFails, Authorization!ContextEnds
  <2>5. ASSUME NEW r \in Redirects, Authorization!Offer(r)
        PROVE  LoopbackInv'
    BY <2>5 DEF Authorization!Offer
  <2>6. ASSUME NEW r \in Redirects, Authorization!Answer(r)
        PROVE  LoopbackInv'
    BY <2>6 DEF Authorization!Answer
  <2>7. CASE UNCHANGED Authorization!vars
    BY <2>7 DEF Authorization!vars
  <2> QED
    BY <2>1, <2>2, <2>3, <2>4, <2>5, <2>6, <2>7 DEF Authorization!Next, Authorization!Step
<1> QED
  BY <1>1, <1>2, <1>3, PTL DEF CoordinationSpec

\* The first redirect offered is the one that is caught and decides.
THEOREM FirstRedirectDecidesCorrect == CoordinationSpec => []FirstRedirectDecides
<1>1. LoopbackInv => FirstRedirectDecides
  BY DEF LoopbackInv, FirstRedirectDecides, Authorization!FirstRedirectDecides
<1> QED
  BY <1>1, LoopbackInvariant, PTL

----------------------------------------------------------------------------
(* The service *)

\* The server closes without a failure only while it is shutting down, by which time
\* serve no longer waits for what it leaves.
ServiceInv ==
  /\ Serving!TypeOK
  /\ serveStage = "waiting" => ~ shutting
  /\ serveStage = "stopping" => shutting
  /\ serveStage # "returned" => serveErr = None
  /\ server = "closed" \/ served = "nil" => shutting
  /\ Serving!ShutdownHonest

\* The invariant, for any number of requests.
LEMMA ServiceInvariant == CoordinationSpec => []ServiceInv
<1> USE NoneAssumption
<1>1. CoordinationInit => ServiceInv
  <2>1. CoordinationInit => Serving!Init
    BY DEF CoordinationInit
  <2> QED
    BY <2>1 DEF Serving!Init, ServiceInv, Serving!TypeOK, Serving!ShutdownHonest
<1>2. [CoordinationNext]_all => [Serving!Next]_(Serving!vars)
  BY DEF CoordinationNext, Only, all, service, Serving!vars
<1>3. ServiceInv /\ [Serving!Next]_(Serving!vars) => ServiceInv'
  <2> SUFFICES ASSUME ServiceInv, [Serving!Next]_(Serving!vars) PROVE ServiceInv'
    OBVIOUS
  <2> USE DEF ServiceInv, Serving!TypeOK, Serving!ShutdownHonest, Serving!Busy,
              Serving!Becomes, Serving!Returns
  <2>1. CASE Serving!ServeCloses
    BY <2>1 DEF Serving!ServeCloses
  <2>2. CASE Serving!ServeFails
    BY <2>2 DEF Serving!ServeFails
  <2>3. CASE Serving!Leave
    BY <2>3 DEF Serving!Leave
  <2>4. CASE Serving!ServingEnded
    BY <2>4 DEF Serving!ServingEnded
  <2>5. CASE Serving!Stop
    BY <2>5 DEF Serving!Stop
  <2>6. CASE Serving!TimePasses
    BY <2>6 DEF Serving!TimePasses
  <2>7. CASE Serving!ContextEnds
    BY <2>7 DEF Serving!ContextEnds
  <2>8. CASE Serving!Shutdown
    BY <2>8 DEF Serving!Shutdown
  <2>9. CASE Serving!ShutdownLate
    BY <2>9 DEF Serving!ShutdownLate
  <2>10. ASSUME NEW r \in Requests, Serving!Accept(r) \/ Serving!Begin(r) \/ Serving!Finish(r)
        PROVE  ServiceInv'
    BY <2>10 DEF Serving!Accept, Serving!Begin, Serving!Finish
  <2>11. CASE UNCHANGED Serving!vars
    BY <2>11 DEF Serving!vars
  <2> QED
    BY <2>1, <2>2, <2>3, <2>4, <2>5, <2>6, <2>7, <2>8, <2>9,
       <2>10, <2>11
    DEF Serving!Next, Serving!Step
<1> QED
  BY <1>1, <1>2, <1>3, PTL DEF CoordinationSpec

\* A service that stopped without an error has no request in progress and takes none.
THEOREM ShutdownHonestCorrect == CoordinationSpec => []ShutdownHonest
<1>1. ServiceInv => ShutdownHonest
  BY DEF ServiceInv, ShutdownHonest
<1> QED
  BY <1>1, ServiceInvariant, PTL

----------------------------------------------------------------------------
(* Least numbers, by which parsers and authenticators are chosen *)

\* A set of numbers that is not empty has a least one.
LEMMA Least ==
  ASSUME NEW S \in SUBSET Nat, S # {}
  PROVE  \E m \in S : \A n \in S : m <= n
<1>1. IsWellFoundedOn(OpToRel(<, Nat), Nat)
  BY NatLessThanWellFounded
<1>2. \E m \in S : \A n \in S : <<n, m>> \notin OpToRel(<, Nat)
  BY <1>1, WFMin
<1>3. \A m, n \in Nat : n < m => <<n, m>> \in OpToRel(<, Nat)
  BY DEF OpToRel
<1>4. PICK m \in S : \A n \in S : <<n, m>> \notin OpToRel(<, Nat)
  BY <1>2
<1>5. \A n \in S : ~ (n < m)
  BY <1>3, <1>4, Zenon
<1> QED
  BY <1>5

----------------------------------------------------------------------------
(* Token authentication *)

\* Every authenticator has come to its verdict.
AllSaid == \A a \in 1 .. AuthenticatorCount : verdict[a] = "nil" \/ authStage[a] = "over"

\* What each has left is its verdict's, and an answer comes when all have.
JwtInv ==
  /\ Jwt!TypeOK
  /\ \A a \in 1 .. AuthenticatorCount :
       /\ verdict[a] = "nil" => authStage[a] = "unborn"
       /\ authStage[a] # "over" => errs[a] = "none"
       /\ authStage[a] = "over" => errs[a] = IF verdict[a] \in Jwt!NoError THEN "none" ELSE verdict[a]
  /\ token # 0 => verdict[token] = "token"
  /\ token = 0 =>
       \/ \A a \in 1 .. AuthenticatorCount : authStage[a] = "over" => verdict[a] # "token"
       \/ \E a \in 1 .. AuthenticatorCount : verdict[a] = "nothing"
  /\ extracted = "token" /\ authenticated.kind # "pending" => AllSaid
  /\ Jwt!DecidedByAuthenticators

\* What the answer is decided by is what the authenticators came to.
LEMMA JwtDecides ==
  ASSUME JwtInv, Jwt!Decide
  PROVE  Jwt!DecidedByAuthenticators' /\ authenticated'.kind \in
           {"served", "forbidden", "unauthorized", "error"}
<1> DEFINE accepting == {a \in 1 .. AuthenticatorCount : verdict[a] = "token"}
           silent == {a \in 1 .. AuthenticatorCount : verdict[a] = "nothing"}
           clients == {a \in 1 .. AuthenticatorCount : verdict[a] \in {"sub", "invalid"}}
<1>1. /\ AllSaid /\ extracted = "token"
      /\ UNCHANGED <<extracted, verdict, authStage, token, errs>>
  BY DEF Jwt!Decide, Jwt!Authenticators, AllSaid
<1>2. {i \in 1 .. AuthenticatorCount : errs[i] \in {"sub", "invalid"}} = clients
  BY <1>1 DEF AllSaid, JwtInv, Jwt!NoError
<1>3. authenticated' =
        IF token # 0 THEN Jwt!Answer("served", token)
        ELSE IF clients = {} THEN Jwt!Answer("error", 0)
        ELSE Jwt!Answer(Jwt!Of(errs[CHOOSE i \in clients : \A j \in clients : i <= j]), 0)
  <2> DEFINE faulted == {i \in 1 .. AuthenticatorCount : errs[i] \in {"sub", "invalid"}}
  <2>1. authenticated' =
          IF token # 0 THEN Jwt!Answer("served", token)
          ELSE IF faulted = {} THEN Jwt!Answer("error", 0)
          ELSE Jwt!Answer(Jwt!Of(errs[CHOOSE i \in faulted : \A j \in faulted : i <= j]), 0)
    BY DEF Jwt!Decide, Jwt!Authenticators
  <2>2. faulted = clients
    BY <1>2
  <2> HIDE DEF faulted, clients
  <2> QED
    BY <2>1, <2>2
<1>4. CASE token # 0
  <2>1. token \in accepting
    BY <1>4 DEF JwtInv, Jwt!TypeOK, Jwt!Authenticators
  <2>2. authenticated'.kind = "served" /\ authenticated'.of = token
    BY <1>3, <1>4 DEF Jwt!Answer
  <2> QED
    BY <1>1, <2>1, <2>2 DEF Jwt!DecidedByAuthenticators, Jwt!Authenticators
<1>5. CASE token = 0 /\ clients = {}
  <2>1. accepting = {} \/ silent # {}
    BY <1>1, <1>5 DEF JwtInv, AllSaid
  <2>2. authenticated'.kind = "error"
    BY <1>3, <1>5 DEF Jwt!Answer
  <2> QED
    BY <1>1, <1>5, <2>1, <2>2 DEF Jwt!DecidedByAuthenticators, Jwt!Authenticators
<1>6. CASE token = 0 /\ clients # {}
  <2>1. accepting = {} \/ silent # {}
    BY <1>1, <1>6 DEF JwtInv, AllSaid
  <2>2. \E i \in clients : \A j \in clients : i <= j
    <3>1. clients \in SUBSET Nat
      OBVIOUS
    <3> QED
      BY <1>6, <3>1, Least
  <2> DEFINE least == CHOOSE i \in clients : \A j \in clients : i <= j
  <2>3. least \in clients /\ \A j \in clients : least <= j
    BY <2>2
  <2>4. errs[least] = verdict[least]
    BY <1>1, <2>3 DEF AllSaid, JwtInv, Jwt!NoError
  <2>5. authenticated'.kind = Jwt!Of(verdict[least])
    BY <1>3, <1>6, <2>4 DEF Jwt!Answer
  <2>6. Jwt!Of(verdict[least]) \in {"forbidden", "unauthorized"}
    BY DEF Jwt!Of
  <2> HIDE DEF least
  <2> QED
    BY <1>1, <1>6, <2>1, <2>3, <2>5, <2>6 DEF Jwt!DecidedByAuthenticators, Jwt!Authenticators
<1> QED
  BY <1>4, <1>5, <1>6

\* The invariant, for any number of authenticators.
LEMMA JwtInvariant == CoordinationSpec => []JwtInv
<1> USE CountAssumption
<1>1. CoordinationInit => JwtInv
  <2>1. CoordinationInit => Jwt!Init
    BY DEF CoordinationInit
  <2>2. Jwt!Init => authenticated.kind = "pending"
    BY DEF Jwt!Init, Jwt!Answer
  <2> QED
    BY <2>1, <2>2 DEF Jwt!Init, JwtInv, Jwt!TypeOK, Jwt!Authenticators, Jwt!DecidedByAuthenticators
<1>2. [CoordinationNext]_all => [Jwt!Next]_(Jwt!vars)
  BY DEF CoordinationNext, Only, all, jwt, Jwt!vars
<1>3. JwtInv /\ [Jwt!Next]_(Jwt!vars) => JwtInv'
  <2> SUFFICES ASSUME JwtInv, [Jwt!Next]_(Jwt!vars) PROVE JwtInv'
    OBVIOUS
  <2> USE DEF Jwt!Authenticators
  <2>1. CASE Jwt!Refuse
    <3>1. authenticated'.kind \in {"refused", "unauthorized"} /\ extracted # "token"
          /\ UNCHANGED <<extracted, verdict, authStage, token, errs>>
      BY <2>1 DEF Jwt!Refuse, Jwt!Answer
    <3> QED
      BY <3>1 DEF JwtInv, Jwt!TypeOK, Jwt!DecidedByAuthenticators
  <2>2. CASE Jwt!Decide
    <3>1. AllSaid /\ UNCHANGED <<extracted, verdict, authStage, token, errs>>
      BY <2>2 DEF Jwt!Decide, AllSaid
    <3> QED
      BY <2>2, <3>1, JwtDecides DEF JwtInv, Jwt!TypeOK, AllSaid
  <2>3. ASSUME NEW a \in 1 .. AuthenticatorCount, Jwt!Start(a) \/ Jwt!Return(a)
        PROVE  JwtInv'
    <3>1. extracted = "token" => authenticated.kind = "pending"
      BY <2>3 DEF Jwt!Start, Jwt!Return, JwtInv, AllSaid
    <3>2. UNCHANGED <<extracted, verdict, authenticated>>
      BY <2>3 DEF Jwt!Start, Jwt!Return
    <3>3. Jwt!DecidedByAuthenticators' /\ (extracted' = "token" => authenticated'.kind = "pending")
      BY <3>1, <3>2 DEF JwtInv, Jwt!DecidedByAuthenticators
    <3>4. CASE Jwt!Start(a)
      BY <3>2, <3>3, <3>4 DEF Jwt!Start, JwtInv, Jwt!TypeOK
    <3>5. CASE Jwt!Return(a)
      <4>1. /\ authStage[a] = "running" /\ authStage' = [authStage EXCEPT ![a] = "over"]
            /\ \/ verdict[a] = "token" /\ token' = a /\ UNCHANGED errs
               \/ verdict[a] = "nothing" /\ token' = 0 /\ UNCHANGED errs
               \/ verdict[a] \notin Jwt!NoError /\ errs' = [errs EXCEPT ![a] = verdict[a]]
                  /\ UNCHANGED token
        BY <3>5 DEF Jwt!Return, Jwt!NoError, Jwt!Left
      <4>2. CASE verdict[a] = "token"
        <5>1. a # 0 /\ token' = a /\ UNCHANGED errs
          BY <4>1, <4>2 DEF Jwt!NoError
        <5> QED
          BY <3>2, <3>3, <4>1, <4>2, <5>1 DEF JwtInv, Jwt!TypeOK, Jwt!NoError
      <4>3. CASE verdict[a] = "nothing"
        <5>1. token' = 0 /\ UNCHANGED errs
          BY <4>1, <4>3 DEF Jwt!NoError
        <5> QED
          BY <3>2, <3>3, <4>1, <4>3, <5>1 DEF JwtInv, Jwt!TypeOK, Jwt!NoError
      <4>4. CASE verdict[a] \notin Jwt!NoError
        <5>1. errs' = [errs EXCEPT ![a] = verdict[a]] /\ UNCHANGED token
          BY <4>1, <4>4 DEF Jwt!NoError
        <5>2. Jwt!TypeOK'
          BY <3>2, <4>1, <5>1 DEF JwtInv, Jwt!TypeOK
        <5>3. \A b \in 1 .. AuthenticatorCount :
                /\ verdict[b] = "nil" => authStage'[b] = "unborn"
                /\ authStage'[b] # "over" => errs'[b] = "none"
                /\ authStage'[b] = "over" =>
                     errs'[b] = IF verdict[b] \in Jwt!NoError THEN "none" ELSE verdict[b]
          BY <4>1, <4>4, <5>1 DEF JwtInv, Jwt!TypeOK
        <5>4. verdict[a] # "token"
          BY <4>4 DEF Jwt!NoError
        <5> QED
          BY <3>2, <3>3, <4>1, <5>1, <5>2, <5>3, <5>4 DEF JwtInv, Jwt!TypeOK
      <4> QED
        BY <4>2, <4>3, <4>4 DEF Jwt!NoError
    <3> QED
      BY <2>3, <3>4, <3>5
  <2>4. CASE UNCHANGED Jwt!vars
    BY <2>4 DEF Jwt!vars, JwtInv, Jwt!TypeOK, AllSaid, Jwt!DecidedByAuthenticators
  <2> QED
    BY <2>1, <2>2, <2>3, <2>4 DEF Jwt!Next
<1> QED
  BY <1>1, <1>2, <1>3, PTL DEF CoordinationSpec

\* Which authenticators accept a token, and their order, decide its request.
THEOREM DecidedByAuthenticatorsCorrect == CoordinationSpec => []DecidedByAuthenticators
<1>1. JwtInv => DecidedByAuthenticators
  BY DEF JwtInv, DecidedByAuthenticators
<1> QED
  BY <1>1, JwtInvariant, PTL

----------------------------------------------------------------------------
(* The choice between parsers *)

\* What each parser left is its verdict, or shows that its context had ended; they
\* were started in order, all of them unless it had; and once there is an answer
\* none runs.
ChoiceInv ==
  /\ Choice!TypeOK
  /\ cancelled => ~ exclusive /\ \E p \in 1 .. ParserCount : said[p] = "admits"
  /\ \A p \in 1 .. ParserCount :
       /\ parserVerdict[p] = "nil" => parserStage[p] = "unborn"
       /\ parserStage[p] # "over" => said[p] = "nothing"
       /\ parserStage[p] = "over" => said[p] \in {parserVerdict[p], "interrupted"}
       /\ said[p] = "interrupted" => Choice!Done
       /\ p >= nextParser => parserStage[p] = "unborn"
       /\ parserStage[p] # "unborn" =>
            \A q \in 1 .. ParserCount : q < p /\ parserVerdict[q] # "nil" => parserStage[q] # "unborn"
  /\ ~ Choice!Done =>
       \A p \in 1 .. ParserCount : p < nextParser /\ parserVerdict[p] # "nil" => parserStage[p] # "unborn"
  /\ parsed.kind # "none" =>
       nextParser > ParserCount /\ \A p \in 1 .. ParserCount : parserStage[p] # "running"
  /\ Choice!AnsweredByVerdicts /\ Choice!PrecedenceHonoured

\* The first of some parsers is one of them, and none of them comes before it.
LEMMA FirstIsLeast ==
  ASSUME NEW S \in SUBSET (1 .. ParserCount), S # {}
  PROVE  Choice!First(S) \in S /\ \A q \in S : Choice!First(S) <= q
<1>1. \E p \in S : \A q \in S : p <= q
  <2>1. S \in SUBSET Nat
    OBVIOUS
  <2> QED
    BY <2>1, Least
<1> QED
  BY <1>1 DEF Choice!First

\* Some parsers are finitely many, counted as FiniteSets does.
LEMMA ParsersCount ==
  ASSUME NEW S \in SUBSET (1 .. ParserCount)
  PROVE  /\ Choice!Cardinality(S) \in Nat
         /\ Choice!Cardinality(S) = 0 <=> S = {}
<1>1. Choice!Cardinality(S) = Cardinality(S)
  BY DEF Choice!Cardinality, Cardinality
<1>2. IsFiniteSet(1 .. ParserCount)
  BY FS_Interval, CountAssumption
<1>3. IsFiniteSet(S)
  BY <1>2, FS_Subset
<1> QED
  BY <1>1, <1>3, FS_CardinalityType, FS_EmptySet

\* While the request's client stays and nothing cancelled them, parsers have said
\* what they would when all are over.
LEMMA AllSpoke ==
  ASSUME ChoiceInv, ~ Choice!Done, nextParser > ParserCount,
         \A p \in 1 .. ParserCount : parserStage[p] # "running",
         NEW p \in 1 .. ParserCount
  PROVE  said[p] = IF parserVerdict[p] = "nil" THEN "nothing" ELSE parserVerdict[p]
<1>1. nextParser \in Nat
  BY CountAssumption DEF ChoiceInv, Choice!TypeOK
<1>2. CASE parserVerdict[p] = "nil"
  BY <1>2 DEF ChoiceInv
<1>3. CASE parserVerdict[p] # "nil"
  <2>1. parserStage[p] # "unborn"
    BY <1>1, <1>3, CountAssumption DEF ChoiceInv
  <2>2. parserStage[p] = "over"
    BY <2>1 DEF ChoiceInv, Choice!TypeOK, Choice!Parsers
  <2> QED
    BY <1>3, <2>2 DEF ChoiceInv
<1> QED
  BY <1>2, <1>3

\* The answer is the verdicts', and honours the order of the parsers.
LEMMA ChoiceDecides ==
  ASSUME ChoiceInv, Choice!Decide
  PROVE  /\ parsed'.kind \in {"admitted", "ambiguous", "refused", "bad"}
         /\ Choice!AnsweredByVerdicts' /\ Choice!PrecedenceHonoured'
<1> DEFINE admitting == Choice!Saying({"admits"})
           telling == Choice!Telling
           would == Choice!Would({"admits"})
<1>1. /\ nextParser > ParserCount /\ \A p \in 1 .. ParserCount : parserStage[p] # "running"
      /\ UNCHANGED <<exclusive, parserVerdict, gone, cancelled, nextParser, parserStage, said>>
  BY DEF Choice!Decide, Choice!Parsers
<1>2. parsed' =
        IF exclusive /\ Choice!Cardinality(admitting) > 1 THEN Choice!Answer("ambiguous", 0)
        ELSE IF admitting # {} THEN Choice!Answer("admitted", Choice!First(admitting))
        ELSE IF telling # {} THEN Choice!Answer("refused", Choice!First(telling))
        ELSE Choice!Answer("bad", 0)
  BY DEF Choice!Decide
<1>3. /\ admitting \in SUBSET (1 .. ParserCount) /\ telling \in SUBSET (1 .. ParserCount)
      /\ \A p \in 1 .. ParserCount : p \in admitting <=> said[p] = "admits"
      /\ \A p \in 1 .. ParserCount : p \in would <=> parserVerdict[p] = "admits"
  BY DEF Choice!Saying, Choice!Telling, Choice!Would, Choice!Parsers
<1>4. admitting \subseteq would
  BY <1>3 DEF ChoiceInv
<1>5. admitting # {} =>
        Choice!First(admitting) \in admitting /\ \A q \in admitting : Choice!First(admitting) <= q
  BY <1>3, FirstIsLeast
<1>6. Choice!Cardinality(admitting) \in Nat /\ (Choice!Cardinality(admitting) = 0 <=> admitting = {})
  BY <1>3, ParsersCount
<1>7. /\ parsed'.kind \in {"admitted", "ambiguous", "refused", "bad"}
      /\ parsed'.kind = "ambiguous" <=> exclusive /\ Choice!Cardinality(admitting) > 1
      /\ parsed'.kind = "admitted" <=>
           admitting # {} /\ ~ (exclusive /\ Choice!Cardinality(admitting) > 1)
      /\ parsed'.kind = "admitted" => parsed'.of = Choice!First(admitting)
      /\ parsed'.kind = "refused" => telling # {} /\ admitting = {} /\ parsed'.of = Choice!First(telling)
  <2> HIDE DEF admitting, telling
  <2> QED
    BY <1>2 DEF Choice!Answer
<1>8. Choice!PrecedenceHonoured'
  <2> SUFFICES ASSUME parsed'.kind = "admitted", NEW q \in 1 .. parsed'.of - 1,
                      q \in Choice!Would({"admits"})'
               PROVE  said'[q] = "interrupted" /\ Choice!Done'
    BY DEF Choice!PrecedenceHonoured
  <2>1. parsed'.of \in admitting /\ \A r \in admitting : parsed'.of <= r
    BY <1>5, <1>7
  <2>2. parsed'.of \in 1 .. ParserCount /\ q < parsed'.of /\ q \in 1 .. ParserCount /\ q \notin admitting
    BY <1>3, <2>1, CountAssumption
  <2>3. parserVerdict[q] = "admits"
    BY <1>1, <2>2 DEF Choice!Would
  <2>4. parserStage[parsed'.of] # "unborn"
    BY <1>3, <2>1, <2>2 DEF ChoiceInv
  <2>5. parserStage[q] = "over"
    BY <1>1, <2>2, <2>3, <2>4 DEF ChoiceInv, Choice!TypeOK, Choice!Parsers
  <2>6. said[q] = "interrupted"
    BY <1>3, <2>2, <2>3, <2>5 DEF ChoiceInv
  <2> QED
    BY <1>1, <2>2, <2>6 DEF ChoiceInv, Choice!Done
<1>9. Choice!AnsweredByVerdicts'
  <2> SUFFICES ASSUME ~ gone
               PROVE  /\ parsed'.kind = "admitted" => parsed'.of \in would
                      /\ ~ exclusive => (parsed'.kind = "admitted" <=> would # {})
                      /\ exclusive =>
                           /\ parsed'.kind = "admitted" <=> Choice!Cardinality(would) = 1
                           /\ parsed'.kind = "ambiguous" <=> Choice!Cardinality(would) > 1
                      /\ parsed'.kind = "refused" =>
                           parsed'.of = Choice!First(
                             IF Choice!Would({"refuses"}) # {} THEN Choice!Would({"refuses"})
                             ELSE Choice!Would({"absent"}))
    BY <1>1 DEF Choice!AnsweredByVerdicts, Choice!Would
  <2>1. CASE cancelled
    <3>1. ~ exclusive /\ admitting # {}
      BY <1>3, <2>1 DEF ChoiceInv
    <3> QED
      BY <1>4, <1>5, <1>7, <3>1
  <2>2. CASE ~ cancelled
    <3>1. \A p \in 1 .. ParserCount :
            said[p] = IF parserVerdict[p] = "nil" THEN "nothing" ELSE parserVerdict[p]
      BY <1>1, <2>2, AllSpoke DEF Choice!Done
    <3>2. admitting = would
      BY <3>1 DEF Choice!Saying, Choice!Would, Choice!Parsers
    <3>3. Choice!Saying({"refuses", "interrupted"}) = Choice!Would({"refuses"})
      BY <3>1 DEF Choice!Saying, Choice!Would, Choice!Parsers, ChoiceInv, Choice!TypeOK
    <3>4. Choice!Saying({"absent"}) = Choice!Would({"absent"})
      BY <3>1 DEF Choice!Saying, Choice!Would, Choice!Parsers
    <3>5. telling = IF Choice!Would({"refuses"}) # {} THEN Choice!Would({"refuses"})
                    ELSE Choice!Would({"absent"})
      BY <3>3, <3>4 DEF Choice!Telling
    <3> HIDE DEF admitting, would, telling
    <3>6. parsed'.kind = "admitted" => parsed'.of \in would
      BY <1>5, <1>7, <3>2
    <3>7. parsed'.kind = "refused" => parsed'.of = Choice!First(telling)
      BY <1>7
    <3> QED
      BY <1>6, <1>7, <3>2, <3>5, <3>6, <3>7
  <2> QED
    BY <2>1, <2>2 DEF ChoiceInv, Choice!TypeOK
<1> QED
  BY <1>7, <1>8, <1>9

\* What the loop does, and a client that goes away, keep the invariant.
LEMMA ChoiceLoop ==
  ASSUME ChoiceInv, Choice!Start \/ Choice!PassOver \/ Choice!Break \/ Choice!GoAway
  PROVE  ChoiceInv'
<1>1. parsed.kind = "none" /\ parsed' = parsed
  BY CountAssumption DEF Choice!Start, Choice!PassOver, Choice!Break, Choice!GoAway,
     ChoiceInv, Choice!TypeOK
<1>2. Choice!AnsweredByVerdicts' /\ Choice!PrecedenceHonoured'
  BY <1>1 DEF Choice!AnsweredByVerdicts, Choice!PrecedenceHonoured
<1> USE CountAssumption DEF ChoiceInv, Choice!TypeOK, Choice!Parsers, Choice!Done
<1>3. CASE Choice!Start
  BY <1>1, <1>2, <1>3 DEF Choice!Start
<1>4. CASE Choice!PassOver
  BY <1>1, <1>2, <1>4 DEF Choice!PassOver
<1>5. CASE Choice!Break
  BY <1>1, <1>2, <1>5 DEF Choice!Break
<1>6. CASE Choice!GoAway
  BY <1>1, <1>2, <1>6 DEF Choice!GoAway
<1> QED
  BY <1>3, <1>4, <1>5, <1>6

\* A parser that returns keeps it.
LEMMA ChoiceReturn ==
  ASSUME ChoiceInv, NEW p \in 1 .. ParserCount, Choice!Return(p)
  PROVE  ChoiceInv'
<1>1. PICK word \in {parserVerdict[p]} \union (IF Choice!Done THEN {"interrupted"} ELSE {}) :
        /\ said' = [said EXCEPT ![p] = word]
        /\ cancelled' = (cancelled \/ Choice!Cancels(word))
  BY DEF Choice!Return
<1>2. /\ parserStage[p] = "running" /\ parserStage' = [parserStage EXCEPT ![p] = "over"]
      /\ UNCHANGED <<exclusive, parserVerdict, gone, nextParser, parsed>>
  BY DEF Choice!Return
<1>3. parsed.kind = "none" /\ parserVerdict[p] # "nil"
  BY <1>2 DEF ChoiceInv
<1>4. Choice!AnsweredByVerdicts' /\ Choice!PrecedenceHonoured'
  BY <1>2, <1>3 DEF Choice!AnsweredByVerdicts, Choice!PrecedenceHonoured
<1>5. word \in {"admits", "refuses", "absent", "interrupted"} /\ (word = "interrupted" => Choice!Done)
  BY <1>1, <1>3 DEF ChoiceInv, Choice!TypeOK, Choice!Parsers
<1>6. Choice!TypeOK'
  BY <1>1, <1>2, <1>5 DEF ChoiceInv, Choice!TypeOK, Choice!Parsers
<1>7. cancelled' => ~ exclusive /\ \E q \in 1 .. ParserCount : said'[q] = "admits"
  <2>1. CASE cancelled
    <3>1. PICK q \in 1 .. ParserCount : said[q] = "admits"
      BY <2>1 DEF ChoiceInv
    <3>2. q # p
      BY <1>2, <3>1 DEF ChoiceInv
    <3>3. said'[q] = "admits"
      BY <1>1, <3>1, <3>2 DEF ChoiceInv, Choice!TypeOK, Choice!Parsers
    <3> QED
      BY <2>1, <3>3 DEF ChoiceInv
  <2>2. CASE ~ cancelled /\ Choice!Cancels(word)
    <3>1. said'[p] = "admits"
      BY <1>1, <2>2 DEF ChoiceInv, Choice!TypeOK, Choice!Parsers, Choice!Cancels
    <3> QED
      BY <2>2, <3>1 DEF Choice!Cancels
  <2> QED
    BY <1>1, <2>1, <2>2
<1>8. Choice!Done => Choice!Done'
  BY <1>1, <1>2 DEF Choice!Done
<1> QED
  BY <1>1, <1>2, <1>3, <1>4, <1>5, <1>6, <1>7, <1>8 DEF ChoiceInv, Choice!TypeOK, Choice!Parsers

\* The invariant, for any number of parsers.
LEMMA ChoiceInvariant == CoordinationSpec => []ChoiceInv
<1>1. CoordinationInit => ChoiceInv
  <2>1. CoordinationInit => Choice!Init
    BY DEF CoordinationInit
  <2>2. Choice!Init => parsed.kind = "none"
    BY DEF Choice!Init, Choice!Answer
  <2>3. Choice!Init => Choice!TypeOK
    <3> SUFFICES ASSUME Choice!Init PROVE Choice!TypeOK
      OBVIOUS
    <3>1. nextParser \in 1 .. ParserCount + 1
      BY CountAssumption DEF Choice!Init
    <3>2. parserStage \in [1 .. ParserCount -> {"unborn", "running", "over"}]
      BY DEF Choice!Init, Choice!Parsers
    <3>3. said \in [1 .. ParserCount -> {"nothing", "admits", "refuses", "absent", "interrupted"}]
      BY DEF Choice!Init, Choice!Parsers
    <3> QED
      BY <2>2, <3>1, <3>2, <3>3, Zenon DEF Choice!Init, Choice!TypeOK, Choice!Parsers
  <2>4. Choice!Init => Choice!AnsweredByVerdicts /\ Choice!PrecedenceHonoured
    BY <2>2 DEF Choice!AnsweredByVerdicts, Choice!PrecedenceHonoured
  <2>5. Choice!Init => ChoiceInv
    BY <2>2, <2>3, <2>4, CountAssumption DEF Choice!Init, ChoiceInv, Choice!Parsers, Choice!Done
  <2> QED
    BY <2>1, <2>5
<1>2. [CoordinationNext]_all => [Choice!Next]_(Choice!vars)
  BY DEF CoordinationNext, Only, all, choice, Choice!vars
<1>3. ChoiceInv /\ [Choice!Next]_(Choice!vars) => ChoiceInv'
  <2> SUFFICES ASSUME ChoiceInv, [Choice!Next]_(Choice!vars) PROVE ChoiceInv'
    OBVIOUS
  <2>1. CASE Choice!Decide
    <3>1. /\ nextParser > ParserCount /\ \A p \in 1 .. ParserCount : parserStage[p] # "running"
          /\ UNCHANGED <<exclusive, parserVerdict, gone, cancelled, nextParser, parserStage, said>>
      BY <2>1 DEF Choice!Decide, Choice!Parsers
    <3> QED
      BY <2>1, <3>1, ChoiceDecides DEF ChoiceInv, Choice!TypeOK, Choice!Done
  <2>2. CASE UNCHANGED Choice!vars
    BY <2>2 DEF ChoiceInv, Choice!TypeOK, Choice!Done, Choice!vars,
       Choice!AnsweredByVerdicts, Choice!PrecedenceHonoured, Choice!Would
  <2> QED
    BY <2>1, <2>2, ChoiceLoop, ChoiceReturn DEF Choice!Next, Choice!Step, Choice!Parsers
<1> QED
  BY <1>1, <1>2, <1>3, PTL DEF CoordinationSpec

\* The verdicts of the parsers and the order they are declared in decide the request.
THEOREM AnsweredByVerdictsCorrect == CoordinationSpec => []AnsweredByVerdicts
<1>1. ChoiceInv => AnsweredByVerdicts
  BY DEF ChoiceInv, AnsweredByVerdicts
<1> QED
  BY <1>1, ChoiceInvariant, PTL

----------------------------------------------------------------------------
(* All of them *)

\* Every component's state has its type, whatever part the behaviour is of; and a
\* cache group's zero value has its cause.
THEOREM WellTypedCorrect == CoordinationSpec => []WellTyped
<1>1. CoordinationSpec => []TypeOK
  BY LimiterAlone, TypeCorrect, PTL
<1>2. CoordinationSpec => []Cache!TypeOK /\ []Load!TypeOK
  <2>1. CacheInv => Cache!TypeOK
    BY DEF CacheInv
  <2>2. DecisionInv => Load!TypeOK
    BY DEF DecisionInv
  <2> QED
    BY <2>1, <2>2, CacheAlone, CacheInvariant, LoadAlone, DecisionInvariant, PTL
<1>3. JournalInv => Journal!TypeOK
  BY DEF JournalInv
<1>4. ProxyInv => Proxy!TypeOK
  BY DEF ProxyInv
<1>5. VhostInv => Vhost!TypeOK
  BY DEF VhostInv
<1>6. ChromeInv => Browser!TypeOK
  BY DEF ChromeInv
<1>7. LoopbackInv => Authorization!TypeOK
  BY DEF LoopbackInv
<1>8. ServiceInv => Serving!TypeOK
  BY DEF ServiceInv
<1>9. JwtInv => Jwt!TypeOK
  BY DEF JwtInv
<1>10. ChoiceInv => Choice!TypeOK
  BY DEF ChoiceInv
<1> QED
  BY <1>1, <1>2, <1>3, <1>4, <1>5, <1>6, <1>7, <1>8, <1>9, <1>10, CacheAlone,
     ZeroForCauseCorrect, JournalInvariant, ProxyInvariant, VhostInvariant, ChromeInvariant,
     LoopbackInvariant, ServiceInvariant, JwtInvariant, ChoiceInvariant, PTL DEF WellTyped

=============================================================================
