----------------------------- MODULE CacheGroup -----------------------------
(***************************************************************************)
(* A group that performs the function of a key once and hands what it      *)
(* returned to every call for the key (pkg/sync/cache_group).  The mutex   *)
(* guards the map alone; the call that put the entry there performs the    *)
(* function without it, and the others wait for the entry's wait group.    *)
(***************************************************************************)
EXTENDS Integers

CONSTANTS
  Calls,    \* calls of Do
  Keys,     \* what they ask for
  Answers,  \* what a function may return: a value, or an error
  Zero,     \* the zero value with no error
  Nil       \* nobody, nothing

VARIABLES
  key,       \* what each call asks for
  pc,        \* where each call is
  performer, \* the call whose entry the map holds for a key
  waitGroup, \* the counter of that entry's wait group
  stored,    \* the entry's value and error
  result     \* what each call returned

vars == <<key, pc, performer, waitGroup, stored, result>>

TypeOK ==
  /\ key \in [Calls -> Keys]
  /\ pc \in [Calls -> {"start", "perform", "release", "panic", "wait", "read", "done", "panicked"}]
  /\ performer \in [Keys -> Calls \union {Nil}]
  /\ waitGroup \in [Keys -> {0, 1}]
  /\ stored \in [Keys -> Answers \union {Zero}]
  /\ result \in [Calls -> Answers \union {Zero, Nil}]

Init ==
  /\ key \in [Calls -> Keys]
  /\ pc = [c \in Calls |-> "start"]
  /\ performer = [k \in Keys |-> Nil]
  /\ waitGroup = [k \in Keys |-> 0]
  /\ stored = [k \in Keys |-> Zero]
  /\ result = [c \in Calls |-> Nil]

Goto(c, stage) == pc' = [pc EXCEPT ![c] = stage]

----------------------------------------------------------------------------
\* Fault: the map is looked at under one lock and written under another.
FindStale(c) ==
  /\ pc[c] = "start" /\ performer[key[c]] # Nil
  /\ \/ Goto(c, "wait") /\ UNCHANGED waitGroup
     \/ Goto(c, "perform") /\ waitGroup' = [waitGroup EXCEPT ![key[c]] = 1]
  /\ UNCHANGED <<key, performer, stored, result>>

\* Do finds an entry.
Find(c) ==
  /\ pc[c] = "start" /\ performer[key[c]] # Nil
  /\ Goto(c, "wait")
  /\ UNCHANGED <<key, performer, waitGroup, stored, result>>

\* Fault: the entry is in the map before its wait group counts.
InsertUnarmed(c) ==
  /\ pc[c] = "start" /\ performer[key[c]] = Nil
  /\ performer' = [performer EXCEPT ![key[c]] = c]
  /\ Goto(c, "perform")
  /\ UNCHANGED <<key, waitGroup, stored, result>>

\* Do finds none and puts one there, its wait group counting one.
Insert(c) ==
  /\ pc[c] = "start" /\ performer[key[c]] = Nil
  /\ performer' = [performer EXCEPT ![key[c]] = c]
  /\ waitGroup' = [waitGroup EXCEPT ![key[c]] = 1]
  /\ Goto(c, "perform")
  /\ UNCHANGED <<key, stored, result>>

\* The function returns, and performCall stores what it returned.
Perform(c) ==
  /\ pc[c] = "perform"
  /\ \E a \in Answers : stored' = [stored EXCEPT ![key[c]] = a]
  /\ Goto(c, "release")
  /\ UNCHANGED <<key, performer, waitGroup, result>>

\* The function panics.
Panic(c) ==
  /\ pc[c] = "perform" /\ Goto(c, "panic")
  /\ UNCHANGED <<key, performer, waitGroup, stored, result>>

\* The deferred Done, whether the function returned or panicked.
Release(c) ==
  /\ \/ pc[c] = "release" /\ Goto(c, "read")
     \/ pc[c] = "panic" /\ Goto(c, "panicked")
  /\ waitGroup' = [waitGroup EXCEPT ![key[c]] = @ - 1]
  /\ UNCHANGED <<key, performer, stored, result>>

Awake(c) ==
  /\ pc[c] = "wait" /\ waitGroup[key[c]] = 0
  /\ Goto(c, "read")
  /\ UNCHANGED <<key, performer, waitGroup, stored, result>>

Return(c) ==
  /\ pc[c] = "read" /\ Goto(c, "done")
  /\ result' = [result EXCEPT ![c] = stored[key[c]]]
  /\ UNCHANGED <<key, performer, waitGroup, stored>>

Next == \E c \in Calls :
  Find(c) \/ Insert(c) \/ Perform(c) \/ Panic(c) \/ Release(c) \/ Awake(c) \/ Return(c)

Spec == Init /\ [][Next]_vars

(***************************************************************************)
(* Goroutines run, and the functions they are given return or panic.       *)
(***************************************************************************)
Fairness == WF_vars(Next)

----------------------------------------------------------------------------
(* Properties *)

\* A key's answer is decided when its entry is released.
Promise == INSTANCE Memo WITH
  answer <- [k \in Keys |-> IF performer[k] # Nil /\ waitGroup[k] = 0 THEN stored[k] ELSE Nil],
  got <- result

\* "expected fn to be called exactly once": whatever the order the calls come in,
\* each key has one answer and every call that returns gets it.
Memoized == Promise!Spec

\* A call is handed a zero value that no function returned only where the function
\* of its key panicked in another call, which the deferred Done hides from it.
ZeroForCause ==
  \A c \in Calls : result[c] = Zero =>
    \E d \in Calls \ {c} : key[d] = key[c] /\ pc[d] = "panicked"

\* No call waits for ever: the wait group of a key is released whatever its
\* function does.
EveryCallEnds == \A c \in Calls : <>(pc[c] \in {"done", "panicked"})
=============================================================================
