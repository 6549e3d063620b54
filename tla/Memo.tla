-------------------------------- MODULE Memo --------------------------------
(***************************************************************************)
(* What a cache group promises (pkg/sync/cache_group): each key has one    *)
(* answer, decided once, and every call for the key that returns gets it.  *)
(***************************************************************************)
CONSTANTS
  Calls,    \* calls of Do
  Keys,     \* what they ask for
  Answers,  \* what a function may return
  Zero,     \* the zero value with no error
  Nil       \* no answer

VARIABLES
  key,     \* what each call asks for
  answer,  \* the answer of each key
  got      \* what each call returned

vars == <<key, answer, got>>

Init ==
  /\ key \in [Calls -> Keys]
  /\ answer = [k \in Keys |-> Nil]
  /\ got = [c \in Calls |-> Nil]

Decide(k) ==
  /\ answer[k] = Nil
  /\ \E a \in Answers \union {Zero} : answer' = [answer EXCEPT ![k] = a]
  /\ UNCHANGED <<key, got>>

Return(c) ==
  /\ got[c] = Nil /\ answer[key[c]] # Nil
  /\ got' = [got EXCEPT ![c] = answer[key[c]]]
  /\ UNCHANGED <<key, answer>>

Next == (\E k \in Keys : Decide(k)) \/ (\E c \in Calls : Return(c))

Spec == Init /\ [][Next]_vars
=============================================================================
