-------------------------- MODULE EndpointLoading --------------------------
(***************************************************************************)
(* Endpoints made of the files of a directory or of an archive, and the    *)
(* encodings of a body (pkg/http/mux/types/endpoint): a goroutine of an    *)
(* ErrGroup per file, whose result is added to a slice or a map under a    *)
(* mutex.  The group's context derives from Background, so only a failure  *)
(* ends it.  Directories among the files change nothing and are left out.  *)
(***************************************************************************)
EXTENDS ErrGroup, Sequences

CONSTANTS
  Last,     \* how many files there are; Tasks is 1 .. Last, in walk order
  Rankings  \* what the order of their paths and methods may be

Sources == {"directory", "archive", "encodings"}

VARIABLES
  source,  \* which of the functions runs
  rank,    \* the place of each file's endpoint in compareEndpoints' order
  next,    \* the file the walk comes to next
  loader,  \* where the function is
  loaded,  \* what has been added
  answer   \* what it returned: endpoints, or why there are none

walk == <<source, rank, next, loader, loaded, answer>>
vars == <<group, walk>>

NoAnswer == [kind |-> "none"]

TypeOK ==
  /\ GroupTypeOK
  /\ source \in Sources /\ rank \in Rankings
  /\ next \in 1 .. Last + 1
  /\ loader \in {"walking", "waiting", "returned"}
  /\ loaded \in Seq(Tasks)
  /\ answer.kind \in {"none", "walk", "error", "endpoints"}

Init ==
  /\ GroupInit
  /\ source \in Sources /\ rank \in Rankings
  /\ next = 1 /\ loader = "walking"
  /\ loaded = <<>> /\ answer = NoAnswer

----------------------------------------------------------------------------
(* The walk *)

Launch ==
  /\ loader = "walking" /\ next <= Last /\ cause = Nil
  /\ Go(next) /\ next' = next + 1
  /\ UNCHANGED <<source, rank, loader, loaded, answer>>

\* Once the group's context has ended, a directory's other files are passed over
\* one by one; the other loops break.
PassOver ==
  /\ loader = "walking" /\ next <= Last /\ cause # Nil
  /\ next' = IF source = "directory" THEN next + 1 ELSE Last + 1
  /\ UNCHANGED <<group, source, rank, loader, loaded, answer>>

\* filepath.Walk fails, and the goroutines are left.
WalkFails ==
  /\ source = "directory" /\ loader = "walking"
  /\ loader' = "returned" /\ answer' = [kind |-> "walk"]
  /\ UNCHANGED <<group, source, rank, next, loaded>>

EndWalk ==
  /\ loader = "walking" /\ next > Last
  /\ loader' = "waiting"
  /\ UNCHANGED <<group, source, rank, next, loaded, answer>>

Occurs(s) == {s[i] : i \in DOMAIN s}

\* Fault: the endpoints are left in the order they were added in.
Unsorted == {loaded}

\* The ways slices.SortFunc may leave what was added: files of equal rank come in
\* any order, and encodings go into a map, where order means nothing.
Sorted ==
  {s \in [DOMAIN loaded -> Occurs(loaded)] :
     /\ Occurs(s) = Occurs(loaded)
     /\ \A i, j \in DOMAIN s : i < j => rank[s[i]] <= rank[s[j]]}

Finish ==
  /\ loader = "waiting" /\ Wait
  /\ IF err # Nil THEN answer' = [kind |-> "error", of |-> err]
     ELSE \E s \in Sorted : answer' = [kind |-> "endpoints", are |-> s]
  /\ loader' = "returned"
  /\ UNCHANGED <<source, rank, next, loaded>>

----------------------------------------------------------------------------
(* The goroutine of a file *)

\* It reads the file, makes the endpoint, and adds it.
Load(t) ==
  /\ Succeed(t) /\ loaded' = Append(loaded, t)
  /\ UNCHANGED <<source, rank, next, loader, answer>>

\* An encoding that is no smaller than the body is not added.
NoSmaller(t) ==
  /\ source = "encodings" /\ Succeed(t)
  /\ UNCHANGED walk

Fails(t) == Fail(t) /\ UNCHANGED walk
Leaves(t) == Leave(t) /\ UNCHANGED walk

Next ==
  \/ Launch \/ PassOver \/ WalkFails \/ EndWalk \/ Finish
  \/ \E t \in Tasks : Load(t) \/ NoSmaller(t) \/ Fails(t) \/ Leaves(t)

Spec == Init /\ [][Next]_vars

(***************************************************************************)
(* Goroutines run, reads and compressions end.  No step repeats, so that   *)
(* this is fairness to each of the goroutines.                             *)
(***************************************************************************)
Fairness == WF_vars(Next)

----------------------------------------------------------------------------
(* Properties *)

\* "The first call to return a non-nil error cancels the group's context ...; its
\* error will be returned by Wait": the cause everybody sees and the error returned
\* are one, and there is one exactly where some task failed.
FirstErrorDecides ==
  /\ cause \in Tasks => cause = err
  /\ answer.kind = "error" => answer.of = cause
  /\ loader = "returned" /\ answer.kind # "walk" => (answer.kind = "error" <=> failures # {})

\* Endpoints are returned of every file or not at all, in the order of their paths
\* and not in that of the goroutines, and nothing is added to them afterwards.
LoadedWhole ==
  answer.kind = "endpoints" =>
    LET files == answer.are
    IN /\ \A t \in Tasks : stage[t] = "over"
       /\ Len(files) = Len(loaded) /\ Len(files) = Cardinality(Occurs(files))
       /\ source # "encodings" => Occurs(files) = Tasks
       /\ \A i, j \in DOMAIN files : i < j => rank[files[i]] <= rank[files[j]]

\* The function returns and leaves no goroutine behind for good, even where the walk
\* fails.
LoadingEnds == <>(loader = "returned" /\ AllOver)
=============================================================================
