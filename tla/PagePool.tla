------------------------------ MODULE PagePool ------------------------------
(***************************************************************************)
(* over_pages (site.cpp) on the pthread pool of run_on_workers             *)
(* (workers.cpp).  The calling thread runs a task over every page of a     *)
(* build.  Workers draw page indexes from one atomic counter, stop drawing *)
(* once a failure is flagged, and the first failure is kept under a mutex. *)
(*                                                                         *)
(* A worker's turn is split at every access to shared memory: fetch_add,   *)
(* the two-part test, the task, lock, exchange, store, unlock.             *)
(***************************************************************************)
EXTENDS Integers, FiniteSets

CONSTANTS
    N,        \* pages.size()
    W,        \* the most workers there can be: hardware_concurrency or --jobs
    Main      \* the calling thread

(* hardware_concurrency may answer 0, which std::max turns into 1. *)
ASSUME PoolAssumption == N \in Nat /\ W \in Nat \ {0} /\ Main \notin 1..W

Pool    == 1..W
Threads == Pool \cup {Main}
Pages   == 0..(N - 1)
NoPage  == -1

VARIABLES
    workers,    \* the number of workers this build was given (options.jobs)
    next,       \* std::atomic<std::size_t> next
    failed,     \* std::atomic<bool> failed
    failure,    \* ParseError failure, as the page it came from
    holder,     \* the thread holding failure_mutex, or none ({} or a singleton)
    pc,         \* where each thread stands
    index,      \* the local index of each thread
    spawning,   \* how many pthread_create calls run_on_workers has made
    started,    \* the threads in the vector `threads`
    runs,       \* ghost: how many times the task has been started on a page
    broke       \* ghost: the pages whose task returned an error

vars == <<workers, next, failed, failure, holder, pc, index, spawning, started, runs, broke>>

Labels == {"unborn", "call", "spawn", "fetch", "test", "task", "lock",
           "exchange", "store", "unlock", "exit", "join", "done"}

(* The values of the variables. *)
TypeOK ==
    /\ workers \in 1..W
    /\ next \in Nat
    /\ failed \in BOOLEAN
    /\ failure \in Pages \cup {NoPage}
    /\ holder \in SUBSET Threads
    /\ pc \in [Threads -> Labels]
    /\ index \in [Threads -> Nat]
    /\ spawning \in 0..W
    /\ started \in SUBSET Pool
    /\ runs \in [Pages -> Nat]
    /\ broke \in SUBSET Pages

Init ==
    /\ workers \in 1..W
    /\ next = 0
    /\ failed = FALSE
    /\ failure = NoPage
    /\ holder = {}
    /\ pc = [t \in Threads |-> IF t = Main THEN "call" ELSE "unborn"]
    /\ index = [t \in Threads |-> 0]
    /\ spawning = 0
    /\ started = {}
    /\ runs = [p \in Pages |-> 0]
    /\ broke = {}

Goto(t, label) == pc' = [pc EXCEPT ![t] = label]

-----------------------------------------------------------------------------
(* The calling thread *)

(* One worker, or fewer than two pages: the caller runs the loop itself. *)
CallAlone ==
    /\ pc[Main] = "call"
    /\ workers = 1 \/ N < 2
    /\ Goto(Main, "fetch")
    /\ UNCHANGED <<workers, next, failed, failure, holder, index, spawning, started, runs, broke>>

CallPool ==
    /\ pc[Main] = "call"
    /\ workers # 1 /\ N >= 2
    /\ Goto(Main, "spawn")
    /\ UNCHANGED <<workers, next, failed, failure, holder, index, spawning, started, runs, broke>>

(* pthread_create succeeded: the thread may run at once. *)
Spawn ==
    /\ pc[Main] = "spawn" /\ spawning < workers
    /\ spawning' = spawning + 1
    /\ started' = started \cup {spawning + 1}
    /\ Goto(spawning + 1, "fetch")
    /\ UNCHANGED <<workers, next, failed, failure, holder, index, runs, broke>>

(* The system refused the thread. *)
SpawnRefused ==
    /\ pc[Main] = "spawn" /\ spawning < workers
    /\ spawning' = spawning + 1
    /\ UNCHANGED <<workers, next, failed, failure, holder, pc, index, started, runs, broke>>

(* Mutant: with no thread started the caller joins nobody and returns. *)
SpawnedJoins ==
    /\ pc[Main] = "spawn" /\ spawning = workers
    /\ Goto(Main, "join")
    /\ UNCHANGED <<workers, next, failed, failure, holder, index, spawning, started, runs, broke>>

(* With none started the calling thread runs the task before it joins. *)
Spawned ==
    /\ pc[Main] = "spawn" /\ spawning = workers
    /\ Goto(Main, IF started = {} THEN "fetch" ELSE "join")
    /\ UNCHANGED <<workers, next, failed, failure, holder, index, spawning, started, runs, broke>>

(* Mutant: the caller waits for one of the threads. *)
JoinAny ==
    /\ pc[Main] = "join"
    /\ started = {} \/ \E t \in started : pc[t] = "exit"
    /\ Goto(Main, "done")
    /\ UNCHANGED <<workers, next, failed, failure, holder, index, spawning, started, runs, broke>>

Join ==
    /\ pc[Main] = "join"
    /\ \A t \in started : pc[t] = "exit"
    /\ Goto(Main, "done")
    /\ UNCHANGED <<workers, next, failed, failure, holder, index, spawning, started, runs, broke>>

-----------------------------------------------------------------------------
(* The worker loop, run by pool threads or by the caller *)

Leave(t) == IF t = Main THEN "join" ELSE "exit"

(* Mutant: the counter is read and stored back in two accesses, so an        *)
(* increment can be lost.                                                    *)
FetchLosesAdd(t) ==
    /\ pc[t] = "fetch"
    /\ index' = [index EXCEPT ![t] = next]
    /\ next' \in {next, next + 1}
    /\ Goto(t, "test")
    /\ UNCHANGED <<workers, failed, failure, holder, spawning, started, runs, broke>>

Fetch(t) ==
    /\ pc[t] = "fetch"
    /\ index' = [index EXCEPT ![t] = next]
    /\ next' = next + 1
    /\ Goto(t, "test")
    /\ UNCHANGED <<workers, failed, failure, holder, spawning, started, runs, broke>>

TestStop(t) ==
    /\ pc[t] = "test"
    /\ index[t] >= N \/ failed
    /\ Goto(t, Leave(t))
    /\ UNCHANGED <<workers, next, failed, failure, holder, index, spawning, started, runs, broke>>

TestGo(t) ==
    /\ pc[t] = "test"
    /\ index[t] < N /\ ~failed
    /\ runs' = [runs EXCEPT ![index[t]] = @ + 1]
    /\ Goto(t, "task")
    /\ UNCHANGED <<workers, next, failed, failure, holder, index, spawning, started, broke>>

TaskOk(t) ==
    /\ pc[t] = "task"
    /\ Goto(t, "fetch")
    /\ UNCHANGED <<workers, next, failed, failure, holder, index, spawning, started, runs, broke>>

TaskError(t) ==
    /\ pc[t] = "task"
    /\ broke' = broke \cup {index[t]}
    /\ Goto(t, "lock")
    /\ UNCHANGED <<workers, next, failed, failure, holder, index, spawning, started, runs>>

Lock(t) ==
    /\ pc[t] = "lock"
    /\ holder = {}
    /\ holder' = {t}
    /\ Goto(t, "exchange")
    /\ UNCHANGED <<workers, next, failed, failure, index, spawning, started, runs, broke>>

(* Mutant: every failing worker stores its own error. *)
ExchangeAlwaysStores(t) ==
    /\ pc[t] = "exchange"
    /\ failed' = TRUE
    /\ Goto(t, "store")
    /\ UNCHANGED <<workers, next, failure, holder, index, spawning, started, runs, broke>>

Exchange(t) ==
    /\ pc[t] = "exchange"
    /\ failed' = TRUE
    /\ Goto(t, IF failed THEN "unlock" ELSE "store")
    /\ UNCHANGED <<workers, next, failure, holder, index, spawning, started, runs, broke>>

Store(t) ==
    /\ pc[t] = "store"
    /\ failure' = index[t]
    /\ Goto(t, "unlock")
    /\ UNCHANGED <<workers, next, failed, holder, index, spawning, started, runs, broke>>

(* Mutant: the worker reports again instead of returning. *)
UnlockAndRetry(t) ==
    /\ pc[t] = "unlock"
    /\ holder' = {}
    /\ Goto(t, "lock")
    /\ UNCHANGED <<workers, next, failed, failure, index, spawning, started, runs, broke>>

Unlock(t) ==
    /\ pc[t] = "unlock"
    /\ holder' = {}
    /\ Goto(t, Leave(t))
    /\ UNCHANGED <<workers, next, failed, failure, index, spawning, started, runs, broke>>

WorkerStep(t) ==
    \/ Fetch(t) \/ TestStop(t) \/ TestGo(t) \/ TaskOk(t) \/ TaskError(t)
    \/ Lock(t) \/ Exchange(t) \/ Store(t) \/ Unlock(t)

MainStep == CallAlone \/ CallPool \/ Spawn \/ SpawnRefused \/ Spawned \/ Join

(* over_pages has returned; nothing moves. *)
Returned == pc[Main] = "done" /\ UNCHANGED vars

Next == MainStep \/ (\E t \in Threads : WorkerStep(t)) \/ Returned

(* Every thread that can run is eventually scheduled, and a task ends.  The  *)
(* mutex is only weakly fair: a thread waits for at most W short sections.   *)
Spec == Init /\ [][Next]_vars
FairSpec == Spec /\ WF_vars(MainStep) /\ \A t \in Threads : WF_vars(WorkerStep(t))

-----------------------------------------------------------------------------
(* Properties *)

(* A page is handed to the task at most once, by whichever thread drew its   *)
(* index: prepare_page and render_page change the Page without a lock, and   *)
(* render_page writes its output file, so a second run would be a race.      *)
OneTaskPerPage == \A p \in Pages : runs[p] <= 1

(* What over_pages returns: success only when every page was processed and   *)
(* none failed, whatever threads the system refused; otherwise the error of  *)
(* a page that really failed.                                                *)
ResultSound ==
    pc[Main] = "done" =>
        /\ ~failed => broke = {} /\ \A p \in Pages : runs[p] = 1
        /\ failed => failure \in broke

(* The error over_pages reports is the first one flagged: no later failure   *)
(* replaces it, although several workers may be failing at once.             *)
FirstFailureKept == [][failure # NoPage => failure' = failure]_vars

(* over_pages returns: no worker is left waiting for the mutex, and every    *)
(* worker runs out of pages or sees the failure.                             *)
Returns == <>(pc[Main] = "done")

Promise == INSTANCE OverPages WITH
    Success <- N,
    Running <- NoPage,
    todo    <- {p \in Pages : runs[p] = 0},
    broken  <- broke,
    result  <- IF pc[Main] # "done" THEN NoPage ELSE IF failed THEN failure ELSE N

(* The pool implements what over_pages promises: its steps are those of a    *)
(* call that hands each page out once, returns once, and leaves nothing      *)
(* running behind.                                                           *)
KeepsItsPromise == Promise!Spec

-----------------------------------------------------------------------------
(* The inductive invariant behind OneTaskPerPage and ResultSound *)

Working == {"test", "task", "lock", "exchange", "store", "unlock"}
Reporting == {"lock", "exchange", "store"}

(* The roles of the two kinds of thread. *)
RolesInv ==
    /\ pc[Main] \notin {"unborn", "exit"}
    /\ \A t \in Pool : pc[t] \notin {"call", "spawn", "join", "done"}
    /\ \A t \in Pool : t \in started <=> pc[t] # "unborn"
    /\ \A t \in started : t <= spawning
    /\ pc[Main] \in Working \cup {"call", "fetch"} => started = {}
    /\ pc[Main] = "done" => \A t \in started : pc[t] = "exit"

(* An index drawn and not yet tested belongs to one thread and one untouched *)
(* page; pages above the counter are untouched.                              *)
DrawInv ==
    /\ \A t \in Threads : pc[t] \in Working => index[t] < next
    /\ \A t, u \in Threads : pc[t] = "test" /\ pc[u] = "test" /\ t # u => index[t] # index[u]
    /\ \A t \in Threads : pc[t] = "test" /\ index[t] \in Pages => runs[index[t]] = 0
    /\ \A t \in Threads : pc[t] \in Working \ {"test"} => index[t] \in Pages
    /\ \A p \in Pages : p >= next => runs[p] = 0

(* A page below the counter is processed, about to be tested, or given up    *)
(* because of a failure; a thread that left the loop had a reason to.        *)
CoverInv ==
    /\ \A p \in Pages : p < next /\ runs[p] = 0 =>
          failed \/ \E t \in Threads : pc[t] = "test" /\ index[t] = p
    /\ \A t \in started : pc[t] = "exit" => failed \/ next > N
    /\ pc[Main] \in {"join", "done"} => started # {} \/ failed \/ next > N

(* A failing page is flagged or about to be, and the flag has an owner. *)
FailureInv ==
    /\ \A t \in Threads : pc[t] \in Reporting => index[t] \in broke
    /\ \A t \in Threads : pc[t] \in {"store", "unlock"} => failed
    /\ \A p \in broke : failed \/ \E t \in Threads : pc[t] \in {"lock", "exchange"}
    /\ failed => failure \in broke \/ \E t \in Threads : pc[t] = "store"

(* A thread past the test has taken its page, and the one that may store the *)
(* failure finds none stored.                                                *)
StoreInv ==
    /\ \A t \in Threads : pc[t] \in Working \ {"test"} => runs[index[t]] # 0
    /\ ~failed => failure = NoPage
    /\ \A t \in Threads : pc[t] = "store" => failure = NoPage
    /\ \A t, u \in Threads : pc[t] = "store" /\ pc[u] = "store" => t = u

PoolInv ==
    /\ TypeOK
    /\ RolesInv
    /\ DrawInv
    /\ CoverInv
    /\ FailureInv
    /\ StoreInv
    /\ OneTaskPerPage

=============================================================================
