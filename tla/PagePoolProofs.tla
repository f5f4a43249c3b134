--------------------------- MODULE PagePoolProofs ---------------------------
(***************************************************************************)
(* Proofs about PagePool for any number of pages and workers.  PoolInv is  *)
(* inductive; OneTaskPerPage is one of its conjuncts and ResultSound       *)
(* follows from it.                                                        *)
(***************************************************************************)
EXTENDS PagePool, TLAPS

USE PoolAssumption DEF Pool, Threads, Pages, NoPage, Labels, Working, Reporting

(* Nothing has run when over_pages is called. *)
LEMMA PoolInit == Init => PoolInv
<1> SUFFICES ASSUME Init PROVE PoolInv
  OBVIOUS
<1>1. TypeOK
  <2>1. failure \in Pages \cup {NoPage} /\ broke \in SUBSET Pages /\ runs \in [Pages -> Nat]
    BY DEF Init
  <2>2. pc \in [Threads -> Labels] /\ index \in [Threads -> Nat]
    BY DEF Init
  <2>3. next \in Nat /\ spawning \in 0..W /\ workers \in 1..W
    BY DEF Init
  <2>4. holder \in SUBSET Threads /\ started \in SUBSET Pool
    BY DEF Init
  <2>5. failed \in BOOLEAN
    BY Zenon DEF Init
  <2> QED
    BY <2>1, <2>2, <2>3, <2>4, <2>5 DEF TypeOK
<1>2. RolesInv
  BY DEF Init, RolesInv
<1>3. DrawInv
  BY DEF Init, DrawInv
<1>4. CoverInv
  BY DEF Init, CoverInv
<1>5. FailureInv
  BY DEF Init, FailureInv
<1>6. OneTaskPerPage
  BY DEF Init, OneTaskPerPage
<1>7. StoreInv
  BY DEF Init, StoreInv
<1> QED
  BY <1>1, <1>2, <1>3, <1>4, <1>5, <1>6, <1>7 DEF PoolInv

(* The steps of the calling thread preserve the invariant. *)
LEMMA PoolMainStep == ASSUME PoolInv, MainStep PROVE PoolInv'
<1> USE DEF PoolInv
<1>1. CASE CallAlone
  <2>1. TypeOK'
    BY <1>1 DEF CallAlone, Goto, TypeOK
  <2>2. RolesInv'
    BY <1>1 DEF CallAlone, Goto, TypeOK, RolesInv
  <2>3. DrawInv'
    BY <1>1 DEF CallAlone, Goto, TypeOK, DrawInv, RolesInv
  <2>4. CoverInv'
    BY <1>1 DEF CallAlone, Goto, TypeOK, RolesInv, DrawInv, CoverInv
  <2>5. FailureInv'
    BY <1>1 DEF CallAlone, Goto, TypeOK, RolesInv, DrawInv, FailureInv
  <2>6. OneTaskPerPage'
    BY <1>1 DEF CallAlone, Goto, TypeOK, DrawInv, OneTaskPerPage
  <2>7. StoreInv'
    BY <1>1 DEF CallAlone, Goto, Leave, TypeOK, DrawInv, FailureInv, StoreInv
  <2> QED
    BY <2>1, <2>2, <2>3, <2>4, <2>5, <2>6, <2>7 DEF PoolInv
<1>2. CASE CallPool
  <2>1. TypeOK'
    BY <1>2 DEF CallPool, Goto, TypeOK
  <2>2. RolesInv'
    BY <1>2 DEF CallPool, Goto, TypeOK, RolesInv
  <2>3. DrawInv'
    BY <1>2 DEF CallPool, Goto, TypeOK, DrawInv, RolesInv
  <2>4. CoverInv'
    BY <1>2 DEF CallPool, Goto, TypeOK, RolesInv, DrawInv, CoverInv
  <2>5. FailureInv'
    BY <1>2 DEF CallPool, Goto, TypeOK, RolesInv, DrawInv, FailureInv
  <2>6. OneTaskPerPage'
    BY <1>2 DEF CallPool, Goto, TypeOK, DrawInv, OneTaskPerPage
  <2>7. StoreInv'
    BY <1>2 DEF CallPool, Goto, Leave, TypeOK, DrawInv, FailureInv, StoreInv
  <2> QED
    BY <2>1, <2>2, <2>3, <2>4, <2>5, <2>6, <2>7 DEF PoolInv
<1>3. CASE Spawn
  <2>1. TypeOK'
    <3>1. spawning + 1 \in 1..W
      BY <1>3 DEF Spawn, TypeOK
    <3>2. pc' \in [Threads -> Labels] /\ started' \in SUBSET Pool
      BY <1>3, <3>1 DEF Spawn, Goto, TypeOK
    <3> QED
      BY <1>3, <3>1, <3>2 DEF Spawn, TypeOK
  <2>2. RolesInv'
    BY <1>3 DEF Spawn, Goto, TypeOK, RolesInv
  <2>3. DrawInv'
    BY <1>3 DEF Spawn, Goto, TypeOK, DrawInv, RolesInv
  <2>4. CoverInv'
    BY <1>3 DEF Spawn, Goto, TypeOK, RolesInv, DrawInv, CoverInv
  <2>5. FailureInv'
    <3>1. spawning + 1 \in Pool /\ spawning + 1 # Main /\ pc[spawning + 1] = "unborn"
      BY <1>3 DEF Spawn, TypeOK, RolesInv
    <3>2. \A u \in Threads : pc'[u] = IF u = spawning + 1 THEN "fetch" ELSE pc[u]
      BY <1>3, <3>1 DEF Spawn, Goto, TypeOK
    <3>3. UNCHANGED <<failed, failure, index, broke>>
      BY <1>3 DEF Spawn
    <3> QED
      BY <3>1, <3>2, <3>3 DEF FailureInv
  <2>6. OneTaskPerPage'
    BY <1>3 DEF Spawn, Goto, TypeOK, DrawInv, OneTaskPerPage
  <2>7. StoreInv'
    BY <1>3 DEF Spawn, Goto, Leave, TypeOK, DrawInv, FailureInv, StoreInv
  <2> QED
    BY <2>1, <2>2, <2>3, <2>4, <2>5, <2>6, <2>7 DEF PoolInv
<1>4. CASE SpawnRefused
  <2>1. TypeOK'
    BY <1>4 DEF SpawnRefused, Goto, TypeOK
  <2>2. RolesInv'
    BY <1>4 DEF SpawnRefused, Goto, TypeOK, RolesInv
  <2>3. DrawInv'
    BY <1>4 DEF SpawnRefused, Goto, TypeOK, DrawInv, RolesInv
  <2>4. CoverInv'
    BY <1>4 DEF SpawnRefused, Goto, TypeOK, RolesInv, DrawInv, CoverInv
  <2>5. FailureInv'
    BY <1>4 DEF SpawnRefused, Goto, TypeOK, RolesInv, DrawInv, FailureInv
  <2>6. OneTaskPerPage'
    BY <1>4 DEF SpawnRefused, Goto, TypeOK, DrawInv, OneTaskPerPage
  <2>7. StoreInv'
    BY <1>4 DEF SpawnRefused, Goto, Leave, TypeOK, DrawInv, FailureInv, StoreInv
  <2> QED
    BY <2>1, <2>2, <2>3, <2>4, <2>5, <2>6, <2>7 DEF PoolInv
<1>5. CASE Spawned
  <2>1. TypeOK'
    BY <1>5 DEF Spawned, Goto, TypeOK
  <2>2. RolesInv'
    BY <1>5 DEF Spawned, Goto, TypeOK, RolesInv
  <2>3. DrawInv'
    BY <1>5 DEF Spawned, Goto, TypeOK, DrawInv, RolesInv
  <2>4. CoverInv'
    BY <1>5 DEF Spawned, Goto, TypeOK, RolesInv, DrawInv, CoverInv
  <2>5. FailureInv'
    BY <1>5 DEF Spawned, Goto, TypeOK, RolesInv, DrawInv, FailureInv
  <2>6. OneTaskPerPage'
    BY <1>5 DEF Spawned, Goto, TypeOK, DrawInv, OneTaskPerPage
  <2>7. StoreInv'
    BY <1>5 DEF Spawned, Goto, Leave, TypeOK, DrawInv, FailureInv, StoreInv
  <2> QED
    BY <2>1, <2>2, <2>3, <2>4, <2>5, <2>6, <2>7 DEF PoolInv
<1>6. CASE Join
  <2>1. TypeOK'
    BY <1>6 DEF Join, Goto, TypeOK
  <2>2. RolesInv'
    BY <1>6 DEF Join, Goto, TypeOK, RolesInv
  <2>3. DrawInv'
    BY <1>6 DEF Join, Goto, TypeOK, DrawInv, RolesInv
  <2>4. CoverInv'
    BY <1>6 DEF Join, Goto, TypeOK, RolesInv, DrawInv, CoverInv
  <2>5. FailureInv'
    BY <1>6 DEF Join, Goto, TypeOK, RolesInv, DrawInv, FailureInv
  <2>6. OneTaskPerPage'
    BY <1>6 DEF Join, Goto, TypeOK, DrawInv, OneTaskPerPage
  <2>7. StoreInv'
    BY <1>6 DEF Join, Goto, Leave, TypeOK, DrawInv, FailureInv, StoreInv
  <2> QED
    BY <2>1, <2>2, <2>3, <2>4, <2>5, <2>6, <2>7 DEF PoolInv
<1> QED
  BY <1>1, <1>2, <1>3, <1>4, <1>5, <1>6 DEF MainStep

(* The steps of the worker loop, run by any thread, preserve the invariant. *)
LEMMA PoolWorkerStep == ASSUME PoolInv, NEW t \in Threads, WorkerStep(t) PROVE PoolInv'
<1> USE DEF PoolInv
<1>1. CASE Fetch(t)
  <2>1. TypeOK'
    BY <1>1 DEF Fetch, Goto, Leave, TypeOK
  <2>2. RolesInv'
    BY <1>1 DEF Fetch, Goto, Leave, TypeOK, RolesInv
  <2>3. DrawInv'
    <3>1. index' = [index EXCEPT ![t] = next] /\ next' = next + 1 /\ runs' = runs
      BY <1>1 DEF Fetch
    <3>2. \A u \in Threads : pc'[u] = IF u = t THEN "test" ELSE pc[u]
      BY <1>1 DEF Fetch, Goto, TypeOK
    <3>3. \A u \in Threads : index'[u] = IF u = t THEN next ELSE index[u]
      BY <3>1 DEF TypeOK
    <3>4. \A u \in Threads : pc'[u] \in Working => index'[u] < next'
      <4> SUFFICES ASSUME NEW u \in Threads, pc'[u] \in Working PROVE index'[u] < next'
        OBVIOUS
      <4>1. CASE u = t
        BY <4>1, <3>1, <3>3 DEF TypeOK
      <4>2. CASE u # t
        <5>1. index[u] \in Nat /\ index[u] < next
          BY <4>2, <3>2 DEF TypeOK, DrawInv
        <5> QED
          BY <4>2, <5>1, <3>1, <3>3 DEF TypeOK
      <4> QED
        BY <4>1, <4>2
    <3>5. \A u, v \in Threads : pc'[u] = "test" /\ pc'[v] = "test" /\ u # v => index'[u] # index'[v]
      BY <3>2, <3>3 DEF TypeOK, DrawInv
    <3>6. \A u \in Threads : pc'[u] = "test" /\ index'[u] \in Pages => runs'[index'[u]] = 0
      BY <3>1, <3>2, <3>3 DEF TypeOK, DrawInv
    <3>7. \A u \in Threads : pc'[u] \in Working \ {"test"} => index'[u] \in Pages
      BY <3>2, <3>3 DEF DrawInv
    <3>8. \A p \in Pages : p >= next' => runs'[p] = 0
      BY <3>1 DEF TypeOK, DrawInv
    <3> QED
      BY <3>4, <3>5, <3>6, <3>7, <3>8 DEF DrawInv
  <2>4. CoverInv'
    BY <1>1 DEF Fetch, Goto, Leave, TypeOK, RolesInv, DrawInv, CoverInv
  <2>5. FailureInv'
    BY <1>1 DEF Fetch, Goto, Leave, TypeOK, RolesInv, DrawInv, FailureInv
  <2>6. OneTaskPerPage'
    BY <1>1 DEF Fetch, Goto, Leave, TypeOK, DrawInv, OneTaskPerPage
  <2>7. StoreInv'
    BY <1>1 DEF Fetch, Goto, Leave, TypeOK, DrawInv, FailureInv, StoreInv
  <2> QED
    BY <2>1, <2>2, <2>3, <2>4, <2>5, <2>6, <2>7 DEF PoolInv
<1>2. CASE TestStop(t)
  <2>1. TypeOK'
    BY <1>2 DEF TestStop, Goto, Leave, TypeOK
  <2>2. RolesInv'
    BY <1>2 DEF TestStop, Goto, Leave, TypeOK, RolesInv
  <2>3. DrawInv'
    BY <1>2 DEF TestStop, Goto, Leave, TypeOK, DrawInv, RolesInv
  <2>4. CoverInv'
    <3>1. \A u \in Threads : pc'[u] = IF u = t THEN Leave(t) ELSE pc[u]
      BY <1>2 DEF TestStop, Goto, TypeOK
    <3>2. UNCHANGED <<next, failed, index, started, runs>>
      BY <1>2 DEF TestStop
    <3>3. failed \/ next > N
      BY <1>2 DEF TestStop, TypeOK, DrawInv, FailureInv
    <3>4. \A p \in Pages : p < next /\ runs[p] = 0 =>
            failed \/ \E u \in Threads : pc'[u] = "test" /\ index[u] = p
      BY <1>2, <3>1 DEF TestStop, TypeOK, CoverInv
    <3> QED
      BY <3>1, <3>2, <3>3, <3>4 DEF CoverInv
  <2>5. FailureInv'
    BY <1>2 DEF TestStop, Goto, Leave, TypeOK, RolesInv, DrawInv, FailureInv
  <2>6. OneTaskPerPage'
    BY <1>2 DEF TestStop, Goto, Leave, TypeOK, DrawInv, OneTaskPerPage
  <2>7. StoreInv'
    BY <1>2 DEF TestStop, Goto, Leave, TypeOK, DrawInv, FailureInv, StoreInv
  <2> QED
    BY <2>1, <2>2, <2>3, <2>4, <2>5, <2>6, <2>7 DEF PoolInv
<1>3. CASE TestGo(t)
  <2>1. TypeOK'
    BY <1>3 DEF TestGo, Goto, Leave, TypeOK
  <2>2. RolesInv'
    BY <1>3 DEF TestGo, Goto, Leave, TypeOK, RolesInv
  <2>3. DrawInv'
    <3>1. /\ pc[t] = "test" /\ index[t] \in Pages /\ index[t] < next
          /\ UNCHANGED <<next, index>>
      BY <1>3 DEF TestGo, TypeOK, DrawInv, Working
    <3>2. pc'[t] = "task" /\ \A u \in Threads : u # t => pc'[u] = pc[u]
      BY <1>3 DEF TestGo, Goto, TypeOK
    <3>3. \A p \in Pages : p # index[t] => runs'[p] = runs[p]
      BY <1>3, <3>1 DEF TestGo, TypeOK
    <3>4. \A u \in Threads : pc'[u] = "test" => u # t /\ pc[u] = "test" /\ index[u] # index[t]
      BY <3>1, <3>2 DEF DrawInv
    <3>5. \A u \in Threads : pc'[u] = "test" /\ index[u] \in Pages => runs'[index[u]] = 0
      BY <3>3, <3>4 DEF DrawInv
    <3>6. \A p \in Pages : p >= next => runs'[p] = 0
      <4>1. \A p \in Pages : p >= next => p # index[t]
        BY <3>1 DEF TypeOK
      <4> QED
        BY <3>3, <4>1 DEF DrawInv
    <3>7. \A u \in Threads : /\ pc'[u] \in Working => index[u] < next
                             /\ pc'[u] \in Working \ {"test"} => index[u] \in Pages
      BY <3>1, <3>2 DEF DrawInv
    <3> QED
      BY <3>1, <3>2, <3>4, <3>5, <3>6, <3>7 DEF DrawInv
  <2>4. CoverInv'
    BY <1>3 DEF TestGo, Goto, Leave, TypeOK, RolesInv, DrawInv, CoverInv
  <2>5. FailureInv'
    BY <1>3 DEF TestGo, Goto, Leave, TypeOK, RolesInv, DrawInv, FailureInv
  <2>6. PICK p \in Pages : p = index[t] /\ runs[p] = 0
    BY <1>3 DEF TestGo, TypeOK, DrawInv
  <2>7. \A q \in Pages : runs'[q] = IF q = p THEN 1 ELSE runs[q]
    <3>1. runs' = [runs EXCEPT ![p] = runs[p] + 1] /\ runs \in [Pages -> Nat]
      BY <1>3, <2>6 DEF TestGo, TypeOK
    <3> QED
      BY <2>6, <3>1
  <2>8. OneTaskPerPage'
    BY <2>7 DEF OneTaskPerPage
  <2>9. StoreInv'
    <3>1. /\ failed' = failed /\ failure' = failure /\ index' = index
          /\ pc'[t] = "task" /\ \A u \in Threads : u # t => pc'[u] = pc[u]
      BY <1>3 DEF TestGo, Goto, TypeOK
    <3>2. \A u \in Threads : pc'[u] \in Working \ {"test"} => index[u] \in Pages
      BY <2>6, <3>1 DEF DrawInv
    <3>3. \A u \in Threads : pc'[u] \in Working \ {"test"} => runs'[index[u]] # 0
      BY <2>6, <2>7, <3>1, <3>2 DEF StoreInv
    <3> QED
      BY <3>1, <3>3 DEF StoreInv
  <2> QED
    BY <2>1, <2>2, <2>3, <2>4, <2>5, <2>8, <2>9 DEF PoolInv
<1>4. CASE TaskOk(t)
  <2>1. TypeOK'
    BY <1>4 DEF TaskOk, Goto, Leave, TypeOK
  <2>2. RolesInv'
    BY <1>4 DEF TaskOk, Goto, Leave, TypeOK, RolesInv
  <2>3. DrawInv'
    BY <1>4 DEF TaskOk, Goto, Leave, TypeOK, DrawInv, RolesInv
  <2>4. CoverInv'
    BY <1>4 DEF TaskOk, Goto, Leave, TypeOK, RolesInv, DrawInv, CoverInv
  <2>5. FailureInv'
    BY <1>4 DEF TaskOk, Goto, Leave, TypeOK, RolesInv, DrawInv, FailureInv
  <2>6. OneTaskPerPage'
    BY <1>4 DEF TaskOk, Goto, Leave, TypeOK, DrawInv, OneTaskPerPage
  <2>7. StoreInv'
    BY <1>4 DEF TaskOk, Goto, Leave, TypeOK, DrawInv, FailureInv, StoreInv
  <2> QED
    BY <2>1, <2>2, <2>3, <2>4, <2>5, <2>6, <2>7 DEF PoolInv
<1>5. CASE TaskError(t)
  <2>1. TypeOK'
    BY <1>5 DEF TaskError, Goto, TypeOK, DrawInv
  <2>2. RolesInv'
    BY <1>5 DEF TaskError, Goto, Leave, TypeOK, RolesInv
  <2>3. DrawInv'
    BY <1>5 DEF TaskError, Goto, Leave, TypeOK, DrawInv, RolesInv
  <2>4. CoverInv'
    BY <1>5 DEF TaskError, Goto, Leave, TypeOK, RolesInv, DrawInv, CoverInv
  <2>5. FailureInv'
    BY <1>5 DEF TaskError, Goto, Leave, TypeOK, RolesInv, DrawInv, FailureInv
  <2>6. OneTaskPerPage'
    BY <1>5 DEF TaskError, Goto, Leave, TypeOK, DrawInv, OneTaskPerPage
  <2>7. StoreInv'
    BY <1>5 DEF TaskError, Goto, Leave, TypeOK, DrawInv, FailureInv, StoreInv
  <2> QED
    BY <2>1, <2>2, <2>3, <2>4, <2>5, <2>6, <2>7 DEF PoolInv
<1>6. CASE Lock(t)
  <2>1. TypeOK'
    BY <1>6 DEF Lock, Goto, Leave, TypeOK
  <2>2. RolesInv'
    BY <1>6 DEF Lock, Goto, Leave, TypeOK, RolesInv
  <2>3. DrawInv'
    BY <1>6 DEF Lock, Goto, Leave, TypeOK, DrawInv, RolesInv
  <2>4. CoverInv'
    BY <1>6 DEF Lock, Goto, Leave, TypeOK, RolesInv, DrawInv, CoverInv
  <2>5. FailureInv'
    BY <1>6 DEF Lock, Goto, Leave, TypeOK, RolesInv, DrawInv, FailureInv
  <2>6. OneTaskPerPage'
    BY <1>6 DEF Lock, Goto, Leave, TypeOK, DrawInv, OneTaskPerPage
  <2>7. StoreInv'
    BY <1>6 DEF Lock, Goto, Leave, TypeOK, DrawInv, FailureInv, StoreInv
  <2> QED
    BY <2>1, <2>2, <2>3, <2>4, <2>5, <2>6, <2>7 DEF PoolInv
<1>7. CASE Exchange(t)
  <2>1. TypeOK'
    BY <1>7 DEF Exchange, Goto, Leave, TypeOK
  <2>2. RolesInv'
    BY <1>7 DEF Exchange, Goto, Leave, TypeOK, RolesInv
  <2>3. DrawInv'
    BY <1>7 DEF Exchange, Goto, Leave, TypeOK, DrawInv, RolesInv
  <2>4. CoverInv'
    BY <1>7 DEF Exchange, Goto, Leave, TypeOK, RolesInv, DrawInv, CoverInv
  <2>5. FailureInv'
    BY <1>7 DEF Exchange, Goto, Leave, TypeOK, RolesInv, DrawInv, FailureInv
  <2>6. OneTaskPerPage'
    BY <1>7 DEF Exchange, Goto, Leave, TypeOK, DrawInv, OneTaskPerPage
  <2>7. StoreInv'
    BY <1>7 DEF Exchange, Goto, Leave, TypeOK, DrawInv, FailureInv, StoreInv
  <2> QED
    BY <2>1, <2>2, <2>3, <2>4, <2>5, <2>6, <2>7 DEF PoolInv
<1>8. CASE Store(t)
  <2>1. TypeOK'
    BY <1>8 DEF Store, Goto, TypeOK, DrawInv
  <2>2. RolesInv'
    BY <1>8 DEF Store, Goto, Leave, TypeOK, RolesInv
  <2>3. DrawInv'
    BY <1>8 DEF Store, Goto, Leave, TypeOK, DrawInv, RolesInv
  <2>4. CoverInv'
    BY <1>8 DEF Store, Goto, Leave, TypeOK, RolesInv, DrawInv, CoverInv
  <2>5. FailureInv'
    BY <1>8 DEF Store, Goto, Leave, TypeOK, RolesInv, DrawInv, FailureInv
  <2>6. OneTaskPerPage'
    BY <1>8 DEF Store, Goto, Leave, TypeOK, DrawInv, OneTaskPerPage
  <2>7. StoreInv'
    BY <1>8 DEF Store, Goto, Leave, TypeOK, DrawInv, FailureInv, StoreInv
  <2> QED
    BY <2>1, <2>2, <2>3, <2>4, <2>5, <2>6, <2>7 DEF PoolInv
<1>9. CASE Unlock(t)
  <2>1. TypeOK'
    BY <1>9 DEF Unlock, Goto, Leave, TypeOK
  <2>2. RolesInv'
    BY <1>9 DEF Unlock, Goto, Leave, TypeOK, RolesInv
  <2>3. DrawInv'
    BY <1>9 DEF Unlock, Goto, Leave, TypeOK, DrawInv, RolesInv
  <2>4. CoverInv'
    <3>1. \A u \in Threads : pc'[u] = IF u = t THEN Leave(t) ELSE pc[u]
      BY <1>9 DEF Unlock, Goto, TypeOK
    <3>2. UNCHANGED <<next, failed, index, started, runs>>
      BY <1>9 DEF Unlock
    <3>3. failed \/ next > N
      BY <1>9 DEF Unlock, TypeOK, DrawInv, FailureInv
    <3>4. \A p \in Pages : p < next /\ runs[p] = 0 =>
            failed \/ \E u \in Threads : pc'[u] = "test" /\ index[u] = p
      BY <1>9, <3>1 DEF Unlock, TypeOK, CoverInv
    <3> QED
      BY <3>1, <3>2, <3>3, <3>4 DEF CoverInv
  <2>5. FailureInv'
    BY <1>9 DEF Unlock, Goto, Leave, TypeOK, RolesInv, DrawInv, FailureInv
  <2>6. OneTaskPerPage'
    BY <1>9 DEF Unlock, Goto, Leave, TypeOK, DrawInv, OneTaskPerPage
  <2>7. StoreInv'
    BY <1>9 DEF Unlock, Goto, Leave, TypeOK, DrawInv, FailureInv, StoreInv
  <2> QED
    BY <2>1, <2>2, <2>3, <2>4, <2>5, <2>6, <2>7 DEF PoolInv
<1> QED
  BY <1>1, <1>2, <1>3, <1>4, <1>5, <1>6, <1>7, <1>8, <1>9 DEF WorkerStep

(* The invariant holds in every reachable state. *)
THEOREM PoolInvariant == Spec => []PoolInv
<1>1. PoolInv /\ [Next]_vars => PoolInv'
  <2> SUFFICES ASSUME PoolInv, [Next]_vars PROVE PoolInv'
    OBVIOUS
  <2>1. CASE UNCHANGED vars
    BY <2>1 DEF vars, PoolInv, TypeOK, RolesInv, DrawInv, CoverInv, FailureInv, StoreInv, OneTaskPerPage
  <2>2. CASE Next
    BY <2>1, <2>2, PoolMainStep, PoolWorkerStep DEF Next, Returned
  <2> QED
    BY <2>1, <2>2
<1> QED
  BY PoolInit, <1>1, PTL DEF Spec

(* For any number of pages and workers, and whatever threads the system      *)
(* refuses to start, no page is handed to prepare_page or render_page twice. *)
THEOREM PoolOneTaskPerPage == Spec => []OneTaskPerPage
  BY PoolInvariant, PTL DEF PoolInv

(* What the invariant says when over_pages returns. *)
LEMMA PoolDone == PoolInv => ResultSound
<1> SUFFICES ASSUME PoolInv, pc[Main] = "done"
             PROVE  /\ ~failed => broke = {} /\ \A p \in Pages : runs[p] = 1
                    /\ failed => failure \in broke
  BY DEF ResultSound
<1>1. \A t \in Threads : pc[t] \in {"unborn", "exit", "done"}
  BY DEF PoolInv, RolesInv, TypeOK
<1>2. failed \/ next > N
  BY <1>1 DEF PoolInv, RolesInv, CoverInv
<1>3. ~failed => broke = {}
  BY <1>1 DEF PoolInv, FailureInv
<1>4. ASSUME ~failed, NEW p \in Pages PROVE runs[p] = 1
  <2>1. p < next
    <3>1. next \in Nat /\ next > N
      BY <1>2, <1>4 DEF PoolInv, TypeOK
    <3> QED
      BY <3>1
  <2>2. runs[p] \in {0, 1}
    <3>1. runs[p] \in Nat /\ runs[p] <= 1
      BY DEF PoolInv, TypeOK, OneTaskPerPage
    <3> QED
      BY <3>1
  <2>3. runs[p] # 0
    BY <1>1, <1>4, <2>1 DEF PoolInv, CoverInv
  <2> QED
    BY <2>2, <2>3
<1>5. failed => failure \in broke
  BY <1>1 DEF PoolInv, FailureInv
<1> QED
  BY <1>3, <1>4, <1>5

(* For any number of pages and workers, over_pages reports success only when *)
(* every page was processed, and otherwise the error of a page that failed.  *)
THEOREM PoolResultSound == Spec => []ResultSound
  BY PoolDone, PoolInvariant, PTL

(* The error that over_pages returns is the first one flagged, for any       *)
(* number of workers that fail at once: only the thread that finds the flag  *)
(* down stores, and it finds no failure stored.                              *)
THEOREM PoolFirstFailureKept == Spec => FirstFailureKept
<1>1. PoolInv /\ [Next]_vars => [failure # NoPage => failure' = failure]_vars
  <2> SUFFICES ASSUME PoolInv, [Next]_vars, failure # NoPage PROVE failure' = failure
    OBVIOUS
  <2>1. CASE UNCHANGED vars
    BY <2>1 DEF vars
  <2>2. CASE MainStep
    BY <2>2 DEF MainStep, CallAlone, CallPool, Spawn, SpawnRefused, Spawned, Join
  <2>3. ASSUME NEW t \in Threads, WorkerStep(t) PROVE failure' = failure
    <3>1. ~Store(t)
      BY DEF PoolInv, StoreInv, Store
    <3> QED
      BY <2>3, <3>1 DEF WorkerStep, Fetch, TestStop, TestGo, TaskOk, TaskError, Lock, Exchange, Unlock
  <2> QED
    BY <2>1, <2>2, <2>3 DEF Next, Returned
<1> QED
  BY <1>1, PoolInvariant, PTL DEF Spec, FirstFailureKept

-----------------------------------------------------------------------------
(* The pool implements OverPages *)

(* Once over_pages has returned, no thread of its pool has a step left. *)
LEMMA PoolOver ==
  ASSUME PoolInv, NEW t \in Threads, WorkerStep(t)
  PROVE  pc[Main] # "done"
<1>1. pc[t] \notin {"unborn", "exit", "done"}
  BY DEF WorkerStep, Fetch, TestStop, TestGo, TaskOk, TaskError, Lock, Exchange, Store, Unlock
<1> QED
  BY <1>1 DEF PoolInv, RolesInv

(* A step that hands out no page, gives no result and notes no failure is    *)
(* one the caller does not see.                                              *)
LEMMA PoolStutters ==
  ASSUME UNCHANGED <<runs, broke>>,
         pc[Main] # "done" /\ pc'[Main] # "done"
  PROVE  UNCHANGED Promise!promised
  BY DEF Promise!promised

(* A worker's step is a task begun, a task that fails, or nothing. *)
LEMMA PoolWorkerPromise ==
  ASSUME PoolInv, NEW t \in Threads, WorkerStep(t)
  PROVE  [Promise!Next]_(Promise!promised)
<1>p. PICK p \in Nat : p = index[t]
  BY DEF PoolInv, TypeOK
<1>0. pc[Main] # "done" /\ pc'[Main] # "done"
  <2>1. pc[Main] # "done"
    BY PoolOver
  <2>2. \A l \in Labels : Goto(t, l) /\ l # "done" => pc'[Main] # "done"
    BY <2>1 DEF Goto, PoolInv, TypeOK
  <2> QED
    BY <2>1, <2>2 DEF WorkerStep, Fetch, TestStop, TestGo, TaskOk, TaskError, Lock, Exchange, Store,
       Unlock, Leave
<1>1. CASE TestGo(t)
  <2>1. p \in Pages /\ runs[p] = 0
    BY <1>p, <1>1 DEF TestGo, PoolInv, TypeOK, DrawInv
  <2>2. broke' = broke /\ \A q \in Pages : runs'[q] = IF q = p THEN 1 ELSE runs[q]
    BY <1>p, <1>1, <2>1 DEF TestGo, PoolInv, TypeOK
  <2>3. {q \in Pages : runs'[q] = 0} = {q \in Pages : runs[q] = 0} \ {p}
    BY <2>2
  <2>4. Promise!Begin(p)
    BY <1>0, <2>1, <2>2, <2>3 DEF Promise!Begin
  <2> QED
    BY <2>1, <2>4 DEF Promise!Next
<1>2. CASE TaskError(t)
  <2>1. p \in Pages /\ runs[p] # 0
    BY <1>p, <1>2 DEF TaskError, PoolInv, DrawInv, StoreInv
  <2>2. runs' = runs /\ broke' = broke \cup {p}
    BY <1>p, <1>2 DEF TaskError
  <2>3. Promise!Break(p)
    BY <1>0, <2>1, <2>2 DEF Promise!Break
  <2> QED
    BY <2>1, <2>3 DEF Promise!Next
<1>3. CASE UNCHANGED <<runs, broke>>
  BY <1>0, <1>3, PoolStutters
<1> QED
  BY <1>1, <1>2, <1>3 DEF WorkerStep, Fetch, TestStop, TaskOk, Lock, Exchange, Store, Unlock

(* A step of the calling thread is a result given, or nothing. *)
LEMMA PoolMainPromise ==
  ASSUME PoolInv, ResultSound', MainStep
  PROVE  [Promise!Next]_(Promise!promised)
<1>0. pc[Main] # "done" /\ UNCHANGED <<runs, broke, failed, failure>>
  BY DEF MainStep, CallAlone, CallPool, Spawn, SpawnRefused, Spawned, Join
<1>1. CASE Join
  <2>1. pc'[Main] = "done"
    BY <1>1 DEF Join, Goto, PoolInv, TypeOK
  <2>2. CASE failed
    <3>1. failure \in broke /\ broke \subseteq Pages
      BY <1>0, <2>1, <2>2 DEF ResultSound, PoolInv, TypeOK
    <3>2. Promise!GiveUp(failure)
      BY <1>0, <2>1, <2>2, <3>1 DEF Promise!GiveUp
    <3> QED
      BY <3>1, <3>2 DEF Promise!Next
  <2>3. CASE ~failed
    <3>1. broke = {} /\ {q \in Pages : runs[q] = 0} = {}
      BY <1>0, <2>1, <2>3 DEF ResultSound
    <3>2. Promise!Succeed
      BY <1>0, <2>1, <2>3, <3>1 DEF Promise!Succeed
    <3> QED
      BY <3>2 DEF Promise!Next
  <2> QED
    BY <2>2, <2>3
<1>2. CASE ~Join
  <2>1. pc'[Main] # "done"
    <3>1. CASE Spawn
      BY <1>0, <3>1 DEF Spawn, Goto, PoolInv, TypeOK
    <3>2. CASE ~Spawn
      BY <1>0, <1>2, <3>2 DEF MainStep, CallAlone, CallPool, SpawnRefused, Spawned, Goto, PoolInv, TypeOK
    <3> QED
      BY <3>1, <3>2
  <2> QED
    BY <1>0, <2>1, PoolStutters
<1> QED
  BY <1>1, <1>2

(* over_pages keeps its promise for any number of pages and workers and      *)
(* whatever threads are refused: each step of the pool is a step of          *)
(* OverPages or one that its caller does not see.                            *)
THEOREM PoolKeepsPromise == Spec => Promise!Safety
<1>1. Init => Promise!Init
  BY DEF Init, Promise!Init
<1>2. PoolInv /\ ResultSound' /\ [Next]_vars => [Promise!Next]_(Promise!promised)
  <2> SUFFICES ASSUME PoolInv, ResultSound', [Next]_vars PROVE [Promise!Next]_(Promise!promised)
    OBVIOUS
  <2>1. CASE UNCHANGED vars
    BY <2>1 DEF vars, Promise!promised
  <2>2. CASE Next
    BY <2>1, <2>2, PoolMainPromise, PoolWorkerPromise DEF Next, Returned
  <2> QED
    BY <2>1, <2>2
<1> QED
  BY <1>1, <1>2, PoolInvariant, PoolResultSound, PTL DEF Spec, Promise!Safety

=============================================================================
