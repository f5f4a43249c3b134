---------------------------- MODULE WriterProofs ----------------------------
(***************************************************************************)
(* Proofs about Writer for any set of pages, contents and threads and any  *)
(* number of sessions, with kills and abandoned sessions at any point.     *)
(* Threads may share keys, keep what was written and meet a full disk: the *)
(* keys this spoils are excepted, and spoil no other key.                  *)
(***************************************************************************)
EXTENDS Writer, TLAPS

USE WriterAssumption DEF File, local

(* Before the first build nothing is on disk and nothing is recorded. *)
LEMMA WriterInit == Init => WriterInv
<1> SUFFICES ASSUME Init PROVE WriterInv
  OBVIOUS
<1> USE DEF Init, NoEntries, NoEntry
<1>1. TypeOK
  BY DEF TypeOK
<1>2. NoTornPage
  BY DEF NoTornPage
<1>3. FlightInv
  BY DEF FlightInv
<1>4. ProducedInv
  BY DEF ProducedInv
<1>5. TruthInv
  BY DEF TruthInv
<1>6. ManifestTruthful
  BY DEF ManifestTruthful
<1>7. OutputInv /\ OutputIsExpected
  BY DEF OutputInv, OutputIsExpected
<1>8. AskedInv
  BY DEF AskedInv
<1> QED
  BY <1>1, <1>2, <1>3, <1>4, <1>5, <1>6, <1>7, <1>8 DEF WriterInv

(* A session starts from the manifest. *)
LEMMA WriterBegin == ASSUME WriterInv, NEW f \in BOOLEAN, Begin(f) PROVE WriterInv'
<1> USE DEF WriterInv
<1>1. TypeOK'
  BY DEF Begin, TypeOK, LoadManifest, NoEntries, NoEntry
<1>2. NoTornPage'
  BY DEF Begin, TypeOK, NoTornPage, FlightInv
<1>3. FlightInv'
  BY DEF Begin, TypeOK, FlightInv
<1>4. ProducedInv'
  BY DEF Begin, TypeOK, ProducedInv, FlightInv, NoEntries, NoEntry
<1>5. TruthInv'
  BY DEF Begin, TypeOK, TruthInv, FlightInv, ProducedInv, LoadManifest, NoEntries, ManifestTruthful, InFlight
<1>6. ManifestTruthful'
  BY DEF Begin, TypeOK, TruthInv, ManifestTruthful
<1>7. OutputInv'
  BY DEF Begin, TypeOK, OutputInv, FlightInv, InFlight
<1>8. OutputIsExpected'
  BY DEF Begin, TypeOK, OutputIsExpected, OutputInv, FlightInv, InFlight
<1>9. AskedInv'
  BY DEF Begin, TypeOK, AskedInv, FlightInv, NoEntries, NoEntry
<1> QED
  BY <1>1, <1>2, <1>3, <1>4, <1>5, <1>6, <1>7, <1>8, <1>9 DEF WriterInv

(* An error abandons the session. *)
LEMMA WriterAbandon == ASSUME WriterInv, Abandon PROVE WriterInv'
<1> USE DEF WriterInv
<1>1. TypeOK'
  BY DEF Abandon, TypeOK
<1>2. NoTornPage'
  BY DEF Abandon, TypeOK, NoTornPage, FlightInv
<1>3. FlightInv'
  BY DEF Abandon, TypeOK, FlightInv, Quiet
<1>4. ProducedInv'
  BY DEF Abandon, TypeOK, ProducedInv, FlightInv
<1>5. TruthInv'
  BY DEF Abandon, TypeOK, TruthInv, FlightInv, ProducedInv
<1>6. ManifestTruthful'
  BY DEF Abandon, TypeOK, TruthInv, ManifestTruthful, LoadManifest, NoEntries
<1>7. OutputInv'
  BY DEF Abandon, TypeOK, OutputInv, FlightInv, InFlight
<1>8. OutputIsExpected'
  BY DEF Abandon, TypeOK, OutputIsExpected, OutputInv, FlightInv, InFlight
<1>9. AskedInv'
  BY DEF Abandon, TypeOK, AskedInv, FlightInv
<1> QED
  BY <1>1, <1>2, <1>3, <1>4, <1>5, <1>6, <1>7, <1>8, <1>9 DEF WriterInv

(* Pruning removes only what was not produced. *)
LEMMA WriterPruneStep == ASSUME WriterInv, PruneStep PROVE WriterInv'
<1> USE DEF WriterInv
<1>1. TypeOK'
  BY DEF PruneStep, TypeOK, Prune, NoEntries
<1>2. NoTornPage'
  BY DEF PruneStep, TypeOK, NoTornPage, FlightInv, Prune
<1>3. FlightInv'
  BY DEF PruneStep, TypeOK, FlightInv, Quiet
<1>4. ProducedInv'
  BY DEF PruneStep, TypeOK, ProducedInv, FlightInv
<1>5. TruthInv'
  BY DEF PruneStep, TypeOK, TruthInv, FlightInv, ProducedInv, Prune, InFlight, Quiet
<1>6. ManifestTruthful'
  BY DEF PruneStep, TypeOK, TruthInv, ManifestTruthful
<1>7. OutputInv'
  BY DEF PruneStep, TypeOK, OutputInv, FlightInv, InFlight, Prune, NoEntries, Quiet
<1>8. OutputIsExpected'
  BY DEF PruneStep, TypeOK, OutputIsExpected, OutputInv, FlightInv, InFlight, Prune, NoEntries, Quiet
<1>9. AskedInv'
  BY DEF PruneStep, TypeOK, AskedInv, FlightInv
<1> QED
  BY <1>1, <1>2, <1>3, <1>4, <1>5, <1>6, <1>7, <1>8, <1>9 DEF WriterInv

(* The manifest is truncated. *)
LEMMA WriterSaveOpen == ASSUME WriterInv, SaveOpen PROVE WriterInv'
<1> USE DEF WriterInv
<1>1. TypeOK'
  BY DEF SaveOpen, TypeOK
<1>2. NoTornPage'
  BY DEF SaveOpen, TypeOK, NoTornPage, FlightInv
<1>3. FlightInv'
  BY DEF SaveOpen, TypeOK, FlightInv
<1>4. ProducedInv'
  BY DEF SaveOpen, TypeOK, ProducedInv, FlightInv
<1>5. TruthInv'
  BY DEF SaveOpen, TypeOK, TruthInv, FlightInv, ProducedInv, InFlight
<1>6. ManifestTruthful'
  BY DEF SaveOpen, TypeOK, TruthInv, ManifestTruthful
<1>7. OutputInv'
  BY DEF SaveOpen, TypeOK, OutputInv, FlightInv, InFlight
<1>8. OutputIsExpected'
  BY DEF SaveOpen, TypeOK, OutputIsExpected, OutputInv, FlightInv, InFlight
<1>9. AskedInv'
  BY DEF SaveOpen, TypeOK, AskedInv, FlightInv
<1> QED
  BY <1>1, <1>2, <1>3, <1>4, <1>5, <1>6, <1>7, <1>8, <1>9 DEF WriterInv

(* The manifest is written. *)
LEMMA WriterSaveText == ASSUME WriterInv, SaveText PROVE WriterInv'
<1> USE DEF WriterInv
<1>1. TypeOK'
  BY DEF SaveText, TypeOK
<1>2. NoTornPage'
  BY DEF SaveText, TypeOK, NoTornPage, FlightInv
<1>3. FlightInv'
  BY DEF SaveText, TypeOK, FlightInv
<1>4. ProducedInv'
  BY DEF SaveText, TypeOK, ProducedInv, FlightInv
<1>5. TruthInv'
  BY DEF SaveText, TypeOK, TruthInv, FlightInv, ProducedInv
<1>6. ManifestTruthful'
  BY DEF SaveText, TypeOK, TruthInv, ManifestTruthful, ProducedInv, FlightInv, InFlight
<1>7. OutputInv'
  BY DEF SaveText, TypeOK, OutputInv, FlightInv, InFlight
<1>8. OutputIsExpected'
  BY DEF SaveText, TypeOK, OutputIsExpected, OutputInv, FlightInv, InFlight
<1>9. AskedInv'
  BY DEF SaveText, TypeOK, AskedInv, FlightInv
<1> QED
  BY <1>1, <1>2, <1>3, <1>4, <1>5, <1>6, <1>7, <1>8, <1>9 DEF WriterInv

(* The process is killed. *)
LEMMA WriterKill == ASSUME WriterInv, Kill PROVE WriterInv'
<1> USE DEF WriterInv
<1>1. TypeOK'
  BY DEF Kill, TypeOK
<1>2. NoTornPage'
  BY DEF Kill, TypeOK, NoTornPage, FlightInv
<1>3. FlightInv'
  BY DEF Kill, TypeOK, FlightInv
<1>4. ProducedInv'
  BY DEF Kill, TypeOK, ProducedInv, FlightInv
<1>5. TruthInv'
  BY DEF Kill, TypeOK, TruthInv, FlightInv, ProducedInv
<1>6. ManifestTruthful'
  BY DEF Kill, TypeOK, TruthInv, ManifestTruthful, LoadManifest, NoEntries
<1>7. OutputInv'
  BY DEF Kill, TypeOK, OutputInv, FlightInv, InFlight
<1>8. OutputIsExpected'
  BY DEF Kill, TypeOK, OutputIsExpected, OutputInv, FlightInv, InFlight
<1>9. AskedInv'
  BY DEF Kill, TypeOK, AskedInv, FlightInv
<1> QED
  BY <1>1, <1>2, <1>3, <1>4, <1>5, <1>6, <1>7, <1>8, <1>9 DEF WriterInv

(* A page is deleted between builds. *)
LEMMA WriterDisturb == ASSUME WriterInv, NEW k \in Key, Disturb(k) PROVE WriterInv'
<1> USE DEF WriterInv
<1>1. TypeOK'
  BY DEF Disturb, TypeOK
<1>2. NoTornPage'
  BY DEF Disturb, TypeOK, NoTornPage, FlightInv
<1>3. FlightInv'
  BY DEF Disturb, TypeOK, FlightInv
<1>4. ProducedInv'
  BY DEF Disturb, TypeOK, ProducedInv, FlightInv
<1>5. TruthInv'
  BY DEF Disturb, TypeOK, TruthInv, FlightInv, ProducedInv
<1>6. ManifestTruthful'
  BY DEF Disturb, TypeOK, TruthInv, ManifestTruthful
<1>7. OutputInv'
  BY DEF Disturb, TypeOK, OutputInv, FlightInv, InFlight
<1>8. OutputIsExpected'
  BY DEF Disturb, TypeOK, OutputIsExpected, OutputInv, FlightInv, InFlight
<1>9. AskedInv'
  BY DEF Disturb, TypeOK, AskedInv, FlightInv
<1> QED
  BY <1>1, <1>2, <1>3, <1>4, <1>5, <1>6, <1>7, <1>8, <1>9 DEF WriterInv

(* A page is kept. *)
LEMMA WriterKeep == ASSUME WriterInv, NEW k \in Key, Keep(k) PROVE WriterInv'
<1> USE DEF WriterInv
<1>1. TypeOK'
  BY DEF Keep, TypeOK, Reusable
<1>2. NoTornPage'
  BY DEF Keep, TypeOK, NoTornPage, FlightInv
<1>3. FlightInv'
  BY DEF Keep, TypeOK, FlightInv, Reusable
<1>4. ProducedInv'
  BY DEF Keep, TypeOK, ProducedInv, FlightInv, Reusable
<1>5. TruthInv'
  BY DEF Keep, TypeOK, TruthInv, FlightInv, ProducedInv, Reusable, InFlight
<1>6. ManifestTruthful'
  BY DEF Keep, TypeOK, TruthInv, ManifestTruthful
<1>7. OutputInv'
  BY DEF Keep, TypeOK, OutputInv, FlightInv, InFlight, Reusable
<1>8. OutputIsExpected'
  BY DEF Keep, TypeOK, OutputIsExpected, OutputInv, FlightInv, InFlight, Reusable
<1>9. AskedInv'
  <2>1. /\ \A j \in Key : made'[j] = IF j = k THEN made[k] \cup {previous[k]} ELSE made[j]
        /\ \A j \in Key : current'[j] = IF j = k THEN previous[k] ELSE current[j]
        /\ expected' = expected \cup {k} /\ UNCHANGED <<pc, job>>
    BY DEF Keep, TypeOK
  <2>2. /\ \A j \in Key : j \in expected <=> made[j] # {}
        /\ \A j \in expected : current[j] \in made[j]
        /\ \A u \in Thread : pc[u] # "idle" => job[u].bytes \in made[job[u].key]
    BY DEF AskedInv
  <2>3. \A j \in Key : j \in expected' <=> made'[j] # {}
    BY <2>1, <2>2
  <2>4. \A j \in expected' : current'[j] \in made'[j]
    BY <2>1, <2>2 DEF TypeOK
  <2>5. \A u \in Thread : pc'[u] # "idle" => job'[u].bytes \in made'[job'[u].key]
    BY <2>1, <2>2 DEF TypeOK
  <2> QED
    BY <2>3, <2>4, <2>5 DEF AskedInv
<1> QED
  BY <1>1, <1>2, <1>3, <1>4, <1>5, <1>6, <1>7, <1>8, <1>9 DEF WriterInv

(* The part of write under the mutex: what it does to the shared state, and  *)
(* that a key not spoiled by the call was in nobody's hands.                 *)
LEMMA WriterWrite ==
  ASSUME WriterInv, NEW t \in Thread, NEW k \in Key, NEW v \in Bytes, Write(t, k, v)
  PROVE  WriterInv'
<1> USE DEF WriterInv
<1>a. /\ mode = "run" /\ pc[t] = "idle"
      /\ UNCHANGED <<disk, tmp, manifest, mode, force, previous, fd, session, flushed, dirty>>
      /\ expected' = expected \cup {k}
      /\ current' = [current EXCEPT ![k] = v]
      /\ made' = [made EXCEPT ![k] = @ \cup {v}]
  BY DEF Write
<1>b. spoiled' \in SUBSET Key /\ spoiled \subseteq spoiled'
  BY DEF Write, TypeOK
<1>c. k \notin spoiled' => k \notin spoiled /\ \A u \in Thread : ~InFlight(u, k)
  BY DEF Write
<1>d. \/ /\ Skips(force, previous, disk, k, v) /\ UNCHANGED <<changed, pc, job>>
      \/ /\ changed' = changed \cup {k}
         /\ job' = [job EXCEPT ![t] = [key |-> k, bytes |-> v]]
         /\ pc' = [pc EXCEPT ![t] = "open"]
  BY DEF Write
<1>e. \A u \in Thread : u # t => pc'[u] = pc[u] /\ job'[u] = job[u]
  BY <1>d DEF TypeOK
<1>f. collisions' = IF Collides(current, k, v) THEN collisions \cup {k} ELSE collisions
  BY DEF Write
<1>g. \A j \in Key : current'[j] = (IF j = k THEN v ELSE current[j])
  BY <1>a DEF TypeOK
<1>h. (UNCHANGED <<pc, job>> /\ pc'[t] = "idle")
        \/ (pc'[t] = "open" /\ job'[t].key = k /\ job'[t].bytes = v)
  BY <1>a, <1>d DEF TypeOK
<1>1. TypeOK'
  <2>1. changed' \in SUBSET Key /\ collisions' \in SUBSET Key /\ expected' \in SUBSET Key
    BY <1>a, <1>d, <1>f DEF TypeOK
  <2>2. job' \in [Thread -> [key : Key, bytes : Bytes]]
        /\ pc' \in [Thread -> {"idle", "open", "put", "rename"}]
    <3>1. CASE UNCHANGED <<pc, job>>
      BY <3>1 DEF TypeOK
    <3>2. CASE /\ job' = [job EXCEPT ![t] = [key |-> k, bytes |-> v]]
               /\ pc' = [pc EXCEPT ![t] = "open"]
      BY <3>2 DEF TypeOK
    <3> QED
      BY <1>d, <3>1, <3>2
  <2>3. current' \in [Key -> Bytes \cup {Absent}] /\ made' \in [Key -> SUBSET Bytes] /\ calls' \in Nat
    BY <1>a DEF Write, TypeOK
  <2> QED
    BY <1>a, <1>b, <2>1, <2>2, <2>3 DEF TypeOK
<1>2. NoTornPage'
  BY <1>a, <1>b DEF NoTornPage
<1>3. FlightInv'
  <2>1. \A u \in Thread : pc'[u] # "idle" => mode' = "run" /\ job'[u].key \in expected'
    BY <1>a, <1>e, <1>h DEF FlightInv
  <2>2. \A u \in Thread : pc'[u] # "put" => fd'[u] = "none"
    BY <1>a, <1>b, <1>e, <1>h DEF FlightInv
  <2>3. ASSUME NEW u \in Thread, pc'[u] # "idle", job'[u].key \notin spoiled'
        PROVE  /\ current'[job'[u].key] = job'[u].bytes
               /\ pc'[u] = "put" => fd'[u] = "tmp"
               /\ pc'[u] = "rename" => tmp'[job'[u].key] = job'[u].bytes
               /\ \A w \in Thread : pc'[w] # "idle" /\ u # w => job'[w].key # job'[u].key
    <3>1. CASE u = t
      <4>1. pc'[t] = "open" /\ job'[t].key = k /\ job'[t].bytes = v
        BY <2>3, <3>1, <1>h
      <4>2. \A w \in Thread : ~InFlight(w, k)
        BY <2>3, <3>1, <4>1, <1>c
      <4> QED
        BY <3>1, <4>1, <4>2, <1>e, <1>g DEF InFlight
    <3>2. CASE u # t
      <4>1. pc[u] # "idle" /\ job[u].key \notin spoiled /\ job[u].key \in Key
        BY <2>3, <3>2, <1>b, <1>e DEF TypeOK
      <4>2. job[u].key # k
        BY <2>3, <3>2, <4>1, <1>c, <1>e DEF InFlight
      <4>3. \A w \in Thread : pc'[w] # "idle" /\ u # w => job'[w].key # job'[u].key
        BY <3>2, <4>1, <4>2, <1>a, <1>e, <1>h DEF FlightInv
      <4> QED
        BY <3>2, <4>1, <4>2, <4>3, <1>a, <1>e, <1>g DEF FlightInv
    <3> QED
      BY <3>1, <3>2
  <2> QED
    BY <2>1, <2>2, <2>3 DEF FlightInv
<1>4. ProducedInv'
  <2>1. \A j \in Key : j \in expected' <=> current'[j] # Absent
    BY <1>a, <1>g DEF ProducedInv
  <2>2. \A j \in Key \ (collisions' \cup spoiled') : made'[j] \subseteq {current'[j]}
    <3> SUFFICES ASSUME NEW j \in Key \ (collisions' \cup spoiled') PROVE made'[j] \subseteq {current'[j]}
      OBVIOUS
    <3>1. j \notin collisions /\ j \notin spoiled
      BY <1>b, <1>f
    <3>2. CASE j = k
      BY <3>1, <3>2, <1>a, <1>f, <1>g DEF ProducedInv, Collides, TypeOK
    <3>3. CASE j # k
      BY <3>1, <3>3, <1>a, <1>g DEF ProducedInv, TypeOK
    <3> QED
      BY <3>2, <3>3
  <2> QED
    BY <1>a, <2>1, <2>2 DEF ProducedInv
<1>5. TruthInv'
  <2>1. \A j \in Key \ (dirty' \cup flushed' \cup spoiled') :
           previous'[j] # Absent => disk'[j] \in {previous'[j], Absent}
    BY <1>a, <1>b DEF TruthInv
  <2>2. ASSUME NEW j \in expected' \ (collisions' \cup spoiled'),
               j \in flushed' \/ j \notin dirty', \A u \in Thread : ~InFlight(u, j)'
        PROVE  disk'[j] = current'[j]
    <3>0. j \in Key /\ j \notin collisions /\ j \notin spoiled
      BY <1>a, <1>b, <1>f DEF TypeOK
    <3>1. CASE j # k
      <4>1. j \in expected /\ \A u \in Thread : ~InFlight(u, j)
        BY <2>2, <3>1, <1>a, <1>e DEF InFlight
      <4> QED
        BY <2>2, <3>0, <3>1, <4>1, <1>a, <1>g DEF TruthInv
    <3>2. CASE j = k
      <4>1. Skips(force, previous, disk, k, v)
        BY <2>2, <3>2, <1>d, <1>h DEF InFlight, TypeOK
      <4>2. CASE k \in expected
        <5>1. current[k] = v
          BY <2>2, <3>2, <4>2, <1>f DEF Collides, ProducedInv
        <5>2. \A u \in Thread : ~InFlight(u, k)
          BY <2>2, <3>2, <1>c
        <5> QED
          BY <2>2, <3>0, <3>2, <4>2, <5>1, <5>2, <1>a, <1>g DEF TruthInv
      <4>3. CASE k \notin expected
        <5>1. k \notin flushed
          BY <4>3 DEF ProducedInv
        <5> QED
          BY <2>2, <3>0, <3>2, <4>1, <5>1, <1>a, <1>g DEF TruthInv, Skips
      <4> QED
        BY <4>2, <4>3
    <3> QED
      BY <3>1, <3>2
  <2> QED
    BY <1>a, <2>1, <2>2 DEF TruthInv
<1>6. ManifestTruthful'
  BY <1>a DEF ManifestTruthful
<1>7. OutputInv'
  <2>1. ASSUME NEW j \in expected' \ spoiled', \A u \in Thread : ~InFlight(u, j)'
        PROVE  disk'[j] # Absent
    <3>1. CASE j # k
      <4>1. j \in expected \ spoiled /\ \A u \in Thread : ~InFlight(u, j)
        BY <2>1, <3>1, <1>a, <1>b, <1>e DEF InFlight
      <4> QED
        BY <4>1, <1>a DEF OutputInv
    <3>2. CASE j = k
      <4>1. Skips(force, previous, disk, k, v)
        BY <2>1, <3>2, <1>d, <1>h DEF InFlight, TypeOK
      <4> QED
        BY <3>2, <4>1, <1>a DEF Skips
    <3> QED
      BY <3>1, <3>2
  <2>2. \A u \in Thread : pc'[u] # "idle" => job'[u].key \in changed'
    BY <1>d, <1>e, <1>h DEF OutputInv
  <2> QED
    BY <2>1, <2>2 DEF OutputInv
<1>8. OutputIsExpected'
  BY <1>a DEF OutputIsExpected
<1>9. AskedInv'
  <2>1. \A j \in Key : made'[j] = IF j = k THEN made[k] \cup {v} ELSE made[j]
    BY <1>a DEF TypeOK
  <2>2. \A j \in Key : j \in expected' <=> made'[j] # {}
    BY <1>a, <2>1 DEF AskedInv
  <2>3. \A j \in expected' : current'[j] \in made'[j]
    BY <1>a, <1>g, <2>1 DEF AskedInv, TypeOK
  <2>4. \A u \in Thread : pc'[u] # "idle" => job'[u].bytes \in made'[job'[u].key]
    BY <1>e, <1>h, <2>1 DEF AskedInv, TypeOK
  <2> QED
    BY <2>2, <2>3, <2>4 DEF AskedInv
<1> QED
  BY <1>1, <1>2, <1>3, <1>4, <1>5, <1>6, <1>7, <1>8, <1>9 DEF WriterInv

(* The temporary file is truncated. *)
LEMMA WriterOpen == ASSUME WriterInv, NEW t \in Thread, Open(t) PROVE WriterInv'
<1> USE DEF WriterInv
<1>1. TypeOK'
  BY DEF Open, TypeOK
<1>2. NoTornPage'
  BY DEF Open, TypeOK, NoTornPage, FlightInv
<1>3. FlightInv'
  BY DEF Open, TypeOK, FlightInv
<1>4. ProducedInv'
  BY DEF Open, TypeOK, ProducedInv, FlightInv
<1>5. TruthInv'
  BY DEF Open, TypeOK, TruthInv, FlightInv, ProducedInv, InFlight
<1>6. ManifestTruthful'
  BY DEF Open, TypeOK, TruthInv, ManifestTruthful
<1>7. OutputInv'
  BY DEF Open, TypeOK, OutputInv, FlightInv, InFlight
<1>8. OutputIsExpected'
  BY DEF Open, TypeOK, OutputIsExpected, OutputInv, FlightInv, InFlight
<1>9. AskedInv'
  BY DEF Open, TypeOK, AskedInv, FlightInv
<1> QED
  BY <1>1, <1>2, <1>3, <1>4, <1>5, <1>6, <1>7, <1>8, <1>9 DEF WriterInv

(* The temporary file cannot be opened. *)
LEMMA WriterOpenFails == ASSUME WriterInv, NEW t \in Thread, OpenFails(t) PROVE WriterInv'
<1> USE DEF WriterInv
<1>1. TypeOK'
  BY DEF OpenFails, TypeOK
<1>2. NoTornPage'
  BY DEF OpenFails, TypeOK, NoTornPage, FlightInv
<1>3. FlightInv'
  BY DEF OpenFails, TypeOK, FlightInv
<1>4. ProducedInv'
  BY DEF OpenFails, TypeOK, ProducedInv, FlightInv
<1>5. TruthInv'
  BY DEF OpenFails, TypeOK, TruthInv, FlightInv, ProducedInv, InFlight
<1>6. ManifestTruthful'
  BY DEF OpenFails, TypeOK, TruthInv, ManifestTruthful
<1>7. OutputInv'
  BY DEF OpenFails, TypeOK, OutputInv, FlightInv, InFlight
<1>8. OutputIsExpected'
  BY DEF OpenFails, TypeOK, OutputIsExpected, OutputInv, FlightInv, InFlight
<1>9. AskedInv'
  BY DEF OpenFails, TypeOK, AskedInv, FlightInv
<1> QED
  BY <1>1, <1>2, <1>3, <1>4, <1>5, <1>6, <1>7, <1>8, <1>9 DEF WriterInv

(* The temporary file is written. *)
LEMMA WriterPut == ASSUME WriterInv, NEW t \in Thread, Put(t) PROVE WriterInv'
<1> USE DEF WriterInv
<1>1. TypeOK'
  BY DEF Put, TypeOK
<1>2. NoTornPage'
  BY DEF Put, TypeOK, NoTornPage, FlightInv
<1>3. FlightInv'
  BY DEF Put, TypeOK, FlightInv
<1>4. ProducedInv'
  BY DEF Put, TypeOK, ProducedInv, FlightInv
<1>5. TruthInv'
  BY DEF Put, TypeOK, TruthInv, FlightInv, ProducedInv, InFlight
<1>6. ManifestTruthful'
  BY DEF Put, TypeOK, TruthInv, ManifestTruthful, FlightInv
<1>7. OutputInv'
  BY DEF Put, TypeOK, OutputInv, FlightInv, InFlight
<1>8. OutputIsExpected'
  BY DEF Put, TypeOK, OutputIsExpected, OutputInv, FlightInv, InFlight
<1>9. AskedInv'
  BY DEF Put, TypeOK, AskedInv, FlightInv
<1> QED
  BY <1>1, <1>2, <1>3, <1>4, <1>5, <1>6, <1>7, <1>8, <1>9 DEF WriterInv

(* The bytes do not fit. *)
LEMMA WriterPutFails == ASSUME WriterInv, NEW t \in Thread, PutFails(t) PROVE WriterInv'
<1> USE DEF WriterInv
<1>1. TypeOK'
  BY DEF PutFails, TypeOK
<1>2. NoTornPage'
  BY DEF PutFails, TypeOK, NoTornPage, FlightInv
<1>3. FlightInv'
  BY DEF PutFails, TypeOK, FlightInv
<1>4. ProducedInv'
  BY DEF PutFails, TypeOK, ProducedInv, FlightInv
<1>5. TruthInv'
  BY DEF PutFails, TypeOK, TruthInv, FlightInv, ProducedInv, InFlight
<1>6. ManifestTruthful'
  BY DEF PutFails, TypeOK, TruthInv, ManifestTruthful
<1>7. OutputInv'
  BY DEF PutFails, TypeOK, OutputInv, FlightInv, InFlight
<1>8. OutputIsExpected'
  BY DEF PutFails, TypeOK, OutputIsExpected, OutputInv, FlightInv, InFlight
<1>9. AskedInv'
  BY DEF PutFails, TypeOK, AskedInv, FlightInv
<1> QED
  BY <1>1, <1>2, <1>3, <1>4, <1>5, <1>6, <1>7, <1>8, <1>9 DEF WriterInv

(* The temporary file becomes the page. *)
LEMMA WriterRename == ASSUME WriterInv, NEW t \in Thread, Rename(t) PROVE WriterInv'
<1> USE DEF WriterInv
<1>1. TypeOK'
  <2>1. job[t].key \in Key /\ Relink(job[t].key) \in [Thread -> {"none", "tmp", "page"}]
    BY DEF TypeOK, Relink
  <2>2. disk' \in [Key -> File] /\ tmp' \in [Key -> File] /\ flushed' \in SUBSET Key
    <3> DEFINE k == job[t].key
    <3>1. CASE /\ disk' = [disk EXCEPT ![k] = tmp[k]]
               /\ tmp' = [tmp EXCEPT ![k] = Absent]
               /\ flushed' = flushed \cup {k}
      BY <2>1, <3>1 DEF TypeOK
    <3>2. CASE UNCHANGED <<disk, tmp, flushed>>
      BY <3>2 DEF TypeOK
    <3> QED
      BY <3>1, <3>2 DEF Rename
  <2>3. fd' \in [Thread -> {"none", "tmp", "page"}]
    BY <2>1 DEF TypeOK, Rename
  <2> QED
    BY <2>2, <2>3 DEF TypeOK, Rename
<1>2. NoTornPage'
  BY DEF Rename, TypeOK, NoTornPage, FlightInv
<1>3. FlightInv'
  <2> DEFINE k == job[t].key
  <2>1. /\ pc[t] = "rename" /\ k \in Key
        /\ UNCHANGED <<mode, job, expected, current, spoiled>>
        /\ pc' = [pc EXCEPT ![t] = "idle"]
    BY DEF Rename, TypeOK
  <2>2. \A u \in Thread : pc'[u] = IF u = t THEN "idle" ELSE pc[u]
    BY <2>1 DEF TypeOK
  <2>3. \A j \in Key : j # k => tmp'[j] = tmp[j]
    BY <2>1 DEF Rename, TypeOK
  <2>4. \A u \in Thread : job[u].key # k => fd'[u] = fd[u]
    BY <2>1 DEF Rename, TypeOK, Relink
  <2>5. \A u \in Thread : pc[u] # "put" => fd[u] = "none"
    BY DEF FlightInv
  <2>6. \A u \in Thread : fd[u] = "none" => fd'[u] = "none"
    BY <2>1 DEF Rename, TypeOK, Relink
  <2>7. fd'[t] = "none"
    BY <2>1, <2>5, <2>6
  <2>8. \A u \in Thread : pc'[u] # "idle" /\ job[u].key \notin spoiled => job[u].key # k
    BY <2>1, <2>2 DEF FlightInv
  <2> QED
    BY <2>1, <2>2, <2>3, <2>4, <2>5, <2>6, <2>7, <2>8 DEF FlightInv, TypeOK
<1>4. ProducedInv'
  BY DEF Rename, TypeOK, ProducedInv, FlightInv
<1>5. TruthInv'
  BY DEF Rename, TypeOK, TruthInv, FlightInv, ProducedInv, InFlight
<1>6. ManifestTruthful'
  BY DEF Rename, TypeOK, TruthInv, ManifestTruthful, FlightInv
<1>7. OutputInv'
  BY DEF Rename, TypeOK, OutputInv, FlightInv, InFlight
<1>8. OutputIsExpected'
  BY DEF Rename, TypeOK, OutputIsExpected, OutputInv, FlightInv, InFlight
<1>9. AskedInv'
  BY DEF Rename, TypeOK, AskedInv, FlightInv
<1> QED
  BY <1>1, <1>2, <1>3, <1>4, <1>5, <1>6, <1>7, <1>8, <1>9 DEF WriterInv

(* The invariant holds in every reachable state. *)
THEOREM WriterInvariant == Spec => []WriterInv
<1>1. WriterInv /\ [Next]_vars => WriterInv'
  <2> SUFFICES ASSUME WriterInv, [Next]_vars PROVE WriterInv'
    OBVIOUS
  <2>1. CASE UNCHANGED vars
    BY <2>1 DEF vars, WriterInv, TypeOK, AskedInv, NoTornPage, FlightInv, ProducedInv, TruthInv,
       ManifestTruthful, OutputInv, OutputIsExpected, InFlight
  <2>2. ASSUME NEW f \in BOOLEAN, Begin(f) PROVE WriterInv'
    BY <2>2, WriterBegin
  <2>3. ASSUME Abandon \/ PruneStep \/ SaveOpen \/ SaveText \/ Kill PROVE WriterInv'
    BY <2>3, WriterAbandon, WriterPruneStep, WriterSaveOpen, WriterSaveText, WriterKill
  <2>4. ASSUME NEW k \in Key, Disturb(k) \/ Keep(k) PROVE WriterInv'
    BY <2>4, WriterDisturb, WriterKeep
  <2>5. ASSUME NEW t \in Thread, Call(t) PROVE WriterInv'
    BY <2>5, WriterWrite, WriterOpen, WriterOpenFails, WriterPut, WriterPutFails, WriterRename
       DEF Call
  <2> QED
    BY <2>1, <2>2, <2>3, <2>4, <2>5 DEF Next
<1> QED
  BY WriterInit, <1>1, PTL DEF Spec

(* Whatever moment a build is killed at, every page is whole: no page is     *)
(* ever cut short, for any set of pages and threads.                         *)
THEOREM WriterNoTornPage == Spec => []NoTornPage
  BY WriterInvariant, PTL DEF WriterInv

(* The manifest is right about every page except those an unsaved session    *)
(* left behind: what Writer::write and Writer::keep rely on when they skip.  *)
THEOREM WriterManifestTruthful == Spec => []ManifestTruthful
  BY WriterInvariant, PTL DEF WriterInv

(* A session that is saved produced one result for each key. *)
THEOREM WriterOneResult == Spec => []OneResultPerKey
<1>1. WriterInv => OneResultPerKey
  BY DEF WriterInv, OneResultPerKey, ProducedInv
<1> QED
  BY <1>1, WriterInvariant, PTL

(* A session that is saved leaves in the output directory exactly the pages  *)
(* it produced, with no temporary file beside them, for any set of pages and *)
(* threads and whatever sessions were killed before it.                      *)
THEOREM WriterOutputIsExpected == Spec => []OutputIsExpected
  BY WriterInvariant, PTL DEF WriterInv

(* No page is replaced behind the report's back: the two steps that change a *)
(* page of a running session, the rename and a stream that lost its name to  *)
(* another's rename, are of a thread whose key write had reported.           *)
THEOREM WriterChangesReported == Spec => ChangesReported
<1>1. WriterInv /\ [Next]_vars =>
        [\A k \in Key : mode = "run" /\ disk'[k] # disk[k] /\ mode' = "run" => k \in changed]_vars
  <2> SUFFICES ASSUME WriterInv, Next, NEW k \in Key,
                      mode = "run" /\ disk'[k] # disk[k] /\ mode' = "run"
               PROVE  k \in changed
    BY DEF vars
  <2>1. ASSUME NEW t \in Thread, Put(t) \/ Rename(t) PROVE k \in changed
    BY <2>1 DEF Put, Rename, WriterInv, TypeOK, OutputInv
  <2>2. ASSUME NEW t \in Thread, Call(t), ~Put(t), ~Rename(t) PROVE disk' = disk
    BY <2>2 DEF Call, Write, Open, OpenFails, PutFails
  <2>3. ASSUME NEW j \in Key, Disturb(j) \/ Keep(j) PROVE FALSE
    BY <2>3 DEF Disturb, Keep
  <2>4. ASSUME NEW f \in BOOLEAN, Begin(f) PROVE FALSE
    BY <2>4 DEF Begin
  <2>5. ~(Abandon \/ PruneStep \/ SaveOpen \/ SaveText \/ Kill)
    BY DEF Abandon, PruneStep, SaveOpen, SaveText, Kill
  <2> QED
    BY <2>1, <2>2, <2>3, <2>4, <2>5 DEF Next
<1> QED
  BY <1>1, WriterInvariant, PTL DEF Spec, ChangesReported

-----------------------------------------------------------------------------
(* The writer implements Output *)

(* What Output's pages are of the disk and of the keys that are spoiled. *)
Whole(d, s) == [k \in Key |-> IF k \in s THEN Absent ELSE d[k]]

(* What the build cannot see: a step that leaves the unspoiled pages, the    *)
(* requests and the phase as they were.                                      *)
LEMMA WriterStutters ==
  ASSUME Whole(disk, spoiled)' = Whole(disk, spoiled),
         UNCHANGED <<made, flushed, dirty, spoiled>>,
         mode' = mode \/ {mode, mode'} \subseteq {"pruned", "saving"}
  PROVE  [Promise!Next]_(Promise!promised)
  BY DEF Promise!promised, Whole

(* The constructor is the start of a session. *)
LEMMA WriterStarts ==
  ASSUME WriterInv, NEW f \in BOOLEAN, Begin(f)
  PROVE  [Promise!Next]_(Promise!promised)
<1>1. Promise!Start
  BY DEF Begin, Promise!Start, NoEntry
<1> QED
  BY <1>1 DEF Promise!Next

(* An error and a kill give the session up. *)
LEMMA WriterQuits ==
  ASSUME WriterInv, Abandon \/ Kill
  PROVE  [Promise!Next]_(Promise!promised)
<1>1. Promise!Quit
  BY DEF Abandon, Kill, Promise!Quit, WriterInv, TypeOK
<1> QED
  BY <1>1 DEF Promise!Next

(* Whoever finishes prune finds one result for each key it did not give up,  *)
(* and the page there: pruning commits the tree.                             *)
LEMMA WriterCommits ==
  ASSUME WriterInv, PruneStep
  PROVE  [Promise!Next]_(Promise!promised)
<1> USE DEF WriterInv
<1>1. mode = "run" /\ mode' = "pruned" /\ UNCHANGED <<made, flushed, dirty, spoiled>>
  BY DEF PruneStep
<1>2. ASSUME NEW k \in Key \ spoiled, made[k] # {}
      PROVE  /\ current[k] \in Bytes /\ made[k] = {current[k]}
             /\ disk[k] # Absent
             /\ k \in flushed \/ k \notin dirty => disk[k] = current[k]
  <2>1. k \in expected /\ collisions = {} /\ \A t \in Thread : ~InFlight(t, k)
    BY <1>2 DEF AskedInv, PruneStep, Quiet, InFlight
  <2>2. current[k] \in Bytes /\ made[k] = {current[k]}
    BY <1>2, <2>1 DEF AskedInv, ProducedInv, TypeOK
  <2>3. disk[k] # Absent
    BY <1>1, <2>1, <1>2 DEF OutputInv
  <2>4. k \in flushed \/ k \notin dirty => disk[k] = current[k]
    BY <1>1, <2>1, <1>2 DEF TruthInv
  <2> QED
    BY <2>2, <2>3, <2>4
<1>3. \A k \in Key \ spoiled : made[k] = {} \/ Promise!Settled(k)
  BY <1>2 DEF Promise!Settled
<1>4. \A k \in Key : disk'[k] = IF made[k] = {} THEN Absent ELSE disk[k]
  BY DEF PruneStep, Prune, AskedInv
<1>5. Whole(disk, spoiled)' = [k \in Key |-> IF made[k] = {} THEN Absent ELSE Whole(disk, spoiled)[k]]
  BY <1>1, <1>4 DEF Whole
<1>6. Promise!Commit
  BY <1>1, <1>3, <1>5 DEF Promise!Commit, Whole
<1> QED
  BY <1>6 DEF Promise!Next

(* Writing the manifest's text is the save. *)
LEMMA WriterSaves ==
  ASSUME WriterInv, SaveText
  PROVE  [Promise!Next]_(Promise!promised)
<1>1. Promise!Save
  BY DEF SaveText, Promise!Save
<1> QED
  BY <1>1 DEF Promise!Next

(* A page deleted between sessions. *)
LEMMA WriterRemoves ==
  ASSUME WriterInv, NEW k \in Key, Disturb(k)
  PROVE  [Promise!Next]_(Promise!promised)
<1>1. Whole(disk, spoiled)' = [Whole(disk, spoiled) EXCEPT ![k] = Absent]
  BY DEF Disturb, Whole, WriterInv, TypeOK
<1>2. Promise!Remove(k)
  BY <1>1 DEF Disturb, Promise!Remove, Whole
<1> QED
  BY <1>2 DEF Promise!Next

(* A call under the mutex is a request, which gives its key up only if the   *)
(* session was asked for it before.                                          *)
LEMMA WriterAsks ==
  ASSUME WriterInv, NEW k \in Key, NEW v \in Bytes, mode = "run",
         made' = [made EXCEPT ![k] = @ \cup {v}],
         spoiled' = spoiled \/ (spoiled' = spoiled \cup {k} /\ k \in expected),
         UNCHANGED <<disk, mode, flushed, dirty>>
  PROVE  [Promise!Next]_(Promise!promised)
<1>1. \/ spoiled' = spoiled \cup {} /\ Whole(disk, spoiled)' = [j \in Key |-> IF j \in {} THEN Absent ELSE Whole(disk, spoiled)[j]]
      \/ /\ spoiled' = spoiled \cup {k} /\ made[k] # {}
         /\ Whole(disk, spoiled)' = [j \in Key |-> IF j \in {k} THEN Absent ELSE Whole(disk, spoiled)[j]]
  BY DEF Whole, WriterInv, AskedInv
<1>2. Promise!Losing({}) \/ (made[k] # {} /\ Promise!Losing({k}))
  BY <1>1 DEF Promise!Losing, Whole
<1>3. Promise!Ask(k, v)
  BY <1>2 DEF Promise!Ask
<1> QED
  BY <1>3 DEF Promise!Next

(* A stream nobody tests gives its key up. *)
LEMMA WriterFails ==
  ASSUME WriterInv, NEW t \in Thread, OpenFails(t) \/ PutFails(t)
  PROVE  [Promise!Next]_(Promise!promised)
<1>k. PICK k \in Key : k = job[t].key
  BY DEF WriterInv, TypeOK
<1>1. /\ mode = "run" /\ made[k] # {} /\ spoiled' = spoiled \cup {k}
      /\ UNCHANGED <<disk, mode, made, flushed, dirty>>
  BY <1>k DEF OpenFails, PutFails, WriterInv, TypeOK, FlightInv, AskedInv
<1>2. Whole(disk, spoiled)' = [j \in Key |-> IF j \in {k} THEN Absent ELSE Whole(disk, spoiled)[j]]
  BY <1>1 DEF Whole
<1>3. Promise!Fail(k)
  BY <1>1, <1>2 DEF Promise!Fail, Promise!Losing, Whole
<1> QED
  BY <1>1, <1>3 DEF Promise!Next

(* The rename replaces the page by bytes that were asked for, all of them:   *)
(* unless the key is given up, the temporary file is its thread's own.       *)
LEMMA WriterLands ==
  ASSUME WriterInv, NEW t \in Thread, Rename(t)
  PROVE  [Promise!Next]_(Promise!promised)
<1> USE DEF WriterInv
<1>k. PICK k \in Key, v \in Bytes : k = job[t].key /\ v = job[t].bytes
  BY DEF TypeOK
<1>1. v \in made[k] /\ mode = "run" /\ UNCHANGED <<mode, made, dirty, spoiled>>
  BY <1>k DEF Rename, TypeOK, FlightInv, AskedInv
<1>2. CASE UNCHANGED <<disk, flushed>>
  <2>1. Whole(disk, spoiled)' = Whole(disk, spoiled)
    BY <1>1, <1>2 DEF Whole
  <2> QED
    BY <1>1, <1>2, <2>1, WriterStutters
<1>3. CASE disk' = [disk EXCEPT ![k] = tmp[k]] /\ flushed' = flushed \cup {k}
  <2>1. k \notin spoiled => tmp[k] = v
    BY <1>k DEF Rename, FlightInv
  <2>2. \A j \in Key : disk'[j] = IF j = k THEN tmp[k] ELSE disk[j]
    BY <1>3 DEF TypeOK
  <2>3. Whole(disk, spoiled)' =
          [Whole(disk, spoiled) EXCEPT ![k] = IF k \in spoiled THEN @ ELSE v]
    BY <1>1, <2>1, <2>2 DEF Whole
  <2>4. Promise!Land(k, v)
    BY <1>1, <1>3, <2>3 DEF Promise!Land, Whole
  <2> QED
    BY <1>1, <2>4 DEF Promise!Next
<1> QED
  BY <1>k, <1>2, <1>3 DEF Rename

(* Opening and filling a temporary file is not seen; a stream whose file has *)
(* become the page writes only to a key given up.                            *)
LEMMA WriterUnseen ==
  ASSUME WriterInv, NEW t \in Thread, Open(t) \/ Put(t)
  PROVE  [Promise!Next]_(Promise!promised)
<1>1. UNCHANGED <<mode, made, flushed, dirty, spoiled>>
  BY DEF Open, Put
<1>2. \A k \in Key \ spoiled : disk'[k] = disk[k]
  BY DEF Open, Put, WriterInv, TypeOK, FlightInv
<1>3. Whole(disk, spoiled)' = Whole(disk, spoiled)
  BY <1>1, <1>2 DEF Whole
<1> QED
  BY <1>1, <1>3, WriterStutters

(* A step of the writer is one of Output, or one that the build cannot see. *)
LEMMA WriterStepPromise ==
  ASSUME WriterInv, [Next]_vars
  PROVE  [Promise!Next]_(Promise!promised)
<1>1. CASE UNCHANGED vars
  BY <1>1 DEF vars, Promise!promised
<1>2. ASSUME NEW f \in BOOLEAN, Begin(f) PROVE [Promise!Next]_(Promise!promised)
  BY <1>2, WriterStarts
<1>3. CASE SaveOpen
  <2>1. Whole(disk, spoiled)' = Whole(disk, spoiled)
    BY <1>3 DEF SaveOpen, Whole
  <2> QED
    BY <1>3, <2>1, WriterStutters DEF SaveOpen
<1>4. CASE Abandon \/ PruneStep \/ SaveText \/ Kill
  BY <1>4, WriterQuits, WriterCommits, WriterSaves
<1>5. ASSUME NEW k \in Key, Keep(k) PROVE [Promise!Next]_(Promise!promised)
  <2>1. previous[k] \in Bytes
    BY <1>5 DEF Keep, Reusable, WriterInv, TypeOK
  <2> QED
    BY <1>5, <2>1, WriterAsks DEF Keep
<1>6. ASSUME NEW k \in Key, Disturb(k) PROVE [Promise!Next]_(Promise!promised)
  BY <1>6, WriterRemoves
<1>7. ASSUME NEW t \in Thread, NEW k \in Key, NEW v \in Bytes, Write(t, k, v)
      PROVE  [Promise!Next]_(Promise!promised)
  <2>1. (\E u \in Thread : InFlight(u, k)) => k \in expected
    BY DEF InFlight, WriterInv, FlightInv
  <2> QED
    BY <1>7, <2>1, WriterAsks DEF Write
<1>8. ASSUME NEW t \in Thread, Open(t) \/ OpenFails(t) \/ Put(t) \/ PutFails(t) \/ Rename(t)
      PROVE  [Promise!Next]_(Promise!promised)
  BY <1>8, WriterUnseen, WriterFails, WriterLands
<1> QED
  BY <1>1, <1>2, <1>3, <1>4, <1>5, <1>6, <1>7, <1>8 DEF Next, Call

(* For any pages, contents and threads, and through every kill, abandoned    *)
(* session and failed file, the writer is Output: a page is only ever        *)
(* replaced as a whole by bytes asked for in the session, and the tree is    *)
(* committed only when it is what was asked for.                             *)
THEOREM WriterKeepsPagesWhole == Spec => KeepsPagesWhole
<1>1. Init => Promise!Init
  BY DEF Init, Promise!Init, NoEntries, NoEntry
<1>2. WriterInv /\ [Next]_vars => [Promise!Next]_(Promise!promised)
  BY WriterStepPromise
<1> QED
  BY <1>1, <1>2, WriterInvariant, PTL DEF Spec, KeepsPagesWhole, Promise!Spec

=============================================================================
