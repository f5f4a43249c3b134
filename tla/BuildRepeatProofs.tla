------------------------ MODULE BuildRepeatProofs ---------------------------
(***************************************************************************)
(* Proofs about building again: a build that repeats one that nobody       *)
(* disturbed parses and writes nothing, and an incremental build refuses   *)
(* only a site that a build from scratch refuses.                          *)
(***************************************************************************)
EXTENDS BuildHistoryProofs

-----------------------------------------------------------------------------
(* What is saved *)

(* The keys that AsSaved and ListingsInv speak of. *)
LEMMA SavedKeys ==
  ASSUME TypeOK
  PROVE  /\ \A f \in Known(state.sources) : f \in Source /\ state.sources[f] \in SourceEntry
                                           /\ state.sources[f].output \in Key
         /\ \A k \in state.derived : k \in Key
         /\ \A k \in Shipping : k \in Static /\ k \in Key
<1>1. \A f \in Known(state.sources) : f \in Source /\ state.sources[f] \in SourceEntry
  BY DEF TypeOK, Known
<1>2. \A f \in Known(state.sources) : state.sources[f].output \in Key
  BY <1>1, KeysOf DEF SourceEntry
<1>3. \A k \in state.derived : k \in Key
  BY KeysOf DEF TypeOK
<1>4. \A k \in Shipping : k \in Static /\ k \in Key
  BY KeysOf DEF Shipping
<1> QED
  BY <1>1, <1>2, <1>3, <1>4

(* What is saved stays so while no input and nothing saved changes and no    *)
(* output goes away.                                                         *)
LEMMA SavedStays ==
  ASSUME TypeOK, post' = post, layout' = layout, static' = static, mtime' = mtime,
         stime' = stime, state' = state, manifest' = manifest,
         \A k \in Key : out[k] # Absent => out'[k] # Absent,
         NEW d, AsSaved(d)
  PROVE  AsSaved(d)'
<1>1. PICK m : m = LoadManifest(manifest)
  OBVIOUS
<1>2. Shipping' = Shipping
  BY DEF Shipping
<1>3. LoadManifest(manifest)' = m
  BY <1>1
<1>4. \A k \in Key : Reusable(m, out, k) => Reusable(m, out', k)
  BY DEF Reusable
<1>5. \A f \in Known(state.sources) : Reusable(m, out, state.sources[f].output)
  BY <1>1 DEF AsSaved
<1>6. \A f \in Known(state.sources) : Reusable(m, out', state.sources[f].output)
  BY <1>4, <1>5, SavedKeys
<1>7. \A k \in state.derived \cup Shipping : Reusable(m, out', k)
  BY <1>1, <1>4, SavedKeys DEF AsSaved
<1>8. \A f \in Known(state.sources) :
        /\ post[f] # Absent
        /\ state.sources[f].modified = mtime[f]
        /\ Trusted(state.sources[f], state.started, post[f])
        /\ state.sources[f].around = Around(state.sources, f)
        /\ state.sources[f].related = Related(state.sources, f)
  BY DEF AsSaved
<1>9. \A k \in Shipping :
        /\ state.copies[k] # Absent
        /\ state.copies[k].modified = stime[k]
        /\ Trusted(state.copies[k], state.started, static[k])
  BY DEF AsSaved
<1>10. /\ state.fingerprint = layout
       /\ \A f \in Source \ Known(state.sources) : post[f] # Absent => post[f].draft /\ ~d
  BY DEF AsSaved
<1> QED
  BY <1>2, <1>3, <1>6, <1>7, <1>8, <1>9, <1>10 DEF AsSaved

-----------------------------------------------------------------------------
(* The initial state, the owner, and builds that save nothing *)

(* Nothing has been built yet. *)
LEMMA RepeatInitially == Init => RepeatInv
<1> SUFFICES ASSUME Init PROVE RepeatInv
  OBVIOUS
<1>1. pc = "idle" /\ ~Started /\ same = FALSE /\ state = NoState
  BY DEF Init, Started
<1>2. Known(state.sources) = {} /\ state.derived = {}
  BY <1>1 DEF NoState, Known
<1> QED
  BY <1>1, <1>2
     DEF RepeatInv, TextInv, FoundInv, ThereInv, SavedInv, AgainInv, ClashInv, ListingsInv, Saving

(* A build that ends without saving leaves what was saved, and its listings, *)
(* unless it is killed while it saves.                                       *)
LEMMA RepeatAbandons ==
  ASSUME RepeatInv, NEW why, why # "ok", Abandon(why), out' = out,
         "kill" \notin Faults => pc \notin Saving
  PROVE  RepeatInv'
<1>1. post' = post /\ mtime' = mtime /\ state' = state /\ manifest' = manifest
  BY DEF Abandon, inputs
<1>2. pc' = "idle" /\ last' # "ok" /\ ~Started'
  BY DEF Abandon, Started
<1>3. TextInv'
  BY <1>1, <1>2 DEF RepeatInv, TextInv, SourceRead
<1>4. ListingsInv'
  BY <1>1, <1>2 DEF RepeatInv, ListingsInv
<1> QED
  BY <1>2, <1>3, <1>4 DEF RepeatInv, FoundInv, ThereInv, SavedInv, AgainInv, ClashInv, Saving

(* The errors, failures and kills at every step are such ends. *)
LEMMA RepeatEndsEarly ==
  ASSUME RepeatInv,
         \/ ScanError \/ NeighboursError \/ RelatedError \/ RenderFails
         \/ KeepDerivedError \/ CollisionError \/ Kill
  PROVE  RepeatInv'
<1>1. out' = out /\ \E why \in {"error", "failed", "killed"} : Abandon(why)
  BY DEF ScanError, NeighboursError, RelatedError, RenderFails, KeepDerivedError,
         CollisionError, Kill
<1>2. "kill" \notin Faults => pc \notin Saving
  BY DEF ScanError, NeighboursError, RelatedError, RenderFails, KeepDerivedError,
         CollisionError, Kill, Saving
<1> QED
  BY <1>1, <1>2, RepeatAbandons

(* An edit does not make what was read of a file untrue. *)
LEMMA EditKeepsReading ==
  ASSUME TypeOK, Edited, NEW f \in Source, mtime[f] <= clock, mtime'[f] \in Nat,
         NEW e \in SourceEntry, e.modified <= mtime[f],
         NEW started \in Nat, started <= clock, SourceRead(e, f, started)
  PROVE  \/ e.modified < mtime'[f]
         \/ /\ e.modified >= started => e.hash \in {e.post, Absent}
            /\ e.modified < started => post'[f] \in {e.post, Absent}
<1>1. e.modified \in Nat /\ mtime[f] \in Nat /\ clock \in Nat
  BY DEF TypeOK, SourceEntry
<1>2. mtime[f] <= mtime'[f]
  BY DEF Edited
<1>3. CASE e.modified < mtime[f]
  BY <1>1, <1>2, <1>3
<1>4. CASE mtime'[f] = mtime[f] /\ post'[f] \in {post[f], Absent}
  BY <1>1, <1>3, <1>4 DEF SourceRead
<1>5. CASE clock <= mtime'[f]
  BY <1>1, <1>3, <1>5 DEF SourceRead
<1> QED
  BY <1>4, <1>5 DEF Edited

(* The owner's edits end what can be said of a build that nobody disturbs. *)
LEMMA RepeatOwner == ASSUME BuildInv, PastInv, RepeatInv, BuildInv', Owner PROVE RepeatInv'
<1> USE DEF BuildInv, PastInv, RepeatInv
<1>1. Edited
  BY OwnerEdits
<1>2. still' = FALSE /\ same' = FALSE /\ pc' = pc /\ b' = b /\ out' = out
      /\ state' = state /\ manifest' = manifest
  BY DEF Owner, EditPost, DeletePost, EditLayout, EditNav, EditStatic, MayEdit, stored
<1>3. /\ mtime \in [Source -> Nat] /\ clock \in Nat /\ mtime' \in [Source -> Nat]
      /\ state.sources \in [Source -> SourceEntry \cup {Absent}]
  BY DEF TypeOK
<1>4. Started' = Started
  BY <1>2 DEF Started
<1>5. Started => /\ b.stamps \in [Source -> Int] /\ b.started \in Nat
                 /\ b.sources \in [Source -> SourceEntry \cup {Absent}]
  BY DEF LocalsInv, Started
<1>6. ASSUME NEW f \in Known(state.sources)
      PROVE  SourceRead(state.sources[f], f, state.started)'
  <2>1. f \in Source /\ state.sources[f] \in SourceEntry
    BY <1>3 DEF Known
  <2>2. /\ SourceRead(state.sources[f], f, state.started)
        /\ state.sources[f].modified <= mtime[f] /\ mtime[f] <= clock
        /\ state.started \in Nat /\ state.started <= clock
    BY <2>1 DEF TextInv, TimeInv
  <2>3. \/ state.sources[f].modified < mtime'[f]
        \/ /\ state.sources[f].modified >= state.started =>
                 state.sources[f].hash \in {state.sources[f].post, Absent}
           /\ state.sources[f].modified < state.started =>
                 post'[f] \in {state.sources[f].post, Absent}
    BY <1>1, <1>3, <2>1, <2>2, EditKeepsReading
  <2> QED
    BY <1>2, <2>3 DEF SourceRead
<1>7. ASSUME Started, NEW f \in Known(b.sources)
      PROVE  SourceRead(b.sources[f], f, b.started)'
  <2>1. f \in Source /\ b.sources[f] \in SourceEntry /\ f \in Present(b.pages)
        /\ b.sources[f].modified = b.stamps[f]
    BY <1>5, <1>7 DEF Known, EntryInv
  <2>2. /\ SourceRead(b.sources[f], f, b.started)
        /\ b.sources[f].modified <= mtime[f] /\ mtime[f] <= clock
        /\ b.started \in Nat /\ b.started <= clock
    BY <1>5, <1>7, <2>1 DEF TextInv, TimeInv
  <2>3. \/ b.sources[f].modified < mtime'[f]
        \/ /\ b.sources[f].modified >= b.started =>
                 b.sources[f].hash \in {b.sources[f].post, Absent}
           /\ b.sources[f].modified < b.started =>
                 post'[f] \in {b.sources[f].post, Absent}
    BY <1>1, <1>3, <2>1, <2>2, EditKeepsReading
  <2> QED
    BY <1>2, <2>3 DEF SourceRead
<1>8. ASSUME Started, NEW f \in Present(b.pages) PROVE PageRead(f)'
  <2>1. f \in Source /\ b.stamps[f] \in Int /\ b.stamps[f] <= mtime[f] /\ mtime[f] <= clock
    BY <1>5, <1>8 DEF Present, TimeInv
  <2>2. PageRead(f)
    BY <1>8 DEF TextInv
  <2>3. mtime[f] <= mtime'[f]
    BY <1>1, <2>1 DEF Edited
  <2>4. CASE b.stamps[f] < mtime'[f]
    BY <1>2, <2>4 DEF PageRead
  <2>5. CASE mtime'[f] = mtime[f] /\ post'[f] \in {post[f], Absent}
    BY <1>2, <2>2, <2>5 DEF PageRead
  <2>6. CASE clock < mtime'[f]
    BY <1>3, <2>1, <2>4, <2>6
  <2> QED
    BY <1>1, <1>8, <2>1, <2>5, <2>6 DEF Edited
<1>9. TextInv'
  BY <1>2, <1>4, <1>6, <1>7, <1>8 DEF TextInv
<1>10. ListingsInv' /\ ThereInv'
  BY <1>2 DEF ListingsInv, ThereInv
<1> QED
  BY <1>2, <1>9, <1>10 DEF FoundInv, SavedInv, AgainInv, ClashInv

-----------------------------------------------------------------------------
(* The build begins *)

(* A build that repeats the last finds what that saved. *)
LEMMA RepeatBegins ==
  ASSUME BuildInv, RepeatInv, NEW d \in Flags, NEW g \in Forces, Begin(d, g)
  PROVE  RepeatInv'
<1> USE DEF BuildInv, RepeatInv
<1>1. pc = "idle" /\ pc' = "fingerprint" /\ out' = out /\ manifest' = manifest /\ state' = state
  BY DEF Begin, stored
<1>2. b'.drafts = d /\ b'.repeat = (same /\ last = "ok" /\ d = flag)
  BY DEF Begin
<1>3. post' = post /\ layout' = layout /\ static' = static /\ mtime' = mtime /\ stime' = stime
  BY DEF Begin, inputs
<1>4. ~Started' /\ pc' \notin Saving /\ pc \notin Saving
  BY <1>1 DEF Started, Saving
<1>5. TextInv'
  BY <1>1, <1>3, <1>4 DEF TextInv, SourceRead
<1>6. ListingsInv'
  BY <1>1, <1>4 DEF ListingsInv
<1>7. ASSUME b'.repeat PROVE AsSaved(b.drafts)'
  <2>1. AsSaved(d)
    BY <1>1, <1>2, <1>7 DEF SavedInv
  <2>2. AsSaved(d)'
    BY <1>1, <1>3, <2>1, SavedStays
  <2> QED
    BY <1>2, <2>2 DEF AsSaved
<1>8. AgainInv'
  BY <1>1, <1>4, <1>7 DEF AgainInv, Scanning, Rendering
<1> QED
  BY <1>1, <1>4, <1>5, <1>6, <1>8 DEF FoundInv, ThereInv, SavedInv, ClashInv

(* What was saved is loaded. *)
LEMMA RepeatFingerprints ==
  ASSUME BuildInv, PastInv, RepeatInv, Fingerprint PROVE RepeatInv'
<1> USE DEF BuildInv, PastInv, RepeatInv
<1>1. pc = "fingerprint" /\ pc' = "scan" /\ out' = out /\ state' = state /\ manifest' = manifest
      /\ still' = still
  BY DEF Fingerprint, stored
<1>2. post' = post /\ layout' = layout /\ static' = static /\ mtime' = mtime /\ stime' = stime
  BY DEF Fingerprint
<1>3. /\ b'.drafts = b.drafts /\ b'.force = b.force /\ b'.repeat = b.repeat
      /\ b'.todo = b.todo /\ b'.changed = {} /\ b'.collisions = {} /\ b'.fingerprint = layout
      /\ b'.reusable = (~b.force /\ state.fingerprint = layout)
      /\ b'.shipped = {k \in Static : static[k] # Absent}
      /\ b'.pages = [f \in Source |-> Absent]
      /\ b'.sources = [f \in Source |-> Absent]
  BY DEF Fingerprint
<1>4. Present(b'.pages) = {} /\ Known(b'.sources) = {}
  BY <1>3 DEF Present, Known
<1>5. Started' /\ pc' \in Scanning /\ pc' \notin Writing /\ pc' \notin Copying /\ pc' \notin Saving
      /\ pc' \notin Rendering /\ pc \notin Saving
  BY <1>1 DEF Started, Scanning, Writing, Copying, Saving, Rendering
<1>6. still => b.todo = {f \in Source : post[f] # Absent}
  BY <1>1 DEF ReadInv
<1>7. TextInv'
  BY <1>1, <1>2, <1>4 DEF TextInv, SourceRead
<1>8. FoundInv'
  <2>1. b'.shipped = Shipping'
    BY <1>2, <1>3 DEF Shipping
  <2>2. still => \A f \in b'.todo : post'[f] # Absent
    BY <1>2, <1>3, <1>6
  <2>3. still => \A f \in Source \ b'.todo : post'[f] = Absent
    BY <1>2, <1>3, <1>6
  <2> QED
    BY <1>1, <1>2, <1>3, <1>4, <1>5, <2>1, <2>2, <2>3 DEF FoundInv
<1>9. AgainInv'
  <2> SUFFICES ASSUME b.repeat, ~b.force, still PROVE AgainInv'
    BY <1>1, <1>3 DEF AgainInv
  <2>1. AsSaved(b.drafts)
    BY <1>1, <1>5 DEF AgainInv
  <2>2. PICK d : d = b.drafts
    OBVIOUS
  <2>3. AsSaved(d)'
    BY <1>1, <1>2, <2>1, <2>2, SavedStays
  <2>4. AsSaved(b.drafts)'
    BY <1>3, <2>2, <2>3 DEF AsSaved
  <2>5. b'.reusable
    BY <1>3, <2>1 DEF AsSaved
  <2>6. Known(state.sources) \subseteq b.todo
    BY <1>6, <2>1 DEF AsSaved, Known
  <2>7. NothingParsed'
    BY <1>4 DEF NothingParsed
  <2> QED
    BY <1>1, <1>3, <1>4, <1>5, <2>4, <2>5, <2>6, <2>7 DEF AgainInv
<1>10. ListingsInv'
  BY <1>1, <1>5 DEF ListingsInv
<1> QED
  BY <1>1, <1>3, <1>5, <1>7, <1>8, <1>9, <1>10 DEF ThereInv, SavedInv, ClashInv

-----------------------------------------------------------------------------
(* The walk of the sources *)

(* A build that repeats the last one, which nobody has disturbed. *)
Again == b.repeat /\ ~b.force /\ still

(* A step that works from what was saved and removes nothing leaves what is  *)
(* saved as it was.                                                          *)
LEMMA RepeatWorks ==
  ASSUME BuildInv, PastInv, RepeatInv, Works, b'.repeat = b.repeat, pc # "manifest",
         pc' # "manifest" => \A k \in Key : out[k] # Absent => out'[k] # Absent
  PROVE  /\ SavedInv' /\ ListingsInv' /\ (pc' # "manifest" => ThereInv')
         /\ \A f \in Known(state'.sources) : SourceRead(state.sources[f], f, state.started)'
         /\ pc # "idle" /\ pc' # "idle" /\ Again' = Again
         /\ pc' # "manifest" /\ Again => AsSaved(b.drafts)'
<1> USE DEF BuildInv, PastInv, RepeatInv
<1>1. /\ post' = post /\ layout' = layout /\ static' = static /\ mtime' = mtime /\ stime' = stime
      /\ still' = still /\ state' = state /\ manifest' = manifest
      /\ b'.force = b.force /\ b'.drafts = b.drafts
  BY DEF Works, inputs, SameReading
<1>2. /\ pc # "idle" /\ pc' # "idle" /\ pc' # "end" /\ pc \notin Saving
      /\ pc' # "manifest" => pc' \notin Saving
      /\ pc' = "manifest" => pc' \in Saving \ {"end"}
  BY DEF Works, Working, Saving
<1>3. SavedInv'
  BY <1>2 DEF SavedInv
<1>4. ListingsInv'
  <2> SUFFICES ASSUME "kill" \notin Faults, pc' # "manifest", NEW k \in state.derived
               PROVE  Reusable(LoadManifest(manifest), out', k)
    BY <1>1, <1>2 DEF ListingsInv
  <2>1. Reusable(LoadManifest(manifest), out, k)
    BY <1>2 DEF ListingsInv
  <2>2. k \in Key
    BY SavedKeys
  <2> QED
    BY <2>1, <2>2 DEF Reusable
<1>5. pc' # "manifest" => ThereInv'
  BY <1>2 DEF ThereInv
<1>6. \A f \in Known(state'.sources) : SourceRead(state.sources[f], f, state.started)'
  BY <1>1 DEF TextInv, SourceRead
<1>7. Again' = Again
  BY <1>1 DEF Again
<1>8. ASSUME pc' # "manifest", Again PROVE AsSaved(b.drafts)'
  <2>1. PICK d : d = b.drafts
    OBVIOUS
  <2>2. AsSaved(d)
    BY <1>2, <1>8, <2>1 DEF AgainInv, Again
  <2>3. AsSaved(d)'
    BY <1>1, <1>8, <2>2, SavedStays
  <2> QED
    BY <1>1, <2>1, <2>3 DEF AsSaved
<1> QED
  BY <1>2, <1>3, <1>4, <1>5, <1>6, <1>7, <1>8

(* A source is stamped. *)
LEMMA RepeatScanStamps ==
  ASSUME BuildInv, PastInv, RepeatInv, ScanStamp PROVE RepeatInv'
<1> USE DEF BuildInv, PastInv, RepeatInv
<1>1. pc = "scan" /\ pc' = "read" /\ b.todo # {} /\ out' = out
  BY DEF ScanStamp, stored
<1>2. PICK f : f = Min(b.todo)
  OBVIOUS
<1>3. f \in b.todo /\ f \in Source
  BY <1>1, <1>2, EndsInSet DEF LocalsInv
<1>4. DOMAIN b = Locals /\ b.stamps \in [Source -> Int]
  BY <1>1 DEF LocalsInv
<1>5. b' = [b EXCEPT !.stamps[f] = IF post[f] = Absent THEN 0 ELSE mtime[f]]
  BY <1>2 DEF ScanStamp
<1>6. \A x \in Locals \ {"stamps"} : b'[x] = b[x]
  BY <1>4, <1>5
<1>7. b'.stamps[f] = (IF post[f] = Absent THEN 0 ELSE mtime[f])
      /\ \A g \in Source \ {f} : b'.stamps[g] = b.stamps[g]
  BY <1>3, <1>4, <1>5 DEF Locals
<1>8. /\ b'.todo = b.todo /\ b'.changed = b.changed /\ b'.collisions = b.collisions
      /\ b'.shipped = b.shipped /\ b'.pages = b.pages /\ b'.sources = b.sources
      /\ b'.copies = b.copies /\ b'.expected = b.expected /\ b'.repeat = b.repeat
  BY <1>6 DEF Locals, Early
<1>9. SameReading
  BY <1>6 DEF Locals, Early, SameReading
<1>10. Works
  BY <1>1, <1>8, <1>9 DEF Works, Working, ScanStamp, stored, ghosts
<1>11. /\ Started /\ Started' /\ Covered' = Covered /\ Shipping' = Shipping
       /\ post' = post /\ layout' = layout /\ mtime' = mtime /\ stime' = stime /\ static' = static
       /\ state' = state /\ still' = still
  BY <1>10, WorkKeeps
<1>12. /\ SavedInv' /\ ListingsInv' /\ ThereInv' /\ Again' = Again
       /\ \A g \in Known(state'.sources) : SourceRead(state.sources[g], g, state.started)'
       /\ Again => AsSaved(b.drafts)'
  BY <1>1, <1>8, <1>10, RepeatWorks
<1>13. \A g \in Present(b.pages) : b'.stamps[g] = b.stamps[g]
  <2>1. f \notin Present(b.pages)
    BY <1>1, <1>3, <1>11 DEF EntryInv, Scanning, Present
  <2> QED
    BY <1>7, <2>1 DEF Present
<1>14. TextInv'
  <2>1. \A g \in Present(b'.pages) : PageRead(g)'
    BY <1>8, <1>11, <1>13 DEF TextInv, PageRead
  <2>2. \A g \in Known(b'.sources) : SourceRead(b.sources[g], g, b.started)'
    BY <1>8, <1>9, <1>11 DEF TextInv, SourceRead, SameReading
  <2> QED
    BY <1>12, <2>1, <2>2 DEF TextInv
<1>15. FoundInv'
  <2> SUFFICES ASSUME still PROVE FoundInv'
    BY <1>11 DEF FoundInv
  <2>1. post[f] # Absent
    BY <1>3, <1>11 DEF FoundInv
  <2>2. \A g \in Known(b.sources) : Trusted(b.sources[g], b.started, post[g])
    BY <1>11 DEF FoundInv
  <2> QED
    BY <1>1, <1>2, <1>7, <1>8, <1>9, <1>11, <1>13, <2>1, <2>2
       DEF FoundInv, Copying, Writing, Rendering, Saving, SameReading
<1>16. AgainInv'
  <2> SUFFICES ASSUME Again PROVE AgainInv'
    BY <1>12 DEF AgainInv, Again
  <2>1. /\ b.reusable /\ NothingParsed /\ b.changed = {}
        /\ Present(b.pages) = Known(state.sources) \ b.todo
    BY <1>1, <1>11 DEF AgainInv, Again, Scanning
  <2>2. NothingParsed'
    BY <1>8, <2>1 DEF NothingParsed
  <2> QED
    BY <1>1, <1>8, <1>9, <1>11, <1>12, <2>1, <2>2
       DEF AgainInv, Again, Scanning, Rendering, SameReading
<1>17. ClashInv'
  BY <1>8, <1>11 DEF ClashInv
<1> QED
  BY <1>12, <1>14, <1>15, <1>16, <1>17

(* The walk moves past a source f, for which it has found the page p (or     *)
(* none) and the entry e.                                                    *)
LEMMA RepeatScanMoves ==
  ASSUME BuildInv, PastInv, RepeatInv, Works, pc = "read", pc' = "scan", out' = out,
         NEW f, f = Min(b.todo), NEW p \in PageRecord \cup {Absent},
         NEW e \in SourceEntry \cup {Absent},
         b'.todo = b.todo \ {f}, b'.pages = [b.pages EXCEPT ![f] = p],
         b'.sources = [b.sources EXCEPT ![f] = e],
         b'.changed = b.changed, b'.expected = b.expected, b'.collisions = b.collisions,
         b'.shipped = b.shipped, b'.copies = b.copies, b'.stamps = b.stamps,
         b'.repeat = b.repeat,
         p # Absent => b.stamps[f] < mtime[f] \/ post[f] \in {p.post, Absent},
         e # Absent => SourceRead(e, f, b.started) /\ (still => Trusted(e, b.started, post[f])),
         still /\ p = Absent /\ post[f] # Absent => post[f].draft /\ ~b.drafts,
         Again /\ p # Absent => f \in Known(state.sources) /\ ~p.parsed,
         Again /\ p = Absent => f \notin Known(state.sources)
  PROVE  RepeatInv'
<1> USE DEF BuildInv, PastInv, RepeatInv
<1>1. b.todo \subseteq Source /\ f \in b.todo /\ f \in Source
  BY EndsInSet DEF LocalsInv
<1>2. /\ Started /\ Started' /\ Covered' = Covered /\ Shipping' = Shipping
      /\ post' = post /\ layout' = layout /\ mtime' = mtime /\ stime' = stime /\ static' = static
      /\ state' = state /\ still' = still
  BY WorkKeeps
<1>3. /\ SavedInv' /\ ListingsInv' /\ ThereInv' /\ Again' = Again
      /\ \A g \in Known(state'.sources) : SourceRead(state.sources[g], g, state.started)'
      /\ Again => AsSaved(b.drafts)'
  BY RepeatWorks
<1>4. b.pages \in [Source -> PageRecord \cup {Absent}]
      /\ b.sources \in [Source -> SourceEntry \cup {Absent}]
  BY DEF LocalsInv
<1>5. /\ b'.pages[f] = p /\ b'.sources[f] = e
      /\ \A g \in Source \ {f} : b'.pages[g] = b.pages[g] /\ b'.sources[g] = b.sources[g]
  BY <1>1, <1>4
<1>6. SameReading
  BY DEF Works
<1>7. \A g \in Present(b'.pages) \ {f} : g \in Present(b.pages) /\ g \in Source
  BY <1>5 DEF Present
<1>8. \A g \in Known(b'.sources) \ {f} : g \in Known(b.sources) /\ g \in Source
  BY <1>5 DEF Known
<1>9. TextInv'
  <2>1. ASSUME NEW g \in Present(b'.pages) PROVE PageRead(g)'
    <3>1. CASE g = f
      BY <1>1, <1>2, <1>5, <2>1, <3>1 DEF PageRead, Present
    <3>2. CASE g # f
      <4>1. PageRead(g) /\ g \in Source
        BY <1>2, <1>7, <2>1, <3>2 DEF TextInv
      <4> QED
        BY <1>2, <1>5, <3>2, <4>1 DEF PageRead
    <3> QED
      BY <3>1, <3>2
  <2>2. ASSUME NEW g \in Known(b'.sources) PROVE SourceRead(b.sources[g], g, b.started)'
    <3>1. CASE g = f
      <4>1. SourceRead(e, f, b.started)
        BY <1>5, <2>2, <3>1 DEF Known
      <4> QED
        BY <1>2, <1>5, <1>6, <3>1, <4>1 DEF SourceRead, SameReading
    <3>2. CASE g # f
      <4>1. SourceRead(b.sources[g], g, b.started) /\ g \in Source
        BY <1>2, <1>8, <2>2, <3>2 DEF TextInv
      <4> QED
        BY <1>2, <1>5, <1>6, <3>2, <4>1 DEF SourceRead, SameReading
    <3> QED
      BY <3>1, <3>2
  <2> QED
    BY <1>3, <2>1, <2>2 DEF TextInv
<1>10. FoundInv'
  <2> SUFFICES ASSUME still PROVE FoundInv'
    BY <1>2 DEF FoundInv
  <2>1. post[f] # Absent /\ b.stamps[f] = mtime[f] /\ b.fingerprint = layout
    BY <1>1, <1>2 DEF FoundInv
  <2>2. \A g \in Present(b'.pages) : b'.stamps[g] = mtime'[g] /\ post'[g] # Absent
    <3> TAKE g \in Present(b'.pages)
    <3>1. CASE g = f
      BY <1>2, <2>1, <3>1
    <3>2. CASE g # f
      BY <1>2, <1>7, <3>2 DEF FoundInv
    <3> QED
      BY <3>1, <3>2
  <2>3. ASSUME NEW g \in Source, g \notin Present(b'.pages) \cup b'.todo, post[g] # Absent
        PROVE  post[g].draft /\ ~b.drafts
    <3>1. CASE g = f
      BY <1>5, <2>3, <3>1 DEF Present
    <3>2. CASE g # f
      <4>1. g \notin Present(b.pages) \cup b.todo
        BY <1>5, <2>3, <3>2 DEF Present
      <4> QED
        BY <1>2, <2>3, <4>1 DEF FoundInv
    <3> QED
      BY <3>1, <3>2
  <2>4. \A g \in Known(b'.sources) : Trusted(b'.sources[g], b'.started, post'[g])
    <3> TAKE g \in Known(b'.sources)
    <3>1. CASE g = f
      BY <1>2, <1>5, <1>6, <3>1 DEF Known, SameReading
    <3>2. CASE g # f
      BY <1>2, <1>5, <1>6, <1>8, <3>2 DEF FoundInv, SameReading
    <3> QED
      BY <3>1, <3>2
  <2>5. b'.shipped = Shipping' /\ \A g \in b'.todo : post'[g] # Absent
    BY <1>2 DEF FoundInv, Copying, Saving
  <2> QED
    BY <1>2, <1>6, <2>1, <2>2, <2>3, <2>4, <2>5
       DEF FoundInv, Copying, Writing, Rendering, Saving, SameReading
<1>11. AgainInv'
  <2> SUFFICES ASSUME Again PROVE AgainInv'
    BY <1>3 DEF AgainInv, Again
  <2>1. /\ b.reusable /\ NothingParsed /\ b.changed = {}
        /\ Present(b.pages) = Known(state.sources) \ b.todo
    BY <1>2 DEF AgainInv, Again, Scanning
  <2>2. NothingParsed'
    <3>1. ASSUME NEW g \in Present(b'.pages) PROVE ~b'.pages[g].parsed
      <4>1. CASE g = f
        BY <1>5, <3>1, <4>1 DEF Present
      <4>2. CASE g # f
        BY <1>5, <1>7, <2>1, <3>1, <4>2 DEF NothingParsed
      <4> QED
        BY <4>1, <4>2
    <3> QED
      BY <3>1 DEF NothingParsed
  <2>3. Present(b'.pages) = Known(state.sources) \ b'.todo
    BY <1>1, <1>5, <2>1 DEF Present, Known
  <2> QED
    BY <1>2, <1>3, <1>6, <2>1, <2>2, <2>3 DEF AgainInv, Again, Scanning, Rendering, SameReading
<1>12. ClashInv'
  <2>1. b'.collisions = {}
    BY <1>2 DEF WriteInv, Writing, Rendering, Saving
  <2> QED
    BY <2>1 DEF ClashInv
<1> QED
  BY <1>3, <1>9, <1>10, <1>11, <1>12

(* What Unchanged finds of a source was read from it, whatever is covered. *)
LEMMA UnchangedIsRead ==
  ASSUME BuildInv, PastInv, RepeatInv, pc = "read", NEW f \in Source, f = Min(b.todo),
         Unchanged(f), NEW e, e = state.sources[f]
  PROVE  /\ SourceRead(e, f, b.started)
         /\ b.stamps[f] < mtime[f] \/ post[f] \in {e.post, Absent}
         /\ Trusted(e, b.started, post[f])
<1> USE DEF BuildInv, PastInv, RepeatInv
<1>1. Started
  BY DEF Started
<1>2. b.prior = state /\ state.started <= b.started
  BY <1>1 DEF LoadInv
<1>3. e \in SourceEntry /\ f \in Known(state.sources)
  BY <1>2 DEF Unchanged, TypeOK, Known
<1>4. SourceRead(e, f, state.started)
  BY <1>3 DEF TextInv
<1>5. /\ e.modified \in Nat /\ state.started \in Nat /\ b.started \in Nat /\ mtime[f] \in Nat
      /\ e.modified = b.stamps[f] /\ e.modified <= mtime[f]
  BY <1>1, <1>2, <1>3 DEF SourceEntry, TimeInv, LocalsInv, TypeOK, Unchanged, Started
<1>6. e.modified < state.started \/ (post[f] # Absent /\ e.hash = post[f])
  BY <1>2 DEF Unchanged, Settled
<1>7. Trusted(e, b.started, post[f])
  BY <1>2, <1>5, <1>6 DEF Trusted
<1>8. CASE e.modified < mtime[f]
  BY <1>5, <1>7, <1>8 DEF SourceRead
<1>9. CASE ~(e.modified < mtime[f])
  <2>1. /\ e.modified >= state.started => e.hash \in {e.post, Absent}
        /\ e.modified < state.started => post[f] \in {e.post, Absent}
    BY <1>4, <1>9 DEF SourceRead
  <2>2. post[f] \in {e.post, Absent}
    BY <1>5, <1>6, <2>1
  <2>3. e.modified >= b.started => e.hash \in {e.post, Absent}
    BY <1>2, <1>5, <2>1
  <2> QED
    BY <1>7, <2>2, <2>3 DEF SourceRead
<1> QED
  BY <1>8, <1>9

(* A build that repeats the last one finds every source that it knows        *)
(* unchanged, and holds back every other.                                    *)
LEMMA AgainUnchanged ==
  ASSUME BuildInv, PastInv, RepeatInv, pc = "read", NEW f \in Source, f = Min(b.todo), Again
  PROVE  /\ f \in Known(state.sources) => Unchanged(f)
         /\ f \notin Known(state.sources) /\ post[f] # Absent => Held(f)
<1> USE DEF BuildInv, PastInv, RepeatInv
<1>1. Started /\ pc \notin Saving /\ still /\ f \in b.todo
  BY EndsInSet DEF Started, Saving, Again, LocalsInv
<1>2. b.prior = state /\ b.previous = LoadManifest(manifest)
  BY <1>1 DEF LoadInv
<1>3. AsSaved(b.drafts) /\ b.reusable
  BY <1>1 DEF AgainInv, Again
<1>4. b.stamps[f] = mtime[f] /\ post[f] # Absent
  BY <1>1 DEF FoundInv
<1>5. ASSUME f \in Known(state.sources) PROVE Unchanged(f)
  <2>1. /\ state.sources[f].modified = mtime[f] /\ state.sources[f] # Absent
        /\ Trusted(state.sources[f], state.started, post[f])
        /\ Reusable(LoadManifest(manifest), out, state.sources[f].output)
    BY <1>3, <1>5 DEF AsSaved, Known
  <2> QED
    BY <1>2, <1>3, <1>4, <2>1 DEF Unchanged, Trusted, Settled
<1>6. f \notin Known(state.sources) => Held(f)
  BY <1>3, <1>4 DEF AsSaved, Held
<1> QED
  BY <1>5, <1>6

(* A source left alone, held back or read. *)
LEMMA RepeatScans ==
  ASSUME BuildInv, PastInv, RepeatInv, ScanKeep \/ ScanHold \/ ScanLoad
  PROVE  RepeatInv'
<1> USE DEF BuildInv, PastInv
<1>1. pc = "read" /\ pc' = "scan" /\ Started
  BY DEF ScanKeep, ScanHold, ScanLoad, Started
<1>2. PICK f : f = Min(b.todo)
  OBVIOUS
<1>3. f \in b.todo /\ f \in Source
  BY <1>1, <1>2, EndsInSet DEF LocalsInv
<1>4. DOMAIN b = Locals /\ b.pages \in [Source -> PageRecord \cup {Absent}]
      /\ b.sources \in [Source -> SourceEntry \cup {Absent}]
  BY <1>1 DEF LocalsInv
<1>5. b.pages[f] = Absent /\ b.sources[f] = Absent
  <2>1. b.pages[f] = Absent
    BY <1>1, <1>3 DEF EntryInv, Scanning
  <2>2. f \in Known(b.sources) => f \in Present(b.pages)
    BY <1>1 DEF EntryInv
  <2> QED
    BY <1>3, <2>1, <2>2 DEF Known, Present
<1>6. /\ UNCHANGED <<inputs, manifest, state, still, dirty, flag, uncovered>>
      /\ out' = out
  BY DEF ScanKeep, ScanHold, ScanLoad, stored, ghosts
<1>7. ASSUME \A x \in Locals \ {"todo", "pages", "sources"} : b'[x] = b[x]
      PROVE  /\ Works
             /\ b'.changed = b.changed /\ b'.expected = b.expected
             /\ b'.collisions = b.collisions /\ b'.shipped = b.shipped
             /\ b'.copies = b.copies /\ b'.stamps = b.stamps /\ b'.repeat = b.repeat
  <2>1. SameReading
    BY <1>7 DEF SameReading, Locals, Early
  <2>2. /\ b'.changed = b.changed /\ b'.expected = b.expected
        /\ b'.collisions = b.collisions /\ b'.shipped = b.shipped
        /\ b'.copies = b.copies /\ b'.stamps = b.stamps /\ b'.repeat = b.repeat
    BY <1>7 DEF Locals, Early
  <2> QED
    BY <1>1, <1>6, <2>1, <2>2 DEF Works, Working
<1>8. CASE ScanKeep
  <2>1. Unchanged(f) /\ b.prior = state
    BY <1>1, <1>2, <1>8 DEF ScanKeep, LoadInv
  <2>2. PICK e : e = state.sources[f]
    OBVIOUS
  <2>3. e \in SourceEntry /\ e # Absent /\ f \in Known(state.sources)
    BY <1>3, <2>1, <2>2 DEF Unchanged, TypeOK, Known
  <2>4. PICK p : p = [parsed |-> FALSE, post |-> e.post, output |-> e.output]
    OBVIOUS
  <2>5. p \in PageRecord /\ p.post = e.post /\ ~p.parsed
    BY <2>3, <2>4 DEF PageRecord, SourceEntry
  <2>6. b' = [b EXCEPT !.todo = @ \ {f}, !.pages[f] = p, !.sources[f] = e]
    BY <1>2, <1>8, <2>1, <2>2, <2>4 DEF ScanKeep, Advance
  <2>7. \A x \in Locals \ {"todo", "pages", "sources"} : b'[x] = b[x]
    BY <1>4, <2>6
  <2>8. b'.todo = b.todo \ {f} /\ b'.pages = [b.pages EXCEPT ![f] = p]
        /\ b'.sources = [b.sources EXCEPT ![f] = e]
    BY <1>4, <2>6 DEF Locals, Early
  <2>9. p # Absent
    BY <2>5, AbsentAssumption
  <2>10. /\ SourceRead(e, f, b.started)
         /\ b.stamps[f] < mtime[f] \/ post[f] \in {p.post, Absent}
         /\ Trusted(e, b.started, post[f])
    BY <1>1, <1>2, <1>3, <2>1, <2>2, <2>5, UnchangedIsRead
  <2> QED
    BY <1>1, <1>2, <1>6, <1>7, <2>3, <2>5, <2>7, <2>8, <2>9, <2>10, RepeatScanMoves
<1>9. CASE ScanHold
  <2>1. b' = [b EXCEPT !.todo = @ \ {f}]
    BY <1>2, <1>9 DEF ScanHold, Advance
  <2>2. \A x \in Locals \ {"todo", "pages", "sources"} : b'[x] = b[x]
    BY <1>4, <2>1
  <2>3. b'.todo = b.todo \ {f} /\ b'.pages = b.pages /\ b'.sources = b.sources
    BY <1>4, <2>1 DEF Locals, Early
  <2>4. b'.pages = [b.pages EXCEPT ![f] = Absent] /\ b'.sources = [b.sources EXCEPT ![f] = Absent]
    BY <1>3, <1>4, <1>5, <2>3
  <2>5. post[f].draft /\ ~b.drafts /\ ~Unchanged(f)
    BY <1>2, <1>9 DEF ScanHold, Held
  <2>6. Again => f \notin Known(state.sources)
    BY <1>1, <1>2, <1>3, <2>5, AgainUnchanged
  <2> QED
    BY <1>1, <1>2, <1>6, <1>7, <2>2, <2>3, <2>4, <2>5, <2>6, RepeatScanMoves
<1>10. CASE ScanLoad
  <2>1. PICK p : p = [parsed |-> TRUE, post |-> post[f], output |-> post[f].title]
    OBVIOUS
  <2>2. post[f] \in Post /\ post[f] # Absent /\ ~Held(f) /\ ~Unchanged(f)
    BY <1>2, <1>3, <1>10 DEF ScanLoad, TypeOK
  <2>3. p \in PageRecord
    BY <2>1, <2>2 DEF PageRecord, Titles
  <2>4. b' = [b EXCEPT !.todo = @ \ {f}, !.pages[f] = p]
    BY <1>2, <1>10, <2>1 DEF ScanLoad, Advance
  <2>5. \A x \in Locals \ {"todo", "pages", "sources"} : b'[x] = b[x]
    BY <1>4, <2>4
  <2>6. b'.todo = b.todo \ {f} /\ b'.pages = [b.pages EXCEPT ![f] = p] /\ b'.sources = b.sources
    BY <1>4, <2>4 DEF Locals, Early
  <2>7. b'.sources = [b.sources EXCEPT ![f] = Absent]
    BY <1>3, <1>4, <1>5, <2>6
  <2>8. post[f] \in {p.post, Absent} /\ p # Absent
    BY <2>1, <2>3, AbsentAssumption
  <2>9. ~Again
    BY <1>1, <1>2, <1>3, <2>2, AgainUnchanged
  <2> QED
    BY <1>1, <1>2, <1>6, <1>7, <2>3, <2>5, <2>6, <2>7, <2>8, <2>9, RepeatScanMoves
<1> QED
  BY <1>8, <1>9, <1>10

-----------------------------------------------------------------------------
(* Pages are placed between their neighbours and related *)

(* What a page read again says was read, and if nobody disturbed the build   *)
(* it is what it said before, whatever is covered.                           *)
LEMMA ReadAgainRead ==
  ASSUME BuildInv, RepeatInv, Started, NEW files \in SUBSET Present(b.pages),
         \A f \in files : post[f] # Absent, NEW f \in Present(b.pages)
  PROVE  /\ b.stamps[f] < mtime[f] \/ post[f] \in {ReadAgain(files)[f].post, Absent}
         /\ still => ReadAgain(files)[f].post = b.pages[f].post
<1> USE DEF BuildInv, RepeatInv
<1>1. f \in Source /\ PageRead(f)
  BY DEF Present, TextInv
<1>2. CASE f \notin files
  BY <1>1, <1>2 DEF ReadAgain, PageRead
<1>3. CASE f \in files
  <2>1. ReadAgain(files)[f].post = post[f] /\ post[f] # Absent
    BY <1>1, <1>3 DEF ReadAgain
  <2>2. still => b.stamps[f] = mtime[f] /\ mtime[f] \in Nat
    BY <1>1 DEF FoundInv, TypeOK
  <2> QED
    BY <2>1, <2>2, <1>1 DEF PageRead
<1> QED
  BY <1>2, <1>3

(* Reading pages again changes neither what was read nor, if nobody          *)
(* disturbs the build, what the pages show of each other.                    *)
LEMMA RereadingIsRead ==
  ASSUME BuildInv, PastInv, RepeatInv, Works, b'.repeat = b.repeat, out' = out,
         pc \in {"scan", "related"}, pc' # "manifest", NEW files \in SUBSET Present(b.pages),
         \A f \in files : post[f] # Absent,
         b'.pages = ReadAgain(files), b'.sources = b.sources, b'.stamps = b.stamps
  PROVE  /\ TextInv'
         /\ Present(b'.pages) = Present(b.pages)
         /\ still =>
               /\ \A f \in Present(b.pages) : Around(b'.pages, f) = Around(b.pages, f)
               /\ \A f \in Present(b.pages) : Related(b'.pages, f) = Related(b.pages, f)
<1> USE DEF BuildInv, PastInv, RepeatInv
<1>1. /\ Started /\ Started' /\ post' = post /\ mtime' = mtime /\ SameReading
  BY WorkKeeps DEF Works
<1>2. Present(b'.pages) = Present(b.pages)
  BY <1>1, ReadAgainKeeps DEF LocalsInv, Started
<1>3. TextInv'
  <2>1. \A f \in Known(state'.sources) : SourceRead(state.sources[f], f, state.started)'
    BY RepeatWorks
  <2>2. \A f \in Present(b.pages) : PageRead(f)'
    BY <1>1, ReadAgainRead DEF PageRead
  <2>3. \A f \in Known(b'.sources) : SourceRead(b.sources[f], f, b.started)'
    BY <1>1 DEF TextInv, SourceRead, SameReading
  <2> QED
    BY <1>2, <2>1, <2>2, <2>3 DEF TextInv
<1>4. ASSUME still
      PROVE  /\ \A f \in Present(b.pages) : Around(b'.pages, f) = Around(b.pages, f)
             /\ \A f \in Present(b.pages) : Related(b'.pages, f) = Related(b.pages, f)
  <2>1. \A f \in Present(b.pages) :
          b'.pages[f].post = b.pages[f].post /\ b'.pages[f].output = b.pages[f].output
    BY <1>1, <1>4, ReadAgainRead, ReadAgainSame
  <2>2. PICK q : q = b'.pages
    OBVIOUS
  <2> QED
    BY <1>2, <2>1, <2>2, ShownAlike
<1> QED
  BY <1>2, <1>3, <1>4

(* The pages of a build that repeats the last one are where they were. *)
LEMMA AgainShown ==
  ASSUME BuildInv, PastInv, RepeatInv, Again,
         (pc = "scan" /\ b.todo = {}) \/ pc = "related"
  PROVE  /\ Present(b.pages) = Known(state.sources) /\ NothingParsed
         /\ \A f \in Present(b.pages) : ~Moved(f) /\ ~Retold(f)
<1> USE DEF BuildInv, PastInv, RepeatInv
<1>1. Started /\ still /\ pc \notin Saving
  BY DEF Started, Again, Saving
<1>2. b.prior = state /\ b.previous = LoadManifest(manifest)
  BY <1>1 DEF LoadInv
<1>3. AsSaved(b.drafts) /\ NothingParsed
  BY <1>1 DEF AgainInv, Again
<1>4. Present(b.pages) = Known(state.sources)
  BY <1>1 DEF AgainInv, Again, Scanning
<1>5. \A f \in Present(b.pages) :
        /\ state.sources[f].post = b.pages[f].post
        /\ state.sources[f].output = b.pages[f].output
  <2>1. \A f \in Present(b.pages) : ~b.pages[f].parsed
    BY <1>3 DEF NothingParsed
  <2>2. EntryInv /\ Started /\ pc \notin {"save state", "end"}
    BY <1>1 DEF Saving
  <2>3. \A f \in Present(b.pages) :
          /\ b.sources[f] = state.sources[f]
          /\ b.sources[f].post = b.pages[f].post
          /\ b.sources[f].output = b.pages[f].output
    BY <2>1, <2>2, Zenon DEF EntryInv
  <2> QED
    BY <2>3
<1>6. PICK q : q = state.sources
  OBVIOUS
<1>7. Present(q) = Present(b.pages)
  BY <1>4, <1>6 DEF Present, Known
<1>8. \A f \in Present(b.pages) :
        Around(b.pages, f) = Around(q, f) /\ Related(b.pages, f) = Related(q, f)
  BY <1>5, <1>6, <1>7, ShownAlike
<1>9. ASSUME NEW f \in Present(b.pages) PROVE ~Moved(f) /\ ~Retold(f)
  <2>1. /\ state.sources[f].around = Around(state.sources, f)
        /\ state.sources[f].related = Related(state.sources, f)
        /\ Reusable(LoadManifest(manifest), out, state.sources[f].output)
    BY <1>3, <1>4 DEF AsSaved
  <2> QED
    BY <1>2, <1>5, <1>6, <1>8, <2>1 DEF Moved, Retold
<1> QED
  BY <1>3, <1>4, <1>9

(* The posts either side of each page are worked out. *)
LEMMA RepeatNeighbours ==
  ASSUME BuildInv, PastInv, RepeatInv, Neighbours PROVE RepeatInv'
<1> USE DEF BuildInv, PastInv, RepeatInv
<1>1. pc = "scan" /\ pc' = "related" /\ b.todo = {} /\ out' = out
  BY DEF Neighbours, stored
<1>2. DOMAIN b = Locals /\ b.pages \in [Source -> PageRecord \cup {Absent}]
  BY <1>1 DEF LocalsInv
<1>3. PICK moved : moved = {f \in Present(b.pages) : Moved(f)}
  OBVIOUS
<1>4. (\A f \in moved : post[f] # Absent) /\ moved \in SUBSET Present(b.pages)
  BY <1>3 DEF Neighbours
<1>5. b' = [b EXCEPT !.around = [f \in Source |->
                        IF f \in Present(b.pages) THEN Around(b.pages, f) ELSE Absent],
                     !.pages = ReadAgain(moved)]
  BY <1>3 DEF Neighbours
<1>6. \A x \in Locals \ {"around", "pages"} : b'[x] = b[x]
  BY <1>2, <1>5
<1>7. /\ b'.pages = ReadAgain(moved)
      /\ \A f \in Source : f \in Present(b.pages) => b'.around[f] = Around(b.pages, f)
  BY <1>2, <1>5 DEF Locals, Early
<1>8. /\ b'.todo = b.todo /\ b'.changed = b.changed /\ b'.collisions = b.collisions
      /\ b'.shipped = b.shipped /\ b'.sources = b.sources /\ b'.repeat = b.repeat
      /\ b'.copies = b.copies /\ b'.stamps = b.stamps /\ b'.expected = b.expected
  BY <1>6 DEF Locals, Early
<1>9. SameReading
  BY <1>6 DEF Locals, Early, SameReading
<1>10. Works
  BY <1>1, <1>8, <1>9 DEF Works, Working, Neighbours, stored, ghosts
<1>11. /\ Started /\ Started' /\ Covered' = Covered /\ Shipping' = Shipping
       /\ post' = post /\ layout' = layout /\ mtime' = mtime /\ stime' = stime /\ static' = static
       /\ state' = state /\ still' = still
  BY <1>10, WorkKeeps
<1>12. /\ SavedInv' /\ ListingsInv' /\ ThereInv' /\ Again' = Again
       /\ Again => AsSaved(b.drafts)'
  BY <1>1, <1>8, <1>10, RepeatWorks
<1>13. /\ TextInv' /\ Present(b'.pages) = Present(b.pages)
       /\ still => \A f \in Present(b.pages) : Around(b'.pages, f) = Around(b.pages, f)
  BY <1>1, <1>4, <1>7, <1>8, <1>10, RereadingIsRead
<1>14. FoundInv'
  <2> SUFFICES ASSUME still PROVE FoundInv'
    BY <1>11 DEF FoundInv
  <2>1. \A f \in Present(b.pages) : b'.around[f] = Around(b'.pages, f)
    BY <1>7, <1>13 DEF Present
  <2>2. \A f \in Known(b.sources) : Trusted(b.sources[f], b.started, post[f])
    BY <1>11 DEF FoundInv
  <2> QED
    BY <1>1, <1>8, <1>9, <1>11, <1>13, <2>1, <2>2
       DEF FoundInv, Copying, Writing, Rendering, Saving, SameReading
<1>15. AgainInv'
  <2> SUFFICES ASSUME Again PROVE AgainInv'
    BY <1>12 DEF AgainInv, Again
  <2>1. /\ Present(b.pages) = Known(state.sources) /\ NothingParsed
        /\ \A f \in Present(b.pages) : ~Moved(f)
    BY <1>1, AgainShown
  <2>2. b'.pages = b.pages
    BY <1>2, <1>3, <1>7, <2>1, ReadAgainKeeps
  <2>3. NothingParsed' /\ b.reusable /\ b.changed = {}
    BY <1>1, <1>11, <2>1, <2>2 DEF NothingParsed, AgainInv, Again
  <2> QED
    BY <1>1, <1>8, <1>9, <1>11, <1>12, <2>1, <2>2, <2>3
       DEF AgainInv, Again, Scanning, Rendering, SameReading
<1>16. ClashInv'
  <2>1. b'.collisions = {}
    BY <1>1, <1>8, <1>11 DEF WriteInv, Writing, Rendering, Saving
  <2> QED
    BY <2>1 DEF ClashInv
<1> QED
  BY <1>12, <1>13, <1>14, <1>15, <1>16

(* The related posts are chosen, and what is still left alone is kept. *)
LEMMA RepeatAssignsRelated ==
  ASSUME BuildInv, PastInv, RepeatInv, AssignRelated PROVE RepeatInv'
<1> USE DEF BuildInv, PastInv, RepeatInv
<1>1. pc = "related" /\ pc' = "render" /\ out' = out
  BY DEF AssignRelated, stored
<1>2. DOMAIN b = Locals /\ b.pages \in [Source -> PageRecord \cup {Absent}]
  BY <1>1 DEF LocalsInv
<1>3. PICK retold : retold = {f \in Present(b.pages) : Retold(f)}
  OBVIOUS
<1>4. PICK kept : kept = {f \in Present(b.pages) \ retold : ~b.pages[f].parsed}
  OBVIOUS
<1>5. PICK keys : keys = {b.pages[f].output : f \in kept}
  OBVIOUS
<1>6. (\A f \in retold : post[f] # Absent) /\ retold \in SUBSET Present(b.pages)
  BY <1>3 DEF AssignRelated
<1>7. b' = [b EXCEPT !.related = [f \in Source |->
                        IF f \in Present(b.pages) THEN Related(b.pages, f) ELSE Absent],
                     !.pages = ReadAgain(retold),
                     !.expected = @ \cup keys,
                     !.current = [k \in Key |-> IF k \in keys THEN b.previous[k] ELSE @[k]],
                     !.todo = Present(b.pages) \ kept]
  BY <1>3, <1>4, <1>5 DEF AssignRelated
<1>8. \A x \in Locals \ {"related", "pages", "expected", "current", "todo"} : b'[x] = b[x]
  BY <1>2, <1>7
<1>9. /\ b'.pages = ReadAgain(retold) /\ b'.todo = Present(b.pages) \ kept
      /\ b'.expected = b.expected \cup keys
      /\ \A f \in Source : f \in Present(b.pages) => b'.related[f] = Related(b.pages, f)
  BY <1>2, <1>7 DEF Locals, Early
<1>10. /\ b'.changed = b.changed /\ b'.collisions = b.collisions /\ b'.repeat = b.repeat
       /\ b'.shipped = b.shipped /\ b'.sources = b.sources /\ b'.around = b.around
       /\ b'.copies = b.copies /\ b'.stamps = b.stamps
  BY <1>8 DEF Locals, Early
<1>11. SameReading
  BY <1>8 DEF Locals, Early, SameReading
<1>12. Works
  BY <1>1, <1>10, <1>11 DEF Works, Working, AssignRelated, stored, ghosts
<1>13. /\ Started /\ Started' /\ Covered' = Covered /\ Shipping' = Shipping
       /\ post' = post /\ layout' = layout /\ mtime' = mtime /\ stime' = stime /\ static' = static
       /\ state' = state /\ still' = still
  BY <1>12, WorkKeeps
<1>14. /\ SavedInv' /\ ListingsInv' /\ ThereInv' /\ Again' = Again
       /\ Again => AsSaved(b.drafts)'
  BY <1>1, <1>10, <1>12, RepeatWorks
<1>15. /\ TextInv' /\ Present(b'.pages) = Present(b.pages)
       /\ still =>
             /\ \A f \in Present(b.pages) : Around(b'.pages, f) = Around(b.pages, f)
             /\ \A f \in Present(b.pages) : Related(b'.pages, f) = Related(b.pages, f)
  BY <1>1, <1>6, <1>9, <1>10, <1>12, RereadingIsRead
<1>16. FoundInv'
  <2> SUFFICES ASSUME still PROVE FoundInv'
    BY <1>13 DEF FoundInv
  <2>1. \A f \in Present(b.pages) :
          b'.around[f] = Around(b'.pages, f) /\ b'.related[f] = Related(b'.pages, f)
    BY <1>1, <1>9, <1>10, <1>13, <1>15 DEF Present, FoundInv
  <2>2. \A f \in Known(b.sources) : Trusted(b.sources[f], b.started, post[f])
    BY <1>13 DEF FoundInv
  <2>3. \A f \in Present(b.pages) : b.stamps[f] = mtime[f] /\ post[f] # Absent
    BY <1>13 DEF FoundInv
  <2>4. b'.todo \subseteq Present(b.pages) /\ b.todo = {}
    BY <1>1, <1>9, <1>13 DEF EntryInv
  <2>5. \A f \in Source \ Present(b.pages) : post[f] # Absent => post[f].draft /\ ~b.drafts
    BY <1>13, <2>4 DEF FoundInv
  <2>6. b.fingerprint = layout /\ b.shipped = Shipping
    BY <1>1, <1>13 DEF FoundInv, Copying, Saving
  <2> QED
    BY <1>1, <1>10, <1>11, <1>13, <1>15, <2>1, <2>2, <2>3, <2>4, <2>5, <2>6
       DEF FoundInv, Copying, Saving, SameReading
<1>17. AgainInv'
  <2> SUFFICES ASSUME Again PROVE AgainInv'
    BY <1>14 DEF AgainInv, Again
  <2>1. /\ Present(b.pages) = Known(state.sources) /\ NothingParsed
        /\ \A f \in Present(b.pages) : ~Retold(f)
    BY <1>1, AgainShown
  <2>2. b'.pages = b.pages
    BY <1>2, <1>3, <1>9, <2>1, ReadAgainKeeps
  <2>3. NothingParsed' /\ b.reusable /\ b.changed = {}
    BY <1>1, <1>13, <2>1, <2>2 DEF NothingParsed, AgainInv, Again
  <2>4. b'.todo = {}
    BY <1>3, <1>4, <1>9, <2>1 DEF NothingParsed
  <2> QED
    BY <1>1, <1>10, <1>11, <1>13, <1>14, <2>1, <2>2, <2>3, <2>4
       DEF AgainInv, Again, Scanning, SameReading
<1>18. ClashInv'
  <2>1. b'.collisions = {}
    BY <1>1, <1>10, <1>13 DEF WriteInv, Writing, Rendering, Saving
  <2> QED
    BY <2>1 DEF ClashInv
<1> QED
  BY <1>14, <1>15, <1>16, <1>17, <1>18

-----------------------------------------------------------------------------
(* Pages and listings are rendered, and static files are copied *)

(* What is recorded of a static file is what there is. *)
CopySaved(k) ==
    /\ k \in b.expected /\ b.copies[k] # Absent
    /\ b.copies[k].modified = stime[k] /\ Trusted(b.copies[k], b.started, static[k])

(* What is recorded of the sources was read from them, and can be believed. *)
Recorded ==
    \A f \in Known(b.sources) :
        /\ SourceRead(b.sources[f], f, b.started)
        /\ still => Trusted(b.sources[f], b.started, post[f])

(* A step that produces output from the pages. *)
Produces ==
    /\ Works /\ pc \in Rendering /\ pc' \in Rendering
    /\ b'.repeat = b.repeat /\ b'.pages = b.pages
    /\ b'.stamps = b.stamps /\ b'.around = b.around /\ b'.related = b.related
    /\ b'.todo \subseteq b.todo /\ b'.shipped \subseteq b.shipped
    /\ pc' \notin Copying => pc \notin Copying /\ b'.shipped = b.shipped
    /\ \A k \in Key : out[k] # Absent => out'[k] # Absent

(* Such a step disturbs nothing of what was found. *)
LEMMA RepeatProduces ==
  ASSUME BuildInv, PastInv, RepeatInv, Produces, Recorded',
         still => \A k \in Shipping \ b'.shipped : CopySaved(k)',
         Again => b'.changed = {},
         ClashInv'
  PROVE  RepeatInv'
<1> USE DEF BuildInv, PastInv, RepeatInv
<1>1. /\ Works /\ pc \in Rendering /\ pc' \in Rendering
      /\ b'.repeat = b.repeat /\ b'.pages = b.pages
      /\ b'.stamps = b.stamps /\ b'.around = b.around /\ b'.related = b.related
      /\ b'.todo \subseteq b.todo /\ b'.shipped \subseteq b.shipped
      /\ pc' \notin Copying => pc \notin Copying /\ b'.shipped = b.shipped
      /\ SameReading
  BY DEF Produces, Works
<1>2. /\ Started /\ Started' /\ Covered' = Covered /\ Shipping' = Shipping
      /\ post' = post /\ layout' = layout /\ mtime' = mtime /\ stime' = stime /\ static' = static
      /\ state' = state /\ still' = still
  BY <1>1, WorkKeeps
<1>3. /\ pc # "manifest" /\ pc' # "manifest" /\ pc \in Writing /\ pc' \in Writing
      /\ pc' # "read" /\ pc' \notin Scanning
  BY <1>1 DEF Rendering, Writing, Scanning
<1>4. /\ SavedInv' /\ ListingsInv' /\ ThereInv' /\ Again' = Again
      /\ \A g \in Known(state'.sources) : SourceRead(state.sources[g], g, state.started)'
      /\ pc # "idle" /\ (Again => AsSaved(b.drafts)')
  BY <1>1, <1>3, RepeatWorks DEF Produces
<1>5. TextInv'
  <2>1. \A f \in Present(b'.pages) : PageRead(f)'
    BY <1>1, <1>2 DEF TextInv, PageRead
  <2>2. \A f \in Known(b'.sources) : SourceRead(b.sources[f], f, b.started)'
    BY DEF Recorded
  <2> QED
    BY <1>4, <2>1, <2>2 DEF TextInv
<1>6. FoundInv'
  <2> SUFFICES ASSUME still PROVE FoundInv'
    BY <1>2 DEF FoundInv
  <2>1. \A f \in Present(b.pages) :
          b.around[f] = Around(b.pages, f) /\ b.related[f] = Related(b.pages, f)
    BY <1>2, <1>3 DEF FoundInv
  <2>2. \A f \in Known(b'.sources) : Trusted(b.sources[f], b.started, post[f])'
    BY <1>2 DEF Recorded
  <2>3. \A f \in Present(b.pages) : b.stamps[f] = mtime[f] /\ post[f] # Absent
    BY <1>2 DEF FoundInv
  <2>4. \A f \in b'.todo : post[f] # Absent
    BY <1>1, <1>2 DEF FoundInv
  <2>5. \A f \in Source \ Present(b.pages) : post[f] # Absent => post[f].draft /\ ~b.drafts
    BY <1>1, <1>2 DEF FoundInv, LocalsInv
  <2>6. /\ b.fingerprint = layout /\ b'.shipped \subseteq Shipping
        /\ pc' \notin Copying => b'.shipped = Shipping
    BY <1>1, <1>2 DEF FoundInv
  <2>7. \A k \in Shipping' \ b'.shipped :
          /\ k \in b'.expected /\ b'.copies[k] # Absent
          /\ b'.copies[k].modified = stime'[k] /\ Trusted(b.copies[k], b.started, static[k])'
    BY <1>2 DEF CopySaved
  <2> QED
    BY <1>1, <1>2, <1>3, <2>1, <2>2, <2>3, <2>4, <2>5, <2>6, <2>7
       DEF FoundInv, SameReading, Trusted
<1>7. AgainInv'
  <2> SUFFICES ASSUME Again PROVE AgainInv'
    BY <1>4 DEF AgainInv, Again
  <2>1. /\ b.reusable /\ NothingParsed /\ Present(b.pages) = Known(state.sources) /\ b.todo = {}
    BY <1>1, <1>2, <1>4 DEF AgainInv, Again
  <2>2. NothingParsed'
    BY <1>1, <2>1 DEF NothingParsed
  <2> QED
    BY <1>1, <1>2, <1>3, <1>4, <2>1, <2>2 DEF AgainInv, Again, SameReading
<1> QED
  BY <1>4, <1>5, <1>6, <1>7

(* What was recorded of the sources stays so while they are left alone. *)
LEMMA RecordsStay ==
  ASSUME BuildInv, PastInv, RepeatInv, Works, b'.sources = b.sources
  PROVE  Recorded'
<1>1. Started /\ post' = post /\ mtime' = mtime /\ still' = still /\ b'.started = b.started
  BY WorkKeeps DEF Works, SameReading
<1>2. \A f \in Known(b.sources) : SourceRead(b.sources[f], f, b.started)
  BY <1>1 DEF RepeatInv, TextInv
<1>3. still => \A f \in Known(b.sources) : Trusted(b.sources[f], b.started, post[f])
  BY <1>1 DEF RepeatInv, FoundInv
<1> QED
  BY <1>1, <1>2, <1>3 DEF Recorded, SourceRead, Trusted

(* The copies that were recorded stay so while what is produced grows. *)
LEMMA CopiesStay ==
  ASSUME BuildInv, PastInv, RepeatInv, Works, b'.shipped = b.shipped, b'.copies = b.copies,
         b.expected \subseteq b'.expected, still
  PROVE  \A k \in Shipping \ b'.shipped : CopySaved(k)'
<1>1. Started /\ stime' = stime /\ static' = static /\ b'.started = b.started
  BY WorkKeeps DEF Works, SameReading
<1> QED
  BY <1>1 DEF RepeatInv, FoundInv, CopySaved, Trusted

(* The pool renders one page: never of a build that repeats the last one. *)
LEMMA RepeatRenders ==
  ASSUME BuildInv, PastInv, RepeatInv, NEW f \in Source, Render(f) PROVE RepeatInv'
<1> USE DEF BuildInv, PastInv
<1>1. pc = "render" /\ pc' = pc /\ f \in b.todo
  BY DEF Render
<1>2. DOMAIN b = Locals /\ DOMAIN b.current = Key /\ DOMAIN out = Key
      /\ b.pages \in [Source -> PageRecord \cup {Absent}] /\ f \in Present(b.pages)
  BY <1>1 DEF LocalsInv, Rendering
<1>3. PICK k : k = b.pages[f].output
  OBVIOUS
<1>4. PICK v : v = Rendered(f)
  OBVIOUS
<1>5. k \in Key
  <2>1. b.pages[f] \in PageRecord
    BY <1>2 DEF Present
  <2> QED
    BY <1>3, <2>1, KeysOf DEF PageRecord
<1>6. out' = [out EXCEPT ![k] = OnDisk(k, v)]
  BY <1>3, <1>4 DEF Render, Rendered
<1>7. PICK w : w = Wrote(b, k, v)
  OBVIOUS
<1>8. b' = [w EXCEPT !.todo = @ \ {f}]
  BY <1>3, <1>4, <1>7 DEF Render, Rendered
<1>9. WroteExactly(w, b, k, v)
  BY <1>2, <1>5, <1>7, WroteExact
<1>10. \A x \in Locals \ {"todo"} : b'[x] = w[x]
  BY <1>8, <1>9 DEF WroteExactly
<1>11. b'.todo = b.todo \ {f}
  BY <1>8, <1>9 DEF WroteExactly, SameElsewhere, Locals, Early
<1>12. b'.expected = w.expected /\ b'.collisions = w.collisions /\ b'.changed = w.changed
  BY <1>10 DEF Locals, Early
<1>13. /\ b'.shipped = b.shipped /\ b'.stamps = b.stamps /\ b'.repeat = b.repeat
       /\ b'.sources = b.sources /\ b'.around = b.around /\ b'.related = b.related
       /\ b'.pages = b.pages /\ b'.copies = b.copies
  BY <1>9, <1>10 DEF WroteExactly, SameElsewhere, Locals, Early
<1>14. SameReading
  BY <1>9, <1>10 DEF WroteExactly, SameElsewhere, SameReading, Locals, Early
<1>15. /\ \A j \in Key \ {k} : out'[j] = out[j]
       /\ out'[k] = OnDisk(k, v) /\ b.expected \subseteq b'.expected
       /\ b.changed \subseteq b'.changed
       /\ k \notin b'.changed => Skips(b.force, b.previous, out, k, v)
  BY <1>2, <1>5, <1>6, <1>9, <1>12 DEF WroteExactly
<1>16. Works
  <2>1. \A j \in Key \ b'.changed : out'[j] = out[j]
    BY <1>15 DEF OnDisk
  <2> QED
    BY <1>1, <1>14, <1>15, <2>1 DEF Works, Working, Render, ghosts
<1>17. v # Absent /\ pc \in Rendering /\ pc \in Writing /\ pc \notin Copying
  <2>1. b.layout \in Layout /\ b.nav \in Nav
    BY <1>1 DEF ReadInv
  <2> QED
    BY <1>1, <1>2, <1>4, <2>1, RenderedIsSomething DEF Rendering, Writing, Copying, Saving
<1>18. \A j \in Key : out[j] # Absent => out'[j] # Absent
  BY <1>15, <1>17, WriteLeavesSomething
<1>19. Produces
  BY <1>1, <1>11, <1>13, <1>16, <1>17, <1>18 DEF Produces
<1>20. still => \A j \in Shipping \ b'.shipped : CopySaved(j)'
  BY <1>13, <1>15, <1>16, CopiesStay
<1>21. ~Again
  BY <1>1, <1>17 DEF RepeatInv, AgainInv, Again
<1>22. ClashInv'
  <2> SUFFICES ASSUME Covered', still', NEW j \in b'.collisions
               PROVE  \E g, h \in Present(b.pages) :
                         g # h /\ b.pages[g].output = j /\ b.pages[h].output = j
    BY <1>13 DEF ClashInv
  <2>1. Started /\ Covered /\ still
    BY <1>16, WorkKeeps
  <2>2. CASE j \in b.collisions
    BY <2>1, <2>2 DEF RepeatInv, ClashInv
  <2>3. CASE j \notin b.collisions
    <3>1. j = k /\ b.current[k] # Absent
      BY <1>9, <1>12, <2>3 DEF WroteExactly, Collides
    <3>2. k \in b.expected
      BY <1>5, <2>1, <3>1 DEF WriteInv
    <3>3. PICK g \in Present(b.pages) \ b.todo : k = b.pages[g].output
      BY <1>1, <3>2, PagesExpected
    <3> QED
      BY <1>1, <1>2, <1>3, <3>1, <3>3
  <2> QED
    BY <2>2, <2>3
<1>23. Recorded'
  BY <1>13, <1>16, RecordsStay
<1> QED
  BY <1>19, <1>20, <1>21, <1>22, <1>23, RepeatProduces

(* What is recorded of the pages read is what their files say. *)
LEMMA RepeatRecords ==
  ASSUME BuildInv, PastInv, RepeatInv, Record PROVE RepeatInv'
<1> USE DEF BuildInv, PastInv
<1>1. pc = "render" /\ pc' = "derived" /\ b.todo = {} /\ out' = out
  BY DEF Record, stored
<1>2. DOMAIN b = Locals /\ b.stamps \in [Source -> Int] /\ b.started \in Nat
  BY <1>1 DEF LocalsInv
<1>3. \A x \in Locals \ {"sources"} : b'[x] = b[x]
  BY <1>2 DEF Record
<1>4. b'.sources = [f \in Source |->
        IF f \in Present(b.pages) /\ b.pages[f].parsed THEN Entry(f) ELSE b.sources[f]]
  BY <1>2 DEF Record, Locals
<1>5. /\ b'.todo = b.todo /\ b'.changed = b.changed /\ b'.expected = b.expected
      /\ b'.collisions = b.collisions /\ b'.repeat = b.repeat
      /\ b'.shipped = b.shipped /\ b'.stamps = b.stamps /\ b'.pages = b.pages
      /\ b'.around = b.around /\ b'.related = b.related /\ b'.copies = b.copies
  BY <1>3 DEF Locals, Early
<1>6. SameReading
  BY <1>3 DEF SameReading, Locals, Early
<1>7. Works
  BY <1>1, <1>5, <1>6 DEF Works, Working, Record, ghosts, stored
<1>8. /\ Started /\ Started' /\ Covered' = Covered
      /\ post' = post /\ mtime' = mtime /\ still' = still
  BY <1>7, WorkKeeps
<1>9. pc \in Rendering /\ pc' \in Rendering /\ pc \notin Copying
  BY <1>1 DEF Rendering, Copying, Saving
<1>10. Produces
  BY <1>1, <1>5, <1>7, <1>9 DEF Produces
<1>11. still => \A k \in Shipping \ b'.shipped : CopySaved(k)'
  BY <1>5, <1>7, CopiesStay
<1>12. Again => b'.changed = {}
  BY <1>1, <1>5, <1>8 DEF RepeatInv, AgainInv, Again
<1>13. ClashInv'
  BY <1>5, <1>8 DEF RepeatInv, ClashInv
<1>14. ASSUME NEW f \in Known(b'.sources)
       PROVE  /\ SourceRead(b'.sources[f], f, b.started)
              /\ still => Trusted(b'.sources[f], b.started, post[f])
  <2>1. f \in Source /\ b'.sources[f] # Absent
    BY DEF Known
  <2>2. CASE f \in Present(b.pages) /\ b.pages[f].parsed
    <3>1. b'.sources[f] = Entry(f)
      BY <1>4, <2>1, <2>2
    <3>2. /\ Entry(f).modified = b.stamps[f] /\ Entry(f).post = b.pages[f].post
          /\ Entry(f).hash = IF b.stamps[f] >= b.started THEN post[f] ELSE Absent
      BY EntryFields
    <3>3. PageRead(f)
      BY <1>8, <2>2 DEF RepeatInv, TextInv
    <3>4. SourceRead(Entry(f), f, b.started)
      BY <3>2, <3>3 DEF PageRead, SourceRead
    <3>5. Trusted(Entry(f), b.started, post[f])
      BY <1>2, <2>1, <3>2 DEF Trusted
    <3> QED
      BY <3>1, <3>4, <3>5
  <2>3. CASE ~(f \in Present(b.pages) /\ b.pages[f].parsed)
    <3>1. b'.sources[f] = b.sources[f]
      BY <1>4, <2>1, <2>3
    <3>2. f \in Known(b.sources)
      BY <2>1, <3>1 DEF Known
    <3>3. SourceRead(b.sources[f], f, b.started)
      BY <1>8, <3>2 DEF RepeatInv, TextInv
    <3>4. still => Trusted(b.sources[f], b.started, post[f])
      BY <1>8, <3>2 DEF RepeatInv, FoundInv
    <3> QED
      BY <3>1, <3>3, <3>4
  <2> QED
    BY <2>2, <2>3
<1>15. Recorded'
  BY <1>6, <1>8, <1>14 DEF Recorded, SourceRead, Trusted, SameReading
<1> QED
  BY <1>10, <1>11, <1>12, <1>13, <1>15, RepeatProduces

(* The listings are carried over. *)
LEMMA RepeatKeepsDerived ==
  ASSUME BuildInv, PastInv, RepeatInv, KeepDerived PROVE RepeatInv'
<1> USE DEF BuildInv, PastInv
<1>1. pc = "derived" /\ pc' = "static" /\ out' = out
  BY DEF KeepDerived, stored
<1>2. DOMAIN b = Locals
  BY <1>1 DEF LocalsInv
<1>3. \A x \in Locals \ {"derived", "expected", "current"} : b'[x] = b[x]
  BY <1>2 DEF KeepDerived
<1>4. b.expected \subseteq b'.expected
  BY <1>2 DEF KeepDerived, Locals, Early
<1>5. /\ b'.todo = b.todo /\ b'.changed = b.changed /\ b'.collisions = b.collisions
      /\ b'.shipped = b.shipped /\ b'.stamps = b.stamps /\ b'.pages = b.pages
      /\ b'.around = b.around /\ b'.related = b.related /\ b'.copies = b.copies
      /\ b'.sources = b.sources /\ b'.repeat = b.repeat
  BY <1>3 DEF Locals, Early
<1>6. SameReading
  BY <1>3 DEF SameReading, Locals, Early
<1>7. Works
  BY <1>1, <1>5, <1>6 DEF Works, Working, KeepDerived, ghosts, stored
<1>8. pc \in Rendering /\ pc' \in Rendering /\ pc' \in Copying
  BY <1>1 DEF Rendering, Copying
<1>9. Produces
  BY <1>1, <1>5, <1>7, <1>8 DEF Produces
<1>10. still => \A k \in Shipping \ b'.shipped : CopySaved(k)'
  BY <1>4, <1>5, <1>7, CopiesStay
<1>11. /\ Started /\ Started' /\ Covered' = Covered /\ still' = still
  BY <1>7, WorkKeeps
<1>12. Again => b'.changed = {}
  BY <1>1, <1>5, <1>11 DEF RepeatInv, AgainInv, Again
<1>13. ClashInv'
  BY <1>5, <1>11 DEF RepeatInv, ClashInv
<1>14. Recorded'
  BY <1>5, <1>7, RecordsStay
<1> QED
  BY <1>9, <1>10, <1>12, <1>13, <1>14, RepeatProduces

(* A build that repeats the last one carries the listings over. *)
LEMMA AgainDerived ==
  ASSUME BuildInv, PastInv, RepeatInv, pc = "derived", Again
  PROVE  DerivedReusable
<1> USE DEF BuildInv, PastInv
<1>1. Started /\ pc \in Rendering /\ pc \in Listed
  BY DEF Started, Rendering, Listed
<1>2. b.reusable /\ NothingParsed /\ Present(b.pages) = Known(state.sources) /\ b.prior = state
  BY <1>1 DEF RepeatInv, AgainInv, Again, LoadInv
<1>3. \A f \in Known(b.sources) : f \in Present(b.pages)
  BY <1>1 DEF EntryInv
<1>4. \A f \in Present(b.pages) : b.sources[f] # Absent /\ f \in Source
  BY <1>1 DEF EntryInv, Present
<1>5. Known(b.sources) = Known(b.prior.sources)
  BY <1>2, <1>3, <1>4 DEF Known
<1> QED
  BY <1>2, <1>5 DEF DerivedReusable

(* The listings are rendered, on keys that are no page's: never by a build   *)
(* that repeats the last one.                                                *)
LEMMA RepeatRendersDerived ==
  ASSUME BuildInv, PastInv, RepeatInv, RenderDerived PROVE RepeatInv'
<1> USE DEF BuildInv, PastInv
<1>1. pc = "derived" /\ pc' = "static" /\ Started
  BY DEF RenderDerived, Started
<1>2. DOMAIN b = Locals /\ DOMAIN b.current = Key /\ DOMAIN out = Key
  BY <1>1 DEF LocalsInv
<1>3. PICK index : index = IndexBytes(b.pages, b.layout, b.nav)
  OBVIOUS
<1>4. PICK missing : missing = MissingBytes(b.layout, b.nav)
  OBVIOUS
<1>5. PICK some \in BOOLEAN : some <=> Present(b.pages) # {}
  OBVIOUS
<1>6. PICK page \in BOOLEAN : page <=> "404" \notin b.shipped
  OBVIOUS
<1>7. PICK b1 : b1 = IF some THEN Wrote(b, "index", index) ELSE b
  OBVIOUS
<1>8. PICK b2 : b2 = IF page THEN Wrote(b1, "404", missing) ELSE b1
  OBVIOUS
<1>9. b' = [b2 EXCEPT !.derived = b2.expected \ b.expected]
  BY <1>3, <1>4, <1>5, <1>6, <1>7, <1>8 DEF RenderDerived
<1>10. out' = [k \in Key |-> IF k = "index" /\ some THEN OnDisk(k, index)
                             ELSE IF k = "404" /\ page THEN OnDisk(k, missing)
                             ELSE out[k]]
  BY <1>3, <1>4, <1>5, <1>6 DEF RenderDerived
<1>11. b.current["index"] = Absent /\ b.current["404"] = Absent
  <2>1. "index" \notin b.expected /\ "404" \notin b.expected
    BY <1>1, PagesExpected, KeysOf
  <2> QED
    BY <1>1, <2>1, KeysOf DEF WriteInv
<1>12. /\ DOMAIN b1 = Locals /\ DOMAIN b1.current = Key /\ SameElsewhere(b1, b)
       /\ b1.previous = b.previous /\ b1.copies = b.copies /\ b1.collisions = b.collisions
       /\ b.expected \subseteq b1.expected /\ b.changed \subseteq b1.changed
       /\ b1.current["404"] = Absent
       /\ some /\ ~Skips(b.force, b.previous, out, "index", index) => "index" \in b1.changed
  <2>1. CASE some
    <3>1. WroteExactly(b1, b, "index", index)
      BY <1>2, <1>7, <2>1, KeysOf, WroteExact
    <3>2. ~Collides(b.current, "index", index)
      BY <1>11 DEF Collides
    <3> QED
      BY <1>11, <2>1, <3>1, <3>2, KeysOf DEF WroteExactly
  <2>2. CASE ~some
    BY <1>2, <1>7, <1>11, <2>2 DEF SameElsewhere
  <2> QED
    BY <2>1, <2>2
<1>13. /\ DOMAIN b2 = Locals /\ SameElsewhere(b2, b1)
       /\ b2.previous = b.previous /\ b2.copies = b.copies /\ b2.collisions = b.collisions
       /\ b.expected \subseteq b2.expected /\ b1.changed \subseteq b2.changed
       /\ page /\ ~Skips(b.force, b.previous, out, "404", missing) => "404" \in b2.changed
  <2>1. CASE page
    <3>1. WroteExactly(b2, b1, "404", missing)
      BY <1>8, <1>12, <2>1, KeysOf, WroteExact
    <3>2. ~Collides(b1.current, "404", missing) /\ b1.force = b.force
      BY <1>12 DEF Collides, SameElsewhere
    <3> QED
      BY <1>12, <2>1, <3>1, <3>2 DEF WroteExactly
  <2>2. CASE ~page
    BY <1>8, <1>12, <2>2 DEF SameElsewhere
  <2> QED
    BY <2>1, <2>2
<1>14. \A x \in Locals \ {"derived"} : b'[x] = b2[x]
  BY <1>9, <1>13
<1>15. b'.expected = b2.expected /\ b'.collisions = b2.collisions
       /\ b'.changed = b2.changed /\ b'.copies = b2.copies /\ b'.previous = b2.previous
  BY <1>14 DEF Locals, Early
<1>16. b.expected \subseteq b'.expected /\ b'.collisions = b.collisions
       /\ b.changed \subseteq b'.changed /\ b'.copies = b.copies
  BY <1>12, <1>13, <1>15
<1>17. /\ b'.shipped = b.shipped /\ b'.stamps = b.stamps /\ b'.repeat = b.repeat
       /\ b'.sources = b.sources /\ b'.around = b.around /\ b'.related = b.related
       /\ b'.pages = b.pages /\ b'.todo = b.todo
  BY <1>12, <1>13, <1>14 DEF SameElsewhere, Locals, Early
<1>18. SameReading
  BY <1>12, <1>13, <1>14, <1>15 DEF SameElsewhere, SameReading, Locals, Early
<1>19. \A k \in Key \ b'.changed : out'[k] = out[k]
  BY <1>10, <1>12, <1>13, <1>15 DEF OnDisk
<1>20. Works
  BY <1>1, <1>16, <1>18, <1>19 DEF Works, Working, RenderDerived, ghosts
<1>21. \A k \in Key : out[k] # Absent => out'[k] # Absent
  <2>1. b.layout \in Layout /\ b.nav \in Nav
    BY <1>1 DEF ReadInv
  <2>2. missing # Absent
    BY <1>4, <2>1, BytesAreSomething
  <2>3. index # Absent
    BY <1>1, <1>3, <2>1, IndexIsSomething DEF Rendering
  <2> QED
    BY <1>10, <2>2, <2>3, WriteLeavesSomething
<1>22. pc \in Rendering /\ pc' \in Rendering /\ pc' \in Copying
  BY <1>1 DEF Rendering, Copying
<1>23. Produces
  BY <1>1, <1>17, <1>20, <1>21, <1>22 DEF Produces
<1>24. still => \A k \in Shipping \ b'.shipped : CopySaved(k)'
  BY <1>16, <1>17, <1>20, CopiesStay
<1>25. ~Again
  BY <1>1, AgainDerived DEF RenderDerived
<1>26. ClashInv'
  <2>1. Started' /\ Covered' = Covered /\ still' = still
    BY <1>20, WorkKeeps
  <2> QED
    BY <1>1, <1>16, <1>17, <2>1 DEF RepeatInv, ClashInv
<1>27. Recorded'
  BY <1>17, <1>20, RecordsStay
<1> QED
  BY <1>23, <1>24, <1>25, <1>26, <1>27, RepeatProduces

(* A static file is copied or kept, and c recorded of it. *)
LEMMA RepeatCopies ==
  ASSUME BuildInv, PastInv, RepeatInv, Works, pc = "static", pc' = "static",
         NEW k \in Static, k \in b.shipped, NEW c,
         b'.todo = b.todo, b'.pages = b.pages, b'.stamps = b.stamps, b'.around = b.around,
         b'.related = b.related, b'.sources = b.sources, b'.repeat = b.repeat,
         b'.shipped = b.shipped \ {k}, b'.copies = [b.copies EXCEPT ![k] = c],
         b'.expected = b.expected \cup {k},
         Covered => b'.collisions = b.collisions,
         \A j \in Key : out[j] # Absent => out'[j] # Absent,
         c # Absent, c.modified = stime[k], Trusted(c, b.started, static[k]),
         Again => b'.changed = {}
  PROVE  RepeatInv'
<1> USE DEF BuildInv, PastInv
<1>1. /\ Started /\ Started' /\ Covered' = Covered /\ still' = still
      /\ stime' = stime /\ static' = static /\ b'.started = b.started
  BY WorkKeeps DEF Works, SameReading
<1>2. pc \in Rendering /\ pc' \in Rendering /\ pc' \in Copying
  BY DEF Rendering, Copying
<1>3. Produces
  BY <1>2 DEF Produces
<1>4. DOMAIN b.copies = Static
  BY <1>1 DEF TimeInv
<1>5. ASSUME still, NEW j \in Shipping \ b'.shipped PROVE CopySaved(j)'
  <2>1. j \in Static
    BY DEF Shipping
  <2>2. CASE j = k
    BY <1>1, <1>4, <2>2 DEF CopySaved, Trusted
  <2>3. CASE j # k
    <3>1. /\ j \in b.expected /\ b.copies[j] # Absent
          /\ b.copies[j].modified = stime[j] /\ Trusted(b.copies[j], b.started, static[j])
      BY <1>1, <1>5, <2>3 DEF RepeatInv, FoundInv
    <3>2. b'.copies[j] = b.copies[j]
      BY <1>4, <2>1, <2>3
    <3> QED
      BY <1>1, <3>1, <3>2 DEF CopySaved, Trusted
  <2> QED
    BY <2>2, <2>3
<1>6. ClashInv'
  BY <1>1 DEF RepeatInv, ClashInv
<1>7. Recorded'
  BY RecordsStay
<1> QED
  BY <1>3, <1>5, <1>6, <1>7, RepeatProduces

(* A static file is left alone. *)
LEMMA RepeatCopyKeeps ==
  ASSUME BuildInv, PastInv, RepeatInv, NEW k \in Static, CopyKeep(k) PROVE RepeatInv'
<1> USE DEF BuildInv, PastInv
<1>1. pc = "static" /\ pc' = "static" /\ k \in b.shipped /\ CopyUnchanged(k) /\ out' = out
      /\ Started
  BY DEF CopyKeep, stored, Started
<1>2. DOMAIN b = Locals
  BY <1>1 DEF LocalsInv
<1>3. PICK c : c = b.prior.copies[k]
  OBVIOUS
<1>4. \A x \in Locals \ {"expected", "current", "copies", "shipped"} : b'[x] = b[x]
  BY <1>2 DEF CopyKeep, Kept
<1>5. /\ b'.expected = b.expected \cup {k}
      /\ b'.copies = [b.copies EXCEPT ![k] = c] /\ b'.shipped = b.shipped \ {k}
  BY <1>2, <1>3 DEF CopyKeep, Kept, Locals, Early
<1>6. /\ b'.todo = b.todo /\ b'.changed = b.changed /\ b'.collisions = b.collisions
      /\ b'.stamps = b.stamps /\ b'.pages = b.pages /\ b'.around = b.around
      /\ b'.related = b.related /\ b'.sources = b.sources /\ b'.repeat = b.repeat
  BY <1>4 DEF Locals, Early
<1>7. SameReading
  BY <1>4 DEF SameReading, Locals, Early
<1>8. Works
  BY <1>1, <1>6, <1>7 DEF Works, Working, CopyKeep, ghosts, stored
<1>9. /\ c # Absent /\ c.modified = stime[k]
      /\ c.modified < b.prior.started \/ c.hash = static[k]
  BY <1>1, <1>3 DEF CopyUnchanged, Settled
<1>10. /\ b.prior.started <= b.started /\ b.prior.started \in Nat /\ b.started \in Nat
       /\ stime[k] \in Nat
  BY <1>1 DEF LoadInv, TimeInv, LocalsInv, TypeOK
<1>11. Trusted(c, b.started, static[k])
  BY <1>9, <1>10 DEF Trusted
<1>12. Again => b'.changed = {}
  BY <1>1, <1>6 DEF RepeatInv, AgainInv, Again
<1> QED
  BY <1>1, <1>5, <1>6, <1>8, <1>9, <1>11, <1>12, RepeatCopies

(* A static file is copied, over nothing: never by a build that repeats the  *)
(* last one.                                                                 *)
LEMMA RepeatCopyWrites ==
  ASSUME BuildInv, PastInv, RepeatInv, NEW k \in Static, CopyWrite(k) PROVE RepeatInv'
<1> USE DEF BuildInv, PastInv
<1>1. pc = "static" /\ pc' = "static" /\ k \in b.shipped /\ ~CopyUnchanged(k) /\ Started
  BY DEF CopyWrite, Started
<1>2. DOMAIN b = Locals /\ DOMAIN b.current = Key /\ DOMAIN out = Key /\ k \in Key
  BY <1>1, KeysOf DEF LocalsInv
<1>3. PICK c : c = [modified |-> stime[k],
                    hash |-> IF stime[k] >= b.started THEN static[k] ELSE Absent]
  OBVIOUS
<1>4. PICK v : v = StaticBytes(static[k])
  OBVIOUS
<1>5. PICK w : w = Wrote(b, k, v)
  OBVIOUS
<1>6. b' = [w EXCEPT !.copies[k] = c, !.shipped = @ \ {k}]
      /\ out' = [out EXCEPT ![k] = OnDisk(k, v)]
  BY <1>3, <1>4, <1>5 DEF CopyWrite
<1>7. WroteExactly(w, b, k, v)
  BY <1>2, <1>5, WroteExact
<1>8. \A x \in Locals \ {"copies", "shipped"} : b'[x] = w[x]
  BY <1>6, <1>7 DEF WroteExactly
<1>9. b'.copies = [b.copies EXCEPT ![k] = c] /\ b'.shipped = b.shipped \ {k}
  BY <1>6, <1>7 DEF WroteExactly, SameElsewhere, Locals, Early
<1>10. b'.expected = w.expected /\ b'.collisions = w.collisions /\ b'.changed = w.changed
  BY <1>8 DEF Locals, Early
<1>11. /\ b'.todo = b.todo /\ b'.stamps = b.stamps /\ b'.pages = b.pages
       /\ b'.around = b.around /\ b'.related = b.related /\ b'.sources = b.sources
       /\ b'.repeat = b.repeat
  BY <1>7, <1>8 DEF WroteExactly, SameElsewhere, Locals, Early
<1>12. SameReading
  BY <1>7, <1>8 DEF WroteExactly, SameElsewhere, SameReading, Locals, Early
<1>13. /\ b'.expected = b.expected \cup {k} /\ b.changed \subseteq b'.changed
       /\ k \notin b'.changed => Skips(b.force, b.previous, out, k, v)
       /\ ~Collides(b.current, k, v) => b'.collisions = b.collisions
  BY <1>7, <1>10 DEF WroteExactly
<1>14. /\ out'[k] = OnDisk(k, v) /\ \A j \in Key \ {k} : out'[j] = out[j]
  BY <1>2, <1>6
<1>15. v # Absent
  BY <1>4, BytesAreSomething DEF LoadInv
<1>16. Works
  <2>1. \A j \in Key \ b'.changed : out'[j] = out[j]
    BY <1>13, <1>14 DEF OnDisk
  <2> QED
    BY <1>1, <1>12, <1>13, <2>1 DEF Works, Working, CopyWrite, ghosts
<1>17. \A j \in Key : out[j] # Absent => out'[j] # Absent
  BY <1>14, <1>15, WriteLeavesSomething
<1>18. Covered => b'.collisions = b.collisions
  <2>1. Covered => b.current[k] = Absent
    BY <1>1, CopiesAreNew
  <2> QED
    BY <1>13, <2>1 DEF Collides
<1>19. c # Absent
  <2>1. static[k] \in {1, 2, Absent} /\ stime[k] \in Nat
    BY DEF LoadInv, TypeOK
  <2>2. c \in CopyEntry
    BY <1>3, <2>1 DEF CopyEntry
  <2> QED
    BY <2>2, AbsentAssumption
<1>20. c.modified = stime[k] /\ Trusted(c, b.started, static[k])
  <2>1. stime[k] \in Nat /\ b.started \in Nat
    BY <1>1 DEF TypeOK, LocalsInv
  <2> QED
    BY <1>3, <2>1 DEF Trusted
<1>21. ~Again
  <2> SUFFICES ASSUME Again PROVE CopyUnchanged(k)
    BY <1>1
  <2>1. AsSaved(b.drafts) /\ k \in Shipping
    BY <1>1 DEF RepeatInv, AgainInv, FoundInv, Again, Saving
  <2>2. b.prior = state /\ b.previous = LoadManifest(manifest) /\ ~b.force
    BY <1>1 DEF LoadInv, Again
  <2>3. /\ state.copies[k] # Absent /\ state.copies[k].modified = stime[k]
        /\ Trusted(state.copies[k], state.started, static[k])
        /\ Reusable(LoadManifest(manifest), out, k) /\ static[k] # Absent
    BY <2>1 DEF AsSaved, Shipping
  <2> QED
    BY <2>2, <2>3 DEF CopyUnchanged, Trusted, Settled
<1> QED
  BY <1>1, <1>9, <1>11, <1>13, <1>16, <1>17, <1>18, <1>19, <1>20, <1>21, RepeatCopies

-----------------------------------------------------------------------------
(* What the manifest records *)

(* One call of Writer::write records contents. *)
LEMMA WroteContents ==
  ASSUME NEW bb, DOMAIN bb = Locals, bb.current \in Manifests,
         NEW k \in Key, NEW v \in PageContents \cup OtherContents
  PROVE  /\ DOMAIN Wrote(bb, k, v) = Locals /\ Wrote(bb, k, v).current \in Manifests
         /\ Wrote(bb, k, v).previous = bb.previous
<1> DEFINE w == Wrote(bb, k, v)
<1>1. DOMAIN w = Locals /\ w.current = [bb.current EXCEPT ![k] = v] /\ w.previous = bb.previous
  BY DEF Wrote, Locals, Early
<1> HIDE DEF w
<1>2. w.current \in Manifests
  BY <1>1 DEF Manifests
<1> QED
  BY <1>1, <1>2 DEF w

(* Most steps leave the three manifests alone. *)
LEMMA ManifestKept ==
  ASSUME ManifestInv, manifest' = manifest,
         Started' => Started /\ b'.previous = b.previous /\ b'.current \in {b.current} \cup Manifests
  PROVE  ManifestInv'
BY DEF ManifestInv

(* What is kept is recorded as it was. *)
LEMMA KeptContents ==
  ASSUME NEW current \in Manifests, NEW previous \in Manifests, NEW keys,
         NEW c, c = [k \in Key |-> IF k \in keys THEN previous[k] ELSE current[k]]
  PROVE  c \in Manifests
BY DEF Manifests

(* The steps that begin, read, record, end or are the owner's. *)
LEMMA ManifestWaits ==
  ASSUME BuildInv, ManifestInv,
         \/ Owner \/ \E d \in Flags, f \in Forces : Begin(d, f)
         \/ ScanStamp \/ ScanKeep \/ ScanHold \/ ScanLoad \/ Neighbours \/ Record
         \/ ScanError \/ NeighboursError \/ RelatedError \/ RenderFails
         \/ KeepDerivedError \/ CollisionError \/ Kill
         \/ PruneStep \/ OpenState \/ SaveState \/ End
  PROVE  ManifestInv'
<1> USE DEF BuildInv
<1>1. CASE Owner
  <2>1. pc' = pc /\ b' = b /\ manifest' = manifest
    BY <1>1 DEF Owner, EditPost, DeletePost, EditLayout, EditNav, EditStatic, MayEdit, stored
  <2> QED
    BY <2>1, ManifestKept DEF Started
<1>2. CASE \E d \in Flags, f \in Forces : Begin(d, f)
  BY <1>2, ManifestKept DEF Begin, stored, Started
<1>3. CASE ScanStamp \/ ScanKeep \/ ScanHold \/ ScanLoad \/ Neighbours \/ Record
  <2>1. Started /\ manifest' = manifest
    BY <1>3 DEF ScanStamp, ScanKeep, ScanHold, ScanLoad, Neighbours, Record, stored, Started
  <2>2. DOMAIN b = Locals
    BY <2>1 DEF LocalsInv, Started
  <2>3. CASE ScanStamp \/ ScanHold
    <3>1. \A x \in Locals \ {"stamps", "todo"} : b'[x] = b[x]
      BY <2>2, <2>3 DEF ScanStamp, ScanHold, Advance
    <3> QED
      BY <2>1, <3>1, ManifestKept DEF Locals, Early
  <2>4. CASE ScanKeep \/ ScanLoad
    <3>1. \A x \in Locals \ {"todo", "pages", "sources"} : b'[x] = b[x]
      BY <2>2, <2>4 DEF ScanKeep, ScanLoad, Advance
    <3> QED
      BY <2>1, <3>1, ManifestKept DEF Locals, Early
  <2>5. CASE Neighbours
    <3>1. \A x \in Locals \ {"around", "pages"} : b'[x] = b[x]
      BY <2>2, <2>5 DEF Neighbours
    <3> QED
      BY <2>1, <3>1, ManifestKept DEF Locals, Early
  <2>6. CASE Record
    <3>1. \A x \in Locals \ {"sources"} : b'[x] = b[x]
      BY <2>2, <2>6 DEF Record
    <3> QED
      BY <2>1, <3>1, ManifestKept DEF Locals, Early
  <2> QED
    BY <1>3, <2>3, <2>4, <2>5, <2>6
<1>4. CASE \/ ScanError \/ NeighboursError \/ RelatedError \/ RenderFails
           \/ KeepDerivedError \/ CollisionError \/ Kill
  <2>1. pc' = "idle" /\ manifest' = manifest
    BY <1>4 DEF ScanError, NeighboursError, RelatedError, RenderFails, KeepDerivedError,
           CollisionError, Kill, Abandon
  <2> QED
    BY <2>1, ManifestKept DEF Started
<1>5. CASE PruneStep \/ OpenState \/ SaveState
  <2>1. Started /\ b' = b /\ manifest' = manifest
    BY <1>5 DEF PruneStep, OpenState, SaveState, Started
  <2> QED
    BY <2>1, ManifestKept
<1>6. CASE End
  BY <1>6, ManifestKept DEF End, stored, Started
<1> QED
  BY <1>1, <1>2, <1>3, <1>4, <1>5, <1>6

(* A page is rendered, or a listing, or a static file copied: contents are   *)
(* recorded.                                                                 *)
LEMMA ManifestWrites ==
  ASSUME BuildInv, PastInv, ManifestInv,
         \/ \E f \in Source : Render(f)
         \/ RenderDerived
         \/ \E k \in Static : CopyWrite(k)
  PROVE  ManifestInv'
<1> USE DEF BuildInv, PastInv
<1>1. Started /\ pc \in Rendering /\ manifest' = manifest
  BY DEF Render, RenderDerived, CopyWrite, Started, Rendering
<1>2. DOMAIN b = Locals /\ b.current \in Manifests /\ b.layout \in Layout /\ b.nav \in Nav
  BY <1>1 DEF LocalsInv, ManifestInv, ReadInv, Started
<1>3. ASSUME NEW f \in Source, Render(f) PROVE ManifestInv'
  <2>1. f \in Present(b.pages)
    BY <1>3 DEF Render, LocalsInv, Rendering
  <2>2. b.pages[f].output \in Key /\ Rendered(f) \in PageContents
    BY <1>1, <1>2, <2>1, OutputsAreTitles, RenderedIsSomething DEF Started
  <2>3. PICK w : w = Wrote(b, b.pages[f].output, Rendered(f))
    OBVIOUS
  <2>4. DOMAIN w = Locals /\ w.current \in Manifests /\ w.previous = b.previous
    BY <1>2, <2>2, <2>3, WroteContents
  <2>5. b' = [w EXCEPT !.todo = @ \ {f}]
    BY <1>3, <2>3 DEF Render, Rendered
  <2>6. \A x \in Locals \ {"todo"} : b'[x] = w[x]
    BY <2>4, <2>5
  <2>7. b'.current = w.current /\ b'.previous = w.previous
    BY <2>6 DEF Locals, Early
  <2> QED
    BY <1>1, <2>4, <2>7, ManifestKept
<1>4. CASE RenderDerived
  <2>1. PICK b1 : b1 = IF Present(b.pages) # {}
                       THEN Wrote(b, "index", IndexBytes(b.pages, b.layout, b.nav)) ELSE b
    OBVIOUS
  <2>2. PICK b2 : b2 = IF "404" \notin b.shipped
                       THEN Wrote(b1, "404", MissingBytes(b.layout, b.nav)) ELSE b1
    OBVIOUS
  <2>3. b' = [b2 EXCEPT !.derived = b2.expected \ b.expected]
    BY <1>4, <2>1, <2>2 DEF RenderDerived
  <2>4. IndexBytes(b.pages, b.layout, b.nav) \in OtherContents
    BY <1>1, <1>2, IndexIsSomething
  <2>5. DOMAIN b1 = Locals /\ b1.current \in Manifests /\ b1.previous = b.previous
    BY <1>2, <2>1, <2>4, KeysOf, WroteContents
  <2>6. DOMAIN b2 = Locals /\ b2.current \in Manifests /\ b2.previous = b.previous
    BY <1>2, <2>2, <2>5, KeysOf, BytesAreSomething, WroteContents
  <2>7. \A x \in Locals \ {"derived"} : b'[x] = b2[x]
    BY <2>3, <2>6
  <2>8. b'.current = b2.current /\ b'.previous = b2.previous
    BY <2>7 DEF Locals, Early
  <2> QED
    BY <1>1, <2>6, <2>8, ManifestKept
<1>5. ASSUME NEW k \in Static, CopyWrite(k) PROVE ManifestInv'
  <2>1. k \in Key /\ StaticBytes(static[k]) \in OtherContents
    BY KeysOf, BytesAreSomething DEF LoadInv
  <2>2. PICK w : w = Wrote(b, k, StaticBytes(static[k]))
    OBVIOUS
  <2>3. DOMAIN w = Locals /\ w.current \in Manifests /\ w.previous = b.previous
    BY <1>2, <2>1, <2>2, WroteContents
  <2>4. PICK c : b' = [w EXCEPT !.copies[k] = c, !.shipped = @ \ {k}]
    BY <1>5, <2>2 DEF CopyWrite
  <2>5. \A x \in Locals \ {"copies", "shipped"} : b'[x] = w[x]
    BY <2>3, <2>4
  <2>6. b'.current = w.current /\ b'.previous = w.previous
    BY <2>5 DEF Locals, Early
  <2> QED
    BY <1>1, <2>3, <2>6, ManifestKept
<1> QED
  BY <1>3, <1>4, <1>5

(* Pages, listings and copies that are kept are recorded as they were. *)
LEMMA ManifestKeeps ==
  ASSUME BuildInv, ManifestInv, AssignRelated \/ KeepDerived \/ \E k \in Static : CopyKeep(k)
  PROVE  ManifestInv'
<1> USE DEF BuildInv
<1>1. Started /\ manifest' = manifest
  BY DEF AssignRelated, KeepDerived, CopyKeep, Started, stored
<1>2. DOMAIN b = Locals /\ b.current \in Manifests /\ b.previous \in Manifests
  BY <1>1 DEF LocalsInv, ManifestInv, Started
<1>3. CASE AssignRelated
  <2> DEFINE retold == {f \in Present(b.pages) : Retold(f)}
             kept   == {f \in Present(b.pages) \ retold : ~b.pages[f].parsed}
  <2>1. PICK keys :
          /\ keys = {b.pages[f].output : f \in kept}
          /\ b'.current = [k \in Key |-> IF k \in keys THEN b.previous[k] ELSE b.current[k]]
          /\ b'.previous = b.previous
    BY <1>2, <1>3 DEF AssignRelated, Locals, Early
  <2>2. b.current \in Manifests /\ b.previous \in Manifests
    BY <1>2
  <2>3. b'.current \in Manifests
    <3>1. PICK c : c = b'.current
      OBVIOUS
    <3>2. PICK current \in Manifests, previous \in Manifests :
             current = b.current /\ previous = b.previous
      BY <2>2
    <3>3. c = [k \in Key |-> IF k \in keys THEN previous[k] ELSE current[k]]
      BY <2>1, <3>1, <3>2
    <3>4. c \in Manifests
      BY <3>3, KeptContents
    <3> QED
      BY <3>1, <3>4
  <2>4. b'.previous = b.previous
    BY <2>1
  <2> QED
    BY <1>1, <2>3, <2>4, ManifestKept
<1>4. CASE KeepDerived
  <2>1. /\ b'.current = [k \in Key |->
                         IF k \in b.prior.derived THEN b.previous[k] ELSE b.current[k]]
        /\ b'.previous = b.previous
    BY <1>2, <1>4 DEF KeepDerived, Locals, Early
  <2>2. b'.current \in Manifests
    <3>1. PICK c, keys : c = b'.current /\ keys = b.prior.derived
      OBVIOUS
    <3>2. PICK current \in Manifests, previous \in Manifests :
             current = b.current /\ previous = b.previous
      BY <1>2
    <3>3. c = [k \in Key |-> IF k \in keys THEN previous[k] ELSE current[k]]
      BY <2>1, <3>1, <3>2
    <3>4. c \in Manifests
      BY <3>3, KeptContents
    <3> QED
      BY <3>1, <3>4
  <2> QED
    BY <1>1, <2>1, <2>2, ManifestKept
<1>5. ASSUME NEW k \in Static, CopyKeep(k) PROVE ManifestInv'
  <2>1. b'.current = [b.current EXCEPT ![k] = b.previous[k]] /\ b'.previous = b.previous
    BY <1>2, <1>5 DEF CopyKeep, Kept, Locals, Early
  <2>2. b'.current \in Manifests
    BY <1>2, <2>1, KeysOf DEF Manifests
  <2> QED
    BY <1>1, <2>1, <2>2, ManifestKept
<1> QED
  BY <1>3, <1>4, <1>5

(* The manifest records of each key the bytes of a file or nothing, unless   *)
(* it is torn, and so does the one that a build is about to save: a build    *)
(* that saved its manifest can be read by the next (Writer::save_manifest    *)
(* and load_manifest).                                                       *)
THEOREM ManifestInvariant == Spec => []ManifestInv
<1>1. Init => ManifestInv
  <2>1. NoEntries \in Manifests
    BY DEF NoEntries, Manifests
  <2> QED
    BY <2>1 DEF Init, ManifestInv, Started
<1>2. HistoryInv /\ ManifestInv /\ [Next]_vars => ManifestInv'
  <2> SUFFICES ASSUME BuildInv, PastInv, ManifestInv, [Next]_vars PROVE ManifestInv'
    BY DEF HistoryInv
  <2>1. CASE UNCHANGED vars
    BY <2>1 DEF vars, stored, ManifestInv, Started
  <2>2. CASE Fingerprint
    <3>1. /\ pc = "fingerprint" /\ manifest' = manifest
          /\ b'.previous = LoadManifest(manifest) /\ b'.current = NoEntries
      BY <2>2 DEF Fingerprint, stored
    <3>2. NoEntries \in Manifests
      BY DEF NoEntries, Manifests
    <3> QED
      BY <3>1, <3>2 DEF ManifestInv, LoadManifest
  <2>3. CASE OpenManifest \/ SaveManifest
    <3>1. Started /\ b' = b /\ manifest' \in {Torn, b.current}
      BY <2>3 DEF OpenManifest, SaveManifest, Started
    <3> QED
      BY <3>1 DEF ManifestInv
  <2>4. CASE AssignRelated \/ KeepDerived \/ \E k \in Static : CopyKeep(k)
    BY <2>4, ManifestKeeps
  <2>5. CASE (\E f \in Source : Render(f)) \/ RenderDerived \/ \E k \in Static : CopyWrite(k)
    BY <2>5, ManifestWrites
  <2>6. CASE \/ Owner \/ \E d \in Flags, f \in Forces : Begin(d, f)
             \/ ScanStamp \/ ScanKeep \/ ScanHold \/ ScanLoad \/ Neighbours \/ Record
             \/ ScanError \/ NeighboursError \/ RelatedError \/ RenderFails
             \/ KeepDerivedError \/ CollisionError \/ Kill
             \/ PruneStep \/ OpenState \/ SaveState \/ End
    BY <2>6, ManifestWaits
  <2> QED
    BY <2>1, <2>2, <2>3, <2>4, <2>5, <2>6 DEF Next, Step
<1> QED
  BY <1>1, <1>2, HistoryInvariant, PTL DEF Spec

-----------------------------------------------------------------------------
(* The output is pruned, and what the next build needs is saved *)

(* What was produced is not removed. *)
LEMMA RepeatPrunes == ASSUME BuildInv, PastInv, RepeatInv, PruneStep PROVE RepeatInv'
<1> USE DEF BuildInv, PastInv
<1>1. /\ pc = "static" /\ pc' = "manifest" /\ b' = b /\ b.shipped = {}
      /\ out' = Prune(out, b.expected)
  BY DEF PruneStep
<1>2. \A k \in Key : out'[k] = IF k \in b.expected THEN out[k] ELSE Absent
  BY <1>1 DEF Prune
<1>3. b.expected \subseteq Key
  BY <1>1 DEF LocalsInv
<1>4. Works
  BY <1>1, <1>2 DEF Works, Working, PruneStep, ghosts, SameReading
<1>5. /\ Started /\ Started' /\ Covered' = Covered /\ Shipping' = Shipping
      /\ post' = post /\ layout' = layout /\ static' = static
      /\ mtime' = mtime /\ stime' = stime /\ still' = still /\ state' = state
  BY <1>4, WorkKeeps
<1>6. /\ SavedInv' /\ ListingsInv'
      /\ \A f \in Known(state'.sources) : SourceRead(state.sources[f], f, state.started)'
  BY <1>1, <1>4, RepeatWorks
<1>7. /\ pc \in Rendering /\ pc \in Writing /\ pc' \in Writing /\ pc' \in Copying /\ pc' \in Saving
      /\ pc' \notin Rendering /\ pc' \notin Scanning /\ pc' # "related" /\ pc' # "read"
  BY <1>1 DEF Writing, Copying, Saving, Rendering, Scanning
<1>8. TextInv'
  BY <1>1, <1>5, <1>6 DEF RepeatInv, TextInv, PageRead, SourceRead
<1>9. FoundInv'
  BY <1>1, <1>5, <1>7 DEF RepeatInv, FoundInv, Trusted
<1>10. ThereInv'
  BY <1>1, <1>2, <1>3, <1>5, <1>7 DEF ThereInv, WriteInv
<1>11. AgainInv'
  BY <1>1, <1>5, <1>7 DEF RepeatInv, AgainInv, NothingParsed
<1>12. ClashInv'
  BY <1>1, <1>5 DEF RepeatInv, ClashInv
<1> QED
  BY <1>6, <1>8, <1>9, <1>10, <1>11, <1>12 DEF RepeatInv

(* Saving disturbs nothing that the build has found. *)
LEMMA RepeatSaves ==
  ASSUME BuildInv, PastInv, RepeatInv, Saves,
         \A f \in Known(state'.sources) : SourceRead(state.sources[f], f, state.started)',
         SavedInv', ListingsInv'
  PROVE  RepeatInv'
<1>1. /\ post' = post /\ layout' = layout /\ static' = static /\ mtime' = mtime
      /\ stime' = stime /\ still' = still /\ uncovered' = uncovered /\ b' = b /\ out' = out
      /\ pc \in Saving /\ pc' \in Saving
  BY DEF Saves, inputs
<1>2. Started /\ Started' /\ pc # "idle" /\ pc' # "idle"
  BY <1>1 DEF Saving, Started
<1>3. Plain' = Plain /\ Shipping' = Shipping
  BY <1>1 DEF Plain, Shipping
<1>4. Covered' = Covered
  BY <1>1, <1>2, <1>3 DEF Covered
<1>5. /\ pc \in Writing /\ pc' \in Writing /\ pc \in Copying /\ pc' \in Copying
      /\ pc' \notin Rendering /\ pc' \notin Scanning /\ pc' # "related" /\ pc' # "read"
  BY <1>1 DEF Writing, Copying, Saving, Rendering, Scanning
<1>6. TextInv'
  BY <1>1, <1>2 DEF RepeatInv, TextInv, PageRead, SourceRead
<1>7. FoundInv'
  BY <1>1, <1>2, <1>3, <1>5 DEF RepeatInv, FoundInv, Trusted
<1>8. ThereInv'
  BY <1>1 DEF RepeatInv, ThereInv
<1>9. AgainInv'
  BY <1>1, <1>2, <1>5 DEF RepeatInv, AgainInv, NothingParsed
<1>10. ClashInv'
  BY <1>1, <1>2, <1>4 DEF RepeatInv, ClashInv
<1> QED
  BY <1>6, <1>7, <1>8, <1>9, <1>10 DEF RepeatInv

(* The manifest is truncated and written, and the state truncated. *)
LEMMA RepeatOpens ==
  ASSUME BuildInv, PastInv, RepeatInv, OpenManifest \/ SaveManifest \/ OpenState
  PROVE  RepeatInv'
<1>1. Saves
  BY DEF Saves, Saving, OpenManifest, SaveManifest, OpenState, ghosts
<1>2. pc' \in Saving \ {"end"} /\ pc' # "idle"
  BY DEF Saving, OpenManifest, SaveManifest, OpenState
<1>3. post' = post /\ mtime' = mtime /\ state' \in {state, NoState}
  BY <1>1 DEF Saves, inputs, OpenManifest, SaveManifest, OpenState
<1>4. \A f \in Known(state'.sources) : SourceRead(state.sources[f], f, state.started)'
  <2>1. CASE state' = state
    BY <1>3, <2>1 DEF RepeatInv, TextInv, SourceRead
  <2>2. CASE state' = NoState
    BY <2>2 DEF NoState, Known
  <2> QED
    BY <1>3, <2>1, <2>2
<1>5. SavedInv' /\ ListingsInv'
  BY <1>2 DEF SavedInv, ListingsInv
<1> QED
  BY <1>1, <1>4, <1>5, RepeatSaves

(* The state that is saved agrees with the site in all that the next build   *)
(* asks, if nobody disturbed this one.                                       *)
LEMMA RepeatSavesState ==
  ASSUME BuildInv, PastInv, ManifestInv, RepeatInv, SaveState PROVE RepeatInv'
<1> USE DEF BuildInv, PastInv
<1>1. /\ pc = "save state" /\ pc' = "end" /\ manifest' = manifest
      /\ state' = [fingerprint |-> b.fingerprint, started |-> b.started,
                   sources |-> b.sources, copies |-> b.copies, derived |-> b.derived]
  BY DEF SaveState
<1>2. Saves
  BY DEF Saves, Saving, SaveState, ghosts
<1>3. /\ post' = post /\ layout' = layout /\ static' = static /\ mtime' = mtime
      /\ stime' = stime /\ still' = still /\ b' = b /\ out' = out
  BY <1>2 DEF Saves, inputs
<1>4. /\ state'.fingerprint = b.fingerprint /\ state'.started = b.started
      /\ state'.sources = b.sources /\ state'.copies = b.copies /\ state'.derived = b.derived
  BY <1>1
<1>5. /\ Started /\ pc \in Writing /\ pc \in Copying /\ pc \in Listed /\ pc \in Saving
  BY <1>1 DEF Started, Writing, Copying, Listed, Saving
<1>6. LoadManifest(manifest') = b.current
  <2>1. manifest = b.current /\ b.current \in Manifests
    BY <1>1, <1>5 DEF LoadInv, ManifestInv
  <2> QED
    BY <1>1, <2>1, TornAssumption DEF LoadManifest
<1>7. \A k \in b.expected : Reusable(b.current, out, k)
  <2>1. b.expected \subseteq Key
    BY <1>5 DEF LocalsInv, Started
  <2> QED
    BY <1>5, <2>1 DEF Reusable, WriteInv, RepeatInv, ThereInv
<1>8. Known(b.sources) = Present(b.pages) /\ Present(b.sources) = Present(b.pages)
  <2>1. Known(b.sources) = Present(b.pages)
    BY <1>5 DEF EntryInv, Known, Present
  <2> QED
    BY <2>1 DEF Known, Present
<1>9. \A f \in Known(b.sources) : SourceRead(b.sources[f], f, b.started)
  BY <1>5 DEF RepeatInv, TextInv
<1>10. \A f \in Known(state'.sources) : SourceRead(state.sources[f], f, state.started)'
  BY <1>3, <1>4, <1>9 DEF SourceRead
<1>11. ListingsInv'
  <2>1. b.derived \subseteq b.expected
    BY <1>5 DEF WriteInv
  <2> QED
    BY <1>3, <1>4, <1>6, <1>7, <2>1 DEF ListingsInv
<1>12. ASSUME still PROVE AsSaved(b.drafts)'
  <2>1. b.fingerprint = layout
    BY <1>5, <1>12 DEF RepeatInv, FoundInv
  <2>2. b.todo = {} /\ b.shipped = {}
    BY <1>1, <1>5 DEF WriteInv
  <2>3. \A f \in Source \ Known(b.sources) : post[f] # Absent => post[f].draft /\ ~b.drafts
    BY <1>5, <1>8, <1>12, <2>2 DEF RepeatInv, FoundInv
  <2>4. \A f \in Present(b.pages) :
          Around(b.sources, f) = Around(b.pages, f) /\ Related(b.sources, f) = Related(b.pages, f)
    <3>1. \A f \in Present(b.sources) :
            b.sources[f].post = b.pages[f].post /\ b.sources[f].output = b.pages[f].output
      BY <1>5, <1>8 DEF EntryInv
    <3> QED
      BY <1>8, <3>1, ShownAlike
  <2>5. ASSUME NEW f \in Known(b.sources)
        PROVE  /\ post[f] # Absent
               /\ b.sources[f].modified = mtime[f]
               /\ Trusted(b.sources[f], b.started, post[f])
               /\ b.sources[f].around = Around(b.sources, f)
               /\ b.sources[f].related = Related(b.sources, f)
               /\ Reusable(b.current, out, b.sources[f].output)
    <3>1. f \in Present(b.pages)
      BY <1>8
    <3>2. post[f] # Absent /\ b.stamps[f] = mtime[f] /\ Trusted(b.sources[f], b.started, post[f])
          /\ b.around[f] = Around(b.pages, f) /\ b.related[f] = Related(b.pages, f)
      BY <1>5, <1>12, <3>1 DEF RepeatInv, FoundInv
    <3>3. /\ b.sources[f].modified = b.stamps[f] /\ b.sources[f].output = b.pages[f].output
          /\ b.sources[f].around = b.around[f] /\ b.sources[f].related = b.related[f]
      BY <1>5, <3>1 DEF EntryInv
    <3>4. b.pages[f].output \in b.expected
      BY <1>5, <2>2, <3>1 DEF WriteInv
    <3> QED
      BY <1>7, <2>4, <3>1, <3>2, <3>3, <3>4
  <2>6. \A k \in Shipping :
          /\ b.copies[k] # Absent /\ b.copies[k].modified = stime[k]
          /\ Trusted(b.copies[k], b.started, static[k])
          /\ Reusable(b.current, out, k)
    BY <1>5, <1>7, <1>12, <2>2 DEF RepeatInv, FoundInv
  <2>7. \A k \in b.derived : Reusable(b.current, out, k)
    BY <1>5, <1>7 DEF WriteInv
  <2>8. Shipping' = Shipping /\ Known(state'.sources) = Known(b.sources)
    BY <1>3, <1>4 DEF Shipping
  <2>9. /\ state'.fingerprint = layout'
        /\ \A f \in Source \ Known(state'.sources) :
              post'[f] # Absent => post'[f].draft /\ ~b'.drafts
    BY <1>3, <1>4, <2>1, <2>3, <2>8
  <2>10. \A f \in Known(state'.sources) :
           /\ post'[f] # Absent
           /\ state'.sources[f].modified = mtime'[f]
           /\ Trusted(state.sources[f], state.started, post[f])'
           /\ state'.sources[f].around = Around(state.sources, f)'
           /\ state'.sources[f].related = Related(state.sources, f)'
           /\ Reusable(LoadManifest(manifest), out, state.sources[f].output)'
    BY <1>3, <1>4, <1>6, <2>5, <2>8 DEF Trusted
  <2>11. \A k \in state'.derived : Reusable(LoadManifest(manifest), out, k)'
    BY <1>3, <1>4, <1>6, <2>7
  <2>12. \A k \in Shipping' :
           /\ state'.copies[k] # Absent
           /\ state'.copies[k].modified = stime'[k]
           /\ Trusted(state.copies[k], state.started, static[k])'
           /\ Reusable(LoadManifest(manifest), out, k)'
    BY <1>3, <1>4, <1>6, <2>6, <2>8 DEF Trusted
  <2> QED
    BY <2>9, <2>10, <2>11, <2>12 DEF AsSaved
<1>13. SavedInv'
  BY <1>1, <1>3, <1>12 DEF SavedInv
<1> QED
  BY <1>2, <1>10, <1>11, <1>13, RepeatSaves

(* The build returns. *)
LEMMA RepeatReturns == ASSUME BuildInv, RepeatInv, End PROVE RepeatInv'
<1> USE DEF BuildInv
<1>1. /\ pc = "end" /\ pc' = "idle" /\ same' = still /\ flag' = b.drafts
      /\ out' = out /\ manifest' = manifest /\ state' = state
  BY DEF End, stored
<1>2. post' = post /\ layout' = layout /\ static' = static /\ mtime' = mtime /\ stime' = stime
  BY DEF End, inputs
<1>3. ~Started' /\ pc' \notin Saving /\ pc \notin Saving \ {"end"}
  BY <1>1 DEF Started, Saving
<1>4. TextInv'
  BY <1>1, <1>2, <1>3 DEF RepeatInv, TextInv, SourceRead
<1>5. ListingsInv'
  BY <1>1, <1>3 DEF RepeatInv, ListingsInv
<1>6. ASSUME still PROVE AsSaved(flag)'
  <2>1. PICK d : d = b.drafts
    OBVIOUS
  <2>2. AsSaved(d)
    BY <1>1, <1>6, <2>1 DEF RepeatInv, SavedInv
  <2>3. AsSaved(d)'
    BY <1>1, <1>2, <2>2, SavedStays
  <2> QED
    BY <1>1, <2>1, <2>3 DEF AsSaved
<1>7. SavedInv'
  BY <1>1, <1>6 DEF SavedInv
<1> QED
  BY <1>1, <1>3, <1>4, <1>5, <1>7 DEF RepeatInv, FoundInv, ThereInv, AgainInv, ClashInv

-----------------------------------------------------------------------------
(* The theorems *)

(* A build that nobody disturbed leaves a state that agrees with the site,   *)
(* and a build that repeats it leaves alone whatever it meets: every step of *)
(* the build and every edit of the owner keep RepeatInv (site.cpp, build;    *)
(* build_state.cpp; writer.cpp).                                             *)
THEOREM RepeatInvariant == Spec => []RepeatInv
<1>1. Init => RepeatInv
  BY RepeatInitially
<1>2. HistoryInv /\ HistoryInv' /\ ManifestInv /\ RepeatInv /\ [Next]_vars => RepeatInv'
  <2> SUFFICES ASSUME BuildInv, BuildInv', PastInv, ManifestInv, RepeatInv, [Next]_vars
               PROVE  RepeatInv'
    BY DEF HistoryInv
  <2>1. CASE UNCHANGED vars
    <3>1. /\ post' = post /\ layout' = layout /\ static' = static /\ mtime' = mtime
          /\ stime' = stime /\ state' = state /\ manifest' = manifest /\ out' = out
          /\ pc' = pc /\ b' = b /\ still' = still /\ same' = same /\ last' = last
          /\ flag' = flag /\ uncovered' = uncovered
      BY <2>1 DEF vars, inputs, stored, ghosts
    <3>2. TextInv'
      BY <3>1 DEF RepeatInv, TextInv, Started, SourceRead, PageRead
    <3>3. FoundInv'
      BY <3>1 DEF RepeatInv, FoundInv, Started, Trusted, Shipping
    <3>4. ThereInv' /\ ListingsInv'
      BY <3>1 DEF RepeatInv, ThereInv, ListingsInv
    <3>5. ASSUME NEW d PROVE AsSaved(d)' <=> AsSaved(d)
      BY <3>1 DEF AsSaved, Trusted, Shipping
    <3>6. SavedInv'
      BY <3>1, <3>5 DEF RepeatInv, SavedInv
    <3>7. AgainInv'
      BY <3>1, <3>5 DEF RepeatInv, AgainInv, Started, NothingParsed
    <3>8. ClashInv'
      BY <3>1 DEF RepeatInv, ClashInv, Started, Covered, Plain
    <3> QED
      BY <3>2, <3>3, <3>4, <3>6, <3>7, <3>8 DEF RepeatInv
  <2>2. CASE Owner
    BY <2>2, RepeatOwner
  <2>3. CASE Step
    <3>1. ASSUME NEW d \in Flags, NEW g \in Forces, Begin(d, g) PROVE RepeatInv'
      BY <3>1, RepeatBegins
    <3>2. CASE Fingerprint
      BY <3>2, RepeatFingerprints
    <3>3. CASE ScanStamp
      BY <3>3, RepeatScanStamps
    <3>4. CASE ScanKeep \/ ScanHold \/ ScanLoad
      BY <3>4, RepeatScans
    <3>5. CASE Neighbours
      BY <3>5, RepeatNeighbours
    <3>6. CASE AssignRelated
      BY <3>6, RepeatAssignsRelated
    <3>7. ASSUME NEW f \in Source, Render(f) PROVE RepeatInv'
      BY <3>7, RepeatRenders
    <3>8. CASE Record
      BY <3>8, RepeatRecords
    <3>9. CASE KeepDerived
      BY <3>9, RepeatKeepsDerived
    <3>10. CASE RenderDerived
      BY <3>10, RepeatRendersDerived
    <3>11. ASSUME NEW k \in Static, CopyKeep(k) \/ CopyWrite(k) PROVE RepeatInv'
      BY <3>11, RepeatCopyKeeps, RepeatCopyWrites
    <3>12. CASE PruneStep
      BY <3>12, RepeatPrunes
    <3>13. CASE OpenManifest \/ SaveManifest \/ OpenState
      BY <3>13, RepeatOpens
    <3>14. CASE SaveState
      BY <3>14, RepeatSavesState
    <3>15. CASE End
      BY <3>15, RepeatReturns
    <3>16. CASE \/ ScanError \/ NeighboursError \/ RelatedError \/ RenderFails
                \/ KeepDerivedError \/ CollisionError \/ Kill
      BY <3>16, RepeatEndsEarly
    <3> QED
      BY <2>3, <3>1, <3>2, <3>3, <3>4, <3>5, <3>6, <3>7, <3>8, <3>9, <3>10, <3>11, <3>12,
         <3>13, <3>14, <3>15, <3>16 DEF Step
  <2> QED
    BY <2>1, <2>2, <2>3 DEF Next
<1> QED
  BY <1>1, <1>2, HistoryInvariant, ManifestInvariant, PTL DEF Spec

(* "When nothing changed, nothing is parsed, rendered, or written": a build  *)
(* right after one that ended well and that nobody disturbed, with the same  *)
(* --drafts and not forced, leaves every page, listing and copy alone,       *)
(* whatever the builds before them went through.                             *)
THEOREM BuildRepeats == Spec => []NothingChangedNothingWritten
<1>1. RepeatInv => NothingChangedNothingWritten
  BY DEF RepeatInv, AgainInv, NothingChangedNothingWritten, Done, Started
<1> QED
  BY <1>1, RepeatInvariant, PTL

(* The pages that a build has found are those of a fresh build. *)
LEMMA FoundIsFresh ==
  ASSUME HistoryInv, Started, Covered, still, NEW f \in Present(b.pages)
  PROVE  /\ f \in Present(FreshPages(b.drafts))
         /\ FreshPages(b.drafts)[f].output = b.pages[f].output
<1> USE DEF HistoryInv, BuildInv, PastInv
<1>1. f \in Source /\ b.stamps[f] = mtime[f] /\ post[f] # Absent
  BY DEF AgreeInv, Present
<1>2. PageTrue(f)
  BY DEF TruthInv
<1>3. mtime[f] \in Nat
  BY <1>1 DEF TypeOK
<1>4. post[f].title = b.pages[f].output /\ (post[f].draft => b.drafts)
  BY <1>1, <1>2, <1>3 DEF PageTrue
<1>5. FreshPages(b.drafts)[f] = [post |-> post[f], output |-> post[f].title]
  BY <1>1, <1>4 DEF FreshPages
<1>6. post[f] \in Post /\ post[f].title \in Titles
  BY <1>1 DEF TypeOK, Titles
<1>7. [post |-> post[f], output |-> post[f].title] # Absent
  BY <1>6, AbsentAssumption
<1> QED
  BY <1>1, <1>4, <1>5, <1>7 DEF Present

(* What each refusal of a build that nobody disturbs comes from: two posts   *)
(* of one page, or a listing that went away when a build was killed.         *)
LEMMA RefusalsAgree ==
  ASSUME HistoryInv, RepeatInv, Step, pc # "idle", pc' = "idle", last' = "error",
         still, ~uncovered
  PROVE  FreshFails(b.drafts) \/ (KeepDerivedError /\ "kill" \in Faults)
<1> USE DEF HistoryInv, BuildInv, PastInv
<1>1. ScanError \/ NeighboursError \/ RelatedError \/ KeepDerivedError \/ CollisionError
  BY DEF Step, Begin, Fingerprint, ScanStamp, ScanKeep, ScanHold, ScanLoad, Neighbours,
         AssignRelated, Render, RenderFails, Record, KeepDerived, RenderDerived, CopyKeep,
         CopyWrite, PruneStep, OpenManifest, SaveManifest, OpenState, SaveState, End, Kill, Abandon
<1>2. Covered
  BY DEF Covered, ReadInv
<1>3. Started
  BY <1>1 DEF ScanError, NeighboursError, RelatedError, KeepDerivedError, CollisionError, Started
<1>4. CASE ScanError
  <2>1. PICK f : f = Min(b.todo)
    OBVIOUS
  <2>2. pc = "read" /\ f \in b.todo /\ f \in Source
    <3>1. pc = "read" /\ b.todo # {} /\ b.todo \subseteq Source
      BY <1>4 DEF ScanError, LocalsInv
    <3> QED
      BY <2>1, <3>1, EndsInSet
  <2>3. post[f] # Absent /\ b.pages[f] = Absent
    BY <1>2, <1>3, <2>2 DEF AgreeInv, EntryInv, Scanning
  <2>4. ~Held(f) /\ Taken(post[f].title)
    BY <1>4, <2>1, <2>3 DEF ScanError
  <2>5. PICK g \in Present(b.pages) : b.pages[g].output = post[f].title
    BY <2>4 DEF Taken
  <2>6. g # f
    BY <2>3 DEF Present
  <2>7. FreshPages(b.drafts)[f] = [post |-> post[f], output |-> post[f].title]
    BY <2>2, <2>3, <2>4 DEF FreshPages, Held
  <2>8. [post |-> post[f], output |-> post[f].title] # Absent
    <3>1. post[f] \in Post /\ post[f].title \in Titles
      BY <2>2, <2>3 DEF TypeOK, Titles
    <3> QED
      BY <3>1, AbsentAssumption
  <2>9. f \in Present(FreshPages(b.drafts)) /\ FreshPages(b.drafts)[f].output = post[f].title
    BY <2>2, <2>7, <2>8 DEF Present
  <2>10. /\ g \in Present(FreshPages(b.drafts))
         /\ FreshPages(b.drafts)[g].output = b.pages[g].output
    BY <1>2, <1>3, FoundIsFresh
  <2> QED
    BY <2>5, <2>6, <2>9, <2>10 DEF FreshFails
<1>5. CASE NeighboursError \/ RelatedError
  <2>1. \E f \in Present(b.pages) : post[f] = Absent
    BY <1>5 DEF NeighboursError, RelatedError
  <2> QED
    BY <1>3, <2>1 DEF RepeatInv, FoundInv
<1>6. CASE KeepDerivedError
  <2>1. pc = "derived" /\ \E k \in b.prior.derived : ~Reusable(b.previous, out, k)
    BY <1>6 DEF KeepDerivedError
  <2>2. b.prior = state /\ b.previous = LoadManifest(manifest) /\ pc \notin Saving
    BY <1>3, <2>1 DEF LoadInv, Saving
  <2> QED
    BY <1>6, <2>1, <2>2 DEF RepeatInv, ListingsInv
<1>7. CASE CollisionError
  <2>1. PICK f \in Present(b.pages), g \in Present(b.pages) :
          f # g /\ b.pages[f].output = b.pages[g].output
    BY <1>2, <1>3, <1>7 DEF CollisionError, RepeatInv, ClashInv
  <2>2. /\ f \in Present(FreshPages(b.drafts)) /\ g \in Present(FreshPages(b.drafts))
        /\ FreshPages(b.drafts)[f].output = b.pages[f].output
        /\ FreshPages(b.drafts)[g].output = b.pages[g].output
    BY <1>2, <1>3, FoundIsFresh
  <2> QED
    BY <2>1, <2>2 DEF FreshFails
<1> QED
  BY <1>1, <1>4, <1>5, <1>6, <1>7

(* An incremental build refuses only a site that a build from scratch        *)
(* refuses, if nobody edits the site meanwhile and nothing changed that the  *)
(* fingerprint leaves out: a page that the walk meets twice, two results on  *)
(* one key and nothing else end it with an error.  No build is killed: after *)
(* one that was, "cannot reuse" can be such an error.                        *)
THEOREM BuildRefuses ==
  ASSUME "kill" \notin Faults
  PROVE  Spec => RefusesOnlyWhatFreshRefuses
<1>1. HistoryInv /\ RepeatInv /\ [Next]_vars =>
        [pc # "idle" /\ pc' = "idle" /\ last' = "error" /\ still
           /\ manifest # Torn /\ ~uncovered => FreshFails(b.drafts)]_vars
  <2> SUFFICES ASSUME HistoryInv, RepeatInv, Next, pc # "idle", pc' = "idle",
                      last' = "error", still, ~uncovered
               PROVE  FreshFails(b.drafts)
    OBVIOUS
  <2>1. ~Owner
    BY DEF Owner, EditPost, DeletePost, EditLayout, EditNav, EditStatic
  <2>2. Step
    BY <2>1 DEF Next
  <2> QED
    BY <2>2, RefusalsAgree
<1> QED
  BY <1>1, HistoryInvariant, RepeatInvariant, PTL DEF Spec, RefusesOnlyWhatFreshRefuses

=============================================================================
