------------------------ MODULE BuildHistoryProofs --------------------------
(***************************************************************************)
(* Proofs about BuildHistory: an incremental build that nobody disturbs    *)
(* leaves what a build from scratch leaves, but for what the fingerprint   *)
(* leaves out and for what an abandoned build wrote.                       *)
(***************************************************************************)
EXTENDS BuildHistory, BuildProofs, FiniteSetTheorems

-----------------------------------------------------------------------------
(* The places in a build *)

(* Where the build may stand. *)
LEMMA Places ==
  ASSUME LocalsInv
  PROVE  pc \in {"idle", "fingerprint", "scan", "read", "related", "render", "derived", "static",
                 "manifest", "save manifest", "state", "save state", "end"}
BY DEF LocalsInv, Scanning, Rendering, Saving

(* The keys of pages, listings and copies. *)
LEMMA KeysOf ==
  /\ Titles \subseteq Key /\ Static \subseteq Key /\ "index" \in Key /\ "404" \in Key
  /\ "index" \notin Titles /\ "404" \notin Titles /\ "index" \notin Static
BY BuildAssumption

(* The bytes of a file are contents, and not Absent. *)
LEMMA BytesAreSomething ==
  /\ \A p \in PageContents \cup OtherContents : p # Absent
  /\ \A l \in Layout, n \in Nav :
        MissingBytes(l, n) \in OtherContents /\ MissingBytes(l, n) # Absent
  /\ \A v \in {1, 2, Absent} : StaticBytes(v) \in OtherContents /\ StaticBytes(v) # Absent
  /\ \A l \in Layout, n \in Nav, r \in Relatives : <<"index", l, n, r>> \in OtherContents
  /\ Absent \notin Layout
<1>1. Absent \notin PageContents /\ Absent \notin OtherContents /\ Absent \notin Layout
  BY AbsentAssumption
<1>2. \A l \in Layout, n \in Nav : MissingBytes(l, n) \in OtherContents
  BY DEF MissingBytes, OtherContents
<1>3. \A v \in {1, 2, Absent} : StaticBytes(v) \in OtherContents
  BY DEF StaticBytes, OtherContents
<1>4. \A l \in Layout, n \in Nav, r \in Relatives : <<"index", l, n, r>> \in OtherContents
  BY DEF OtherContents
<1> QED
  BY <1>1, <1>2, <1>3, <1>4

-----------------------------------------------------------------------------
(* What does not disturb the saved state *)

(* The state stays true while nothing that it speaks of changes but towards  *)
(* knowing less: keys get dirty, files or records go away.                   *)
LEMMA StateKept ==
  ASSUME StateTrue, TypeOK, state' = state, post' = post, mtime' = mtime, stime' = stime,
         static' = static, nav' = nav, Drafts' = Drafts, Dirt \subseteq Dirt',
         \A k \in Key \ Dirt' : out'[k] \in {out[k], Absent},
         \A k \in Key \ Dirt' : Memo'[k] \in {Memo[k], Absent}
  PROVE  StateTrue'
<1>1. \A k \in Key \ Dirt' : k \in Key \ Dirt
  OBVIOUS
<1>2. \A k \in Key \ Dirt' : out'[k] \in {Absent, Memo'[k]} \/ Memo'[k] = Absent
  BY <1>1 DEF StateTrue
<1>3. ASSUME NEW f \in Known(state.sources)
      PROVE  /\ SourceTrue(state.sources[f], f, state.started, Drafts)'
             /\ \/ state.sources[f].output \in Dirt'
                \/ Memo'[state.sources[f].output] \in
                       {Absent, EntryBytes(state.sources[f], state.fingerprint, nav)}
  <2>1. SourceTrue(state.sources[f], f, state.started, Drafts)'
    BY <1>3 DEF StateTrue, SourceTrue
  <2>2. state.sources[f].output \in Key
    <3>1. state.sources[f] \in SourceEntry
      BY <1>3 DEF TypeOK, Known
    <3> QED
      BY <3>1, KeysOf DEF SourceEntry
  <2>3. \/ state.sources[f].output \in Dirt
        \/ Memo[state.sources[f].output] \in
               {Absent, EntryBytes(state.sources[f], state.fingerprint, nav)}
    BY <1>3 DEF StateTrue
  <2> QED
    BY <2>1, <2>2, <2>3
<1>4. ASSUME NEW k \in Static \ Dirt', state.copies[k] # Absent
      PROVE  Memo'[k] = Absent \/ CopyTrue(state.copies[k], k, Memo[k], state.started)'
  <2>1. k \in Key /\ k \in Static \ Dirt
    BY <1>1, KeysOf
  <2>2. Memo[k] = Absent \/ CopyTrue(state.copies[k], k, Memo[k], state.started)
    BY <1>4, <2>1 DEF StateTrue
  <2> QED
    BY <2>1, <2>2 DEF CopyTrue
<1>5. Shipping' = Shipping
  BY DEF Shipping
<1>6. ASSUME state.fingerprint # Absent
      PROVE  /\ "index" \in state.derived <=> Known(state.sources) # {}
             /\ "404" \in state.derived <=> "404" \notin Shipping
             /\ "index" \in state.derived \ Dirt' =>
                   Memo'["index"] \in {Absent, IndexBytes(state.sources, state.fingerprint, nav)}
             /\ "404" \in state.derived \ Dirt' =>
                   Memo'["404"] \in {Absent, MissingBytes(state.fingerprint, nav)}
  BY <1>6, KeysOf DEF StateTrue
<1> QED
  BY <1>2, <1>3, <1>4, <1>5, <1>6 DEF StateTrue, Known

(* The locals that are set when the build begins and never again. *)
SameReading ==
    /\ b'.drafts = b.drafts /\ b'.force = b.force /\ b'.layout = b.layout /\ b'.nav = b.nav
    /\ b'.prior = b.prior /\ b'.previous = b.previous /\ b'.started = b.started
    /\ b'.fingerprint = b.fingerprint /\ b'.reusable = b.reusable

(* Between the fingerprint and the saving, a step of the build touches no    *)
(* input and nothing saved, and marks as changed what it writes.             *)
Working == {"scan", "read", "related", "render", "derived", "static", "manifest"}

Works ==
    /\ pc \in Working /\ pc' \in Working
    /\ UNCHANGED <<inputs, manifest, state, still, dirty, flag, uncovered>>
    /\ SameReading
    /\ b.changed \subseteq b'.changed
    /\ \A k \in Key \ b'.changed : out'[k] \in {out[k], Absent}

(* Such a step leaves time, what was loaded and what was read alone. *)
LEMMA WorkKeeps ==
  ASSUME BuildInv, PastInv, Works
  PROVE  /\ LoadInv' /\ ReadInv' /\ StateInv'
         /\ Started /\ Started' /\ Covered' = Covered /\ Shipping' = Shipping
         /\ post' = post /\ layout' = layout /\ nav' = nav /\ static' = static
         /\ mtime' = mtime /\ stime' = stime /\ clock' = clock
         /\ dirty' = dirty /\ still' = still /\ state' = state /\ uncovered' = uncovered
<1>1. /\ post' = post /\ layout' = layout /\ nav' = nav /\ static' = static
      /\ mtime' = mtime /\ stime' = stime /\ clock' = clock
      /\ dirty' = dirty /\ still' = still /\ state' = state /\ uncovered' = uncovered
      /\ manifest' = manifest /\ flag' = flag
  BY DEF Works, inputs
<1>2. Started /\ Started'
  BY DEF Works, Working, Started
<1>3. Plain' = Plain /\ Shipping' = Shipping
  BY <1>1 DEF Plain, Shipping
<1>4. b'.force = b.force /\ b'.drafts = b.drafts /\ b'.layout = b.layout /\ b'.nav = b.nav
      /\ b'.fingerprint = b.fingerprint
  BY DEF Works, SameReading
<1>5. Covered' = Covered
  BY <1>1, <1>2, <1>3, <1>4 DEF Covered, Started
<1>6. ReadInv'
  BY <1>1, <1>2, <1>3, <1>4, <1>5 DEF PastInv, ReadInv, Started
<1>7. LoadInv'
  BY <1>1, <1>2 DEF PastInv, LoadInv, Works, Working, SameReading
<1>8. StateInv'
  <2>1. Memo' = Memo /\ Drafts' = Drafts /\ Dirt \subseteq Dirt'
        /\ \A k \in Key \ Dirt' : k \notin b'.changed
    BY <1>1 DEF Works, Working, Memo, Drafts, Dirt
  <2>2. \A k \in Key \ Dirt' : out'[k] \in {out[k], Absent} /\ Memo'[k] \in {Memo[k], Absent}
    BY <2>1 DEF Works
  <2>3. StateTrue => StateTrue'
    BY <1>1, <2>1, <2>2, StateKept DEF BuildInv
  <2> QED
    BY <1>1, <2>3 DEF StateInv, PastInv, Works, Working
<1> QED
  BY <1>1, <1>2, <1>3, <1>5, <1>6, <1>7, <1>8

-----------------------------------------------------------------------------
(* The initial state, and builds that save nothing *)

(* Nothing has been built yet. *)
LEMMA PastInitially == Init => PastInv
<1> SUFFICES ASSUME Init PROVE PastInv
  OBVIOUS
<1>1. pc = "idle" /\ ~Started /\ static = [k \in Static |-> Absent] /\ state = NoState
  BY DEF Init, Started
<1>2. state.started = 0 /\ Known(state.sources) = {} /\ DOMAIN state.copies = Static
      /\ state.fingerprint = Absent /\ \A k \in Static : state.copies[k] = Absent
  BY <1>1 DEF NoState, Known
<1>3. TimeInv
  BY <1>1, <1>2 DEF TimeInv, Init
<1>4. LoadInv
  BY <1>1 DEF LoadInv
<1>5. ReadInv
  BY <1>1 DEF ReadInv, Plain
<1>6. StateTrue
  <2>1. \A k \in Key : out[k] = Absent
    BY DEF Init, NoEntries
  <2> QED
    BY <1>2, <2>1 DEF StateTrue
<1> QED
  BY <1>1, <1>3, <1>4, <1>5, <1>6
     DEF PastInv, StateInv, EntryInv, TruthInv, WriteInv, BytesInv, DerivedInv, AgreeInv

(* A build that ends without saving leaves what it wrote dirty. *)
LEMMA PastAbandons ==
  ASSUME BuildInv, PastInv, pc # "idle", NEW why, Abandon(why), out' = out
  PROVE  PastInv'
<1>1. /\ post' = post /\ layout' = layout /\ nav' = nav /\ static' = static
      /\ mtime' = mtime /\ stime' = stime /\ clock' = clock
  BY DEF Abandon, inputs
<1>2. pc' = "idle" /\ state' = state /\ manifest' = manifest /\ uncovered' = uncovered
      /\ flag' = flag /\ dirty' = dirty \cup b.changed
  BY DEF Abandon
<1>3. TimeInv'
  BY <1>1, <1>2 DEF PastInv, TimeInv, Started
<1>4. static' \in [Static -> {1, 2, Absent}]
  BY <1>1 DEF PastInv, LoadInv
<1>5. ~uncovered' => Plain'
  BY <1>1, <1>2 DEF PastInv, ReadInv, Plain
<1>6. ASSUME ~uncovered' PROVE StateTrue'
  <2>1. StateTrue
    BY <1>2, <1>6 DEF PastInv, StateInv, ReadInv, Covered
  <2>2. Drafts' = Drafts
    BY <1>2, <1>6 DEF Drafts, PastInv, ReadInv
  <2>3. Dirt \subseteq Dirt'
    BY <1>2 DEF Dirt
  <2>4. \A k \in Key : Memo'[k] \in {Memo[k], Absent}
    <3>1. pc = "save manifest" => manifest = Torn
      BY DEF PastInv, LoadInv, Started
    <3>2. Memo' = LoadManifest(manifest)
      BY <1>2 DEF Memo
    <3>3. CASE pc = "save manifest"
      <4>1. Memo' = NoEntries
        BY <3>1, <3>2, <3>3 DEF LoadManifest
      <4> QED
        BY <4>1 DEF NoEntries
    <3>4. CASE pc # "save manifest"
      BY <3>2, <3>4 DEF Memo
    <3> QED
      BY <3>3, <3>4
  <2> QED
    BY <1>1, <1>2, <2>1, <2>2, <2>3, <2>4, StateKept DEF BuildInv
<1> QED
  <2>1. PastInv'
    BY <1>2, <1>3, <1>4, <1>5, <1>6
       DEF PastInv, LoadInv, ReadInv, StateInv, Started, EntryInv, TruthInv, WriteInv, BytesInv,
           DerivedInv, AgreeInv
  <2> QED
    BY <2>1

(* The errors, failures and kills at every step are such ends. *)
LEMMA PastEndsEarly ==
  ASSUME BuildInv, PastInv,
         \/ ScanError \/ NeighboursError \/ RelatedError \/ RenderFails
         \/ KeepDerivedError \/ CollisionError \/ Kill
  PROVE  PastInv'
<1>1. pc # "idle" /\ out' = out
  BY DEF ScanError, NeighboursError, RelatedError, RenderFails, KeepDerivedError,
         CollisionError, Kill
<1>2. \E why \in {"error", "failed", "killed"} : Abandon(why)
  BY DEF ScanError, NeighboursError, RelatedError, RenderFails, KeepDerivedError,
         CollisionError, Kill
<1> QED
  BY <1>1, <1>2, PastAbandons

-----------------------------------------------------------------------------
(* The owner *)

(* What the owner may do to the inputs: a file that is not gone and does not *)
(* say what it said has a stamp that is not in the past, and one in the      *)
(* future of a build that has read the clock.                                *)
Edited ==
    /\ clock' \in Nat /\ clock <= clock'
    /\ \A f \in Source :
          /\ mtime[f] <= mtime'[f] /\ mtime'[f] <= clock'
          /\ \/ mtime'[f] = mtime[f] /\ post'[f] \in {post[f], Absent}
             \/ clock <= mtime'[f] /\ (Started => clock < mtime'[f])
    /\ \A k \in Static :
          /\ stime[k] <= stime'[k] /\ stime'[k] <= clock'
          /\ (stime'[k] = stime[k] /\ static'[k] = static[k]) \/ clock <= stime'[k]
    /\ static' \in [Static -> {1, 2, Absent}]
    /\ ~uncovered' =>
          /\ ~uncovered /\ nav' = nav
          /\ \A k \in Static \cap (Titles \cup {"404"}) : static'[k] = static[k]
          /\ pc = "fingerprint" => layout' = layout

(* Every edit of the owner is such a step. *)
LEMMA OwnerEdits == ASSUME BuildInv, PastInv, Owner PROVE Edited
<1> USE DEF BuildInv, PastInv
<1>1. /\ clock \in Nat /\ mtime \in [Source -> Nat] /\ stime \in [Static -> Nat]
      /\ post \in [Source -> Post \cup {Absent}] /\ static \in [Static -> {1, 2, Absent}]
      /\ \A f \in Source : mtime[f] <= clock
      /\ \A k \in Static : stime[k] <= clock
  BY DEF TypeOK, TimeInv, LoadInv
<1>2. ASSUME clock' \in Ticks
      PROVE  clock' \in Nat /\ clock <= clock' /\ (Started => clock < clock')
  BY <1>1, <1>2 DEF Ticks, Started
<1>3. ASSUME NEW f \in Source, NEW p \in Post, EditPost(f, p) PROVE Edited
  <2>1. /\ clock' \in Ticks /\ mtime' = [mtime EXCEPT ![f] = clock']
        /\ post' = [post EXCEPT ![f] = p] /\ stime' = stime /\ static' = static
        /\ layout' = layout /\ nav' = nav /\ uncovered' = uncovered
    BY <1>3 DEF EditPost
  <2> QED
    BY <1>1, <1>2, <2>1 DEF Edited
<1>4. ASSUME NEW f \in Source, DeletePost(f) PROVE Edited
  <2>1. /\ clock' = clock /\ mtime' = mtime
        /\ post' = [post EXCEPT ![f] = Absent] /\ stime' = stime /\ static' = static
        /\ layout' = layout /\ nav' = nav /\ uncovered' = uncovered
    BY <1>4 DEF DeletePost
  <2> QED
    BY <1>1, <2>1 DEF Edited
<1>5. ASSUME NEW l \in Layout, EditLayout(l) PROVE Edited
  <2>1. /\ clock' = clock /\ mtime' = mtime /\ post' = post /\ stime' = stime
        /\ static' = static /\ nav' = nav /\ uncovered' = (uncovered \/ pc = "fingerprint")
    BY <1>5 DEF EditLayout
  <2>2. ~uncovered' => ~uncovered /\ pc # "fingerprint"
    BY <2>1
  <2> QED
    BY <1>1, <2>1, <2>2 DEF Edited
<1>6. ASSUME NEW n \in Nav, EditNav(n) PROVE Edited
  <2>1. /\ clock' = clock /\ mtime' = mtime /\ post' = post /\ stime' = stime
        /\ static' = static /\ uncovered' = TRUE
    BY <1>6 DEF EditNav
  <2> QED
    BY <1>1, <2>1 DEF Edited
<1>7. ASSUME NEW k \in Static, NEW v \in {1, 2, Absent}, EditStatic(k, v) PROVE Edited
  <2>1. /\ clock' \in Ticks /\ stime' = [stime EXCEPT ![k] = clock']
        /\ static' = [static EXCEPT ![k] = v] /\ mtime' = mtime /\ post' = post
        /\ layout' = layout /\ nav' = nav
        /\ uncovered' = (uncovered \/ k \in Titles \cup {"404"})
    BY <1>7 DEF EditStatic
  <2>2. static' \in [Static -> {1, 2, Absent}]
    BY <1>1, <2>1
  <2>3. ~uncovered' => ~uncovered /\ k \notin Titles \cup {"404"}
    BY <2>1
  <2> QED
    BY <1>1, <1>2, <2>1, <2>2, <2>3 DEF Edited
<1> QED
  BY <1>3, <1>4, <1>5, <1>6, <1>7 DEF Owner

(* An edit makes no entry untrue. *)
LEMMA EditKeepsSource ==
  ASSUME TypeOK, Edited, NEW f \in Source, mtime[f] <= clock, mtime'[f] \in Nat,
         NEW e \in SourceEntry, e.modified <= mtime[f],
         NEW started \in Nat, started <= clock, NEW drafts,
         SourceTrue(e, f, started, drafts)
  PROVE  \/ e.modified < mtime'[f]
         \/ /\ e.output = e.post.title
            /\ e.post.draft => drafts
            /\ e.modified >= started => e.hash \in {e.post, Absent}
            /\ e.modified < started => post'[f] \in {e.post, Absent}
<1>1. e.modified \in Nat /\ mtime[f] \in Nat /\ clock \in Nat
  BY DEF TypeOK, SourceEntry
<1>2. mtime[f] <= mtime'[f]
  BY DEF Edited
<1>3. CASE e.modified < mtime[f]
  BY <1>1, <1>2, <1>3
<1>4. CASE mtime'[f] = mtime[f] /\ post'[f] \in {post[f], Absent}
  BY <1>1, <1>3, <1>4 DEF SourceTrue
<1>5. CASE clock <= mtime'[f]
  BY <1>1, <1>3, <1>5 DEF SourceTrue
<1> QED
  BY <1>4, <1>5 DEF Edited

(* Nor any copy. *)
LEMMA EditKeepsCopy ==
  ASSUME TypeOK, Edited, NEW k \in Static, stime[k] <= clock, stime'[k] \in Nat,
         NEW c, c.modified \in Nat, c.modified <= stime[k],
         NEW started \in Nat, started <= clock, NEW v,
         CopyTrue(c, k, v, started)
  PROVE  \/ c.modified < stime'[k]
         \/ v = StaticBytes(IF c.modified >= started THEN c.hash ELSE static'[k])
<1>1. stime[k] \in Nat /\ clock \in Nat /\ stime[k] <= stime'[k]
  BY DEF TypeOK, Edited
<1>2. CASE c.modified < stime[k]
  BY <1>1, <1>2
<1>3. CASE stime'[k] = stime[k] /\ static'[k] = static[k]
  BY <1>2, <1>3 DEF CopyTrue
<1>4. CASE clock <= stime'[k]
  BY <1>1, <1>2, <1>4 DEF CopyTrue
<1> QED
  BY <1>3, <1>4 DEF Edited

(* The owner's edits show: in the stamps, in the hashes, or as uncovered. *)
LEMMA PastOwner == ASSUME BuildInv, PastInv, BuildInv', Owner PROVE PastInv'
<1> USE DEF BuildInv, PastInv
<1>1. Edited
  BY OwnerEdits
<1>2. still' = FALSE /\ pc' = pc /\ b' = b /\ out' = out /\ state' = state /\ manifest' = manifest
  BY DEF Owner, EditPost, DeletePost, EditLayout, EditNav, EditStatic, MayEdit, stored
<1>3. dirty' = dirty /\ flag' = flag
  BY DEF Owner, EditPost, DeletePost, EditLayout, EditNav, EditStatic
<1>4. /\ mtime \in [Source -> Nat] /\ stime \in [Static -> Nat] /\ clock \in Nat
      /\ mtime' \in [Source -> Nat] /\ stime' \in [Static -> Nat] /\ clock' \in Nat
      /\ state.sources \in [Source -> SourceEntry \cup {Absent}]
  BY DEF TypeOK
<1>5. Started' = Started /\ Dirt' = Dirt /\ Drafts' = Drafts /\ Memo' = Memo
  BY <1>2, <1>3 DEF Started, Dirt, Drafts, Memo
<1>6. Covered' => ~uncovered' /\ ~uncovered /\ Covered
  BY <1>1, <1>2 DEF Covered, ReadInv, Edited
<1>7. Started => /\ b.stamps \in [Source -> Int] /\ b.started \in Nat
                 /\ b.sources \in [Source -> SourceEntry \cup {Absent}]
  BY DEF LocalsInv, Started
<1>8. TimeInv'
  <2>1. \A f \in Source : mtime'[f] <= clock' /\ mtime[f] <= mtime'[f]
    BY <1>1 DEF Edited
  <2>2. \A k \in Static : stime'[k] <= clock' /\ stime[k] <= stime'[k]
    BY <1>1 DEF Edited
  <2>3. clock <= clock'
    BY <1>1 DEF Edited
  <2>4. state.started \in Nat /\ state.started <= clock'
    BY <1>4, <2>3 DEF TimeInv
  <2>5. \A f \in Known(state.sources) : state.sources[f].modified <= mtime'[f]
    <3> TAKE f \in Known(state.sources)
    <3>1. f \in Source /\ state.sources[f] \in SourceEntry
      BY <1>4 DEF Known
    <3>2. state.sources[f].modified \in Nat /\ state.sources[f].modified <= mtime[f]
      BY <3>1 DEF TimeInv, SourceEntry
    <3> QED
      BY <1>4, <2>1, <3>1, <3>2
  <2>6. \A k \in Static : state.copies[k] # Absent =>
          state.copies[k].modified \in Nat /\ state.copies[k].modified <= stime'[k]
    BY <1>4, <2>2 DEF TimeInv
  <2>7. ASSUME Started
        PROVE  /\ b.started <= clock'
               /\ \A f \in Present(b.pages) : b.stamps[f] <= mtime'[f]
               /\ pc = "read" => b.stamps[Min(b.todo)] <= mtime'[Min(b.todo)]
               /\ \A k \in Static : b.copies[k] # Absent =>
                     b.copies[k].modified \in Nat /\ b.copies[k].modified <= stime'[k]
    <3>1. b.started <= clock'
      BY <1>4, <1>7, <2>3, <2>7 DEF TimeInv
    <3>2. \A f \in Present(b.pages) : b.stamps[f] <= mtime'[f]
      BY <1>4, <1>7, <2>1, <2>7 DEF TimeInv, Present
    <3>3. pc = "read" => Min(b.todo) \in Source
      BY EndsInSet DEF LocalsInv
    <3>4. pc = "read" => b.stamps[Min(b.todo)] <= mtime'[Min(b.todo)]
      BY <1>4, <1>7, <2>1, <2>7, <3>3 DEF TimeInv
    <3>5. \A k \in Static : b.copies[k] # Absent =>
            b.copies[k].modified \in Nat /\ b.copies[k].modified <= stime'[k]
      BY <1>4, <2>2, <2>7 DEF TimeInv
    <3> QED
      BY <3>1, <3>2, <3>4, <3>5
  <2> QED
    BY <1>2, <1>5, <2>1, <2>2, <2>4, <2>5, <2>6, <2>7 DEF TimeInv
<1>9. LoadInv'
  BY <1>1, <1>2, <1>5 DEF LoadInv, Edited
<1>10. ReadInv'
  <2>1. ~uncovered' => Plain'
    BY <1>1 DEF ReadInv, Plain, Edited
  <2> QED
    BY <1>1, <1>2, <1>3, <1>5, <1>6, <2>1 DEF ReadInv, Edited
<1>11. StateInv'
  <2> SUFFICES ASSUME ~uncovered' PROVE StateTrue'
    BY <1>2, <1>6 DEF StateInv
  <2>1. StateTrue /\ nav' = nav /\ Shipping \cap {"404"} = Shipping' \cap {"404"}
    BY <1>1, <1>6 DEF StateInv, Edited, Covered, ReadInv, Shipping
  <2>2. ASSUME NEW f \in Known(state.sources)
        PROVE  SourceTrue(state.sources[f], f, state.started, Drafts)'
    <3>1. f \in Source /\ state.sources[f] \in SourceEntry
      BY <1>4 DEF Known
    <3>2. /\ SourceTrue(state.sources[f], f, state.started, Drafts)
          /\ state.sources[f].modified <= mtime[f] /\ mtime[f] <= clock
          /\ state.started \in Nat /\ state.started <= clock
      BY <2>1, <3>1 DEF StateTrue, TimeInv
    <3>3. \/ state.sources[f].modified < mtime'[f]
          \/ /\ state.sources[f].output = state.sources[f].post.title
             /\ state.sources[f].post.draft => Drafts
             /\ state.sources[f].modified >= state.started =>
                   state.sources[f].hash \in {state.sources[f].post, Absent}
             /\ state.sources[f].modified < state.started =>
                   post'[f] \in {state.sources[f].post, Absent}
      BY <1>1, <1>4, <3>1, <3>2, EditKeepsSource
    <3> QED
      BY <1>2, <1>5, <3>3 DEF SourceTrue
  <2>3. ASSUME NEW k \in Static \ Dirt, state.copies[k] # Absent
        PROVE  Memo[k] = Absent \/ CopyTrue(state.copies[k], k, Memo[k], state.started)'
    <3>1. CASE Memo[k] = Absent
      BY <3>1
    <3>2. CASE CopyTrue(state.copies[k], k, Memo[k], state.started)
      <4>1. /\ state.copies[k].modified \in Nat /\ state.copies[k].modified <= stime[k]
            /\ state.started \in Nat /\ state.started <= clock /\ stime[k] <= clock
        BY <2>3 DEF TimeInv
      <4>2. \/ state.copies[k].modified < stime'[k]
            \/ Memo[k] = StaticBytes(IF state.copies[k].modified >= state.started
                                     THEN state.copies[k].hash ELSE static'[k])
        BY <1>1, <1>4, <3>2, <4>1, EditKeepsCopy
      <4> QED
        BY <1>2, <1>5, <4>2 DEF CopyTrue
    <3> QED
      BY <2>1, <2>3, <3>1, <3>2 DEF StateTrue
  <2> QED
    BY <1>2, <1>5, <2>1, <2>2, <2>3 DEF StateTrue
<1>12. EntryInv' /\ WriteInv'
  <2>1. EntryInv'
    BY <1>2, <1>5 DEF EntryInv
  <2>2. WriteInv'
    BY <1>2, <1>5 DEF WriteInv
  <2> QED
    BY <2>1, <2>2
<1>13. TruthInv'
  <2> SUFFICES ASSUME Started, Covered'
               PROVE  /\ \A f \in Present(b.pages) : PageTrue(f)'
                      /\ \A f \in Known(b.sources) :
                            SourceTrue(b.sources[f], f, b.started, b.drafts)'
    BY <1>2, <1>5 DEF TruthInv
  <2>1. Covered
    BY <1>6
  <2>2. ASSUME NEW f \in Present(b.pages) PROVE PageTrue(f)'
    <3>1. f \in Source /\ b.stamps[f] \in Int /\ b.stamps[f] <= mtime[f] /\ mtime[f] <= clock
      BY <1>7 DEF Present, TimeInv
    <3>2. PageTrue(f)
      BY <2>1 DEF TruthInv
    <3>3. mtime[f] <= mtime'[f]
      BY <1>1, <3>1 DEF Edited
    <3>4. CASE b.stamps[f] < mtime'[f]
      BY <1>2, <3>4 DEF PageTrue
    <3>5. CASE mtime'[f] = mtime[f] /\ post'[f] \in {post[f], Absent}
      BY <1>2, <3>2, <3>5 DEF PageTrue
    <3>6. CASE clock < mtime'[f]
      BY <1>4, <3>1, <3>4, <3>6
    <3> QED
      BY <1>1, <3>1, <3>5, <3>6 DEF Edited
  <2>3. ASSUME NEW f \in Known(b.sources)
        PROVE  SourceTrue(b.sources[f], f, b.started, b.drafts)'
    <3>1. f \in Source /\ b.sources[f] \in SourceEntry /\ f \in Present(b.pages)
          /\ b.sources[f].modified = b.stamps[f]
      BY <1>7 DEF Known, EntryInv
    <3>2. /\ SourceTrue(b.sources[f], f, b.started, b.drafts)
          /\ b.sources[f].modified <= mtime[f] /\ mtime[f] <= clock
          /\ b.started \in Nat /\ b.started <= clock
      BY <1>7, <2>1, <3>1 DEF TruthInv, TimeInv
    <3>3. \/ b.sources[f].modified < mtime'[f]
          \/ /\ b.sources[f].output = b.sources[f].post.title
             /\ b.sources[f].post.draft => b.drafts
             /\ b.sources[f].modified >= b.started =>
                   b.sources[f].hash \in {b.sources[f].post, Absent}
             /\ b.sources[f].modified < b.started =>
                   post'[f] \in {b.sources[f].post, Absent}
      BY <1>1, <1>4, <3>1, <3>2, EditKeepsSource
    <3> QED
      BY <1>2, <3>3 DEF SourceTrue
  <2> QED
    BY <2>2, <2>3
<1>14. BytesInv'
  BY <1>2, <1>3, <1>5, <1>6 DEF BytesInv, Rendered
<1>15. DerivedInv'
  <2> SUFFICES ASSUME Started, Covered' PROVE DerivedInv'
    BY <1>5 DEF DerivedInv
  <2>1. Covered /\ DerivedInv
    BY <1>6
  <2>2. \A k \in Titles \cup {"404"} : k \in Shipping' <=> k \in Shipping
    BY <1>1, <1>6 DEF Edited, Shipping
  <2>3. ASSUME pc \in Copying, NEW k \in Static, b.copies[k] # Absent
        PROVE  \/ k \in dirty \ b.changed
               \/ CopyTrue(b.copies[k], k, b.current[k], b.started)'
    <3>1. CASE k \in dirty \ b.changed
      BY <3>1
    <3>2. CASE CopyTrue(b.copies[k], k, b.current[k], b.started)
      <4>1. /\ b.copies[k].modified \in Nat /\ b.copies[k].modified <= stime[k]
            /\ b.started \in Nat /\ b.started <= clock /\ stime[k] <= clock
        BY <1>7, <2>3 DEF TimeInv
      <4>2. \/ b.copies[k].modified < stime'[k]
            \/ b.current[k] = StaticBytes(IF b.copies[k].modified >= b.started
                                          THEN b.copies[k].hash ELSE static'[k])
        BY <1>1, <1>4, <3>2, <4>1, EditKeepsCopy
      <4> QED
        BY <1>2, <4>2 DEF CopyTrue
    <3> QED
      BY <2>1, <2>3, <3>1, <3>2 DEF DerivedInv
  <2> QED
    BY <1>2, <1>3, <2>1, <2>2, <2>3 DEF DerivedInv
<1>16. AgreeInv'
  BY <1>2 DEF AgreeInv
<1> QED
  BY <1>8, <1>9, <1>10, <1>11, <1>12, <1>13, <1>14, <1>15, <1>16
-----------------------------------------------------------------------------
(* The build begins *)

(* Nothing is loaded yet. *)
LEMMA PastBegins ==
  ASSUME BuildInv, PastInv, BuildInv', NEW d \in Flags, NEW f \in Forces, Begin(d, f)
  PROVE  PastInv'
<1> USE DEF BuildInv, PastInv
<1>1. pc = "idle" /\ pc' = "fingerprint" /\ out' = out /\ manifest' = manifest /\ state' = state
      /\ uncovered' = (uncovered \/ d # flag)
  BY DEF Begin, stored
<1>2. /\ b'.drafts = d /\ b'.layout = layout /\ b'.nav = nav
      /\ b'.todo = {g \in Source : post[g] # Absent} /\ b'.changed = {}
  BY DEF Begin
<1>3. post' = post /\ layout' = layout /\ nav' = nav /\ static' = static /\ mtime' = mtime
      /\ stime' = stime /\ clock' = clock /\ dirty' = dirty /\ flag' = flag
  BY DEF Begin, inputs, ghosts
<1>4. ~Started' /\ (~uncovered' => ~uncovered /\ d = flag)
  BY <1>1 DEF Started
<1>5. TimeInv'
  BY <1>1, <1>3, <1>4 DEF TimeInv
<1>6. LoadInv'
  BY <1>3, <1>4 DEF LoadInv
<1>7. ReadInv'
  BY <1>1, <1>2, <1>3, <1>4 DEF ReadInv, Plain, TypeOK
<1>8. StateInv'
  <2> SUFFICES ASSUME ~uncovered' PROVE StateTrue'
    BY <1>1 DEF StateInv
  <2>1. StateTrue
    BY <1>1, <1>4 DEF StateInv
  <2>2. Drafts' = Drafts /\ Dirt' = Dirt /\ Memo' = Memo
    BY <1>1, <1>2, <1>3 DEF Drafts, Dirt, Memo
  <2> QED
    BY <1>1, <1>3, <2>1, <2>2, StateKept
<1> QED
  BY <1>4, <1>5, <1>6, <1>7, <1>8
     DEF EntryInv, TruthInv, WriteInv, BytesInv, DerivedInv, AgreeInv

(* What was saved is loaded. *)
LEMMA PastFingerprints == ASSUME BuildInv, PastInv, BuildInv', Fingerprint PROVE PastInv'
<1> USE DEF BuildInv, PastInv
<1>1. pc = "fingerprint" /\ pc' = "scan" /\ out' = out /\ state' = state /\ manifest' = manifest
      /\ uncovered' = uncovered /\ still' = still
  BY DEF Fingerprint, stored
<1>2. post' = post /\ layout' = layout /\ nav' = nav /\ static' = static /\ mtime' = mtime
      /\ stime' = stime /\ dirty' = dirty /\ flag' = flag
  BY DEF Fingerprint, ghosts
<1>3. clock \in Nat /\ clock' \in Nat /\ clock <= clock'
  BY DEF Fingerprint, TypeOK, Ticks
<1>4. /\ b'.drafts = b.drafts /\ b'.force = b.force /\ b'.layout = b.layout /\ b'.nav = b.nav
      /\ b'.todo = b.todo /\ b'.changed = {} /\ b'.expected = {} /\ b'.collisions = {}
      /\ b'.current = NoEntries /\ b'.prior = state /\ b'.derived = {} /\ b'.started = clock'
      /\ b'.previous = LoadManifest(manifest) /\ b'.fingerprint = layout
      /\ b'.reusable = (~b.force /\ state.fingerprint = layout)
      /\ b'.shipped = {k \in Static : static[k] # Absent}
      /\ b'.pages = [f \in Source |-> Absent]
      /\ b'.sources = [f \in Source |-> Absent]
      /\ b'.copies = [k \in Static |-> Absent]
  BY DEF Fingerprint
<1>5. Present(b'.pages) = {} /\ Known(b'.sources) = {}
  BY <1>4 DEF Present, Known
<1>6. Started' /\ ~(pc' \in Writing) /\ ~(pc' \in Copying) /\ ~(pc' \in Listed) /\ ~(pc' \in Saving)
      /\ ~(pc' \in Rendering)
  BY <1>1 DEF Started, Writing, Copying, Listed, Saving, Rendering
<1>7. Plain' = Plain /\ Shipping' = Shipping /\ Covered' = Covered
  <2>1. Plain' = Plain /\ Shipping' = Shipping
    BY <1>2 DEF Plain, Shipping
  <2> QED
    BY <1>1, <1>4, <2>1 DEF Covered
<1>8. TimeInv'
  <2>1. \A f \in Source : mtime[f] \in Nat /\ mtime[f] <= clock
    BY DEF TypeOK, TimeInv
  <2>2. \A k \in Static : stime[k] \in Nat /\ stime[k] <= clock
    BY DEF TypeOK, TimeInv
  <2>3. \A f \in Source : mtime'[f] <= clock'
    BY <1>2, <1>3, <2>1
  <2>4. \A k \in Static : stime'[k] <= clock'
    BY <1>2, <1>3, <2>2
  <2>5. state.started \in Nat /\ state.started <= clock'
    BY <1>3 DEF TimeInv
  <2>6. DOMAIN b'.copies = Static /\ \A k \in Static : b'.copies[k] = Absent
    BY <1>4
  <2> QED
    BY <1>1, <1>2, <1>3, <1>4, <1>5, <2>3, <2>4, <2>5, <2>6 DEF TimeInv
<1>9. LoadInv'
  <2>1. state.started <= clock'
    BY <1>3 DEF TimeInv
  <2> QED
    BY <1>1, <1>2, <1>4, <2>1 DEF LoadInv
<1>10. ReadInv'
  <2>1. Covered => b.layout = layout
    BY <1>1 DEF ReadInv
  <2> QED
    BY <1>1, <1>2, <1>4, <1>7, <2>1 DEF ReadInv
<1>11. StateInv'
  <2> SUFFICES ASSUME ~uncovered' PROVE StateTrue'
    BY <1>1 DEF StateInv
  <2>1. StateTrue
    BY <1>1 DEF StateInv
  <2>2. b.changed = {}
    BY <1>1 DEF ReadInv
  <2>3. Drafts' = Drafts /\ Dirt' = Dirt /\ Memo' = Memo
    BY <1>1, <1>2, <1>4, <2>2 DEF Drafts, Dirt, Memo
  <2> QED
    BY <1>1, <1>2, <2>1, <2>3, StateKept
<1>12. EntryInv' /\ TruthInv' /\ BytesInv'
  <2>1. \A f \in Source : b'.pages[f] = Absent
    BY <1>4
  <2>2. b'.todo \subseteq Source
    BY <1>6 DEF LocalsInv, Started
  <2> QED
    BY <1>1, <1>4, <1>5, <1>6, <2>1, <2>2 DEF EntryInv, TruthInv, BytesInv
<1>13. WriteInv'
  <2>1. \A k \in Key : b'.current[k] = Absent
    BY <1>4 DEF NoEntries
  <2>2. \A k \in Static : b'.copies[k] = Absent
    BY <1>4
  <2> QED
    BY <1>4, <1>6, <2>1, <2>2 DEF WriteInv
<1>14. DerivedInv'
  <2>1. b'.shipped = Shipping
    BY <1>4 DEF Shipping
  <2> QED
    BY <1>6, <1>7, <2>1 DEF DerivedInv
<1>15. AgreeInv'
  <2> SUFFICES ASSUME still' PROVE AgreeInv'
    BY DEF AgreeInv
  <2>1. b'.todo = {f \in Source : post[f] # Absent}
    BY <1>1, <1>4 DEF ReadInv
  <2>2. \A f \in Source : f \notin b'.todo => FreshPages(b.drafts)'[f] = Absent
    BY <1>2, <2>1 DEF FreshPages
  <2>3. b'.shipped = Shipping'
    BY <1>2, <1>4 DEF Shipping
  <2>4. \A f \in b'.todo : post'[f] # Absent
    BY <1>2, <2>1
  <2> QED
    BY <1>1, <1>5, <1>6, <2>2, <2>3, <2>4 DEF AgreeInv
<1> QED
  BY <1>8, <1>9, <1>10, <1>11, <1>12, <1>13, <1>14, <1>15

-----------------------------------------------------------------------------
(* The walk of the sources *)

(* Before pages are rendered there is nothing to say of what was written. *)
LEMMA NothingWritten ==
  ASSUME WriteInv, Started', pc \in {"scan", "read", "related"},
         pc' \in {"scan", "read", "related"},
         b'.expected = b.expected, b'.collisions = b.collisions, b'.changed = b.changed,
         b'.current = b.current, b'.previous = b.previous, b'.derived = b.derived,
         b'.copies = b.copies
  PROVE  WriteInv' /\ BytesInv'
<1>1. Started /\ pc \notin Writing /\ pc \notin Copying /\ pc \notin Saving
      /\ pc \notin Rendering
  BY DEF Started, Writing, Copying, Saving, Rendering
<1>2. pc' \notin Writing /\ pc' \notin Copying /\ pc' \notin Saving /\ pc' \notin Rendering
  BY DEF Writing, Copying, Saving, Rendering
<1>3. b.expected = {} /\ b.collisions = {}
  BY <1>1 DEF WriteInv
<1>4. WriteInv'
  BY <1>1, <1>2, <1>3 DEF WriteInv
<1> QED
  BY <1>2, <1>3, <1>4 DEF BytesInv

(* A source is stamped. *)
LEMMA PastScanStamps == ASSUME BuildInv, PastInv, BuildInv', ScanStamp PROVE PastInv'
<1> USE DEF BuildInv, PastInv
<1>1. pc = "scan" /\ pc' = "read" /\ b.todo # {}
  BY DEF ScanStamp
<1>2. PICK f : f = Min(b.todo)
  OBVIOUS
<1>3. f \in b.todo /\ f \in Source
  BY <1>1, <1>2, EndsInSet DEF LocalsInv
<1>4. DOMAIN b = Locals /\ b.stamps \in [Source -> Int]
  BY <1>1 DEF LocalsInv
<1>5. b' = [b EXCEPT !.stamps[f] = IF post[f] = Absent THEN 0 ELSE mtime[f]]
  BY <1>2 DEF ScanStamp
<1>6. \A x \in Locals \ {"stamps"} : b'[x] = b[x]
  BY <1>4, <1>5
<1>7. b'.stamps[f] = (IF post[f] = Absent THEN 0 ELSE mtime[f])
      /\ \A g \in Source \ {f} : b'.stamps[g] = b.stamps[g]
  BY <1>3, <1>4, <1>5 DEF Locals
<1>8. /\ b'.todo = b.todo /\ b'.changed = b.changed /\ b'.expected = b.expected
      /\ b'.collisions = b.collisions /\ b'.current = b.current /\ b'.derived = b.derived
      /\ b'.shipped = b.shipped /\ b'.pages = b.pages /\ b'.sources = b.sources
      /\ b'.copies = b.copies
  BY <1>6 DEF Locals, Early
<1>9. SameReading
  BY <1>6 DEF Locals, Early, SameReading
<1>10. Works
  BY <1>1, <1>8, <1>9 DEF Works, Working, ScanStamp, stored, ghosts
<1>11. /\ LoadInv' /\ ReadInv' /\ StateInv'
       /\ Started /\ Started' /\ Covered' = Covered /\ Shipping' = Shipping
       /\ post' = post /\ mtime' = mtime /\ stime' = stime /\ clock' = clock /\ state' = state
       /\ still' = still
  BY <1>10, WorkKeeps
<1>12. b'.stamps[f] <= mtime[f]
  BY <1>3, <1>7 DEF TypeOK
<1>13. TimeInv'
  <2>1. \A g \in Present(b.pages) : b'.stamps[g] <= mtime[g]
    BY <1>7, <1>11, <1>12 DEF TimeInv, Present
  <2> QED
    BY <1>1, <1>2, <1>8, <1>9, <1>11, <1>12, <2>1 DEF TimeInv, SameReading
<1>14. WriteInv' /\ BytesInv'
  BY <1>1, <1>8, <1>9, <1>11, NothingWritten DEF SameReading
<1>15. \A g \in Present(b.pages) : b'.stamps[g] = b.stamps[g]
  <2>1. f \notin Present(b.pages)
    BY <1>1, <1>3, <1>11 DEF EntryInv, Scanning, Present
  <2> QED
    BY <1>7, <2>1 DEF Present
<1>16. EntryInv'
  <2>1. \A g \in Known(b.sources) : g \in Present(b.pages) /\ b.sources[g].modified = b.stamps[g]
    BY <1>11 DEF EntryInv
  <2>2. \A g \in Known(b'.sources) :
          g \in Present(b'.pages) /\ b'.sources[g].modified = b'.stamps[g]
    BY <1>8, <1>15, <2>1
  <2> QED
    BY <1>1, <1>8, <1>9, <1>11, <2>2
       DEF EntryInv, SameReading, Scanning, Writing, Listed, Rendering, Saving
<1>17. TruthInv'
  <2>1. \A g \in Present(b'.pages) : PageTrue(g)' = PageTrue(g)
    BY <1>8, <1>9, <1>11, <1>15 DEF PageTrue, SameReading
  <2>2. \A g : SourceTrue(b.sources[g], g, b.started, b.drafts)'
                 = SourceTrue(b.sources[g], g, b.started, b.drafts)
    BY <1>8, <1>9, <1>11 DEF SourceTrue, SameReading
  <2> QED
    BY <1>8, <1>11, <2>1, <2>2 DEF TruthInv
<1>18. DerivedInv'
  BY <1>1, <1>8, <1>11 DEF DerivedInv, Copying, Saving
<1>19. AgreeInv'
  <2> SUFFICES ASSUME Covered, still PROVE AgreeInv'
    BY <1>11 DEF AgreeInv
  <2>1. post[f] # Absent
    BY <1>3, <1>11 DEF AgreeInv
  <2>2. FreshPages(b.drafts)' = FreshPages(b.drafts)
    BY <1>9, <1>11 DEF FreshPages, SameReading
  <2> QED
    BY <1>1, <1>2, <1>7, <1>8, <1>11, <1>15, <2>1, <2>2
       DEF AgreeInv, Copying, Writing, Rendering, Saving
<1> QED
  BY <1>11, <1>13, <1>14, <1>16, <1>17, <1>18, <1>19

(* The walk moves past a source f, for which it has found the page p (or     *)
(* none) and the entry e.                                                    *)
LEMMA PastScanMoves ==
  ASSUME BuildInv, PastInv, BuildInv', Works, pc = "read", pc' = "scan",
         NEW f, f = Min(b.todo), NEW p \in PageRecord \cup {Absent},
         NEW e \in SourceEntry \cup {Absent},
         b'.todo = b.todo \ {f}, b'.pages = [b.pages EXCEPT ![f] = p],
         b'.sources = [b.sources EXCEPT ![f] = e],
         b'.changed = b.changed, b'.expected = b.expected, b'.collisions = b.collisions,
         b'.current = b.current, b'.derived = b.derived, b'.shipped = b.shipped,
         b'.copies = b.copies, b'.stamps = b.stamps,
         e # Absent => p # Absent /\ e.modified = b.stamps[f],
         p # Absent /\ ~p.parsed =>
            /\ b.reusable /\ e # Absent /\ e = state.sources[f]
            /\ e.post = p.post /\ e.output = p.output,
         Covered /\ p # Absent =>
            \/ b.stamps[f] < mtime[f]
            \/ /\ p.output = p.post.title /\ (p.post.draft => b.drafts)
               /\ post[f] \in {p.post, Absent},
         Covered /\ e # Absent => SourceTrue(e, f, b.started, b.drafts),
         Covered /\ still /\ p = Absent => FreshPages(b.drafts)[f] = Absent
  PROVE  PastInv'
<1> USE DEF BuildInv, PastInv
<1>1. b.todo \subseteq Source /\ f \in b.todo /\ f \in Source
  BY EndsInSet DEF LocalsInv
<1>2. /\ LoadInv' /\ ReadInv' /\ StateInv'
      /\ Started /\ Started' /\ Covered' = Covered /\ Shipping' = Shipping
      /\ post' = post /\ mtime' = mtime /\ stime' = stime /\ clock' = clock /\ state' = state
      /\ still' = still
  BY WorkKeeps
<1>3. b.pages \in [Source -> PageRecord \cup {Absent}]
      /\ b.sources \in [Source -> SourceEntry \cup {Absent}]
  BY DEF LocalsInv
<1>4. /\ b'.pages[f] = p /\ b'.sources[f] = e
      /\ \A g \in Source \ {f} : b'.pages[g] = b.pages[g] /\ b'.sources[g] = b.sources[g]
  BY <1>1, <1>3
<1>5. SameReading
  BY DEF Works
<1>6. TimeInv'
  <2>1. \A g \in Present(b'.pages) : b'.stamps[g] <= mtime'[g]
    <3>1. b.stamps[f] <= mtime[f]
      BY <1>2 DEF TimeInv
    <3>2. \A g \in Present(b.pages) : b.stamps[g] <= mtime[g]
      BY <1>2 DEF TimeInv
    <3> QED
      BY <1>2, <1>4, <3>1, <3>2 DEF Present
  <2> QED
    BY <1>2, <1>5, <2>1 DEF TimeInv, SameReading
<1>7. WriteInv' /\ BytesInv'
  BY <1>2, <1>5, NothingWritten DEF SameReading
<1>8. \A g \in Present(b'.pages) \ {f} : g \in Present(b.pages)
  BY <1>4 DEF Present
<1>9. \A g \in Known(b'.sources) \ {f} : g \in Known(b.sources)
  BY <1>4 DEF Known
<1>10. EntryInv'
  <2>1. \A g \in b'.todo : b'.pages[g] = Absent
    <3>1. \A g \in b.todo : b.pages[g] = Absent
      BY <1>2 DEF EntryInv, Scanning
    <3> QED
      BY <1>1, <1>4, <3>1
  <2>2. \A g \in Known(b'.sources) :
          g \in Present(b'.pages) /\ b'.sources[g].modified = b'.stamps[g]
    <3> TAKE g \in Known(b'.sources)
    <3>1. CASE g = f
      BY <1>1, <1>4, <3>1 DEF Known, Present
    <3>2. CASE g # f
      BY <1>2, <1>4, <1>9, <3>2 DEF EntryInv, Known, Present
    <3> QED
      BY <3>1, <3>2
  <2>3. ASSUME NEW g \in Present(b'.pages), ~b'.pages[g].parsed
        PROVE  /\ b'.reusable /\ b'.sources[g] # Absent /\ b'.sources[g] = state'.sources[g]
               /\ b'.sources[g].post = b'.pages[g].post
               /\ b'.sources[g].output = b'.pages[g].output
    <3>1. CASE g = f
      BY <1>1, <1>2, <1>4, <1>5, <2>3, <3>1 DEF Present, SameReading
    <3>2. CASE g # f
      BY <1>2, <1>4, <1>5, <1>8, <2>3, <3>2 DEF EntryInv, Present, SameReading
    <3> QED
      BY <3>1, <3>2
  <2> QED
    BY <2>1, <2>2, <2>3 DEF EntryInv, Writing, Listed, Rendering, Saving
<1>11. TruthInv'
  <2> SUFFICES ASSUME Covered
               PROVE  /\ \A g \in Present(b'.pages) : PageTrue(g)'
                      /\ \A g \in Known(b'.sources) :
                            SourceTrue(b.sources[g], g, b.started, b.drafts)'
    BY <1>2 DEF TruthInv
  <2>1. ASSUME NEW g \in Present(b'.pages) PROVE PageTrue(g)'
    <3>1. CASE g = f
      BY <1>1, <1>2, <1>4, <1>5, <2>1, <3>1 DEF PageTrue, Present, SameReading
    <3>2. CASE g # f
      <4>1. PageTrue(g) /\ g \in Source
        BY <1>2, <1>8, <2>1, <3>2 DEF TruthInv, Present
      <4> QED
        BY <1>2, <1>4, <1>5, <3>2, <4>1 DEF PageTrue, SameReading
    <3> QED
      BY <3>1, <3>2
  <2>2. ASSUME NEW g \in Known(b'.sources)
        PROVE  SourceTrue(b.sources[g], g, b.started, b.drafts)'
    <3>1. CASE g = f
      <4>1. SourceTrue(e, f, b.started, b.drafts)
        BY <1>4, <2>2, <3>1 DEF Known
      <4> QED
        BY <1>2, <1>4, <1>5, <3>1, <4>1 DEF SourceTrue, SameReading
    <3>2. CASE g # f
      <4>1. SourceTrue(b.sources[g], g, b.started, b.drafts) /\ g \in Source
        BY <1>2, <1>9, <2>2, <3>2 DEF TruthInv, Known
      <4> QED
        BY <1>2, <1>4, <1>5, <3>2, <4>1 DEF SourceTrue, SameReading
    <3> QED
      BY <3>1, <3>2
  <2> QED
    BY <2>1, <2>2
<1>12. DerivedInv'
  BY <1>2 DEF DerivedInv, Copying, Saving
<1>13. AgreeInv'
  <2> SUFFICES ASSUME Covered, still PROVE AgreeInv'
    BY <1>2 DEF AgreeInv
  <2>1. post[f] # Absent /\ b.stamps[f] = mtime[f]
    BY <1>1, <1>2 DEF AgreeInv
  <2>2. FreshPages(b.drafts)' = FreshPages(b.drafts)
    BY <1>2, <1>5 DEF FreshPages, SameReading
  <2>3. \A g \in Present(b'.pages) : b'.stamps[g] = mtime'[g] /\ post'[g] # Absent
    <3> TAKE g \in Present(b'.pages)
    <3>1. CASE g = f
      BY <1>2, <2>1, <3>1
    <3>2. CASE g # f
      BY <1>2, <1>8, <3>2 DEF AgreeInv
    <3> QED
      BY <3>1, <3>2
  <2>4. ASSUME NEW g \in Source, g \notin Present(b'.pages) \cup b'.todo
        PROVE  FreshPages(b.drafts)[g] = Absent
    <3>1. CASE g = f
      BY <1>4, <2>4, <3>1 DEF Present
    <3>2. CASE g # f
      <4>1. g \notin Present(b.pages) \cup b.todo
        BY <1>4, <2>4, <3>2 DEF Present
      <4> QED
        BY <1>2, <4>1 DEF AgreeInv
    <3> QED
      BY <3>1, <3>2
  <2>5. b'.shipped = Shipping' /\ \A g \in b'.todo : post'[g] # Absent
    BY <1>2 DEF AgreeInv, Copying, Saving
  <2> QED
    BY <1>2, <2>2, <2>3, <2>4, <2>5 DEF AgreeInv, Copying, Writing, Rendering, Saving
<1> QED
  BY <1>2, <1>6, <1>7, <1>10, <1>11, <1>12, <1>13

(* What Unchanged finds of a source is the truth about it. *)
LEMMA UnchangedIsTrue ==
  ASSUME BuildInv, PastInv, pc = "read", NEW f \in Source, f = Min(b.todo), Unchanged(f), Covered,
         NEW e, e = state.sources[f]
  PROVE  /\ SourceTrue(e, f, b.started, b.drafts)
         /\ \/ b.stamps[f] < mtime[f]
            \/ /\ e.output = e.post.title /\ (e.post.draft => b.drafts)
               /\ post[f] \in {e.post, Absent}
<1> USE DEF BuildInv, PastInv
<1>1. Started
  BY DEF Started
<1>2. b.prior = state /\ state.started <= b.started /\ b.reusable /\ ~b.force
  BY <1>1 DEF LoadInv, Unchanged
<1>3. ~uncovered /\ b.drafts = flag
  BY <1>2 DEF Covered, ReadInv
<1>4. e \in SourceEntry /\ f \in Known(state.sources)
  BY <1>2 DEF Unchanged, TypeOK, Known
<1>5. SourceTrue(e, f, state.started, b.drafts)
  BY <1>3, <1>4 DEF StateInv, StateTrue, Drafts
<1>6. /\ e.modified \in Nat /\ state.started \in Nat /\ b.started \in Nat /\ mtime[f] \in Nat
      /\ e.modified = b.stamps[f] /\ e.modified <= mtime[f]
  BY <1>1, <1>2, <1>4 DEF SourceEntry, TimeInv, LocalsInv, TypeOK, Unchanged, Started
<1>7. e.modified < state.started \/ (post[f] # Absent /\ e.hash = post[f])
  BY <1>2 DEF Unchanged, Settled
<1>8. CASE e.modified < mtime[f]
  BY <1>6, <1>8 DEF SourceTrue
<1>9. CASE ~(e.modified < mtime[f])
  <2>1. /\ e.output = e.post.title /\ (e.post.draft => b.drafts)
        /\ e.modified >= state.started => e.hash \in {e.post, Absent}
        /\ e.modified < state.started => post[f] \in {e.post, Absent}
    BY <1>5, <1>9 DEF SourceTrue
  <2>2. post[f] \in {e.post, Absent}
    BY <1>6, <1>7, <2>1
  <2>3. e.modified >= b.started => e.hash \in {e.post, Absent}
    BY <1>2, <1>6, <2>1
  <2> QED
    BY <2>1, <2>2, <2>3 DEF SourceTrue
<1> QED
  BY <1>8, <1>9

(* A source left alone, held back or read. *)
LEMMA PastScans ==
  ASSUME BuildInv, PastInv, BuildInv', ScanKeep \/ ScanHold \/ ScanLoad
  PROVE  PastInv'
<1> USE DEF BuildInv, PastInv
<1>1. pc = "read" /\ pc' = "scan" /\ Started
  BY DEF ScanKeep, ScanHold, ScanLoad, Started
<1>2. PICK f : f = Min(b.todo)
  OBVIOUS
<1>3. f \in b.todo /\ f \in Source
  BY <1>1, <1>2, EndsInSet DEF LocalsInv
<1>4. DOMAIN b = Locals /\ b.pages \in [Source -> PageRecord \cup {Absent}]
      /\ b.sources \in [Source -> SourceEntry \cup {Absent}]
  BY <1>1 DEF LocalsInv
<1>5. b.pages[f] = Absent /\ b.sources[f] = Absent
  <2>1. b.pages[f] = Absent
    BY <1>1, <1>3 DEF EntryInv, Scanning
  <2>2. f \in Known(b.sources) => f \in Present(b.pages)
    BY <1>1 DEF EntryInv
  <2> QED
    BY <1>3, <2>1, <2>2 DEF Known, Present
<1>6. /\ UNCHANGED <<inputs, manifest, state, still, dirty, flag, uncovered>>
      /\ out' = out
  BY DEF ScanKeep, ScanHold, ScanLoad, stored, ghosts
<1>7. ASSUME \A x \in Locals \ {"todo", "pages", "sources"} : b'[x] = b[x]
      PROVE  /\ Works
             /\ b'.changed = b.changed /\ b'.expected = b.expected
             /\ b'.collisions = b.collisions /\ b'.current = b.current
             /\ b'.derived = b.derived /\ b'.shipped = b.shipped
             /\ b'.copies = b.copies /\ b'.stamps = b.stamps
  <2>1. SameReading
    BY <1>7 DEF SameReading, Locals, Early
  <2>2. /\ b'.changed = b.changed /\ b'.expected = b.expected
        /\ b'.collisions = b.collisions /\ b'.current = b.current
        /\ b'.derived = b.derived /\ b'.shipped = b.shipped
        /\ b'.copies = b.copies /\ b'.stamps = b.stamps
    BY <1>7 DEF Locals, Early
  <2> QED
    BY <1>1, <1>6, <2>1, <2>2 DEF Works, Working
<1>8. CASE ScanKeep
  <2>1. Unchanged(f) /\ b.prior = state
    BY <1>1, <1>2, <1>8 DEF ScanKeep, LoadInv
  <2>2. PICK e : e = state.sources[f]
    OBVIOUS
  <2>3. e \in SourceEntry /\ e # Absent /\ b.reusable /\ e.modified = b.stamps[f]
    BY <1>3, <2>1, <2>2 DEF Unchanged, TypeOK
  <2>4. PICK p : p = [parsed |-> FALSE, post |-> e.post, output |-> e.output]
    OBVIOUS
  <2>5. p \in PageRecord /\ p.post = e.post /\ p.output = e.output
    BY <2>3, <2>4 DEF PageRecord, SourceEntry
  <2>6. b' = [b EXCEPT !.todo = @ \ {f}, !.pages[f] = p, !.sources[f] = e]
    BY <1>2, <1>8, <2>1, <2>2, <2>4 DEF ScanKeep, Advance
  <2>7. \A x \in Locals \ {"todo", "pages", "sources"} : b'[x] = b[x]
    BY <1>4, <2>6
  <2>8. b'.todo = b.todo \ {f} /\ b'.pages = [b.pages EXCEPT ![f] = p]
        /\ b'.sources = [b.sources EXCEPT ![f] = e]
    BY <1>4, <2>6 DEF Locals, Early
  <2>9. p # Absent
    BY <2>5, AbsentAssumption
  <2>10. Covered =>
           /\ SourceTrue(e, f, b.started, b.drafts)
           /\ \/ b.stamps[f] < mtime[f]
              \/ /\ p.output = p.post.title /\ (p.post.draft => b.drafts)
                 /\ post[f] \in {p.post, Absent}
    BY <1>1, <1>2, <1>3, <2>1, <2>2, <2>5, UnchangedIsTrue
  <2> QED
    BY <1>1, <1>2, <1>7, <2>2, <2>3, <2>5, <2>7, <2>8, <2>9, <2>10, PastScanMoves
<1>9. CASE ScanHold
  <2>1. b' = [b EXCEPT !.todo = @ \ {f}]
    BY <1>2, <1>9 DEF ScanHold, Advance
  <2>2. \A x \in Locals \ {"todo", "pages", "sources"} : b'[x] = b[x]
    BY <1>4, <2>1
  <2>3. b'.todo = b.todo \ {f} /\ b'.pages = b.pages /\ b'.sources = b.sources
    BY <1>4, <2>1 DEF Locals, Early
  <2>4. b'.pages = [b.pages EXCEPT ![f] = Absent] /\ b'.sources = [b.sources EXCEPT ![f] = Absent]
    BY <1>3, <1>4, <1>5, <2>3
  <2>5. FreshPages(b.drafts)[f] = Absent
    BY <1>2, <1>3, <1>9 DEF ScanHold, Held, FreshPages
  <2> QED
    BY <1>1, <1>2, <1>7, <2>2, <2>3, <2>4, <2>5, PastScanMoves
<1>10. CASE ScanLoad
  <2>1. PICK p : p = [parsed |-> TRUE, post |-> post[f], output |-> post[f].title]
    OBVIOUS
  <2>2. post[f] \in Post /\ ~Held(f)
    BY <1>2, <1>3, <1>10 DEF ScanLoad, TypeOK
  <2>3. p \in PageRecord
    BY <2>1, <2>2 DEF PageRecord, Titles
  <2>4. b' = [b EXCEPT !.todo = @ \ {f}, !.pages[f] = p]
    BY <1>2, <1>10, <2>1 DEF ScanLoad, Advance
  <2>5. \A x \in Locals \ {"todo", "pages", "sources"} : b'[x] = b[x]
    BY <1>4, <2>4
  <2>6. b'.todo = b.todo \ {f} /\ b'.pages = [b.pages EXCEPT ![f] = p] /\ b'.sources = b.sources
    BY <1>4, <2>4 DEF Locals, Early
  <2>7. b'.sources = [b.sources EXCEPT ![f] = Absent]
    BY <1>3, <1>4, <1>5, <2>6
  <2>8. /\ p.output = p.post.title /\ (p.post.draft => b.drafts) /\ p.parsed
        /\ post[f] \in {p.post, Absent}
    BY <2>1, <2>2 DEF Held
  <2>9. p # Absent
    BY <2>3, AbsentAssumption
  <2> QED
    BY <1>1, <1>2, <1>7, <2>3, <2>5, <2>6, <2>7, <2>8, <2>9, PastScanMoves
<1> QED
  BY <1>8, <1>9, <1>10

-----------------------------------------------------------------------------
(* Pages are placed between their neighbours and related *)

(* What a page read again says is true, and if nobody disturbed the build it *)
(* is what it said before.                                                   *)
LEMMA ReadAgainTrue ==
  ASSUME BuildInv, PastInv, Started, Covered,
         NEW files \in SUBSET Present(b.pages), \A f \in files : post[f] # Absent,
         NEW f \in Present(b.pages)
  PROVE  /\ \/ b.stamps[f] < mtime[f]
            \/ /\ ReadAgain(files)[f].output = ReadAgain(files)[f].post.title
               /\ ReadAgain(files)[f].post.draft => b.drafts
               /\ post[f] \in {ReadAgain(files)[f].post, Absent}
         /\ still => ReadAgain(files)[f].post = b.pages[f].post
<1> USE DEF BuildInv, PastInv
<1>1. f \in Source /\ PageTrue(f)
  BY DEF Present, TruthInv
<1>2. CASE f \notin files
  BY <1>1, <1>2 DEF ReadAgain, PageTrue
<1>3. CASE f \in files
  <2>1. /\ ReadAgain(files)[f].post = post[f] /\ ReadAgain(files)[f].output = b.pages[f].output
        /\ post[f] # Absent
    BY <1>1, <1>3 DEF ReadAgain
  <2>2. still => b.stamps[f] = mtime[f] /\ mtime[f] \in Nat
    BY <1>1 DEF AgreeInv, TypeOK
  <2> QED
    BY <2>1, <2>2, <1>1 DEF PageTrue
<1> QED
  BY <1>2, <1>3

(* Outputs stay, and what is still left alone is what it was. *)
LEMMA ReadAgainSame ==
  ASSUME NEW files \in SUBSET Present(b.pages), NEW f \in Present(b.pages)
  PROVE  /\ ReadAgain(files)[f].output = b.pages[f].output
         /\ ~ReadAgain(files)[f].parsed =>
               f \notin files /\ ReadAgain(files)[f] = b.pages[f] /\ ~b.pages[f].parsed
BY DEF ReadAgain, Present

(* Entries and pages that are read again or left alone stay true. *)
LEMMA RereadingIsTrue ==
  ASSUME BuildInv, PastInv, Works, NEW files \in SUBSET Present(b.pages),
         \A f \in files : post[f] # Absent,
         b'.pages = ReadAgain(files), b'.sources = b.sources, b'.stamps = b.stamps
  PROVE  /\ TruthInv'
         /\ Present(b'.pages) = Present(b.pages)
         /\ Covered /\ still =>
               /\ \A f \in Present(b.pages) : Around(b'.pages, f) = Around(b.pages, f)
               /\ \A f \in Present(b.pages) : Related(b'.pages, f) = Related(b.pages, f)
<1> USE DEF BuildInv, PastInv
<1>1. /\ Started /\ Started' /\ Covered' = Covered /\ post' = post /\ mtime' = mtime /\ SameReading
  BY WorkKeeps DEF Works
<1>2. Present(b'.pages) = Present(b.pages)
  BY <1>1, ReadAgainKeeps DEF LocalsInv, Started
<1>3. TruthInv'
  <2> SUFFICES ASSUME Covered
               PROVE  /\ \A f \in Present(b.pages) : PageTrue(f)'
                      /\ \A f \in Known(b.sources) :
                            SourceTrue(b.sources[f], f, b.started, b.drafts)'
    BY <1>1, <1>2 DEF TruthInv
  <2>1. \A f \in Present(b.pages) : PageTrue(f)'
    <3> TAKE f \in Present(b.pages)
    <3>1. \/ b.stamps[f] < mtime[f]
          \/ /\ ReadAgain(files)[f].output = ReadAgain(files)[f].post.title
             /\ ReadAgain(files)[f].post.draft => b.drafts
             /\ post[f] \in {ReadAgain(files)[f].post, Absent}
      BY <1>1, ReadAgainTrue
    <3> QED
      BY <1>1, <3>1 DEF PageTrue, SameReading
  <2>2. \A f \in Known(b.sources) : SourceTrue(b.sources[f], f, b.started, b.drafts)'
    BY <1>1 DEF TruthInv, SourceTrue, SameReading
  <2> QED
    BY <2>1, <2>2
<1>4. ASSUME Covered, still
      PROVE  /\ \A f \in Present(b.pages) : Around(b'.pages, f) = Around(b.pages, f)
             /\ \A f \in Present(b.pages) : Related(b'.pages, f) = Related(b.pages, f)
  <2>1. \A f \in Present(b.pages) :
          b'.pages[f].post = b.pages[f].post /\ b'.pages[f].output = b.pages[f].output
    BY <1>1, <1>4, ReadAgainTrue, ReadAgainSame
  <2>2. PICK q : q = b'.pages
    OBVIOUS
  <2> QED
    BY <1>2, <2>1, <2>2, ShownAlike
<1> QED
  BY <1>2, <1>3, <1>4

(* The posts either side of each page are worked out. *)
LEMMA PastNeighbours == ASSUME BuildInv, PastInv, BuildInv', Neighbours PROVE PastInv'
<1> USE DEF BuildInv, PastInv
<1>1. pc = "scan" /\ pc' = "related" /\ b.todo = {}
  BY DEF Neighbours
<1>2. DOMAIN b = Locals /\ b.pages \in [Source -> PageRecord \cup {Absent}]
  BY <1>1 DEF LocalsInv
<1>3. PICK moved : moved = {f \in Present(b.pages) : Moved(f)}
  OBVIOUS
<1>4. (\A f \in moved : post[f] # Absent) /\ moved \in SUBSET Present(b.pages)
  BY <1>3 DEF Neighbours
<1>5. b' = [b EXCEPT !.around = [f \in Source |->
                        IF f \in Present(b.pages) THEN Around(b.pages, f) ELSE Absent],
                     !.pages = ReadAgain(moved)]
  BY <1>3 DEF Neighbours
<1>6. \A x \in Locals \ {"around", "pages"} : b'[x] = b[x]
  BY <1>2, <1>5
<1>7. /\ b'.pages = ReadAgain(moved)
      /\ \A f \in Source : f \in Present(b.pages) => b'.around[f] = Around(b.pages, f)
  BY <1>2, <1>5 DEF Locals, Early
<1>8. /\ b'.todo = b.todo /\ b'.changed = b.changed /\ b'.expected = b.expected
      /\ b'.collisions = b.collisions /\ b'.current = b.current /\ b'.derived = b.derived
      /\ b'.shipped = b.shipped /\ b'.sources = b.sources
      /\ b'.copies = b.copies /\ b'.stamps = b.stamps
  BY <1>6 DEF Locals, Early
<1>9. SameReading
  BY <1>6 DEF Locals, Early, SameReading
<1>10. Works
  BY <1>1, <1>8, <1>9 DEF Works, Working, Neighbours, stored, ghosts
<1>11. /\ LoadInv' /\ ReadInv' /\ StateInv'
       /\ Started /\ Started' /\ Covered' = Covered /\ Shipping' = Shipping
       /\ post' = post /\ mtime' = mtime /\ stime' = stime /\ clock' = clock /\ state' = state
       /\ still' = still
  BY <1>10, WorkKeeps
<1>12. /\ TruthInv' /\ Present(b'.pages) = Present(b.pages)
       /\ Covered /\ still =>
             \A f \in Present(b.pages) : Around(b'.pages, f) = Around(b.pages, f)
  BY <1>4, <1>7, <1>8, <1>10, RereadingIsTrue
<1>13. TimeInv'
  BY <1>1, <1>8, <1>9, <1>11, <1>12 DEF TimeInv, SameReading
<1>14. WriteInv' /\ BytesInv'
  BY <1>1, <1>8, <1>9, <1>11, NothingWritten DEF SameReading
<1>15. EntryInv'
  <2>1. \A f \in Known(b'.sources) :
          f \in Present(b'.pages) /\ b'.sources[f].modified = b'.stamps[f]
    <3>1. \A f \in Known(b.sources) : f \in Present(b.pages) /\ b.sources[f].modified = b.stamps[f]
      BY <1>11 DEF EntryInv
    <3> QED
      BY <1>8, <1>12, <3>1
  <2>2. ASSUME NEW f \in Present(b.pages), ~b'.pages[f].parsed
        PROVE  /\ b'.reusable /\ b'.sources[f] # Absent /\ b'.sources[f] = state'.sources[f]
               /\ b'.sources[f].post = b'.pages[f].post
               /\ b'.sources[f].output = b'.pages[f].output
               /\ b'.sources[f].around = b'.around[f]
    <3>1. f \notin moved /\ b'.pages[f] = b.pages[f] /\ ~b.pages[f].parsed /\ f \in Source
      BY <1>4, <1>7, <2>2, ReadAgainSame DEF Present
    <3>2. /\ b.reusable /\ b.sources[f] # Absent /\ b.sources[f] = state.sources[f]
          /\ b.sources[f].post = b.pages[f].post
          /\ b.sources[f].output = b.pages[f].output
      BY <1>1, <1>11, <3>1 DEF EntryInv
    <3>3. b.prior.sources[f].around = Around(b.pages, f) /\ b.prior = state
      BY <1>1, <1>3, <1>11, <3>1 DEF Moved, LoadInv
    <3> QED
      BY <1>7, <1>8, <1>9, <1>11, <3>1, <3>2, <3>3 DEF SameReading
  <2> QED
    BY <1>1, <1>8, <1>12, <2>1, <2>2 DEF EntryInv, Scanning, Writing, Listed, Rendering, Saving
<1>16. DerivedInv'
  BY <1>1, <1>8, <1>11 DEF DerivedInv, Copying, Saving
<1>17. AgreeInv'
  <2> SUFFICES ASSUME Covered, still PROVE AgreeInv'
    BY <1>11 DEF AgreeInv
  <2>1. FreshPages(b.drafts)' = FreshPages(b.drafts)
    BY <1>9, <1>11 DEF FreshPages, SameReading
  <2>2. \A f \in Present(b.pages) : b'.around[f] = Around(b'.pages, f)
    BY <1>7, <1>12 DEF Present
  <2> QED
    BY <1>1, <1>8, <1>11, <1>12, <2>1, <2>2
       DEF AgreeInv, Copying, Writing, Rendering, Saving
<1> QED
  BY <1>11, <1>12, <1>13, <1>14, <1>15, <1>16, <1>17

(* The bytes that are kept for a page are those it would be rendered to. *)
LEMMA KeptBytes ==
  ASSUME BuildInv, PastInv, pc = "related", Covered, NEW f \in Present(b.pages),
         ~b.pages[f].parsed, ~Retold(f), NEW k, k = b.pages[f].output
  PROVE  /\ k \in Key /\ b.previous[k] # Absent /\ out[k] # Absent
         /\ out[k] = b.previous[k] \/ k \in dirty
         /\ \/ k \in dirty
            \/ b.previous[k] =
                 PageBytes(b.pages[f], b.around[f], Related(b.pages, f), b.layout, b.nav)
<1> USE DEF BuildInv, PastInv
<1>1. Started /\ pc \notin Writing
  BY DEF Started, Writing, Rendering, Saving
<1>2. /\ b.reusable /\ b.sources[f] # Absent /\ b.sources[f] = state.sources[f]
      /\ b.sources[f].post = b.pages[f].post
      /\ b.sources[f].output = b.pages[f].output
      /\ b.sources[f].around = b.around[f]
  BY <1>1 DEF EntryInv
<1>3. /\ b.prior = state /\ b.previous = LoadManifest(manifest)
      /\ ~b.force /\ b.prior.fingerprint = b.fingerprint
  BY <1>1, <1>2 DEF LoadInv
<1>4. ~uncovered /\ b.nav = nav /\ b.fingerprint = b.layout
  BY <1>1, <1>3 DEF Covered, ReadInv
<1>5. StateTrue /\ Memo = b.previous
  BY <1>3, <1>4 DEF StateInv, Memo
<1>6. b.changed = {}
  BY <1>1 DEF WriteInv
<1>7. Dirt = dirty
  BY <1>6 DEF Dirt
<1>8. /\ b.prior.sources[f].related = Related(b.pages, f)
      /\ b.previous[k] # Absent /\ out[k] # Absent
  BY DEF Retold, Reusable
<1>9. f \in Source /\ f \in Known(state.sources)
  BY <1>2 DEF Present, Known
<1>10. k \in Key
  <2>1. b.pages[f] \in PageRecord
    BY <1>1, <1>9 DEF LocalsInv, Present, Started
  <2> QED
    BY <2>1, KeysOf DEF PageRecord
<1>11. out[k] = b.previous[k] \/ k \in dirty
  BY <1>5, <1>7, <1>8, <1>10 DEF StateTrue
<1>12. k \in dirty \/ b.previous[k] = EntryBytes(state.sources[f], state.fingerprint, nav)
  BY <1>2, <1>5, <1>7, <1>8, <1>9 DEF StateTrue
<1>13. EntryBytes(state.sources[f], state.fingerprint, nav)
         = PageBytes(b.pages[f], b.around[f], Related(b.pages, f), b.layout, b.nav)
  BY <1>2, <1>3, <1>4, <1>8 DEF EntryBytes, PageBytes
<1> QED
  BY <1>8, <1>10, <1>11, <1>12, <1>13

(* The related posts are chosen, and what is still left alone is kept. *)
LEMMA PastAssignsRelated == ASSUME BuildInv, PastInv, BuildInv', AssignRelated PROVE PastInv'
<1> USE DEF BuildInv, PastInv
<1>1. pc = "related" /\ pc' = "render" /\ out' = out
  BY DEF AssignRelated, stored
<1>2. DOMAIN b = Locals /\ b.pages \in [Source -> PageRecord \cup {Absent}]
      /\ DOMAIN b.current = Key
  BY <1>1 DEF LocalsInv
<1>3. PICK retold : retold = {f \in Present(b.pages) : Retold(f)}
  OBVIOUS
<1>4. PICK kept : kept = {f \in Present(b.pages) \ retold : ~b.pages[f].parsed}
  OBVIOUS
<1>5. PICK keys : keys = {b.pages[f].output : f \in kept}
  OBVIOUS
<1>6. (\A f \in retold : post[f] # Absent) /\ retold \in SUBSET Present(b.pages)
  BY <1>3 DEF AssignRelated
<1>7. b' = [b EXCEPT !.related = [f \in Source |->
                        IF f \in Present(b.pages) THEN Related(b.pages, f) ELSE Absent],
                     !.pages = ReadAgain(retold),
                     !.expected = @ \cup keys,
                     !.current = [k \in Key |-> IF k \in keys THEN b.previous[k] ELSE @[k]],
                     !.todo = Present(b.pages) \ kept]
  BY <1>3, <1>4, <1>5 DEF AssignRelated
<1>8. \A x \in Locals \ {"related", "pages", "expected", "current", "todo"} : b'[x] = b[x]
  BY <1>2, <1>7
<1>9. /\ b'.pages = ReadAgain(retold) /\ b'.todo = Present(b.pages) \ kept
      /\ b'.expected = b.expected \cup keys
      /\ b'.current = [k \in Key |-> IF k \in keys THEN b.previous[k] ELSE b.current[k]]
      /\ \A f \in Source : f \in Present(b.pages) => b'.related[f] = Related(b.pages, f)
  BY <1>2, <1>7 DEF Locals, Early
<1>10. /\ b'.changed = b.changed /\ b'.collisions = b.collisions /\ b'.derived = b.derived
       /\ b'.shipped = b.shipped /\ b'.sources = b.sources /\ b'.around = b.around
       /\ b'.copies = b.copies /\ b'.stamps = b.stamps
  BY <1>8 DEF Locals, Early
<1>11. SameReading
  BY <1>8 DEF Locals, Early, SameReading
<1>12. Works
  BY <1>1, <1>10, <1>11 DEF Works, Working, AssignRelated, stored, ghosts
<1>13. /\ LoadInv' /\ ReadInv' /\ StateInv'
       /\ Started /\ Started' /\ Covered' = Covered /\ Shipping' = Shipping /\ dirty' = dirty
       /\ post' = post /\ mtime' = mtime /\ stime' = stime /\ clock' = clock /\ state' = state
       /\ still' = still
  BY <1>12, WorkKeeps
<1>14. /\ TruthInv' /\ Present(b'.pages) = Present(b.pages)
       /\ Covered /\ still =>
             /\ \A f \in Present(b.pages) : Around(b'.pages, f) = Around(b.pages, f)
             /\ \A f \in Present(b.pages) : Related(b'.pages, f) = Related(b.pages, f)
  BY <1>6, <1>9, <1>10, <1>12, RereadingIsTrue
<1>15. TimeInv'
  BY <1>1, <1>10, <1>11, <1>13, <1>14 DEF TimeInv, SameReading
<1>16. \A f \in Present(b.pages) :
         /\ b'.pages[f].output = b.pages[f].output
         /\ f \in kept => b'.pages[f] = b.pages[f] /\ ~b.pages[f].parsed /\ ~Retold(f)
         /\ ~b'.pages[f].parsed => f \in kept
  <2> TAKE f \in Present(b.pages)
  <2>1. /\ b'.pages[f].output = b.pages[f].output
        /\ ~b'.pages[f].parsed => f \notin retold /\ ~b.pages[f].parsed
    BY <1>6, <1>9, ReadAgainSame
  <2>2. f \in kept => b'.pages[f] = b.pages[f]
    BY <1>4, <1>9 DEF ReadAgain, Present
  <2> QED
    BY <1>3, <1>4, <2>1, <2>2
<1>17. b.expected = {} /\ b.changed = {} /\ b.collisions = {} /\ b.derived = {}
       /\ (\A k \in Static : b.copies[k] = Absent) /\ (\A k \in Key : b.current[k] = Absent)
  BY <1>1, <1>13 DEF WriteInv, Writing, Copying, Rendering, Saving
<1>18. \A f \in kept : f \in Present(b.pages)
  BY <1>4
<1>19. \A f \in kept : /\ b.pages[f].output \in Key /\ b.previous[b.pages[f].output] # Absent
                      /\ out[b.pages[f].output] # Absent /\ ~b.force
  <2> TAKE f \in kept
  <2>1. b.pages[f] \in PageRecord
    BY <1>2, <1>18 DEF Present
  <2>2. b.previous[b.pages[f].output] # Absent /\ out[b.pages[f].output] # Absent
    BY <1>16, <1>18 DEF Retold, Reusable
  <2>3. b.reusable /\ ~b.force
    BY <1>13, <1>16, <1>18 DEF EntryInv, LoadInv
  <2> QED
    BY <2>1, <2>2, <2>3, KeysOf DEF PageRecord
<1>20. \A k \in keys : /\ k \in Key /\ b.previous[k] # Absent /\ b'.current[k] = b.previous[k]
                     /\ out[k] # Absent /\ ~b.force
  BY <1>5, <1>9, <1>19
<1>21. WriteInv'
  <2>1. \A k \in Key : k \in b'.expected <=> b'.current[k] # Absent
    BY <1>9, <1>17, <1>20
  <2>2. \A f \in Present(b'.pages) \ b'.todo : f \in kept
    BY <1>9, <1>14
  <2>3. \A f \in Present(b'.pages) \ b'.todo : b'.pages[f].output \in b'.expected
    BY <1>5, <1>9, <1>14, <1>16, <2>2
  <2>4. \A k \in b'.expected : \E f \in Present(b'.pages) \ b'.todo : k = b'.pages[f].output
    BY <1>5, <1>9, <1>14, <1>16, <1>17, <1>18
  <2>5. \A k \in b'.expected : b'.current[k] = b'.previous[k]
    BY <1>9, <1>11, <1>17, <1>20 DEF SameReading
  <2>6. b'.todo \subseteq Present(b'.pages) /\ pc' \in Writing /\ pc' \notin Copying
        /\ pc' \notin Saving
    BY <1>1, <1>9, <1>14 DEF Writing, Copying, Rendering, Saving
  <2>7. (b'.force => b'.expected \subseteq b'.changed) /\ \A k \in b'.expected : out'[k] # Absent
    BY <1>1, <1>9, <1>11, <1>17, <1>20 DEF SameReading
  <2> QED
    BY <1>1, <1>10, <1>17, <2>1, <2>3, <2>4, <2>5, <2>6, <2>7 DEF WriteInv
<1>22. BytesInv'
  <2> SUFFICES ASSUME Covered PROVE BytesInv'
    BY <1>13 DEF BytesInv
  <2>1. ASSUME NEW f \in kept
        PROVE  /\ \/ out[b.pages[f].output] = b'.current[b.pages[f].output]
                  \/ b.pages[f].output \in dirty
               /\ \/ b.pages[f].output \in dirty
                  \/ b'.current[b.pages[f].output] = Rendered(f)'
    <3>1. f \in Present(b.pages) /\ f \in Source
      BY <1>18 DEF Present
    <3>2. PICK k : k = b.pages[f].output
      OBVIOUS
    <3>3. /\ k \in Key /\ b.previous[k] # Absent /\ out[k] # Absent
          /\ out[k] = b.previous[k] \/ k \in dirty
          /\ \/ k \in dirty
             \/ b.previous[k] =
                  PageBytes(b.pages[f], b.around[f], Related(b.pages, f), b.layout, b.nav)
      BY <1>1, <1>16, <3>1, <3>2, KeptBytes
    <3>4. b'.current[k] = b.previous[k]
      BY <1>5, <1>20, <3>2
    <3>5. Rendered(f)' =
            PageBytes(b.pages[f], b.around[f], Related(b.pages, f), b.layout, b.nav)
      BY <1>9, <1>10, <1>11, <1>16, <3>1 DEF Rendered, SameReading
    <3> QED
      BY <1>9, <3>2, <3>3, <3>4, <3>5
  <2>2. \A k \in b'.expected : out'[k] = b'.current[k] \/ k \in dirty' \ b'.changed
    BY <1>1, <1>5, <1>9, <1>10, <1>13, <1>17, <2>1
  <2>3. \A f \in Present(b'.pages) \ b'.todo :
          \/ b'.current[b'.pages[f].output] = Rendered(f)'
          \/ b'.pages[f].output \in dirty' \ b'.changed
    BY <1>9, <1>10, <1>13, <1>14, <1>16, <1>17, <2>1
  <2> QED
    BY <2>2, <2>3 DEF BytesInv
<1>23. EntryInv'
  <2>1. \A f \in Known(b'.sources) :
          f \in Present(b'.pages) /\ b'.sources[f].modified = b'.stamps[f]
    <3>1. \A f \in Known(b.sources) : f \in Present(b.pages) /\ b.sources[f].modified = b.stamps[f]
      BY <1>13 DEF EntryInv
    <3> QED
      BY <1>10, <1>14, <3>1
  <2>2. ASSUME NEW f \in Present(b.pages), ~b'.pages[f].parsed
        PROVE  /\ b'.reusable /\ b'.sources[f] # Absent /\ b'.sources[f] = state'.sources[f]
               /\ b'.sources[f].post = b'.pages[f].post
               /\ b'.sources[f].output = b'.pages[f].output
               /\ b'.sources[f].around = b'.around[f]
               /\ b'.sources[f].related = b'.related[f]
    <3>1. ~Retold(f) /\ b'.pages[f] = b.pages[f] /\ ~b.pages[f].parsed /\ f \in Source
      BY <1>16, <2>2 DEF Present
    <3>2. /\ b.reusable /\ b.sources[f] # Absent /\ b.sources[f] = state.sources[f]
          /\ b.sources[f].post = b.pages[f].post
          /\ b.sources[f].output = b.pages[f].output
          /\ b.sources[f].around = b.around[f]
      BY <1>1, <1>13, <3>1 DEF EntryInv
    <3>3. b.prior.sources[f].related = Related(b.pages, f) /\ b.prior = state
      BY <1>1, <1>13, <3>1 DEF Retold, LoadInv
    <3> QED
      BY <1>9, <1>10, <1>11, <1>13, <3>1, <3>2, <3>3 DEF SameReading
  <2> QED
    BY <1>1, <1>14, <2>1, <2>2 DEF EntryInv, Scanning, Listed, Saving
<1>24. DerivedInv'
  BY <1>1, <1>10, <1>13 DEF DerivedInv, Copying, Saving
<1>25. AgreeInv'
  <2> SUFFICES ASSUME Covered, still PROVE AgreeInv'
    BY <1>13 DEF AgreeInv
  <2>1. FreshPages(b.drafts)' = FreshPages(b.drafts)
    BY <1>11, <1>13 DEF FreshPages, SameReading
  <2>2. \A f \in Present(b.pages) :
          b'.around[f] = Around(b'.pages, f) /\ b'.related[f] = Related(b'.pages, f)
    BY <1>1, <1>9, <1>10, <1>13, <1>14 DEF Present, AgreeInv
  <2>3. \A f \in Present(b.pages) : b.stamps[f] = mtime[f] /\ post[f] # Absent
    BY <1>13 DEF AgreeInv
  <2>4. b'.todo \subseteq Present(b.pages)
    BY <1>9
  <2>5. \A f \in Source : f \notin Present(b'.pages) \cup b'.todo => FreshPages(b.drafts)[f] = Absent
    <3>1. b.todo = {}
      BY <1>1, <1>13 DEF EntryInv
    <3> QED
      BY <1>13, <1>14, <3>1 DEF AgreeInv
  <2> QED
    BY <1>1, <1>10, <1>13, <1>14, <2>1, <2>2, <2>3, <2>4, <2>5 DEF AgreeInv, Copying, Saving
<1> QED
  BY <1>13, <1>14, <1>15, <1>21, <1>22, <1>23, <1>24, <1>25

-----------------------------------------------------------------------------
(* Pages and listings are rendered *)

(* The locals w after v was written to k with the locals bb: changed unless  *)
(* the write was skipped, and a collision if other bytes were there.         *)
WroteExactly(w, bb, k, v) ==
    /\ DOMAIN w = Locals /\ DOMAIN w.current = Key /\ SameElsewhere(w, bb)
    /\ w.previous = bb.previous /\ w.copies = bb.copies
    /\ w.expected = bb.expected \cup {k}
    /\ w.current[k] = v /\ \A j \in Key \ {k} : w.current[j] = bb.current[j]
    /\ w.collisions = IF Collides(bb.current, k, v) THEN bb.collisions \cup {k} ELSE bb.collisions
    /\ w.changed = IF Skips(bb.force, bb.previous, out, k, v) THEN bb.changed
                   ELSE bb.changed \cup {k}

(* A call of Writer::write leaves just that in the locals. *)
LEMMA WroteExact ==
  ASSUME NEW bb, DOMAIN bb = Locals, DOMAIN bb.current = Key, NEW k \in Key, NEW v,
         NEW w, w = Wrote(bb, k, v)
  PROVE  WroteExactly(w, bb, k, v)
<1>1. WroteTo(w, bb, k, v)
  BY WroteFields
<1>2. w = [bb EXCEPT !.expected = @ \cup {k},
               !.collisions = IF Collides(bb.current, k, v) THEN @ \cup {k} ELSE @,
               !.current[k] = v,
               !.changed = IF Skips(bb.force, bb.previous, out, k, v) THEN @ ELSE @ \cup {k}]
  BY DEF Wrote
<1>3. w.previous = bb.previous /\ w.copies = bb.copies
  BY <1>2 DEF Locals, Early
<1>4. /\ w.collisions = IF Collides(bb.current, k, v) THEN bb.collisions \cup {k} ELSE bb.collisions
      /\ w.changed = IF Skips(bb.force, bb.previous, out, k, v) THEN bb.changed
                     ELSE bb.changed \cup {k}
  BY <1>2 DEF Locals, Early
<1> QED
  BY <1>1, <1>3, <1>4 DEF WroteExactly, WroteTo

(* A rendered page is contents. *)
LEMMA RenderedIsSomething ==
  ASSUME BuildInv, pc \in Rendering, NEW f \in Present(b.pages),
         b.layout \in Layout, b.nav \in Nav
  PROVE  Rendered(f) \in PageContents /\ Rendered(f) # Absent
<1>1. f \in Source /\ b.pages[f] \in PageRecord
  BY DEF BuildInv, LocalsInv, Present, Rendering
<1>2. b.around[f] \in Arounds /\ b.related[f] \in Relatives
  BY DEF BuildInv, LocalsInv
<1>3. b.pages[f].post \in Post
  BY <1>1 DEF PageRecord
<1>4. b.pages[f].post.title \in Titles /\ b.pages[f].post.text \in Nat /\ b.pages[f].post.tag \in Nat
  BY <1>3, BuildAssumption
<1>5. Rendered(f) \in PageContents
  BY <1>2, <1>4 DEF Rendered, PageBytes, PageContents
<1> QED
  BY <1>5, BytesAreSomething

(* What is on disk after v is written to k is v, unless k is a collision or  *)
(* is left as an abandoned build wrote it.                                   *)
LEMMA WriteHolds ==
  ASSUME BuildInv, PastInv, pc \in Rendering, Covered, NEW k \in Key, NEW v, v # Absent,
         NEW bb, bb.force = b.force, bb.previous = b.previous, bb.current[k] = b.current[k],
         k \in bb.changed <=> k \in b.changed, k \in b.collisions => k \in bb.collisions,
         NEW w, WroteExactly(w, bb, k, v)
  PROVE  OnDisk(k, v) = v \/ k \in w.collisions \/ k \in dirty \ w.changed
<1> USE DEF BuildInv, PastInv
<1>1. Started /\ b.previous = LoadManifest(manifest)
  BY DEF Started, Rendering, LoadInv
<1>2. CASE ~Skips(b.force, b.previous, out, k, v)
  BY <1>2 DEF OnDisk
<1>3. CASE Skips(b.force, b.previous, out, k, v)
  <2>1. ~b.force /\ b.previous[k] = v /\ out[k] # Absent /\ OnDisk(k, v) = out[k]
    BY <1>3 DEF Skips, OnDisk
  <2>2. w.changed = bb.changed
    BY <1>3 DEF WroteExactly
  <2>3. ~uncovered
    BY <2>1 DEF Covered
  <2>4. StateTrue
    BY <2>3 DEF StateInv, Rendering
  <2>5. Memo = b.previous /\ Dirt = dirty \cup b.changed
    BY <1>1 DEF Memo, Dirt, Rendering
  <2>6. k \notin dirty \cup b.changed => out[k] = v
    BY <2>1, <2>4, <2>5 DEF StateTrue
  <2>7. CASE k \in b.changed
    <3>1. k \in b.expected /\ b.current[k] # Absent
      BY <1>1, <2>7 DEF WriteInv
    <3>2. CASE b.current[k] # v
      BY <3>1, <3>2 DEF WroteExactly, Collides
    <3>3. CASE b.current[k] = v
      <4>1. k \in b.collisions \/ out[k] = b.current[k]
        BY <1>1, <2>7, <3>1 DEF BytesInv
      <4> QED
        BY <2>1, <3>3, <4>1 DEF WroteExactly
    <3> QED
      BY <3>2, <3>3
  <2>8. CASE k \notin b.changed
    BY <2>1, <2>2, <2>6, <2>8
  <2> QED
    BY <2>7, <2>8
<1> QED
  BY <1>2, <1>3

(* What is on disk after a write is something. *)
LEMMA WriteLeavesSomething == ASSUME NEW k, NEW v, v # Absent PROVE OnDisk(k, v) # Absent
BY DEF OnDisk, Skips

(* A page that had its bytes, or was left as an abandoned build wrote it,    *)
(* still has when something is written to its key.                           *)
LEMMA WriteKeepsPage ==
  ASSUME BuildInv, PastInv, pc \in Rendering, NEW k \in b.expected, NEW v, NEW x,
         NEW w, WroteExactly(w, b, k, v),
         k \in b.collisions \/ b.current[k] = x \/ k \in dirty \ b.changed
  PROVE  k \in w.collisions \/ w.current[k] = x \/ k \in dirty \ w.changed
<1> USE DEF BuildInv, PastInv
<1>1. Started /\ k \in Key
  BY DEF Started, Rendering, LocalsInv
<1>2. b.current[k] # Absent /\ out[k] # Absent
  BY <1>1 DEF WriteInv
<1>3. CASE k \in b.collisions
  BY <1>3 DEF WroteExactly
<1>4. CASE b.current[k] # v
  BY <1>2, <1>4 DEF WroteExactly, Collides
<1>5. CASE b.current[k] = v /\ b.current[k] = x
  BY <1>5 DEF WroteExactly
<1>6. CASE b.current[k] = v /\ k \in dirty \ b.changed
  <2>1. ~b.force /\ b.previous[k] = v
    BY <1>1, <1>6 DEF WriteInv
  <2>2. Skips(b.force, b.previous, out, k, v)
    BY <1>2, <2>1 DEF Skips
  <2> QED
    BY <1>6, <2>2 DEF WroteExactly
<1> QED
  BY <1>3, <1>4, <1>5, <1>6

(* The pool renders one page. *)
LEMMA PastRenders == ASSUME BuildInv, PastInv, BuildInv', NEW f \in Source, Render(f) PROVE PastInv'
<1> USE DEF BuildInv, PastInv
<1>1. pc = "render" /\ pc' = pc /\ f \in b.todo
  BY DEF Render
<1>2. DOMAIN b = Locals /\ DOMAIN b.current = Key /\ DOMAIN out = Key
      /\ b.pages \in [Source -> PageRecord \cup {Absent}] /\ f \in Present(b.pages)
  BY <1>1 DEF LocalsInv, Rendering
<1>3. PICK k : k = b.pages[f].output
  OBVIOUS
<1>4. PICK v : v = Rendered(f)
  OBVIOUS
<1>5. k \in Key /\ k \in Titles
  <2>1. b.pages[f] \in PageRecord
    BY <1>2 DEF Present
  <2> QED
    BY <1>3, <2>1, KeysOf DEF PageRecord
<1>6. out' = [out EXCEPT ![k] = OnDisk(k, v)]
  BY <1>3, <1>4 DEF Render, Rendered
<1>7. PICK w : w = Wrote(b, k, v)
  OBVIOUS
<1>8. b' = [w EXCEPT !.todo = @ \ {f}]
  BY <1>3, <1>4, <1>7 DEF Render, Rendered
<1>9. WroteExactly(w, b, k, v)
  BY <1>2, <1>5, <1>7, WroteExact
<1>10. \A x \in Locals \ {"todo"} : b'[x] = w[x]
  BY <1>8, <1>9 DEF WroteExactly
<1>11. b'.todo = b.todo \ {f}
  BY <1>8, <1>9 DEF WroteExactly, SameElsewhere, Locals, Early
<1>12. b'.expected = w.expected /\ b'.collisions = w.collisions /\ b'.current = w.current
       /\ b'.changed = w.changed
  BY <1>10 DEF Locals, Early
<1>13. /\ b'.derived = b.derived /\ b'.shipped = b.shipped /\ b'.stamps = b.stamps
       /\ b'.sources = b.sources /\ b'.around = b.around /\ b'.related = b.related
       /\ b'.pages = b.pages /\ b'.copies = b.copies
  BY <1>9, <1>10 DEF WroteExactly, SameElsewhere, Locals, Early
<1>14. SameReading
  BY <1>9, <1>10 DEF WroteExactly, SameElsewhere, SameReading, Locals, Early
<1>15. /\ \A j \in Key \ {k} : out'[j] = out[j] /\ b'.current[j] = b.current[j]
       /\ out'[k] = OnDisk(k, v) /\ b'.current[k] = v
       /\ b'.expected = b.expected \cup {k}
  BY <1>2, <1>5, <1>6, <1>9, <1>12 DEF WroteExactly
<1>16. /\ b.changed \subseteq b'.changed /\ b'.changed \subseteq b.changed \cup {k}
       /\ b.collisions \subseteq b'.collisions
       /\ k \notin b'.changed => Skips(b.force, b.previous, out, k, v)
  BY <1>9, <1>12 DEF WroteExactly
<1>17. Works
  <2>1. \A j \in Key \ b'.changed : out'[j] = out[j]
    BY <1>15, <1>16 DEF OnDisk
  <2> QED
    BY <1>1, <1>14, <1>16, <2>1 DEF Works, Working, Render, ghosts
<1>18. /\ LoadInv' /\ ReadInv' /\ StateInv'
       /\ Started /\ Started' /\ Covered' = Covered /\ Shipping' = Shipping /\ dirty' = dirty
       /\ post' = post /\ mtime' = mtime /\ stime' = stime /\ clock' = clock /\ state' = state
       /\ still' = still
  BY <1>17, WorkKeeps
<1>19. v # Absent /\ pc \in Rendering /\ pc \in Writing /\ pc' \in Writing /\ pc' \notin Copying
       /\ pc \notin Copying
  <2>1. b.layout \in Layout /\ b.nav \in Nav
    BY <1>1 DEF ReadInv
  <2> QED
    BY <1>1, <1>2, <1>4, <2>1, RenderedIsSomething DEF Rendering, Writing, Copying, Saving
<1>20. TimeInv'
  BY <1>1, <1>13, <1>14, <1>18 DEF TimeInv, SameReading
<1>21. EntryInv'
  BY <1>1, <1>13, <1>14, <1>18 DEF EntryInv, SameReading, Scanning
<1>22. TruthInv'
  BY <1>13, <1>14, <1>18 DEF TruthInv, PageTrue, SourceTrue, SameReading
<1>23. DerivedInv'
  BY <1>13, <1>18, <1>19 DEF DerivedInv
<1>24. b.todo \subseteq Present(b.pages)
  BY <1>18, <1>19 DEF WriteInv
<1>25. AgreeInv'
  <2> SUFFICES ASSUME Covered, still PROVE AgreeInv'
    BY <1>18 DEF AgreeInv
  <2>1. FreshPages(b.drafts)' = FreshPages(b.drafts)
    BY <1>14, <1>18 DEF FreshPages, SameReading
  <2>2. \A g \in Source : g \notin Present(b.pages) \cup b'.todo => FreshPages(b.drafts)[g] = Absent
    BY <1>11, <1>18, <1>24 DEF AgreeInv
  <2> QED
    BY <1>1, <1>11, <1>13, <1>18, <1>19, <2>1, <2>2 DEF AgreeInv
<1>26. WriteInv'
  <2>1. b'.changed \subseteq b'.expected
    BY <1>15, <1>16, <1>18 DEF WriteInv
  <2>2. \A j \in Key : j \in b'.expected <=> b'.current[j] # Absent
    BY <1>15, <1>18, <1>19 DEF WriteInv
  <2>3. ASSUME NEW j \in b'.expected \ b'.changed PROVE b'.current[j] = b'.previous[j]
    <3>1. CASE j = k
      BY <1>14, <1>15, <1>16, <2>3, <3>1 DEF Skips, SameReading
    <3>2. CASE j # k
      <4>1. j \in b.expected \ b.changed /\ j \in Key
        BY <1>1, <1>15, <1>16, <2>3, <3>2 DEF LocalsInv
      <4> QED
        BY <1>14, <1>15, <1>18, <3>2, <4>1 DEF WriteInv, SameReading
    <3> QED
      BY <3>1, <3>2
  <2>4. b'.force => b'.expected \subseteq b'.changed
    BY <1>14, <1>15, <1>16, <1>18 DEF WriteInv, Skips, SameReading
  <2>5. \A j \in b'.expected : out'[j] # Absent
    <3> TAKE j \in b'.expected
    <3>1. CASE j = k
      BY <1>15, <1>19, <3>1, WriteLeavesSomething
    <3>2. CASE j # k
      <4>1. j \in b.expected /\ j \in Key
        BY <1>1, <1>15, <3>2 DEF LocalsInv
      <4> QED
        BY <1>15, <1>18, <1>19, <3>2, <4>1 DEF WriteInv
    <3> QED
      BY <3>1, <3>2
  <2>6. \A g \in Present(b'.pages) \ b'.todo : b'.pages[g].output \in b'.expected
    BY <1>3, <1>11, <1>13, <1>15, <1>18, <1>19 DEF WriteInv
  <2>7. \A j \in b'.expected : \E g \in Present(b'.pages) \ b'.todo : j = b'.pages[g].output
    <3> TAKE j \in b'.expected
    <3>1. CASE j = k
      BY <1>2, <1>3, <1>11, <1>13, <3>1
    <3>2. CASE j # k
      <4>1. PICK g \in Present(b.pages) \ b.todo : j = b.pages[g].output
        BY <1>15, <1>18, <1>19, <3>2 DEF WriteInv
      <4> QED
        BY <1>11, <1>13, <4>1
    <3> QED
      BY <3>1, <3>2
  <2>8. b'.derived = {} /\ (\A j \in Static : b'.copies[j] = Absent) /\ b'.todo \subseteq Present(b'.pages)
    BY <1>11, <1>13, <1>18, <1>19, <1>24 DEF WriteInv
  <2> QED
    BY <1>1, <1>19, <2>1, <2>2, <2>3, <2>4, <2>5, <2>6, <2>7, <2>8 DEF WriteInv, Copying
<1>27. BytesInv'
  <2> SUFFICES ASSUME Covered PROVE BytesInv'
    BY <1>18 DEF BytesInv
  <2>1. ASSUME NEW j \in b'.expected \ b'.collisions
        PROVE  out'[j] = b'.current[j] \/ j \in dirty \ b'.changed
    <3>1. CASE j = k
      BY <1>5, <1>9, <1>12, <1>15, <1>19, <2>1, <3>1, WriteHolds
    <3>2. CASE j # k
      <4>1. j \in b.expected \ b.collisions /\ j \in Key
        BY <1>1, <1>15, <1>16, <2>1, <3>2 DEF LocalsInv
      <4>2. out[j] = b.current[j] \/ j \in dirty \ b.changed
        BY <1>18, <4>1 DEF BytesInv
      <4> QED
        BY <1>15, <1>16, <3>2, <4>1, <4>2
    <3> QED
      BY <3>1, <3>2
  <2>2. \A g \in Source : Rendered(g)' = Rendered(g)
    BY <1>13, <1>14 DEF Rendered, SameReading
  <2>3. ASSUME NEW g \in Present(b.pages) \ b'.todo
        PROVE  \/ b.pages[g].output \in b'.collisions
               \/ b'.current[b.pages[g].output] = Rendered(g)
               \/ b.pages[g].output \in dirty \ b'.changed
    <3>1. CASE g = f
      BY <1>3, <1>4, <1>15, <3>1
    <3>2. CASE g # f
      <4>1. g \in Present(b.pages) \ b.todo
        BY <1>11, <2>3, <3>2
      <4>2. PICK j : j = b.pages[g].output
        OBVIOUS
      <4>3. j \in b.expected /\ j \in Key
        BY <1>1, <1>18, <1>19, <4>1, <4>2 DEF WriteInv, LocalsInv
      <4>4. j \in b.collisions \/ b.current[j] = Rendered(g) \/ j \in dirty \ b.changed
        BY <1>18, <1>19, <4>1, <4>2 DEF BytesInv
      <4>5. CASE j = k
        <5>1. PICK x : x = Rendered(g)
          OBVIOUS
        <5>2. j \in w.collisions \/ w.current[j] = x \/ j \in dirty \ w.changed
          BY <1>9, <1>19, <4>3, <4>4, <4>5, <5>1, WriteKeepsPage
        <5> QED
          BY <1>12, <4>2, <5>1, <5>2
      <4>6. CASE j # k
        BY <1>15, <1>16, <4>2, <4>3, <4>4, <4>6
      <4> QED
        BY <4>5, <4>6
    <3> QED
      BY <3>1, <3>2
  <2>4. \A g \in Present(b.pages) : g \in Source
    BY DEF Present
  <2> QED
    BY <1>13, <1>18, <2>1, <2>2, <2>3, <2>4 DEF BytesInv
<1> QED
  BY <1>18, <1>20, <1>21, <1>22, <1>23, <1>25, <1>26, <1>27
(* The fields of a recorded entry. *)
LEMMA EntryFields ==
  ASSUME NEW f
  PROVE  /\ Entry(f).modified = b.stamps[f]
         /\ Entry(f).hash = IF b.stamps[f] >= b.started THEN post[f] ELSE Absent
         /\ Entry(f).post = b.pages[f].post /\ Entry(f).output = b.pages[f].output
         /\ Entry(f).around = b.around[f] /\ Entry(f).related = b.related[f]
BY DEF Entry

(* What is recorded of the pages read is what their files say. *)
LEMMA PastRecords == ASSUME BuildInv, PastInv, BuildInv', Record PROVE PastInv'
<1> USE DEF BuildInv, PastInv
<1>1. pc = "render" /\ pc' = "derived" /\ b.todo = {} /\ out' = out
  BY DEF Record, stored
<1>2. DOMAIN b = Locals /\ b.sources \in [Source -> SourceEntry \cup {Absent}]
      /\ b'.sources \in [Source -> SourceEntry \cup {Absent}]
  BY <1>1 DEF LocalsInv
<1>3. \A x \in Locals \ {"sources"} : b'[x] = b[x]
  BY <1>2 DEF Record
<1>4. b'.sources = [f \in Source |->
        IF f \in Present(b.pages) /\ b.pages[f].parsed THEN Entry(f) ELSE b.sources[f]]
  BY <1>2 DEF Record, Locals
<1>5. /\ b'.todo = b.todo /\ b'.changed = b.changed /\ b'.expected = b.expected
      /\ b'.collisions = b.collisions /\ b'.current = b.current /\ b'.derived = b.derived
      /\ b'.shipped = b.shipped /\ b'.stamps = b.stamps /\ b'.pages = b.pages
      /\ b'.around = b.around /\ b'.related = b.related /\ b'.copies = b.copies
  BY <1>3 DEF Locals, Early
<1>6. SameReading
  BY <1>3 DEF SameReading, Locals, Early
<1>7. Works
  BY <1>1, <1>5, <1>6 DEF Works, Working, Record, ghosts, stored
<1>8. /\ LoadInv' /\ ReadInv' /\ StateInv'
      /\ Started /\ Started' /\ Covered' = Covered /\ Shipping' = Shipping /\ dirty' = dirty
      /\ post' = post /\ mtime' = mtime /\ stime' = stime /\ clock' = clock /\ state' = state
      /\ still' = still
  BY <1>7, WorkKeeps
<1>9. /\ pc \in Writing /\ pc' \in Writing /\ pc \notin Copying /\ pc' \notin Copying
      /\ pc' \in Rendering /\ pc \in Rendering /\ pc' \in Listed
      /\ pc \notin {"save state", "end"} /\ pc' \notin Saving
  BY <1>1 DEF Writing, Copying, Saving, Rendering, Listed
<1>10. TimeInv'
  BY <1>1, <1>5, <1>6, <1>8 DEF TimeInv, SameReading
<1>11. \A f \in Present(b.pages) :
         /\ f \in Source
         /\ b.pages[f].parsed => b'.sources[f] = Entry(f) /\ b'.sources[f] # Absent
         /\ ~b.pages[f].parsed => b'.sources[f] = b.sources[f]
  <2> TAKE f \in Present(b.pages)
  <2>1. f \in Source
    BY DEF Present
  <2>2. b.pages[f].parsed => b'.sources[f] = Entry(f)
    BY <1>4, <2>1
  <2>3. Entry(f) \in SourceEntry
    <3>1. b.pages[f] \in PageRecord
      BY <1>1, <2>1 DEF LocalsInv, Present
    <3>2. b.stamps[f] \in Nat /\ b.around[f] \in Arounds /\ b.related[f] \in Relatives
      BY <1>1, <1>9 DEF LocalsInv
    <3>3. (IF b.stamps[f] >= b.started THEN post[f] ELSE Absent) \in Post \cup {Absent}
      BY <2>1 DEF TypeOK
    <3>4. b.pages[f].post \in Post /\ b.pages[f].output \in Titles
      BY <3>1 DEF PageRecord
    <3> QED
      BY <3>2, <3>3, <3>4 DEF Entry, SourceEntry
  <2>4. Absent \notin SourceEntry
    BY AbsentAssumption
  <2> QED
    BY <1>4, <2>1, <2>2, <2>3, <2>4
<1>12. \A f \in Known(b'.sources) :
         /\ f \in Present(b.pages)
         /\ \/ b.pages[f].parsed /\ b'.sources[f] = Entry(f)
            \/ f \in Known(b.sources) /\ b'.sources[f] = b.sources[f]
  <2> TAKE f \in Known(b'.sources)
  <2>1. f \in Source /\ b'.sources[f] # Absent
    BY DEF Known
  <2>2. CASE f \in Present(b.pages) /\ b.pages[f].parsed
    BY <1>11, <2>2
  <2>3. CASE ~(f \in Present(b.pages) /\ b.pages[f].parsed)
    <3>1. b'.sources[f] = b.sources[f]
      BY <1>4, <2>1, <2>3
    <3>2. f \in Known(b.sources)
      BY <2>1, <3>1 DEF Known
    <3> QED
      BY <1>8, <3>1, <3>2 DEF EntryInv
  <2> QED
    BY <2>2, <2>3
<1>13. EntryInv'
  <2>1. \A f \in Known(b'.sources) : b'.sources[f].modified = b'.stamps[f]
    <3> TAKE f \in Known(b'.sources)
    <3>1. CASE b'.sources[f] = Entry(f)
      BY <1>5, <3>1, EntryFields
    <3>2. CASE f \in Known(b.sources) /\ b'.sources[f] = b.sources[f]
      BY <1>5, <1>8, <3>2, ZenonT(60) DEF EntryInv
    <3> QED
      BY <1>12, <3>1, <3>2
  <2>2. \A f \in Present(b.pages) : ~b.pages[f].parsed =>
          /\ b.reusable /\ b'.sources[f] # Absent
          /\ b'.sources[f] = state.sources[f]
          /\ b'.sources[f].post = b.pages[f].post
          /\ b'.sources[f].output = b.pages[f].output
          /\ b'.sources[f].around = b.around[f]
          /\ b'.sources[f].related = b.related[f]
    <3> TAKE f \in Present(b.pages)
    <3> HAVE ~b.pages[f].parsed
    <3>1. b'.sources[f] = b.sources[f]
      BY <1>11
    <3>2. b.reusable /\ b.sources[f] # Absent /\ b.sources[f] = state.sources[f]
      BY <1>8, <1>9 DEF EntryInv
    <3>3. b.sources[f].post = b.pages[f].post /\ b.sources[f].output = b.pages[f].output
      BY <1>8, <1>9 DEF EntryInv
    <3>4. b.sources[f].around = b.around[f] /\ b.sources[f].related = b.related[f]
      BY <1>8, <1>9 DEF EntryInv
    <3> QED
      BY <3>1, <3>2, <3>3, <3>4
  <2>3. \A f \in Present(b.pages) : b.pages[f].parsed =>
          /\ b'.sources[f] # Absent
          /\ b'.sources[f].post = b.pages[f].post
          /\ b'.sources[f].output = b.pages[f].output
          /\ b'.sources[f].around = b.around[f]
          /\ b'.sources[f].related = b.related[f]
    BY <1>11, EntryFields
  <2>4. b'.reusable = b.reusable
    BY <1>6 DEF SameReading
  <2> QED
    BY <1>1, <1>5, <1>8, <1>12, <2>1, <2>2, <2>3, <2>4 DEF EntryInv, Scanning
<1>14. TruthInv'
  <2> SUFFICES ASSUME Covered PROVE TruthInv'
    BY <1>8 DEF TruthInv
  <2>1. \A f \in Present(b.pages) : PageTrue(f)
    BY <1>8 DEF TruthInv
  <2>2. \A f \in Present(b'.pages) : PageTrue(f)'
    BY <1>5, <1>6, <1>8, <2>1 DEF PageTrue, SameReading
  <2>3. \A f \in Known(b'.sources) : SourceTrue(b'.sources[f], f, b.started, b.drafts)
    <3> TAKE f \in Known(b'.sources)
    <3>1. CASE b.pages[f].parsed /\ b'.sources[f] = Entry(f)
      <4>1. PageTrue(f)
        BY <1>12, <2>1
      <4>2. b.stamps[f] \in Int /\ b.started \in Nat
        BY <1>1, <1>12 DEF LocalsInv, Present
      <4> QED
        BY <3>1, <4>1, <4>2, EntryFields DEF PageTrue, SourceTrue
    <3>2. CASE f \in Known(b.sources) /\ b'.sources[f] = b.sources[f]
      BY <1>8, <3>2 DEF TruthInv
    <3> QED
      BY <1>12, <3>1, <3>2
  <2>4. \A f \in Known(b'.sources) : SourceTrue(b.sources[f], f, b.started, b.drafts)'
    BY <1>6, <1>8, <2>3 DEF SourceTrue, SameReading
  <2> QED
    BY <2>2, <2>4 DEF TruthInv
<1>15. WriteInv'
  BY <1>1, <1>5, <1>6, <1>8, <1>9 DEF WriteInv, SameReading
<1>16. BytesInv'
  <2>1. \A f \in Source : Rendered(f)' = Rendered(f)
    BY <1>5, <1>6 DEF Rendered, SameReading
  <2> QED
    BY <1>1, <1>5, <1>6, <1>8, <1>9, <2>1 DEF BytesInv, Present
<1>17. DerivedInv'
  BY <1>5, <1>8, <1>9 DEF DerivedInv
<1>18. AgreeInv'
  <2>1. FreshPages(b.drafts)' = FreshPages(b.drafts)
    BY <1>6, <1>8 DEF FreshPages, SameReading
  <2> QED
    BY <1>1, <1>5, <1>8, <1>9, <2>1 DEF AgreeInv
<1> QED
  BY <1>8, <1>10, <1>13, <1>14, <1>15, <1>16, <1>17, <1>18

(* There are finitely many content files. *)
LEMMA FinitelyMany == ASSUME NEW S \in SUBSET Source PROVE IsFiniteSet(S)
<1>1. CASE S = {}
  BY <1>1, FS_EmptySet
<1>2. CASE S # {}
  <2>1. PICK final \in S : \A f \in S : f <= final
    BY <1>2, BuildAssumption
  <2>2. S \in SUBSET Nat /\ final \in Nat /\ \A f \in S : f <= final
    BY <2>1, BuildAssumption
  <2> QED
    BY <2>2, FS_BoundedSetOfNaturals
<1> QED
  BY <1>1, <1>2

(* Where the listings are carried over, the pages are those of the state. *)
LEMMA SamePages ==
  ASSUME BuildInv, PastInv, pc = "derived", DerivedReusable
  PROVE  /\ ~b.force /\ b.prior = state /\ state.fingerprint = b.fingerprint
         /\ Known(state.sources) = Present(b.pages)
         /\ \A l, n : IndexBytes(state.sources, l, n) = IndexBytes(b.pages, l, n)
<1> USE DEF BuildInv, PastInv
<1>1. Started /\ pc \in Listed /\ pc \notin {"save state", "end"}
  BY DEF Started, Listed
<1>2. b.reusable /\ b.prior = state /\ ~b.force /\ state.fingerprint = b.fingerprint
  BY <1>1 DEF LoadInv, DerivedReusable
<1>3. \A f \in Present(b.pages) :
        /\ f \in Source /\ ~b.pages[f].parsed /\ b.sources[f] = state.sources[f]
        /\ b.sources[f] # Absent
        /\ state.sources[f].post = b.pages[f].post /\ state.sources[f].output = b.pages[f].output
  BY <1>1 DEF EntryInv, DerivedReusable, NothingParsed, Present
<1>4. Known(b.sources) = Present(b.pages)
  BY <1>1, <1>3 DEF EntryInv, Known
<1>5. Known(b.sources) \in SUBSET Known(state.sources)
  BY <1>3, <1>4 DEF Known
<1>6. IsFiniteSet(Known(state.sources))
  BY FinitelyMany DEF Known
<1>7. Cardinality(Known(state.sources)) = Cardinality(Known(b.sources))
  BY <1>2 DEF DerivedReusable
<1>8. Known(state.sources) = Present(b.pages)
  BY <1>4, <1>5, <1>6, <1>7, FS_Subset
<1>9. Present(state.sources) = Present(b.pages)
  BY <1>8 DEF Known, Present
<1>10. \A f \in Present(state.sources) :
         state.sources[f].post = b.pages[f].post /\ state.sources[f].output = b.pages[f].output
  BY <1>3, <1>9
<1>11. \A l, n : IndexBytes(state.sources, l, n) = IndexBytes(b.pages, l, n)
  BY <1>9, <1>10, ShownAlike
<1> QED
  BY <1>2, <1>8, <1>11

(* Until the listings, what is expected are pages. *)
LEMMA PagesExpected ==
  ASSUME BuildInv, PastInv, pc \in {"render", "derived"}
  PROVE  /\ b.expected \subseteq Titles /\ b.changed \subseteq Titles
         /\ \A k \in b.expected : \E f \in Present(b.pages) \ b.todo : k = b.pages[f].output
<1>1. Started /\ pc \in Writing /\ pc \notin Copying
  BY DEF Started, Writing, Rendering, Copying, Saving
<1>2. \A k \in b.expected : \E f \in Present(b.pages) \ b.todo : k = b.pages[f].output
  BY <1>1 DEF PastInv, WriteInv
<1>3. b.changed \subseteq b.expected
  BY <1>1 DEF PastInv, WriteInv
<1> QED
  BY <1>1, <1>2, <1>3, OutputsAreTitles DEF BuildInv, Started

(* The listings that are carried over are those of the pages. *)
LEMMA PastKeepsDerived == ASSUME BuildInv, PastInv, BuildInv', KeepDerived PROVE PastInv'
<1> USE DEF BuildInv, PastInv
<1>1. pc = "derived" /\ pc' = "static" /\ out' = out /\ DerivedReusable
  BY DEF KeepDerived, stored
<1>2. DOMAIN b = Locals /\ b.expected \subseteq Key /\ DOMAIN b.current = Key
  BY <1>1 DEF LocalsInv
<1>3. PICK kept : kept = b.prior.derived
  OBVIOUS
<1>4. \A x \in Locals \ {"derived", "expected", "current"} : b'[x] = b[x]
  BY <1>2 DEF KeepDerived
<1>5. b'.derived = kept /\ b'.expected = b.expected \cup kept
      /\ b'.current = [k \in Key |-> IF k \in kept THEN b.previous[k] ELSE b.current[k]]
  BY <1>2, <1>3 DEF KeepDerived, Locals, Early
<1>6. /\ b'.todo = b.todo /\ b'.changed = b.changed /\ b'.collisions = b.collisions
      /\ b'.shipped = b.shipped /\ b'.stamps = b.stamps /\ b'.pages = b.pages
      /\ b'.around = b.around /\ b'.related = b.related /\ b'.copies = b.copies
      /\ b'.sources = b.sources
  BY <1>4 DEF Locals, Early
<1>7. SameReading
  BY <1>4 DEF SameReading, Locals, Early
<1>8. Works
  BY <1>1, <1>6, <1>7 DEF Works, Working, KeepDerived, ghosts, stored
<1>9. /\ LoadInv' /\ ReadInv' /\ StateInv'
      /\ Started /\ Started' /\ Covered' = Covered /\ Shipping' = Shipping /\ dirty' = dirty
      /\ post' = post /\ mtime' = mtime /\ stime' = stime /\ clock' = clock /\ state' = state
      /\ still' = still
  BY <1>8, WorkKeeps
<1>10. /\ pc \in Writing /\ pc' \in Writing /\ pc \notin Copying /\ pc' \in Copying
       /\ pc' \in Rendering /\ pc \in Rendering /\ pc' \in Listed /\ pc \in Listed
       /\ pc \notin {"save state", "end"} /\ pc' \notin {"save state", "end"}
       /\ pc' \notin Saving /\ b.todo = {}
  BY <1>1 DEF Writing, Copying, Saving, Rendering, Listed, LocalsInv
<1>11. kept \subseteq {"index", "404"} /\ kept \subseteq Key
       /\ \A k \in kept : k \notin Titles /\ k \notin b.expected /\ k \notin b.changed
  <2>1. kept \subseteq {"index", "404"}
    BY <1>1, <1>3 DEF LocalsInv
  <2>2. b.expected \subseteq Titles /\ b.changed \subseteq Titles
    BY <1>1, PagesExpected
  <2> QED
    BY <2>1, <2>2, KeysOf
<1>12. \A k \in kept : b.previous[k] # Absent /\ out[k] # Absent
  BY <1>3 DEF KeepDerived, Reusable
<1>13. \A k \in Key \ kept : b'.current[k] = b.current[k]
  BY <1>5
<1>14. \A k \in kept : b'.current[k] = b.previous[k]
  BY <1>5, <1>11
<1>15. \A f \in Present(b.pages) :
         f \in Source /\ b.pages[f].output \in Key \ kept
  BY <1>1, <1>11, OutputsAreTitles
<1>16. ~b.force /\ b.prior = state /\ state.fingerprint = b.fingerprint
       /\ Known(state.sources) = Present(b.pages)
       /\ \A l, n : IndexBytes(state.sources, l, n) = IndexBytes(b.pages, l, n)
  BY <1>1, SamePages
<1>17. Covered => StateTrue /\ Memo = b.previous /\ Dirt = dirty \cup b.changed
  <2>1. Memo = b.previous /\ Dirt = dirty \cup b.changed
    BY <1>1, <1>9 DEF Memo, Dirt, LoadInv
  <2>2. Covered => ~uncovered
    BY <1>16 DEF Covered
  <2> QED
    BY <1>1, <2>1, <2>2 DEF StateInv
<1>18. TimeInv'
  BY <1>1, <1>6, <1>7, <1>9 DEF TimeInv, SameReading
<1>19. EntryInv'
  BY <1>1, <1>6, <1>7, <1>9, <1>10 DEF EntryInv, SameReading, Scanning
<1>20. TruthInv'
  BY <1>6, <1>7, <1>9 DEF TruthInv, PageTrue, SourceTrue, SameReading
<1>21. WriteInv'
  <2>1. b'.changed \subseteq b'.expected
    BY <1>5, <1>6, <1>9 DEF WriteInv
  <2>2. \A k \in Key : k \in b'.expected <=> b'.current[k] # Absent
    BY <1>5, <1>9, <1>12, <1>13, <1>14 DEF WriteInv
  <2>3. \A k \in b'.expected \ b'.changed : b'.current[k] = b'.previous[k]
    BY <1>2, <1>5, <1>6, <1>7, <1>9, <1>13, <1>14 DEF WriteInv, SameReading
  <2>4. ~b'.force
    BY <1>7, <1>16 DEF SameReading
  <2>5. \A k \in b'.expected : out'[k] # Absent
    BY <1>1, <1>5, <1>9, <1>10, <1>12 DEF WriteInv
  <2>6. \A f \in Present(b'.pages) \ b'.todo : b'.pages[f].output \in b'.expected
    BY <1>5, <1>6, <1>9, <1>10 DEF WriteInv
  <2>7. \A k \in b'.expected :
          \/ \E f \in Present(b'.pages) \ b'.todo : k = b'.pages[f].output
          \/ k \in b'.derived
    BY <1>1, <1>5, <1>6, PagesExpected
  <2>8. b'.derived \subseteq b'.expected /\ (\A k \in Static : b'.copies[k] = Absent)
        /\ b'.todo = {}
    BY <1>5, <1>6, <1>9, <1>10 DEF WriteInv
  <2> QED
    BY <1>1, <1>10, <2>1, <2>2, <2>3, <2>4, <2>5, <2>6, <2>7, <2>8 DEF WriteInv
<1>22. BytesInv'
  <2> SUFFICES ASSUME Covered PROVE BytesInv'
    BY <1>9 DEF BytesInv
  <2>1. \A k \in kept : out[k] = b.previous[k] \/ k \in dirty
    BY <1>11, <1>12, <1>17 DEF StateTrue
  <2>2. \A k \in b'.expected \ b'.collisions : out'[k] = b'.current[k] \/ k \in dirty \ b'.changed
    BY <1>1, <1>2, <1>5, <1>6, <1>9, <1>11, <1>13, <1>14, <2>1 DEF BytesInv
  <2>3. \A f \in Source : Rendered(f)' = Rendered(f)
    BY <1>6, <1>7 DEF Rendered, SameReading
  <2>4. \A f \in Present(b.pages) \ b.todo :
          \/ b.pages[f].output \in b.collisions
          \/ b'.current[b.pages[f].output] = Rendered(f)
          \/ b.pages[f].output \in dirty \ b.changed
    BY <1>9, <1>10, <1>13, <1>15 DEF BytesInv
  <2> QED
    BY <1>6, <1>9, <1>15, <2>2, <2>3, <2>4 DEF BytesInv
<1>23. DerivedInv'
  <2> SUFFICES ASSUME Covered PROVE DerivedInv'
    BY <1>9 DEF DerivedInv
  <2>1. b.nav = nav /\ b.fingerprint = b.layout /\ b.layout # Absent
    BY <1>1, <1>9, BytesAreSomething DEF ReadInv
  <2>2. state.fingerprint = b.layout /\ state.fingerprint # Absent /\ kept = state.derived
    BY <1>3, <1>16, <2>1
  <2>3. /\ "index" \in kept <=> Present(b.pages) # {}
        /\ "404" \in kept <=> "404" \notin Shipping
    BY <1>16, <1>17, <2>2 DEF StateTrue
  <2>4. "index" \in kept =>
           b.previous["index"] = IndexBytes(b.pages, b.layout, b.nav) \/ "index" \in dirty
    BY <1>11, <1>12, <1>16, <1>17, <2>1, <2>2 DEF StateTrue
  <2>5. "404" \in kept => b.previous["404"] = MissingBytes(b.layout, b.nav) \/ "404" \in dirty
    BY <1>11, <1>12, <1>17, <2>1, <2>2 DEF StateTrue
  <2>6. /\ b'.shipped \cap (Titles \cup {"404"}) \subseteq Shipping
        /\ \A k \in Static : b'.copies[k] = Absent
    BY <1>6, <1>9, <1>10 DEF DerivedInv, WriteInv
  <2>7. b'.layout = b.layout /\ b'.nav = b.nav
    BY <1>7 DEF SameReading
  <2> QED
    BY <1>5, <1>6, <1>9, <1>10, <1>11, <1>14, <2>3, <2>4, <2>5, <2>6, <2>7 DEF DerivedInv
<1>24. AgreeInv'
  <2> SUFFICES ASSUME Covered, still PROVE AgreeInv'
    BY <1>9 DEF AgreeInv
  <2>1. FreshPages(b.drafts)' = FreshPages(b.drafts)
    BY <1>7, <1>9 DEF FreshPages, SameReading
  <2>2. b'.shipped = Shipping
    BY <1>6, <1>9, <1>10 DEF AgreeInv
  <2>3. \A k \in b'.expected :
          (\E f \in Present(b'.pages) : k = b'.pages[f].output) \/ k \in b'.derived
    BY <1>1, <1>5, <1>6, PagesExpected
  <2> QED
    BY <1>1, <1>6, <1>9, <1>10, <2>1, <2>2, <2>3 DEF AgreeInv
<1> QED
  BY <1>9, <1>18, <1>19, <1>20, <1>21, <1>22, <1>23, <1>24

(* A write is skipped only where the bytes are there, or an abandoned build  *)
(* left others.                                                              *)
LEMMA SkipsHolds ==
  ASSUME BuildInv, PastInv, pc \in Rendering, Covered, NEW k \in Key, NEW v, k \notin b.changed,
         Skips(b.force, b.previous, out, k, v), v # Absent
  PROVE  out[k] = v \/ k \in dirty
<1>1. ~b.force /\ b.previous[k] = v /\ out[k] # Absent
  BY DEF Skips
<1>2. b.previous = LoadManifest(manifest)
  BY DEF PastInv, LoadInv, Started, Rendering
<1>3. Memo = b.previous /\ Dirt = dirty \cup b.changed
  BY <1>2 DEF Memo, Dirt, Rendering
<1>4. StateTrue
  BY <1>1 DEF PastInv, StateInv, Covered, Rendering
<1> QED
  BY <1>1, <1>3, <1>4 DEF StateTrue

(* The index of pages is contents. *)
LEMMA IndexIsSomething ==
  ASSUME BuildInv, pc \in Rendering, b.layout \in Layout, b.nav \in Nav
  PROVE  /\ IndexBytes(b.pages, b.layout, b.nav) \in OtherContents
         /\ IndexBytes(b.pages, b.layout, b.nav) # Absent
<1>1. \A f \in Present(b.pages) : <<Link(b.pages[f]), b.pages[f].post.text>> \in Shown \X Nat
  <2> TAKE f \in Present(b.pages)
  <2>1. b.pages[f] \in PageRecord
    BY DEF BuildInv, LocalsInv, Present, Rendering
  <2>2. b.pages[f].post \in Post
    BY <2>1 DEF PageRecord
  <2>3. b.pages[f].post.text \in Nat
    BY <2>2, BuildAssumption
  <2> QED
    BY <2>1, <2>3, LinkShown
<1>2. {<<Link(b.pages[f]), b.pages[f].post.text>> : f \in Present(b.pages)} \in Relatives
  BY <1>1 DEF Relatives
<1> QED
  BY <1>2, BytesAreSomething DEF IndexBytes

(* The listings are rendered, to keys that nothing has yet. *)
LEMMA PastRendersDerived == ASSUME BuildInv, PastInv, BuildInv', RenderDerived PROVE PastInv'
<1> USE DEF BuildInv, PastInv
<1>1. pc = "derived" /\ pc' = "static"
  BY DEF RenderDerived
<1>2. DOMAIN b = Locals /\ DOMAIN b.current = Key /\ DOMAIN out = Key /\ b.expected \subseteq Key
  BY <1>1 DEF LocalsInv
<1>3. PICK index : index = IndexBytes(b.pages, b.layout, b.nav)
  OBVIOUS
<1>4. PICK missing : missing = MissingBytes(b.layout, b.nav)
  OBVIOUS
<1>5. PICK some \in BOOLEAN : some <=> Present(b.pages) # {}
  OBVIOUS
<1>6. PICK page \in BOOLEAN : page <=> "404" \notin b.shipped
  OBVIOUS
<1>7. PICK b1 : b1 = IF some THEN Wrote(b, "index", index) ELSE b
  OBVIOUS
<1>8. PICK b2 : b2 = IF page THEN Wrote(b1, "404", missing) ELSE b1
  OBVIOUS
<1>9. b' = [b2 EXCEPT !.derived = b2.expected \ b.expected]
  BY <1>3, <1>4, <1>5, <1>6, <1>7, <1>8 DEF RenderDerived
<1>10. out' = [k \in Key |-> IF k = "index" /\ some THEN OnDisk(k, index)
                             ELSE IF k = "404" /\ page THEN OnDisk(k, missing)
                             ELSE out[k]]
  BY <1>3, <1>4, <1>5, <1>6 DEF RenderDerived
<1>11. /\ b.expected \subseteq Titles /\ b.changed \subseteq Titles
       /\ "index" \notin b.expected /\ "404" \notin b.expected
       /\ "index" \notin b.changed /\ "404" \notin b.changed
       /\ b.current["index"] = Absent /\ b.current["404"] = Absent
  <2>1. b.expected \subseteq Titles /\ b.changed \subseteq Titles
    BY <1>1, PagesExpected
  <2>2. "index" \notin b.expected /\ "404" \notin b.expected
    BY <2>1, KeysOf
  <2>3. \A k \in Key : k \in b.expected <=> b.current[k] # Absent
    BY <1>1 DEF WriteInv, Started
  <2> QED
    BY <2>1, <2>2, <2>3, KeysOf
<1>12. some => WroteExactly(b1, b, "index", index)
  BY <1>2, <1>7, KeysOf, WroteExact
<1>13. ~some => b1 = b
  BY <1>7
<1>14. /\ DOMAIN b1 = Locals /\ DOMAIN b1.current = Key /\ SameElsewhere(b1, b)
       /\ b1.previous = b.previous /\ b1.copies = b.copies /\ b1.collisions = b.collisions
       /\ b1.expected = b.expected \cup (IF some THEN {"index"} ELSE {})
       /\ \A k \in Key \ {"index"} : b1.current[k] = b.current[k]
       /\ some => b1.current["index"] = index
       /\ ~some => b1.current = b.current
       /\ b1.changed = IF some /\ ~Skips(b.force, b.previous, out, "index", index)
                       THEN b.changed \cup {"index"} ELSE b.changed
  <2>1. CASE some
    <3>1. ~Collides(b.current, "index", index)
      BY <1>11 DEF Collides
    <3> QED
      BY <1>12, <2>1, <3>1 DEF WroteExactly
  <2>2. CASE ~some
    BY <1>2, <1>13, <2>2 DEF SameElsewhere
  <2> QED
    BY <2>1, <2>2
<1>15. page => WroteExactly(b2, b1, "404", missing)
  BY <1>8, <1>14, KeysOf, WroteExact
<1>16. ~page => b2 = b1
  BY <1>8
<1>17. /\ DOMAIN b2 = Locals /\ SameElsewhere(b2, b1)
       /\ b2.previous = b.previous /\ b2.copies = b.copies /\ b2.collisions = b.collisions
       /\ b2.expected = b1.expected \cup (IF page THEN {"404"} ELSE {})
       /\ \A k \in Key \ {"404"} : b2.current[k] = b1.current[k]
       /\ page => b2.current["404"] = missing
       /\ ~page => b2.current = b1.current
       /\ b2.changed = IF page /\ ~Skips(b.force, b.previous, out, "404", missing)
                       THEN b1.changed \cup {"404"} ELSE b1.changed
  <2>1. CASE page
    <3>1. b1.current["404"] = Absent /\ b1.force = b.force
      BY <1>11, <1>14, KeysOf DEF SameElsewhere
    <3>2. ~Collides(b1.current, "404", missing)
      BY <3>1 DEF Collides
    <3> QED
      BY <1>14, <1>15, <2>1, <3>1, <3>2 DEF WroteExactly
  <2>2. CASE ~page
    BY <1>14, <1>16, <2>2 DEF SameElsewhere
  <2> QED
    BY <2>1, <2>2
<1>18. PICK new : new = (IF some THEN {"index"} ELSE {}) \cup (IF page THEN {"404"} ELSE {})
  OBVIOUS
<1>19. PICK val : val = [k \in {"index", "404"} |-> IF k = "index" THEN index ELSE missing]
  OBVIOUS
<1>20. /\ ("index" \in new <=> some) /\ ("404" \in new <=> page)
       /\ val["index"] = index /\ val["404"] = missing
       /\ new \subseteq {"index", "404"} /\ new \subseteq Key /\ new \cap b.expected = {}
       /\ new \cap b.changed = {} /\ new \cap Titles = {}
  BY <1>11, <1>18, <1>19, KeysOf
<1>21. \A x \in Locals \ {"derived"} : b'[x] = b2[x]
  BY <1>9, <1>17
<1>22. b'.derived = b2.expected \ b.expected
  BY <1>9, <1>17 DEF Locals
<1>23. b'.expected = b2.expected /\ b'.current = b2.current /\ b'.collisions = b2.collisions
       /\ b'.changed = b2.changed /\ b'.copies = b2.copies /\ b'.previous = b2.previous
  BY <1>21 DEF Locals, Early
<1>24. b'.expected = b.expected \cup new /\ b'.derived = new
  BY <1>14, <1>17, <1>18, <1>20, <1>22, <1>23
<1>25. b'.copies = b.copies /\ b'.previous = b.previous /\ b'.collisions = b.collisions
  BY <1>17, <1>23
<1>26. /\ \A k \in Key \ new : b'.current[k] = b.current[k] /\ out'[k] = out[k]
       /\ \A k \in new : b'.current[k] = val[k] /\ out'[k] = OnDisk(k, val[k])
  <2>1. "index" \in Key /\ "404" \in Key
    BY KeysOf
  <2>2. \A k \in Key \ new : b'.current[k] = b.current[k]
    BY <1>14, <1>17, <1>20, <1>23
  <2>3. \A k \in Key \ new : out'[k] = out[k]
    BY <1>10, <1>20
  <2>4. some => b'.current["index"] = index /\ out'["index"] = OnDisk("index", index)
    BY <1>10, <1>14, <1>17, <1>23, <2>1
  <2>5. page => b'.current["404"] = missing /\ out'["404"] = OnDisk("404", missing)
    BY <1>10, <1>17, <1>23, <2>1
  <2> QED
    BY <1>20, <2>2, <2>3, <2>4, <2>5
<1>27. /\ b.changed \subseteq b'.changed /\ b'.changed \subseteq b.changed \cup new
       /\ \A k \in new : k \in b'.changed <=> ~Skips(b.force, b.previous, out, k, val[k])
  BY <1>11, <1>14, <1>17, <1>20, <1>23
<1>28. /\ b'.todo = b.todo /\ b'.shipped = b.shipped /\ b'.stamps = b.stamps
       /\ b'.sources = b.sources /\ b'.around = b.around /\ b'.related = b.related
       /\ b'.pages = b.pages
  BY <1>14, <1>17, <1>21 DEF SameElsewhere, Locals, Early
<1>29. SameReading
  BY <1>14, <1>17, <1>21, <1>25 DEF SameElsewhere, SameReading, Locals, Early
<1>30. Works
  <2>1. \A k \in Key \ b'.changed : out'[k] = out[k]
    BY <1>26, <1>27 DEF OnDisk
  <2> QED
    BY <1>1, <1>27, <1>29, <2>1 DEF Works, Working, RenderDerived, ghosts
<1>31. /\ LoadInv' /\ ReadInv' /\ StateInv'
       /\ Started /\ Started' /\ Covered' = Covered /\ Shipping' = Shipping /\ dirty' = dirty
       /\ post' = post /\ mtime' = mtime /\ stime' = stime /\ clock' = clock /\ state' = state
       /\ still' = still
  BY <1>30, WorkKeeps
<1>32. /\ pc \in Writing /\ pc' \in Writing /\ pc \notin Copying /\ pc' \in Copying
       /\ pc' \in Rendering /\ pc \in Rendering /\ pc' \in Listed /\ pc \in Listed
       /\ pc \notin {"save state", "end"} /\ pc' \notin {"save state", "end"}
       /\ pc' \notin Saving /\ b.todo = {}
  BY <1>1 DEF Writing, Copying, Saving, Rendering, Listed, LocalsInv
<1>33. \A k \in new : val[k] # Absent
  <2>1. b.layout \in Layout /\ b.nav \in Nav
    BY <1>1 DEF ReadInv
  <2>2. index # Absent /\ missing # Absent
    BY <1>3, <1>4, <1>32, <2>1, BytesAreSomething, IndexIsSomething
  <2> QED
    BY <1>20, <2>2
<1>34. TimeInv'
  BY <1>1, <1>25, <1>28, <1>29, <1>31 DEF TimeInv, SameReading
<1>35. EntryInv'
  BY <1>1, <1>28, <1>29, <1>31, <1>32 DEF EntryInv, SameReading, Scanning
<1>36. TruthInv'
  BY <1>28, <1>29, <1>31 DEF TruthInv, PageTrue, SourceTrue, SameReading
<1>37. WriteInv'
  <2>1. b'.changed \subseteq b'.expected
    BY <1>24, <1>27, <1>31 DEF WriteInv
  <2>2. \A k \in Key : k \in b'.expected <=> b'.current[k] # Absent
    BY <1>24, <1>26, <1>31, <1>33 DEF WriteInv
  <2>3. \A k \in b'.expected \ b'.changed : b'.current[k] = b'.previous[k]
    <3> TAKE k \in b'.expected \ b'.changed
    <3>1. CASE k \in new
      BY <1>25, <1>26, <1>27, <3>1 DEF Skips
    <3>2. CASE k \notin new
      <4>1. k \in b.expected \ b.changed /\ k \in Key
        BY <1>2, <1>24, <1>27, <3>2
      <4> QED
        BY <1>25, <1>26, <1>31, <3>2, <4>1 DEF WriteInv
    <3> QED
      BY <3>1, <3>2
  <2>4. b'.force => b'.expected \subseteq b'.changed
    BY <1>24, <1>27, <1>29, <1>31 DEF WriteInv, Skips, SameReading
  <2>5. \A k \in b'.expected : out'[k] # Absent
    <3> TAKE k \in b'.expected
    <3>1. CASE k \in new
      BY <1>26, <1>33, <3>1, WriteLeavesSomething
    <3>2. CASE k \notin new
      BY <1>2, <1>24, <1>26, <1>31, <1>32, <3>2 DEF WriteInv
    <3> QED
      BY <3>1, <3>2
  <2>6. \A f \in Present(b'.pages) \ b'.todo : b'.pages[f].output \in b'.expected
    BY <1>24, <1>28, <1>31, <1>32 DEF WriteInv
  <2>7. \A k \in b'.expected :
          \/ \E f \in Present(b'.pages) \ b'.todo : k = b'.pages[f].output
          \/ k \in b'.derived
    BY <1>1, <1>24, <1>28, PagesExpected
  <2>8. b'.derived \subseteq b'.expected /\ (\A k \in Static : b'.copies[k] = Absent)
        /\ b'.todo = {}
    BY <1>24, <1>25, <1>28, <1>31, <1>32 DEF WriteInv
  <2> QED
    BY <1>1, <1>32, <2>1, <2>2, <2>3, <2>4, <2>5, <2>6, <2>7, <2>8 DEF WriteInv
<1>38. BytesInv'
  <2> SUFFICES ASSUME Covered PROVE BytesInv'
    BY <1>31 DEF BytesInv
  <2>1. \A k \in new : out'[k] = b'.current[k] \/ k \in dirty \ b'.changed
    <3> TAKE k \in new
    <3>1. CASE ~Skips(b.force, b.previous, out, k, val[k])
      BY <1>26, <3>1 DEF OnDisk
    <3>2. CASE Skips(b.force, b.previous, out, k, val[k])
      <4>1. k \in Key /\ k \notin b.changed /\ k \notin b'.changed /\ out'[k] = out[k]
        BY <1>20, <1>26, <1>27, <3>2 DEF OnDisk
      <4>2. out[k] = val[k] \/ k \in dirty
        BY <1>32, <1>33, <3>2, <4>1, SkipsHolds
      <4> QED
        BY <1>26, <4>1, <4>2
    <3> QED
      BY <3>1, <3>2
  <2>2. \A k \in b.expected \ b.collisions :
          out'[k] = b'.current[k] \/ k \in dirty \ b'.changed
    BY <1>2, <1>20, <1>26, <1>27, <1>31 DEF BytesInv
  <2>3. \A f \in Source : Rendered(f)' = Rendered(f)
    BY <1>28, <1>29 DEF Rendered, SameReading
  <2>4. \A f \in Present(b.pages) : f \in Source /\ b.pages[f].output \in Key \ new
    BY <1>1, <1>20, OutputsAreTitles
  <2>5. \A f \in Present(b.pages) \ b.todo :
          \/ b.pages[f].output \in b.collisions
          \/ b'.current[b.pages[f].output] = Rendered(f)
          \/ b.pages[f].output \in dirty \ b'.changed
    BY <1>26, <1>27, <1>31, <1>32, <2>4, ZenonT(60) DEF BytesInv
  <2> QED
    BY <1>24, <1>25, <1>28, <1>31, <2>1, <2>2, <2>3, <2>4, <2>5 DEF BytesInv
<1>39. DerivedInv'
  <2> SUFFICES ASSUME Covered PROVE DerivedInv'
    BY <1>31 DEF DerivedInv
  <2>1. "404" \in b.shipped <=> "404" \in Shipping
    BY <1>31, <1>32 DEF DerivedInv
  <2>2. "index" \in b'.derived <=> Present(b'.pages) # {}
    BY <1>5, <1>20, <1>24, <1>28
  <2>3. "404" \in b'.derived <=> "404" \notin Shipping'
    BY <1>6, <1>20, <1>24, <1>31, <2>1
  <2>4. "index" \in b'.derived => b'.current["index"] = IndexBytes(b'.pages, b'.layout, b'.nav)
    BY <1>3, <1>20, <1>24, <1>26, <1>28, <1>29 DEF SameReading
  <2>5. "404" \in b'.derived => b'.current["404"] = MissingBytes(b'.layout, b'.nav)
    BY <1>4, <1>20, <1>24, <1>26, <1>29 DEF SameReading
  <2>6. /\ b'.shipped \cap (Titles \cup {"404"}) \subseteq Shipping'
        /\ \A k \in Static : b'.copies[k] = Absent
    BY <1>25, <1>28, <1>31, <1>32 DEF DerivedInv, WriteInv
  <2> QED
    BY <1>32, <2>2, <2>3, <2>4, <2>5, <2>6 DEF DerivedInv
<1>40. AgreeInv'
  <2> SUFFICES ASSUME Covered, still PROVE AgreeInv'
    BY <1>31 DEF AgreeInv
  <2>1. FreshPages(b.drafts)' = FreshPages(b.drafts)
    BY <1>29, <1>31 DEF FreshPages, SameReading
  <2>2. b'.shipped = Shipping
    BY <1>28, <1>31, <1>32 DEF AgreeInv
  <2>3. \A k \in b'.expected :
          (\E f \in Present(b'.pages) : k = b'.pages[f].output) \/ k \in b'.derived
    BY <1>1, <1>24, <1>28, PagesExpected
  <2> QED
    BY <1>1, <1>28, <1>31, <1>32, <2>1, <2>2, <2>3 DEF AgreeInv
<1> QED
  BY <1>31, <1>34, <1>35, <1>36, <1>37, <1>38, <1>39, <1>40

-----------------------------------------------------------------------------
(* Static files are copied *)

(* Where the state can be believed, a static file that is still to be copied *)
(* has a key that nothing has yet.                                           *)
LEMMA CopiesAreNew ==
  ASSUME BuildInv, PastInv, pc = "static", Covered, NEW k \in Static, k \in b.shipped
  PROVE  /\ k \notin Titles /\ k \notin b.derived
         /\ k \notin b.expected /\ k \notin b.changed /\ b.current[k] = Absent
<1> USE DEF BuildInv, PastInv
<1>1. Started /\ pc \in Copying /\ pc \in Writing
  BY DEF Started, Copying, Writing, Rendering
<1>2. k \in Titles \cup {"404"} => static[k] # Absent
  BY <1>1 DEF DerivedInv, Shipping
<1>3. k \notin Titles
  BY <1>2 DEF Covered, Plain
<1>4. b.derived \subseteq {"index", "404"}
  BY <1>1 DEF LocalsInv, Started
<1>5. k \notin b.derived
  BY <1>1, <1>2, <1>4, KeysOf DEF DerivedInv, Shipping
<1>6. k \notin b.expected
  BY <1>1, <1>3, <1>5, OutputsAreTitles DEF WriteInv, Started
<1>7. k \notin b.changed /\ b.current[k] = Absent
  BY <1>1, <1>6, KeysOf DEF WriteInv
<1> QED
  BY <1>3, <1>5, <1>6, <1>7

(* A static file whose bytes are v is copied or kept, and c recorded of it. *)
LEMMA PastCopies ==
  ASSUME BuildInv, PastInv, BuildInv', Works, pc = "static", pc' = "static",
         NEW k \in Static, k \in b.shipped, NEW v, v # Absent, NEW c,
         b'.todo = b.todo, b'.pages = b.pages, b'.stamps = b.stamps, b'.around = b.around,
         b'.related = b.related, b'.sources = b.sources, b'.derived = b.derived,
         b'.shipped = b.shipped \ {k}, b'.copies = [b.copies EXCEPT ![k] = c],
         b'.expected = b.expected \cup {k}, b.collisions \subseteq b'.collisions,
         b'.changed \subseteq b.changed \cup {k}, b.force => k \in b'.changed,
         b'.current = [b.current EXCEPT ![k] = v], DOMAIN out' = Key,
         \A j \in Key \ {k} : out'[j] = out[j], out'[k] # Absent,
         k \notin b'.changed => v = b.previous[k],
         c.modified = stime[k],
         Covered =>
             /\ out'[k] = v \/ k \in dirty \ b'.changed
             /\ \/ k \in dirty \ b'.changed
                \/ /\ v = StaticBytes(static[k])
                   /\ c.modified >= b.started => c.hash = static[k]
  PROVE  PastInv'
<1> USE DEF BuildInv, PastInv
<1>1. /\ LoadInv' /\ ReadInv' /\ StateInv'
      /\ Started /\ Started' /\ Covered' = Covered /\ Shipping' = Shipping /\ dirty' = dirty
      /\ post' = post /\ mtime' = mtime /\ stime' = stime /\ clock' = clock /\ state' = state
      /\ still' = still /\ static' = static
  BY WorkKeeps
<1>2. SameReading /\ b.changed \subseteq b'.changed
  BY DEF Works
<1>3. /\ pc \in Writing /\ pc \in Copying /\ pc \in Rendering /\ pc \in Listed
      /\ pc \notin {"save state", "end"} /\ pc \notin Saving /\ pc \notin Scanning
      /\ b.todo = {} /\ b.expected \subseteq Key /\ DOMAIN b.current = Key /\ k \in Key
  BY KeysOf DEF Writing, Copying, Saving, Rendering, Listed, Scanning, LocalsInv
<1>4. /\ \A j \in Key \ {k} : b'.current[j] = b.current[j]
      /\ b'.current[k] = v
  BY <1>3
<1>5. DOMAIN b.copies = Static
  BY <1>1 DEF TimeInv
<1>6. b'.copies[k] = c /\ (\A j \in Static \ {k} : b'.copies[j] = b.copies[j])
      /\ DOMAIN b'.copies = Static
  BY <1>5
<1>7. TimeInv'
  <2>1. stime[k] \in Nat /\ stime[k] <= stime[k]
    BY DEF TypeOK
  <2>2. \A j \in Static : b'.copies[j] # Absent =>
          b'.copies[j].modified \in Nat /\ b'.copies[j].modified <= stime[j]
    BY <1>1, <1>6, <2>1 DEF TimeInv
  <2> QED
    BY <1>1, <1>2, <1>6, <2>2 DEF TimeInv, SameReading
<1>8. EntryInv'
  BY <1>1, <1>2, <1>3 DEF EntryInv, SameReading
<1>9. TruthInv'
  BY <1>1, <1>2 DEF TruthInv, PageTrue, SourceTrue, SameReading
<1>10. WriteInv'
  <2>1. b'.changed \subseteq b'.expected
    BY <1>1 DEF WriteInv
  <2>2. \A j \in Key : j \in b'.expected <=> b'.current[j] # Absent
    BY <1>1, <1>4 DEF WriteInv
  <2>3. \A j \in b'.expected \ b'.changed : b'.current[j] = b'.previous[j]
    <3> TAKE j \in b'.expected \ b'.changed
    <3>1. CASE j = k
      BY <1>2, <1>4, <3>1 DEF SameReading
    <3>2. CASE j # k
      <4>1. j \in b.expected \ b.changed /\ j \in Key
        BY <1>2, <1>3, <3>2
      <4> QED
        BY <1>1, <1>2, <1>4, <3>2, <4>1 DEF WriteInv, SameReading
    <3> QED
      BY <3>1, <3>2
  <2>4. b'.force => b'.expected \subseteq b'.changed
    BY <1>1, <1>2 DEF WriteInv, SameReading
  <2>5. \A j \in b'.expected : out'[j] # Absent
    BY <1>1, <1>3 DEF WriteInv
  <2>6. \A f \in Present(b'.pages) \ b'.todo : b'.pages[f].output \in b'.expected
    BY <1>1, <1>3 DEF WriteInv
  <2>7. \A j \in b'.expected :
          \/ \E f \in Present(b'.pages) \ b'.todo : j = b'.pages[f].output
          \/ j \in b'.derived \cup (Static \ b'.shipped)
    <3> TAKE j \in b'.expected
    <3>1. CASE j = k
      BY <3>1
    <3>2. CASE j # k
      <4>1. \/ \E f \in Present(b.pages) \ b.todo : j = b.pages[f].output
            \/ j \in b.derived \cup (Static \ b.shipped)
        BY <1>1, <1>3, <3>2 DEF WriteInv
      <4> QED
        BY <4>1
    <3> QED
      BY <3>1, <3>2
  <2>8. b'.derived \subseteq b'.expected /\ b'.todo = {}
        /\ \A j \in Static : b'.copies[j] # Absent => j \in b'.expected \ b'.shipped
    BY <1>1, <1>3, <1>6 DEF WriteInv
  <2> QED
    BY <1>3, <2>1, <2>2, <2>3, <2>4, <2>5, <2>6, <2>7, <2>8 DEF WriteInv
<1>11. Covered =>
         /\ k \notin b.derived /\ k \notin b.expected /\ k \notin b.changed
         /\ \A f \in Present(b.pages) : f \in Source /\ b.pages[f].output \in Key \ {k}
  BY CopiesAreNew, OutputsAreTitles
<1>12. BytesInv'
  <2> SUFFICES ASSUME Covered PROVE BytesInv'
    BY <1>1 DEF BytesInv
  <2>1. \A j \in b'.expected \ b'.collisions : out'[j] = b'.current[j] \/ j \in dirty \ b'.changed
    <3> TAKE j \in b'.expected \ b'.collisions
    <3>1. CASE j = k
      BY <1>4, <3>1
    <3>2. CASE j # k
      <4>1. j \in b.expected \ b.collisions /\ j \in Key
        BY <1>3, <3>2
      <4> QED
        BY <1>1, <1>4, <3>2, <4>1 DEF BytesInv
    <3> QED
      BY <3>1, <3>2
  <2>2. \A f \in Source : Rendered(f)' = Rendered(f)
    BY <1>2 DEF Rendered, SameReading
  <2>3. \A f \in Present(b.pages) \ b.todo :
          \/ b.pages[f].output \in b'.collisions
          \/ b'.current[b.pages[f].output] = Rendered(f)
          \/ b.pages[f].output \in dirty \ b'.changed
    <3> TAKE f \in Present(b.pages) \ b.todo
    <3>1. b.pages[f].output \in Key \ {k}
      BY <1>11
    <3>2. \/ b.pages[f].output \in b.collisions
          \/ b.current[b.pages[f].output] = Rendered(f)
          \/ b.pages[f].output \in dirty \ b.changed
      BY <1>1, <1>3 DEF BytesInv
    <3> QED
      BY <1>4, <3>1, <3>2
  <2> QED
    BY <1>1, <1>11, <2>1, <2>2, <2>3 DEF BytesInv
<1>13. DerivedInv'
  <2> SUFFICES ASSUME Covered PROVE DerivedInv'
    BY <1>1 DEF DerivedInv
  <2>1. \A j \in b.derived : j \in Key \ {k} /\ (j \in b'.changed <=> j \in b.changed)
    BY <1>1, <1>2, <1>3, <1>11 DEF WriteInv
  <2>2. /\ "index" \in b.derived =>
              \/ b'.current["index"] = IndexBytes(b.pages, b.layout, b.nav)
              \/ "index" \in dirty \ b'.changed
        /\ "404" \in b.derived =>
              \/ b'.current["404"] = MissingBytes(b.layout, b.nav)
              \/ "404" \in dirty \ b'.changed
    BY <1>1, <1>3, <1>4, <2>1 DEF DerivedInv
  <2>3. \A j \in Static : b'.copies[j] # Absent =>
          \/ j \in dirty \ b'.changed
          \/ CopyTrue(b.copies[j], j, b.current[j], b.started)'
    <3> TAKE j \in Static
    <3>1. CASE j = k
      BY <1>1, <1>2, <1>4, <1>6, <3>1 DEF CopyTrue, SameReading
    <3>2. CASE j # k
      <4>1. j \in Key /\ b'.copies[j] = b.copies[j] /\ b'.current[j] = b.current[j]
            /\ (j \in b'.changed <=> j \in b.changed)
        BY <1>2, <1>4, <1>6, <3>2, KeysOf
      <4>2. b.copies[j] # Absent =>
              j \in dirty \ b.changed \/ CopyTrue(b.copies[j], j, b.current[j], b.started)
        BY <1>1, <1>3 DEF DerivedInv
      <4> QED
        BY <1>1, <1>2, <4>1, <4>2 DEF CopyTrue, SameReading
    <3> QED
      BY <3>1, <3>2
  <2>4. /\ b'.shipped \cap (Titles \cup {"404"}) \subseteq Shipping
        /\ "index" \in b.derived <=> Present(b.pages) # {}
        /\ "404" \in b.derived <=> "404" \notin Shipping
    BY <1>1, <1>3 DEF DerivedInv
  <2>5. b'.layout = b.layout /\ b'.nav = b.nav
    BY <1>2 DEF SameReading
  <2> QED
    BY <1>1, <1>3, <2>2, <2>3, <2>4, <2>5 DEF DerivedInv
<1>14. AgreeInv'
  <2> SUFFICES ASSUME Covered, still PROVE AgreeInv'
    BY <1>1 DEF AgreeInv
  <2>1. FreshPages(b.drafts)' = FreshPages(b.drafts)
    BY <1>1, <1>2 DEF FreshPages, SameReading
  <2>2. b.shipped \subseteq Shipping
    BY <1>1, <1>3 DEF AgreeInv
  <2>3. \A j \in Shipping \ b'.shipped :
          /\ j \in b'.expected
          /\ b'.current[j] = StaticBytes(static[j]) \/ j \in dirty \ b'.changed
    <3> TAKE j \in Shipping \ b'.shipped
    <3>1. CASE j = k
      BY <1>4, <3>1
    <3>2. CASE j # k
      <4>1. j \in Shipping \ b.shipped /\ j \in Key
        BY <3>2, KeysOf DEF Shipping
      <4> QED
        BY <1>1, <1>3, <1>4, <3>2, <4>1 DEF AgreeInv
    <3> QED
      BY <3>1, <3>2
  <2>4. \A j \in b'.expected :
          \/ \E f \in Present(b'.pages) : j = b'.pages[f].output
          \/ j \in b'.derived \cup Shipping
    <3> TAKE j \in b'.expected
    <3>1. CASE j = k
      BY <2>2, <3>1
    <3>2. CASE j # k
      BY <1>1, <1>3, <3>2 DEF AgreeInv
    <3> QED
      BY <3>1, <3>2
  <2> QED
    BY <1>1, <1>3, <2>1, <2>2, <2>3, <2>4 DEF AgreeInv
<1> QED
  BY <1>1, <1>7, <1>8, <1>9, <1>10, <1>12, <1>13, <1>14

(* A static file is left alone: its stamp, or the hash of a stamp that       *)
(* cannot be believed, says that it is what was copied.                      *)
LEMMA PastCopyKeeps ==
  ASSUME BuildInv, PastInv, BuildInv', NEW k \in Static, CopyKeep(k)
  PROVE  PastInv'
<1> USE DEF BuildInv, PastInv
<1>1. pc = "static" /\ pc' = "static" /\ k \in b.shipped /\ CopyUnchanged(k) /\ out' = out
  BY DEF CopyKeep, stored
<1>2. DOMAIN b = Locals /\ DOMAIN b.current = Key /\ DOMAIN out = Key /\ k \in Key
  BY <1>1, KeysOf DEF LocalsInv
<1>3. Started /\ pc \in Rendering
  BY <1>1 DEF Started, Rendering
<1>4. PICK c : c = b.prior.copies[k]
  OBVIOUS
<1>5. PICK v : v = b.previous[k]
  OBVIOUS
<1>6. \A x \in Locals \ {"expected", "current", "copies", "shipped"} : b'[x] = b[x]
  BY <1>2 DEF CopyKeep, Kept
<1>7. /\ b'.expected = b.expected \cup {k} /\ b'.current = [b.current EXCEPT ![k] = v]
      /\ b'.copies = [b.copies EXCEPT ![k] = c] /\ b'.shipped = b.shipped \ {k}
  BY <1>2, <1>4, <1>5 DEF CopyKeep, Kept, Locals, Early
<1>8. /\ b'.todo = b.todo /\ b'.changed = b.changed /\ b'.collisions = b.collisions
      /\ b'.stamps = b.stamps /\ b'.pages = b.pages /\ b'.around = b.around
      /\ b'.related = b.related /\ b'.sources = b.sources /\ b'.derived = b.derived
  BY <1>6 DEF Locals, Early
<1>9. SameReading
  BY <1>6 DEF SameReading, Locals, Early
<1>10. Works
  BY <1>1, <1>8, <1>9 DEF Works, Working, CopyKeep, ghosts, stored
<1>11. /\ ~b.force /\ c # Absent /\ c.modified = stime[k] /\ v # Absent /\ out[k] # Absent
       /\ c.modified < b.prior.started \/ c.hash = static[k]
  BY <1>1, <1>4, <1>5 DEF CopyUnchanged, Reusable, Settled
<1>12. ASSUME Covered
       PROVE  /\ out[k] = v \/ k \in dirty \ b.changed
              /\ \/ k \in dirty \ b.changed
                 \/ /\ v = StaticBytes(static[k])
                    /\ c.modified >= b.started => c.hash = static[k]
  <2>1. b.prior = state /\ state.started <= b.started /\ b.previous = LoadManifest(manifest)
    BY <1>1, <1>3 DEF LoadInv
  <2>2. StateTrue
    BY <1>1, <1>11, <1>12 DEF StateInv, Covered
  <2>3. Memo = b.previous /\ Dirt = dirty \cup b.changed
    BY <1>1, <2>1 DEF Memo, Dirt
  <2>4. k \notin b.changed
    BY <1>1, <1>12, CopiesAreNew
  <2>5. out[k] = v \/ k \in dirty
    BY <1>2, <1>5, <1>11, <2>2, <2>3, <2>4 DEF StateTrue
  <2>6. k \in dirty \/ CopyTrue(c, k, v, state.started)
    BY <1>4, <1>5, <1>11, <2>1, <2>2, <2>3, <2>4 DEF StateTrue
  <2>7. c.modified \in Nat /\ stime[k] \in Nat /\ state.started \in Nat /\ b.started \in Nat
    BY <1>1, <1>11 DEF TypeOK, TimeInv, LocalsInv
  <2>8. c.modified >= b.started => c.hash = static[k]
    BY <1>11, <2>1, <2>7
  <2>9. k \in dirty \/ v = StaticBytes(static[k])
    BY <1>11, <2>1, <2>6, <2>7 DEF CopyTrue
  <2> QED
    BY <2>4, <2>5, <2>8, <2>9
<1>13. /\ DOMAIN out' = Key /\ \A j \in Key \ {k} : out'[j] = out[j]
       /\ out'[k] # Absent /\ out'[k] = out[k]
  BY <1>1, <1>2, <1>11
<1> QED
  BY <1>1, <1>5, <1>7, <1>8, <1>10, <1>11, <1>12, <1>13, PastCopies

(* A static file is copied. *)
LEMMA PastCopyWrites ==
  ASSUME BuildInv, PastInv, BuildInv', NEW k \in Static, CopyWrite(k)
  PROVE  PastInv'
<1> USE DEF BuildInv, PastInv
<1>1. pc = "static" /\ pc' = "static" /\ k \in b.shipped
  BY DEF CopyWrite
<1>2. DOMAIN b = Locals /\ DOMAIN b.current = Key /\ DOMAIN out = Key /\ k \in Key
  BY <1>1, KeysOf DEF LocalsInv
<1>3. Started /\ pc \in Rendering
  BY <1>1 DEF Started, Rendering
<1>4. PICK c : c = [modified |-> stime[k],
                    hash |-> IF stime[k] >= b.started THEN static[k] ELSE Absent]
  OBVIOUS
<1>5. PICK v : v = StaticBytes(static[k])
  OBVIOUS
<1>6. PICK w : w = Wrote(b, k, v)
  OBVIOUS
<1>7. b' = [w EXCEPT !.copies[k] = c, !.shipped = @ \ {k}]
      /\ out' = [out EXCEPT ![k] = OnDisk(k, v)]
  BY <1>4, <1>5, <1>6 DEF CopyWrite
<1>8. WroteExactly(w, b, k, v)
  BY <1>2, <1>6, WroteExact
<1>9. \A x \in Locals \ {"copies", "shipped"} : b'[x] = w[x]
  BY <1>7, <1>8 DEF WroteExactly
<1>10. b'.copies = [b.copies EXCEPT ![k] = c] /\ b'.shipped = b.shipped \ {k}
  BY <1>7, <1>8 DEF WroteExactly, SameElsewhere, Locals, Early
<1>11. b'.expected = w.expected /\ b'.collisions = w.collisions /\ b'.current = w.current
       /\ b'.changed = w.changed /\ w.current = [b.current EXCEPT ![k] = v]
  <2>1. w.current = [b.current EXCEPT ![k] = v]
    BY <1>2, <1>6 DEF Wrote, Locals, Early
  <2> QED
    BY <1>9, <2>1 DEF Locals, Early
<1>12. /\ b'.todo = b.todo /\ b'.stamps = b.stamps /\ b'.pages = b.pages
       /\ b'.around = b.around /\ b'.related = b.related /\ b'.sources = b.sources
       /\ b'.derived = b.derived
  BY <1>8, <1>9 DEF WroteExactly, SameElsewhere, Locals, Early
<1>13. SameReading
  BY <1>8, <1>9 DEF WroteExactly, SameElsewhere, SameReading, Locals, Early
<1>14. /\ b'.expected = b.expected \cup {k} /\ b.collisions \subseteq b'.collisions
       /\ b'.changed = IF Skips(b.force, b.previous, out, k, v) THEN b.changed
                       ELSE b.changed \cup {k}
  BY <1>8, <1>11 DEF WroteExactly
<1>15. /\ DOMAIN out' = Key /\ out'[k] = OnDisk(k, v)
       /\ \A j \in Key \ {k} : out'[j] = out[j]
  BY <1>2, <1>7
<1>16. v # Absent
  BY <1>5, BytesAreSomething DEF LoadInv
<1>17. Works
  <2>1. \A j \in Key \ b'.changed : out'[j] = out[j]
    BY <1>14, <1>15 DEF OnDisk
  <2> QED
    BY <1>1, <1>13, <1>14, <2>1 DEF Works, Working, CopyWrite, ghosts
<1>18. out'[k] # Absent
  BY <1>15, <1>16, WriteLeavesSomething
<1>19. k \notin b'.changed => v = b.previous[k]
  BY <1>14 DEF Skips
<1>20. b.force => k \in b'.changed
  BY <1>14 DEF Skips
<1>21. c.modified = stime[k] /\ (c.modified >= b.started => c.hash = static[k])
  BY <1>4
<1>22. ASSUME Covered PROVE out'[k] = v \/ k \in dirty \ b'.changed
  <2>1. k \notin b.changed
    BY <1>1, <1>22, CopiesAreNew
  <2>2. CASE ~Skips(b.force, b.previous, out, k, v)
    BY <1>15, <2>2 DEF OnDisk
  <2>3. CASE Skips(b.force, b.previous, out, k, v)
    <3>1. out[k] = v \/ k \in dirty
      BY <1>2, <1>3, <1>16, <1>22, <2>1, <2>3, SkipsHolds
    <3> QED
      BY <1>14, <1>15, <2>1, <2>3, <3>1 DEF OnDisk
  <2> QED
    BY <2>2, <2>3
<1>23. b'.changed \subseteq b.changed \cup {k} /\ b'.current = [b.current EXCEPT ![k] = v]
  BY <1>11, <1>14
<1> QED
  BY <1>1, <1>5, <1>10, <1>12, <1>14, <1>15, <1>16, <1>17, <1>18, <1>19, <1>20, <1>21, <1>22,
     <1>23, PastCopies

-----------------------------------------------------------------------------
(* The output is pruned, and what the next build needs is saved *)

(* What was not produced is removed. *)
LEMMA PastPrunes == ASSUME BuildInv, PastInv, BuildInv', PruneStep PROVE PastInv'
<1> USE DEF BuildInv, PastInv
<1>1. /\ pc = "static" /\ pc' = "manifest" /\ b' = b /\ b.shipped = {} /\ b.collisions = {}
      /\ out' = Prune(out, b.expected)
  BY DEF PruneStep
<1>2. \A k \in Key : out'[k] = IF k \in b.expected THEN out[k] ELSE Absent
  BY <1>1 DEF Prune
<1>3. b.expected \subseteq Key
  BY <1>1 DEF LocalsInv
<1>4. Works
  BY <1>1, <1>2 DEF Works, Working, PruneStep, ghosts, SameReading
<1>5. /\ LoadInv' /\ ReadInv' /\ StateInv'
      /\ Started /\ Started' /\ Covered' = Covered /\ Shipping' = Shipping /\ dirty' = dirty
      /\ post' = post /\ mtime' = mtime /\ stime' = stime /\ clock' = clock /\ state' = state
      /\ still' = still /\ static' = static
  BY <1>4, WorkKeeps
<1>6. /\ pc \in Writing /\ pc' \in Writing /\ pc \in Copying /\ pc' \in Copying
      /\ pc' \notin Rendering /\ pc \in Listed /\ pc' \in Listed /\ pc' \in Saving
      /\ pc' \notin Scanning
  BY <1>1 DEF Writing, Copying, Saving, Rendering, Listed, Scanning
<1>7. TimeInv'
  BY <1>1, <1>5 DEF TimeInv
<1>8. EntryInv'
  BY <1>1, <1>5, <1>6 DEF EntryInv
<1>9. TruthInv'
  BY <1>1, <1>5 DEF TruthInv, PageTrue, SourceTrue
<1>10. WriteInv'
  BY <1>1, <1>2, <1>5, <1>6 DEF WriteInv
<1>11. BytesInv'
  <2>1. \A f : Rendered(f)' = Rendered(f)
    BY <1>1 DEF Rendered
  <2> QED
    BY <1>1, <1>2, <1>3, <1>5, <1>6, <2>1 DEF BytesInv
<1>12. DerivedInv'
  BY <1>1, <1>5, <1>6 DEF DerivedInv, CopyTrue
<1>13. AgreeInv'
  <2>1. FreshPages(b.drafts)' = FreshPages(b.drafts)
    BY <1>1, <1>5 DEF FreshPages
  <2> QED
    BY <1>1, <1>5, <1>6, <2>1 DEF AgreeInv
<1> QED
  BY <1>5, <1>7, <1>8, <1>9, <1>10, <1>11, <1>12, <1>13

(* Saving touches the manifest and the state alone. *)
Saves ==
    /\ pc \in Saving /\ pc' \in Saving /\ b' = b /\ out' = out
    /\ UNCHANGED <<inputs, still, dirty, flag, uncovered>>

(* A step of the saving keeps every part of PastInv that does not speak of   *)
(* what is saved.                                                            *)
LEMMA SavingKeeps ==
  ASSUME BuildInv, PastInv, Saves,
         pc' \notin {"save state", "end"} => pc \notin {"save state", "end"} /\ state' = state
  PROVE  /\ ReadInv' /\ EntryInv' /\ TruthInv' /\ WriteInv' /\ BytesInv' /\ DerivedInv' /\ AgreeInv'
         /\ Started /\ Started' /\ Covered' = Covered /\ Shipping' = Shipping
         /\ post' = post /\ layout' = layout /\ nav' = nav /\ static' = static
         /\ mtime' = mtime /\ stime' = stime /\ clock' = clock
         /\ dirty' = dirty /\ still' = still /\ uncovered' = uncovered /\ flag' = flag
         /\ b' = b /\ out' = out
<1> USE DEF BuildInv, PastInv
<1>1. /\ post' = post /\ layout' = layout /\ nav' = nav /\ static' = static
      /\ mtime' = mtime /\ stime' = stime /\ clock' = clock
      /\ dirty' = dirty /\ still' = still /\ uncovered' = uncovered /\ flag' = flag
      /\ b' = b /\ out' = out
  BY DEF Saves, inputs
<1>2. Started /\ Started' /\ pc # "idle" /\ pc' # "idle"
  BY DEF Saves, Saving, Started
<1>3. Plain' = Plain /\ Shipping' = Shipping
  BY <1>1 DEF Plain, Shipping
<1>4. Covered' = Covered
  BY <1>1, <1>2, <1>3 DEF Covered
<1>5. /\ pc \in Writing /\ pc' \in Writing /\ pc \in Copying /\ pc' \in Copying
      /\ pc' \notin Rendering /\ pc \in Listed /\ pc' \in Listed /\ pc' \in Saving /\ pc \in Saving
      /\ pc' \notin Scanning /\ pc' \notin {"related", "render", "read", "fingerprint"}
  BY DEF Saves, Writing, Copying, Saving, Rendering, Listed, Scanning
<1>6. ReadInv'
  BY <1>1, <1>2, <1>3, <1>4, <1>5 DEF ReadInv
<1>7. EntryInv'
  BY <1>1, <1>2, <1>5, ZenonT(60) DEF EntryInv
<1>8. TruthInv'
  BY <1>1, <1>2, <1>4 DEF TruthInv, PageTrue, SourceTrue
<1>9. WriteInv'
  <2>1. pc # "render"
    BY <1>5 DEF Saving
  <2> QED
    BY <1>1, <1>2, <1>5, <2>1 DEF WriteInv
<1>10. BytesInv'
  <2>1. \A f : Rendered(f)' = Rendered(f)
    BY <1>1 DEF Rendered
  <2> QED
    BY <1>1, <1>2, <1>4, <1>5, <2>1 DEF BytesInv
<1>11. DerivedInv'
  BY <1>1, <1>2, <1>3, <1>4, <1>5 DEF DerivedInv, CopyTrue
<1>12. AgreeInv'
  <2>1. FreshPages(b.drafts)' = FreshPages(b.drafts)
    BY <1>1 DEF FreshPages
  <2> QED
    BY <1>1, <1>2, <1>3, <1>4, <1>5, <2>1 DEF AgreeInv
<1> QED
  BY <1>1, <1>2, <1>3, <1>4, <1>6, <1>7, <1>8, <1>9, <1>10, <1>11, <1>12

(* The manifest is truncated, and then written: what was not written by this *)
(* build is recorded as it was.                                              *)
LEMMA PastSavesManifest ==
  ASSUME BuildInv, PastInv, BuildInv', OpenManifest \/ SaveManifest
  PROVE  PastInv'
<1> USE DEF BuildInv, PastInv
<1>1. Saves
  BY DEF Saves, Saving, OpenManifest, SaveManifest, ghosts
<1>2. state' = state /\ \/ pc = "manifest" /\ pc' = "save manifest" /\ manifest' = Torn
                        \/ pc = "save manifest" /\ pc' = "state" /\ manifest' = b.current
  BY DEF OpenManifest, SaveManifest
<1>3. /\ ReadInv' /\ EntryInv' /\ TruthInv' /\ WriteInv' /\ BytesInv' /\ DerivedInv' /\ AgreeInv'
      /\ Started /\ Started' /\ Covered' = Covered /\ Shipping' = Shipping
      /\ post' = post /\ layout' = layout /\ nav' = nav /\ static' = static
      /\ mtime' = mtime /\ stime' = stime /\ clock' = clock
      /\ dirty' = dirty /\ still' = still /\ uncovered' = uncovered /\ flag' = flag
      /\ b' = b /\ out' = out
  BY <1>1, <1>2, SavingKeeps
<1>4. TimeInv'
  BY <1>2, <1>3 DEF TimeInv
<1>5. LoadInv'
  BY <1>2, <1>3 DEF LoadInv
<1>6. \A k \in Key \ Dirt' : Memo'[k] \in {Memo[k], Absent}
  <2> TAKE k \in Key \ Dirt'
  <2>1. CASE pc = "manifest"
    BY <1>2, <1>3, <2>1 DEF Memo, LoadInv
  <2>2. CASE pc = "save manifest"
    <3>1. Memo[k] = b.previous[k] /\ Memo' = LoadManifest(b.current) /\ k \notin b.changed
      BY <1>2, <1>3, <2>2 DEF Memo, Dirt
    <3>2. b.current[k] \in {b.previous[k], Absent}
      BY <1>3, <3>1 DEF WriteInv
    <3>3. Memo'[k] \in {b.current[k], Absent}
      BY <3>1 DEF LoadManifest, NoEntries
    <3> QED
      BY <3>1, <3>2, <3>3
  <2> QED
    BY <1>2, <2>1, <2>2
<1>7. Dirt' = Dirt /\ Drafts' = Drafts
  BY <1>2, <1>3 DEF Dirt, Drafts
<1>8. StateTrue => StateTrue'
  BY <1>2, <1>3, <1>6, <1>7, StateKept
<1>9. StateInv'
  BY <1>2, <1>3, <1>8 DEF StateInv
<1> QED
  BY <1>3, <1>4, <1>5, <1>9

(* The state is truncated: until it is written there is none. *)
LEMMA PastOpensState == ASSUME BuildInv, PastInv, BuildInv', OpenState PROVE PastInv'
<1> USE DEF BuildInv, PastInv
<1>1. pc = "state" /\ pc' = "save state" /\ manifest' = manifest /\ state' = NoState
  BY DEF OpenState
<1>2. Saves
  BY DEF Saves, Saving, OpenState, ghosts
<1>3. /\ ReadInv' /\ EntryInv' /\ TruthInv' /\ WriteInv' /\ BytesInv' /\ DerivedInv' /\ AgreeInv'
      /\ Started /\ Started' /\ static' = static
      /\ mtime' = mtime /\ stime' = stime /\ clock' = clock
      /\ dirty' = dirty /\ uncovered' = uncovered
      /\ b' = b /\ out' = out
  BY <1>1, <1>2, SavingKeeps
<1>4. state'.started = 0 /\ Known(state.sources)' = {} /\ DOMAIN state'.copies = Static
      /\ state'.fingerprint = Absent /\ \A k \in Static : state'.copies[k] = Absent
  BY <1>1 DEF NoState, Known
<1>5. TimeInv'
  <2>1. clock \in Nat
    BY DEF TypeOK
  <2>2. state'.started \in Nat /\ state'.started <= clock'
    BY <1>3, <1>4, <2>1
  <2>3. \A f \in Known(state.sources)' : state'.sources[f].modified <= mtime'[f]
    BY <1>4
  <2> QED
    BY <1>1, <1>3, <1>4, <2>2, <2>3 DEF TimeInv
<1>6. LoadInv'
  BY <1>1, <1>3 DEF LoadInv
<1>7. Dirt' = Dirt /\ Memo' = Memo
  BY <1>1, <1>3 DEF Dirt, Memo
<1>8. StateTrue => StateTrue'
  BY <1>3, <1>4, <1>7 DEF StateTrue
<1>9. StateInv'
  BY <1>1, <1>3, <1>8 DEF StateInv
<1> QED
  BY <1>3, <1>5, <1>6, <1>9

(* The state that is saved says what the build found. *)
LEMMA PastSavesState == ASSUME BuildInv, PastInv, BuildInv', SaveState PROVE PastInv'
<1> USE DEF BuildInv, PastInv
<1>1. /\ pc = "save state" /\ pc' = "end" /\ manifest' = manifest
      /\ state' = [fingerprint |-> b.fingerprint, started |-> b.started,
                   sources |-> b.sources, copies |-> b.copies, derived |-> b.derived]
  BY DEF SaveState
<1>2. Saves
  BY DEF Saves, Saving, SaveState, ghosts
<1>3. /\ ReadInv' /\ EntryInv' /\ TruthInv' /\ WriteInv' /\ BytesInv' /\ DerivedInv' /\ AgreeInv'
      /\ Started /\ Started' /\ Covered' = Covered /\ Shipping' = Shipping
      /\ post' = post /\ nav' = nav /\ static' = static
      /\ mtime' = mtime /\ stime' = stime /\ clock' = clock
      /\ dirty' = dirty /\ uncovered' = uncovered
      /\ b' = b /\ out' = out
  BY <1>1, <1>2, SavingKeeps
<1>4. /\ state'.fingerprint = b.fingerprint /\ state'.started = b.started
      /\ state'.sources = b.sources /\ state'.copies = b.copies /\ state'.derived = b.derived
  BY <1>1
<1>5. pc \in Writing /\ pc \in Copying /\ pc \in Listed /\ pc \in Saving
  BY <1>1 DEF Writing, Copying, Listed, Saving
<1>6. b.started \in Nat /\ b.expected \subseteq Key
  BY <1>1 DEF LocalsInv
<1>7. TimeInv'
  <2>1. \A f \in Known(b.sources) : b.sources[f].modified <= mtime[f]
    BY <1>3 DEF TimeInv, EntryInv
  <2> QED
    BY <1>1, <1>3, <1>4, <1>6, <2>1 DEF TimeInv
<1>8. LoadInv'
  BY <1>1, <1>3 DEF LoadInv
<1>9. ASSUME Covered PROVE StateTrue'
  <2>1. Dirt' = dirty \ b.changed /\ Drafts' = b.drafts /\ Memo' = LoadManifest(manifest)
    BY <1>1, <1>3 DEF Dirt, Drafts, Memo
  <2>2. manifest = b.current
    BY <1>1, <1>3 DEF LoadInv
  <2>3. \A k \in Key : Memo'[k] \in {b.current[k], Absent}
    BY <2>1, <2>2 DEF LoadManifest, NoEntries
  <2>4. b.fingerprint = b.layout /\ b.nav = nav
    BY <1>1, <1>3, <1>9 DEF ReadInv
  <2>5. \A k \in Key \ Dirt' : out[k] \in {Absent, Memo'[k]} \/ Memo'[k] = Absent
    <3> TAKE k \in Key \ Dirt'
    <3>1. CASE k \in b.expected
      <4>1. out[k] = b.current[k]
        BY <1>3, <1>5, <1>9, <2>1, <3>1 DEF WriteInv, BytesInv
      <4> QED
        BY <2>3, <4>1
    <3>2. CASE k \notin b.expected
      BY <1>3, <1>5, <3>2 DEF WriteInv
    <3> QED
      BY <3>1, <3>2
  <2>6. ASSUME NEW f \in Known(b.sources)
        PROVE  \/ b.sources[f].output \in Dirt'
               \/ Memo'[b.sources[f].output] \in {Absent, EntryBytes(b.sources[f], b.fingerprint, nav)}
    <3>1. f \in Present(b.pages)
      BY <1>3, <2>6 DEF EntryInv
    <3>2. /\ b.sources[f].post = b.pages[f].post /\ b.sources[f].output = b.pages[f].output
          /\ b.sources[f].around = b.around[f] /\ b.sources[f].related = b.related[f]
      BY <1>3, <1>5, <3>1 DEF EntryInv
    <3>3. EntryBytes(b.sources[f], b.fingerprint, nav) = Rendered(f)
      BY <2>4, <3>2 DEF EntryBytes, Rendered, PageBytes
    <3>4. b.todo = {} /\ b.collisions = {}
      BY <1>1, <1>3, <1>5 DEF WriteInv
    <3>5. b.current[b.pages[f].output] = Rendered(f) \/ b.pages[f].output \in dirty \ b.changed
      BY <1>3, <1>5, <1>9, <3>1, <3>4 DEF BytesInv
    <3>6. b.pages[f].output \in Key
      BY <1>1, <3>1, OutputsAreTitles
    <3> QED
      BY <2>1, <2>3, <3>2, <3>3, <3>5, <3>6
  <2>7. \A f \in Known(b.sources) : SourceTrue(b.sources[f], f, b.started, b.drafts)
    BY <1>3, <1>9 DEF TruthInv
  <2>8. \A f \in Known(b.sources) : SourceTrue(state.sources[f], f, state.started, Drafts)'
    BY <1>3, <1>4, <2>1, <2>7 DEF SourceTrue
  <2>9. \A k \in Static \ Dirt' : b.copies[k] # Absent =>
          Memo'[k] = Absent \/ CopyTrue(state.copies[k], k, Memo[k], state.started)'
    <3> TAKE k \in Static \ Dirt'
    <3> HAVE b.copies[k] # Absent
    <3>1. CopyTrue(b.copies[k], k, b.current[k], b.started)
      BY <1>3, <1>5, <1>9, <2>1 DEF DerivedInv
    <3>2. Memo'[k] \in {b.current[k], Absent}
      BY <2>3, KeysOf
    <3> QED
      BY <1>3, <1>4, <3>1, <3>2 DEF CopyTrue
  <2>10. Known(b.sources) = Present(b.pages) /\ Present(b.sources) = Present(b.pages)
    <3>1. Known(b.sources) = Present(b.pages)
      BY <1>3, <1>5 DEF EntryInv, Known, Present
    <3> QED
      BY <3>1 DEF Known, Present
  <2>11. \A l, n : IndexBytes(b.sources, l, n) = IndexBytes(b.pages, l, n)
    <3>1. \A f \in Present(b.sources) :
            b.sources[f].post = b.pages[f].post /\ b.sources[f].output = b.pages[f].output
      BY <1>3, <1>5, <2>10 DEF EntryInv
    <3> QED
      BY <2>10, <3>1, ShownAlike
  <2>12. /\ "index" \in b.derived <=> Known(b.sources) # {}
         /\ "404" \in b.derived <=> "404" \notin Shipping
    BY <1>3, <1>5, <1>9, <2>10 DEF DerivedInv
  <2>13. "index" \in b.derived \ Dirt' =>
            Memo'["index"] \in {Absent, IndexBytes(b.sources, b.fingerprint, nav)}
    BY <1>3, <1>5, <1>9, <2>1, <2>3, <2>4, <2>11, KeysOf DEF DerivedInv
  <2>14. "404" \in b.derived \ Dirt' => Memo'["404"] \in {Absent, MissingBytes(b.fingerprint, nav)}
    BY <1>3, <1>5, <1>9, <2>1, <2>3, <2>4, KeysOf DEF DerivedInv
  <2>15. Known(state.sources)' = Known(b.sources)
    BY <1>4 DEF Known
  <2>16. \A f \in Known(state.sources)' :
           /\ SourceTrue(state.sources[f], f, state.started, Drafts)'
           /\ \/ state'.sources[f].output \in Dirt'
              \/ Memo'[state'.sources[f].output] \in
                    {Absent, EntryBytes(state.sources[f], state.fingerprint, nav)'}
    BY <1>3, <1>4, <2>6, <2>8, <2>15 DEF EntryBytes
  <2> QED
    BY <1>3, <1>4, <2>5, <2>9, <2>12, <2>13, <2>14, <2>15, <2>16 DEF StateTrue
<1>10. StateInv'
  BY <1>1, <1>3, <1>9 DEF StateInv
<1> QED
  BY <1>3, <1>7, <1>8, <1>10

(* The build returns: what it did not produce is gone, and no longer dirty. *)
LEMMA PastReturns == ASSUME BuildInv, PastInv, BuildInv', End PROVE PastInv'
<1> USE DEF BuildInv, PastInv
<1>1. /\ pc = "end" /\ pc' = "idle" /\ dirty' = (dirty \cap b.expected) \ b.changed
      /\ flag' = b.drafts /\ uncovered' = (uncovered /\ ~(b.force /\ still /\ Plain))
  BY DEF End, Plain
<1>2. /\ post' = post /\ layout' = layout /\ nav' = nav /\ static' = static
      /\ mtime' = mtime /\ stime' = stime /\ clock' = clock
      /\ out' = out /\ manifest' = manifest /\ state' = state
  BY DEF End, inputs, stored
<1>3. Started /\ ~Started' /\ pc \in Saving /\ pc \in Writing /\ pc \in Copying /\ pc \in Listed
  BY <1>1 DEF Started, Saving, Writing, Copying, Listed
<1>4. ~uncovered' => Covered /\ Plain
  BY <1>1 DEF Covered, ReadInv
<1>5. TimeInv'
  BY <1>2, <1>3 DEF TimeInv
<1>6. LoadInv'
  BY <1>2, <1>3 DEF LoadInv
<1>7. ReadInv'
  <2>1. Plain' = Plain
    BY <1>2 DEF Plain
  <2> QED
    BY <1>1, <1>4, <2>1 DEF ReadInv
<1>8. ASSUME Covered PROVE StateTrue'
  <2>1. StateTrue
    BY <1>1, <1>8 DEF StateInv
  <2>2. /\ Dirt = dirty \ b.changed /\ Dirt' = (dirty \cap b.expected) \ b.changed
        /\ Memo' = Memo /\ Drafts' = Drafts
    BY <1>1, <1>2 DEF Dirt, Memo, Drafts
  <2>3. \A k \in Key : k \in b.expected \/ out[k] = Absent
    BY <1>3 DEF WriteInv
  <2>4. /\ state.sources = b.sources /\ state.copies = b.copies /\ state.derived = b.derived
    BY <1>1, <1>3 DEF LoadInv
  <2>5. \A f \in Known(state.sources) : state.sources[f].output \in b.expected
    BY <1>1, <1>3, <2>4 DEF EntryInv, WriteInv
  <2>6. \A k \in Static : state.copies[k] # Absent => k \in b.expected
    BY <1>3, <2>4 DEF WriteInv
  <2>7. state.derived \subseteq b.expected
    BY <1>3, <2>4 DEF WriteInv
  <2>8. \A k \in b.expected : k \in Dirt' <=> k \in Dirt
    BY <2>2
  <2>9. \A k \in Key \ Dirt' : out'[k] \in {Absent, Memo'[k]} \/ Memo'[k] = Absent
    BY <1>2, <2>1, <2>2, <2>3, <2>8 DEF StateTrue
  <2>10. \A f \in Known(state.sources) :
           /\ SourceTrue(state.sources[f], f, state.started, Drafts)'
           /\ \/ state.sources[f].output \in Dirt'
              \/ Memo'[state.sources[f].output] \in
                    {Absent, EntryBytes(state.sources[f], state.fingerprint, nav)}
    BY <1>2, <2>1, <2>2, <2>5, <2>8 DEF StateTrue, SourceTrue
  <2>11. \A k \in Static \ Dirt' : state.copies[k] # Absent =>
           Memo'[k] = Absent \/ CopyTrue(state.copies[k], k, Memo[k], state.started)'
    BY <1>2, <2>1, <2>2, <2>6, <2>8 DEF StateTrue, CopyTrue
  <2>12. Shipping' = Shipping
    BY <1>2 DEF Shipping
  <2>13. state.fingerprint # Absent =>
           /\ "index" \in state.derived <=> Known(state.sources) # {}
           /\ "404" \in state.derived <=> "404" \notin Shipping
           /\ "index" \in state.derived \ Dirt' =>
                 Memo'["index"] \in {Absent, IndexBytes(state.sources, state.fingerprint, nav)}
           /\ "404" \in state.derived \ Dirt' =>
                 Memo'["404"] \in {Absent, MissingBytes(state.fingerprint, nav)}
    BY <2>1, <2>2, <2>7, <2>8 DEF StateTrue
  <2> QED
    BY <1>2, <2>9, <2>10, <2>11, <2>12, <2>13 DEF StateTrue, Known
<1>9. StateInv'
  BY <1>1, <1>4, <1>8 DEF StateInv
<1> QED
  BY <1>3, <1>5, <1>6, <1>7, <1>9 DEF EntryInv, TruthInv, WriteInv, BytesInv, DerivedInv, AgreeInv

-----------------------------------------------------------------------------
(* The theorems *)

(* What builds take from the past is theirs to take: the state they saved    *)
(* says of each input what it was, or shows by its stamp or its hash that it *)
(* is no longer so.                                                          *)
THEOREM HistoryInvariant == Spec => []HistoryInv
<1>1. Init => PastInv
  BY PastInitially
<1>2. BuildInv /\ BuildInv' /\ PastInv /\ [Next]_vars => PastInv'
  <2> SUFFICES ASSUME BuildInv, BuildInv', PastInv, [Next]_vars PROVE PastInv'
    OBVIOUS
  <2>1. CASE UNCHANGED vars
    <3> USE DEF PastInv
    <3>1. /\ pc' = pc /\ b' = b /\ still' = still /\ uncovered' = uncovered
          /\ dirty' = dirty /\ flag' = flag
          /\ out' = out /\ state' = state /\ manifest' = manifest
          /\ post' = post /\ layout' = layout /\ nav' = nav /\ static' = static
          /\ mtime' = mtime /\ stime' = stime /\ clock' = clock
      BY <2>1 DEF vars, stored, inputs, ghosts
    <3>2. /\ Started' = Started /\ Plain' = Plain /\ Covered' = Covered /\ Shipping' = Shipping
          /\ Dirt' = Dirt /\ Memo' = Memo /\ Drafts' = Drafts
      BY <3>1 DEF Started, Plain, Covered, Shipping, Dirt, Memo, Drafts
    <3>3. TimeInv' /\ LoadInv' /\ ReadInv'
      <4>1. TimeInv'
        BY <3>1, <3>2 DEF TimeInv
      <4>2. LoadInv'
        BY <3>1, <3>2 DEF LoadInv
      <4>3. ReadInv'
        BY <3>1, <3>2 DEF ReadInv
      <4> QED
        BY <4>1, <4>2, <4>3
    <3>4. StateInv'
      <4>1. StateTrue' = StateTrue
        BY <3>1, <3>2 DEF StateTrue, SourceTrue, CopyTrue
      <4> QED
        BY <3>1, <3>2, <4>1 DEF StateInv
    <3>5. EntryInv' /\ TruthInv' /\ WriteInv'
      <4>1. EntryInv'
        BY <3>1, <3>2, ZenonT(60) DEF EntryInv
      <4>2. TruthInv'
        BY <3>1, <3>2 DEF TruthInv, PageTrue, SourceTrue
      <4>3. WriteInv'
        BY <3>1, <3>2 DEF WriteInv
      <4> QED
        BY <4>1, <4>2, <4>3
    <3>6. BytesInv' /\ DerivedInv'
      BY <3>1, <3>2 DEF BytesInv, Rendered, DerivedInv, CopyTrue
    <3>7. AgreeInv'
      <4>1. FreshPages(b.drafts)' = FreshPages(b.drafts)
        BY <3>1 DEF FreshPages
      <4> QED
        BY <3>1, <3>2, <4>1 DEF AgreeInv
    <3> QED
      BY <3>3, <3>4, <3>5, <3>6, <3>7
  <2>2. CASE Owner
    BY <2>2, PastOwner
  <2>3. CASE Step
    <3>1. ASSUME NEW d \in Flags, NEW f \in Forces, Begin(d, f) PROVE PastInv'
      BY <3>1, PastBegins
    <3>2. CASE Fingerprint
      BY <3>2, PastFingerprints
    <3>3. CASE ScanStamp
      BY <3>3, PastScanStamps
    <3>4. CASE ScanKeep \/ ScanHold \/ ScanLoad
      BY <3>4, PastScans
    <3>5. CASE Neighbours
      BY <3>5, PastNeighbours
    <3>6. CASE AssignRelated
      BY <3>6, PastAssignsRelated
    <3>7. ASSUME NEW f \in Source, Render(f) PROVE PastInv'
      BY <3>7, PastRenders
    <3>8. CASE Record
      BY <3>8, PastRecords
    <3>9. CASE KeepDerived
      BY <3>9, PastKeepsDerived
    <3>10. CASE RenderDerived
      BY <3>10, PastRendersDerived
    <3>11. ASSUME NEW k \in Static, CopyKeep(k) \/ CopyWrite(k) PROVE PastInv'
      BY <3>11, PastCopyKeeps, PastCopyWrites
    <3>12. CASE PruneStep
      BY <3>12, PastPrunes
    <3>13. CASE OpenManifest \/ SaveManifest
      BY <3>13, PastSavesManifest
    <3>14. CASE OpenState
      BY <3>14, PastOpensState
    <3>15. CASE SaveState
      BY <3>15, PastSavesState
    <3>16. CASE End
      BY <3>16, PastReturns
    <3>17. CASE \/ ScanError \/ NeighboursError \/ RelatedError \/ RenderFails
                \/ KeepDerivedError \/ CollisionError \/ Kill
      BY <3>17, PastEndsEarly
    <3> QED
      BY <2>3, <3>1, <3>2, <3>3, <3>4, <3>5, <3>6, <3>7, <3>8, <3>9, <3>10, <3>11, <3>12,
         <3>13, <3>14, <3>15, <3>16, <3>17 DEF Step
  <2> QED
    BY <2>1, <2>2, <2>3 DEF Next
<1> QED
  BY <1>1, <1>2, BuildInvariant, PTL DEF Spec, HistoryInv

(* The first of some files. *)
LEMMA MinIsLeast ==
  ASSUME NEW S \in SUBSET Source, S # {}
  PROVE  Min(S) \in S /\ \A f \in S : Min(S) <= f
<1>1. \E x \in S : \A f \in S : x <= f
  BY BuildAssumption
<1> QED
  BY <1>1 DEF Min

(* The pages of a build that nobody disturbed are the fresh ones. *)
LEMMA PagesFresh ==
  ASSUME HistoryInv, Done, Covered
  PROVE  LET pages == FreshPages(b.drafts) IN
         /\ Present(pages) = Present(b.pages)
         /\ \A f \in Present(pages) :
               pages[f].post = b.pages[f].post /\ pages[f].output = b.pages[f].output
<1> DEFINE pages == FreshPages(b.drafts)
<1> USE DEF HistoryInv, BuildInv, PastInv
<1>1. Started /\ still /\ pc = "end" /\ b.todo = {}
  BY DEF Done, Started, WriteInv, Writing, Saving
<1>2. \A f \in Source : f \notin Present(b.pages) => pages[f] = Absent
  BY <1>1 DEF AgreeInv
<1>3. ASSUME NEW f \in Present(b.pages)
      PROVE  /\ f \in Source /\ pages[f] # Absent
             /\ pages[f] = [post |-> post[f], output |-> post[f].title]
             /\ post[f] = b.pages[f].post /\ post[f].title = b.pages[f].output
  <2>1. f \in Source /\ b.stamps[f] = mtime[f] /\ post[f] # Absent
    BY <1>1, <1>3 DEF AgreeInv, Present
  <2>2. PageTrue(f)
    BY <1>1, <1>3 DEF TruthInv
  <2>3. mtime[f] \in Nat
    BY <2>1 DEF TypeOK
  <2>4. post[f] = b.pages[f].post /\ post[f].title = b.pages[f].output
        /\ (post[f].draft => b.drafts)
    BY <2>1, <2>2, <2>3 DEF PageTrue
  <2>5. pages[f] = [post |-> post[f], output |-> post[f].title]
    BY <2>1, <2>4 DEF FreshPages
  <2>6. post[f] \in Post /\ post[f].title \in Titles
    BY <2>1 DEF TypeOK, Titles
  <2>7. [post |-> post[f], output |-> post[f].title] # Absent
    BY <2>6, AbsentAssumption
  <2> QED
    BY <2>1, <2>4, <2>5, <2>7
<1> HIDE DEF pages
<1>4. Present(pages) = Present(b.pages)
  BY <1>2, <1>3 DEF Present
<1>5. \A f \in Present(pages) :
        pages[f].post = b.pages[f].post /\ pages[f].output = b.pages[f].output
  <2> TAKE f \in Present(pages)
  <2>1. pages[f] = [post |-> post[f], output |-> post[f].title]
        /\ post[f] = b.pages[f].post /\ post[f].title = b.pages[f].output
    BY <1>3, <1>4
  <2> QED
    BY <2>1
<1> QED
  BY <1>4, <1>5 DEF pages

(* Two pages with the same output and the same bytes have successors that    *)
(* share an output too.  The last such pair has none.                        *)
LEMMA NoTwins ==
  ASSUME NEW pages \in [Source -> PageRecord \cup {Absent}],
         \A f, g \in Present(pages) :
             pages[f].output = pages[g].output => Around(pages, f) = Around(pages, g)
  PROVE  \A f, g \in Present(pages) : pages[f].output = pages[g].output => f = g
<1> DEFINE twins == {f \in Present(pages) :
                        \E g \in Present(pages) : f < g /\ pages[f].output = pages[g].output}
<1>1. Present(pages) \subseteq Source /\ Source \subseteq Nat
  BY BuildAssumption DEF Present
<1>2. ASSUME twins # {} PROVE FALSE
  <2>1. twins \in SUBSET Source
    BY <1>1
  <2>2. PICK f \in twins : \A h \in twins : h <= f
    BY <1>2, <2>1, BuildAssumption
  <2>3. PICK g \in Present(pages) : f < g /\ pages[f].output = pages[g].output
    BY <2>2
  <2>4. f \in Present(pages) /\ Around(pages, f) = Around(pages, g)
    BY <2>2, <2>3
  <2> DEFINE afterF == {h \in Present(pages) : h > f}
             afterG == {h \in Present(pages) : h > g}
  <2>5. f \in Nat /\ g \in Nat /\ g \in afterF
    BY <1>1, <2>3, <2>4
  <2>6. afterF \in SUBSET Source /\ afterG \in SUBSET Source
    BY <1>1
  <2>7. PICK m : m = Min(afterF)
    OBVIOUS
  <2>8. m \in Present(pages) /\ m > f /\ m <= g
    BY <2>5, <2>6, <2>7, MinIsLeast
  <2>9. Around(pages, f).next = Link(pages[m])
    BY <2>5, <2>7 DEF Around
  <2>10. pages[m] \in PageRecord
    BY <2>8 DEF Present
  <2>11. pages[m].output \in Titles /\ pages[m].output # ""
    BY <2>10, BuildAssumption DEF PageRecord
  <2>12. CASE afterG = {}
    <3>1. Around(pages, g).next = Nobody
      BY <2>12 DEF Around
    <3>2. Link(pages[m]) = Nobody
      BY <2>4, <2>9, <3>1
    <3>3. Link(pages[m])[1] = pages[m].output /\ Nobody[1] = ""
      BY DEF Link, Nobody
    <3> QED
      BY <2>11, <3>2, <3>3
  <2>13. CASE afterG # {}
    <3>1. PICK n : n = Min(afterG)
      OBVIOUS
    <3>2. n \in Present(pages) /\ n > g
      BY <2>6, <2>13, <3>1, MinIsLeast
    <3>3. Around(pages, g).next = Link(pages[n])
      BY <2>13, <3>1 DEF Around
    <3>4. pages[m].output = pages[n].output
      BY <2>4, <2>9, <3>3 DEF Link
    <3>5. m \in Nat /\ n \in Nat /\ m < n
      BY <1>1, <2>5, <2>8, <3>2
    <3>6. m \in twins
      BY <2>8, <3>2, <3>4, <3>5
    <3> QED
      BY <2>2, <2>5, <2>8, <3>5, <3>6
  <2> QED
    BY <2>12, <2>13
<1>3. ASSUME NEW f \in Present(pages), NEW g \in Present(pages),
             pages[f].output = pages[g].output, f # g
      PROVE  FALSE
  <2>1. f < g \/ g < f
    <3>1. f \in Nat /\ g \in Nat
      BY <1>1
    <3> QED
      BY <1>3, <3>1
  <2>2. f \in twins \/ g \in twins
    BY <1>3, <2>1
  <2> QED
    BY <1>2, <2>2
<1> QED
  BY <1>3

(* An incremental build that nobody disturbs leaves the output of a build    *)
(* from scratch, but for the pages that an abandoned build wrote and that no *)
(* build has written since, and unless an input changed that the fingerprint *)
(* leaves out.                                                               *)
THEOREM BuildMatches == Spec => []MatchesButAbandoned
<1>1. HistoryInv => MatchesButAbandoned
  <2> SUFFICES ASSUME HistoryInv, Done, ~uncovered
               PROVE  /\ dirty \ b.changed = {} => ~FreshFails(b.drafts)
                      /\ \A k \in Key \ (dirty \ b.changed) : out[k] = FreshOut(b.drafts)[k]
    BY DEF MatchesButAbandoned
  <2> USE DEF HistoryInv, BuildInv, PastInv
  <2> DEFINE pages == FreshPages(b.drafts)
  <2>1. /\ Started /\ still /\ pc = "end" /\ pc \in Writing /\ pc \in Copying /\ pc \in Saving
    BY DEF Done, Started, Writing, Copying, Saving
  <2>2. Plain /\ Covered
    BY DEF ReadInv, Covered
  <2>3. /\ Present(pages) = Present(b.pages)
        /\ \A f \in Present(pages) :
              pages[f].post = b.pages[f].post /\ pages[f].output = b.pages[f].output
    BY <2>2, PagesFresh
  <2>4. b.todo = {} /\ b.collisions = {} /\ b.shipped = {}
        /\ \A k \in Key \ b.expected : out[k] = Absent
    BY <2>1 DEF WriteInv
  <2>5. b.layout = layout /\ b.nav = nav
    BY <2>1, <2>2 DEF ReadInv
  <2>6. \A f \in Present(b.pages) :
          f \in Source /\ b.pages[f].output \in Titles /\ b.pages[f].output \in Key
    BY <2>1, OutputsAreTitles
  <2>7. \A k \in b.expected : out[k] = b.current[k] \/ k \in dirty \ b.changed
    BY <2>1, <2>2, <2>4 DEF BytesInv
  <2>8. \A f \in Present(b.pages) :
          /\ b.pages[f].output \in b.expected
          /\ \/ b.current[b.pages[f].output] = Rendered(f)
             \/ b.pages[f].output \in dirty \ b.changed
    BY <2>1, <2>2, <2>4 DEF WriteInv, BytesInv
  <2>9. \A f \in Present(b.pages) :
          b.around[f] = Around(b.pages, f) /\ b.related[f] = Related(b.pages, f)
    BY <2>1, <2>2 DEF AgreeInv
  <2>10. \A k \in Shipping :
           k \in b.expected /\ (b.current[k] = StaticBytes(static[k]) \/ k \in dirty \ b.changed)
    BY <2>1, <2>2, <2>4 DEF AgreeInv
  <2>11. \A k \in Titles : k \notin Shipping
    BY <2>2 DEF Plain, Shipping
  <2>12. ASSUME dirty \ b.changed = {} PROVE ~FreshFails(b.drafts)
    <3>1. \A f, g \in Present(b.pages) :
            b.pages[f].output = b.pages[g].output => Around(b.pages, f) = Around(b.pages, g)
      <4> SUFFICES ASSUME NEW f \in Present(b.pages), NEW g \in Present(b.pages),
                          b.pages[f].output = b.pages[g].output
                   PROVE  Around(b.pages, f) = Around(b.pages, g)
        OBVIOUS
      <4>1. Rendered(f) = Rendered(g)
        BY <2>8, <2>12
      <4> QED
        BY <2>9, <4>1 DEF Rendered, PageBytes
    <3>2. \A f, g \in Present(b.pages) : b.pages[f].output = b.pages[g].output => f = g
      BY <2>1, <3>1, NoTwins DEF LocalsInv
    <3> QED
      BY <2>3, <2>6, <2>11, <3>2 DEF FreshFails, Shipping
  <2>13. \A f \in Present(pages) :
           Rendered(f) = PageBytes(pages[f], Around(pages, f), Related(pages, f), layout, nav)
    <3> SUFFICES ASSUME NEW f \in Present(pages)
                 PROVE  Rendered(f) =
                          PageBytes(pages[f], Around(pages, f), Related(pages, f), layout, nav)
      OBVIOUS
    <3>1. b.around[f] = Around(b.pages, f) /\ b.related[f] = Related(b.pages, f)
      BY <2>3, <2>9
    <3>2. Around(pages, f) = Around(b.pages, f) /\ Related(pages, f) = Related(b.pages, f)
      BY <2>3, ShownAlike
    <3>3. pages[f].post = b.pages[f].post
      BY <2>3
    <3> HIDE DEF pages
    <3> QED
      BY <2>5, <3>1, <3>2, <3>3 DEF Rendered, PageBytes
  <2>14. IndexBytes(b.pages, b.layout, b.nav) = IndexBytes(pages, layout, nav)
    BY <2>3, <2>5, ShownAlike
  <2>15. /\ b.derived \subseteq {"index", "404"} /\ b.derived \subseteq b.expected
         /\ "index" \in b.derived <=> Present(b.pages) # {}
         /\ "404" \in b.derived <=> "404" \notin Shipping
         /\ "index" \in b.derived =>
               \/ b.current["index"] = IndexBytes(b.pages, b.layout, b.nav)
               \/ "index" \in dirty \ b.changed
         /\ "404" \in b.derived =>
               b.current["404"] = MissingBytes(b.layout, b.nav) \/ "404" \in dirty \ b.changed
    BY <2>1, <2>2 DEF LocalsInv, WriteInv, DerivedInv
  <2>16. \A k \in b.expected :
           \/ \E f \in Present(b.pages) : k = b.pages[f].output
           \/ k \in b.derived \cup Shipping
    BY <2>1, <2>2 DEF AgreeInv
  <2> HIDE DEF pages
  <2>17. ASSUME NEW k \in Key \ (dirty \ b.changed) PROVE out[k] = FreshOut(b.drafts)[k]
    <3>1. CASE k \in Shipping
      <4>1. FreshOut(b.drafts)[k] = StaticBytes(static[k])
        BY <3>1 DEF FreshOut, Shipping
      <4> QED
        BY <2>7, <2>10, <2>17, <3>1, <4>1
    <3>2. CASE k = "404" /\ k \notin Shipping
      <4>1. FreshOut(b.drafts)[k] = MissingBytes(layout, nav)
        BY <3>2 DEF FreshOut, Shipping
      <4> QED
        BY <2>5, <2>7, <2>15, <2>17, <3>2, <4>1
    <3>3. CASE k = "index" /\ k \notin Shipping
      <4>1. FreshOut(b.drafts)[k] =
              IF Present(pages) = {} THEN Absent ELSE IndexBytes(pages, layout, nav)
        BY <3>3 DEF FreshOut, Shipping, pages
      <4>2. Present(b.pages) # {} => out[k] = IndexBytes(b.pages, b.layout, b.nav)
        BY <2>7, <2>15, <2>17, <3>3
      <4>3. Present(b.pages) = {} => k \notin b.expected
        BY <2>15, <2>16, <3>3
      <4> QED
        BY <2>3, <2>4, <2>14, <2>17, <4>1, <4>2, <4>3
    <3>4. CASE k \notin Shipping \cup {"index", "404"}
               /\ \E f \in Present(pages) : pages[f].output = k
      <4>1. PICK f : f = CHOOSE g \in Present(pages) : pages[g].output = k
        OBVIOUS
      <4>2. f \in Present(pages) /\ pages[f].output = k
        BY <3>4, <4>1
      <4>3. FreshOut(b.drafts)[k] =
              PageBytes(pages[f], Around(pages, f), Related(pages, f), layout, nav)
        BY <3>4, <4>1 DEF FreshOut, Shipping, pages
      <4>4. out[k] = Rendered(f)
        BY <2>3, <2>7, <2>8, <2>17, <4>2
      <4> QED
        BY <2>13, <4>2, <4>3, <4>4
    <3>5. CASE k \notin Shipping \cup {"index", "404"}
               /\ ~ \E f \in Present(pages) : pages[f].output = k
      <4>1. FreshOut(b.drafts)[k] = Absent
        BY <3>5 DEF FreshOut, Shipping, pages
      <4>2. k \notin b.expected
        BY <2>3, <2>15, <2>16, <3>5
      <4> QED
        BY <2>4, <2>17, <4>1, <4>2
    <3> QED
      BY <3>1, <3>2, <3>3, <3>4, <3>5
  <2> QED
    BY <2>12, <2>17
<1> QED
  BY <1>1, HistoryInvariant, PTL

=============================================================================
