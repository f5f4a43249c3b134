---------------------------- MODULE BuildProofs -----------------------------
(***************************************************************************)
(* Proofs about Build: the values of its variables and locals, and that a  *)
(* forced build which nobody disturbs is a build from scratch, whatever    *)
(* the builds before it left behind.                                       *)
(***************************************************************************)
EXTENDS Build, TLAPS

-----------------------------------------------------------------------------
(* Operators *)

(* A set of files has a first and a last one, which are files of the set. *)
LEMMA EndsInSet ==
  ASSUME NEW S \in SUBSET Source, S # {}
  PROVE  Min(S) \in S /\ Max(S) \in S
<1>1. PICK x, y \in S : \A f \in S : x <= f /\ f <= y
  BY BuildAssumption
<1>2. S \subseteq Nat
  BY BuildAssumption
<1>3. \A f \in S : y >= f
  BY <1>1, <1>2
<1> QED
  BY <1>1, <1>3 DEF Min, Max

(* A page's link is a url and a title. *)
LEMMA LinkShown ==
  ASSUME NEW page \in PageRecord
  PROVE  Link(page) \in Shown
<1>1. page.output \in Titles /\ page.post \in Post
  BY DEF PageRecord
<1>2. page.post.title \in Titles
  BY <1>1 DEF Titles
<1> QED
  BY <1>1, <1>2 DEF Link, Shown

(* The links either side of a page are links or nothing. *)
LEMMA AroundType ==
  ASSUME NEW pages \in [Source -> PageRecord \cup {Absent}], NEW f \in Source
  PROVE  Around(pages, f) \in Arounds
<1> DEFINE before == {g \in Present(pages) : g < f}
           after  == {g \in Present(pages) : g > f}
           p == IF before = {} THEN Nobody ELSE Link(pages[Max(before)])
           n == IF after = {} THEN Nobody ELSE Link(pages[Min(after)])
<1>1. before \in SUBSET Source /\ after \in SUBSET Source
  BY DEF Present
<1>2. \A g \in Present(pages) : pages[g] \in PageRecord
  BY DEF Present
<1>3. p \in Shown \cup {Nobody}
  <2>1. CASE before = {}
    BY <2>1
  <2>2. CASE before # {}
    <3>1. Max(before) \in before
      BY <2>2, <1>1, EndsInSet
    <3>2. pages[Max(before)] \in PageRecord
      BY <3>1, <1>2
    <3> QED
      BY <2>2, <3>2, LinkShown
  <2> QED
    BY <2>1, <2>2
<1>4. n \in Shown \cup {Nobody}
  <2>1. CASE after = {}
    BY <2>1
  <2>2. CASE after # {}
    <3>1. Min(after) \in after
      BY <2>2, <1>1, EndsInSet
    <3>2. pages[Min(after)] \in PageRecord
      BY <3>1, <1>2
    <3> QED
      BY <2>2, <3>2, LinkShown
  <2> QED
    BY <2>1, <2>2
<1>5. Around(pages, f) = [prev |-> p, next |-> n]
  BY DEF Around
<1> HIDE DEF p, n
<1> QED
  BY <1>3, <1>4, <1>5 DEF Arounds

(* The related posts are a set of links with summaries. *)
LEMMA RelatedType ==
  ASSUME NEW pages \in [Source -> PageRecord \cup {Absent}], NEW f \in Source
  PROVE  Related(pages, f) \in Relatives
<1>1. \A g \in Present(pages) : pages[g] \in PageRecord
  BY DEF Present
<1>2. \A g \in Present(pages) : pages[g].post.text \in Nat
  <2> TAKE g \in Present(pages)
  <2>1. pages[g].post \in Post
    BY <1>1 DEF PageRecord
  <2> QED
    BY <2>1, BuildAssumption
<1>3. \A g \in Present(pages) : <<Link(pages[g]), pages[g].post.text>> \in Shown \X Nat
  BY <1>1, <1>2, LinkShown
<1> QED
  BY <1>3 DEF Related, Relatives

(* What the neighbours, the related posts and the listings show of the       *)
(* pages depends on their posts and outputs alone.                           *)
LEMMA ShownAlike ==
  ASSUME NEW p, NEW q, Present(p) = Present(q),
         \A f \in Present(p) : p[f].post = q[f].post /\ p[f].output = q[f].output
  PROVE  /\ \A f \in Present(p) : Around(p, f) = Around(q, f)
         /\ \A f \in Present(p) : Related(p, f) = Related(q, f)
         /\ \A l, n : IndexBytes(p, l, n) = IndexBytes(q, l, n)
<1>1. \A f \in Present(p) : Link(p[f]) = Link(q[f])
  BY DEF Link
<1>2. ASSUME NEW f \in Present(p) PROVE Around(p, f) = Around(q, f)
  <2> DEFINE before == {g \in Present(p) : g < f}
             after  == {g \in Present(p) : g > f}
  <2>1. before \in SUBSET Source /\ after \in SUBSET Source
    BY DEF Present
  <2>2. before # {} => Link(p[Max(before)]) = Link(q[Max(before)])
    BY <1>1, <2>1, EndsInSet
  <2>3. after # {} => Link(p[Min(after)]) = Link(q[Min(after)])
    BY <1>1, <2>1, EndsInSet
  <2>4. before = {g \in Present(q) : g < f} /\ after = {g \in Present(q) : g > f}
    OBVIOUS
  <2> HIDE DEF before, after
  <2>5. Around(p, f) =
          [prev |-> IF before = {} THEN Nobody ELSE Link(p[Max(before)]),
           next |-> IF after = {} THEN Nobody ELSE Link(p[Min(after)])]
    BY DEF Around, before, after
  <2>6. Around(q, f) =
          [prev |-> IF before = {} THEN Nobody ELSE Link(q[Max(before)]),
           next |-> IF after = {} THEN Nobody ELSE Link(q[Min(after)])]
    BY <2>4 DEF Around
  <2> QED
    BY <2>2, <2>3, <2>5, <2>6
<1>3. ASSUME NEW f \in Present(p) PROVE Related(p, f) = Related(q, f)
  <2>1. {h \in Present(p) \ {f} : p[h].post.tag = p[f].post.tag}
          = {h \in Present(q) \ {f} : q[h].post.tag = q[f].post.tag}
    OBVIOUS
  <2> QED
    BY <1>1, <2>1 DEF Related
<1>4. ASSUME NEW l, NEW n PROVE IndexBytes(p, l, n) = IndexBytes(q, l, n)
  BY <1>1 DEF IndexBytes
<1> QED
  BY <1>2, <1>3, <1>4

-----------------------------------------------------------------------------
(* The initial state, the owner, and builds that save nothing *)

(* Nothing has been built yet. *)
LEMMA BuildInitially == Init => BuildInv
<1> SUFFICES ASSUME Init PROVE BuildInv
  OBVIOUS
<1>1. TypeOK
  <2>1. state.sources \in [Source -> SourceEntry \cup {Absent}] /\ state.derived = {}
    BY DEF Init, NoState
  <2>2. post \in [Source -> Post \cup {Absent}]
    BY DEF Init
  <2>3. mtime \in [Source -> Nat] /\ stime \in [Static -> Nat] /\ clock \in Nat
    BY DEF Init
  <2> QED
    BY <2>1, <2>2, <2>3 DEF Init, TypeOK
<1>2. LocalsInv
  BY DEF Init, LocalsInv, NoEntries, Rendering, Saving
<1>3. ForcedInv
  BY DEF Init, ForcedInv
<1> QED
  BY <1>1, <1>2, <1>3 DEF BuildInv

(* The locals keep their values as long as the build does not move. *)
LEMMA LocalsStay ==
  ASSUME LocalsInv, pc' = pc, b' = b, out' = out
  PROVE  LocalsInv'
BY DEF LocalsInv

(* Stamps are times. *)
LEMMA TicksAreTimes == ASSUME clock \in Nat, clock' \in Ticks PROVE clock' \in Nat
BY DEF Ticks

(* The owner changes what a build reads and no more, and the build no longer *)
(* runs undisturbed.                                                         *)
LEMMA BuildOwner == ASSUME BuildInv, Owner PROVE BuildInv'
<1> USE DEF BuildInv
<1>1. still' = FALSE /\ pc' = pc /\ b' = b /\ out' = out /\ state' = state
  BY DEF Owner, EditPost, DeletePost, EditLayout, EditNav, EditStatic, MayEdit, stored
<1>2. dirty' = dirty /\ flag' = flag /\ last' = last
  BY DEF Owner, EditPost, DeletePost, EditLayout, EditNav, EditStatic
<1>3. uncovered' \in BOOLEAN
  BY DEF Owner, EditPost, DeletePost, EditLayout, EditNav, EditStatic, TypeOK
<1>4. post' \in [Source -> Post \cup {Absent}]
  BY DEF Owner, EditPost, DeletePost, EditLayout, EditNav, EditStatic, TypeOK
<1>5. layout' \in Layout /\ nav' \in Nav
  BY DEF Owner, EditPost, DeletePost, EditLayout, EditNav, EditStatic, TypeOK
<1>6. clock' \in Nat
  BY TicksAreTimes DEF Owner, EditPost, DeletePost, EditLayout, EditNav, EditStatic, TypeOK
<1>7. mtime' \in [Source -> Nat] /\ stime' \in [Static -> Nat]
  BY <1>6 DEF Owner, EditPost, DeletePost, EditLayout, EditNav, EditStatic, TypeOK
<1>8. TypeOK'
  BY <1>1, <1>2, <1>3, <1>4, <1>5, <1>6, <1>7 DEF TypeOK
<1>9. LocalsInv'
  BY <1>1, LocalsStay
<1>10. ForcedInv'
  BY <1>1 DEF ForcedInv
<1> QED
  BY <1>8, <1>9, <1>10

(* What only the owner, the saving of the state and the end of a build       *)
(* change keeps its type.                                                    *)
LEMMA TypesStay ==
  ASSUME TypeOK, UNCHANGED inputs, UNCHANGED ghosts, state' = state, last' = last,
         uncovered' = uncovered
  PROVE  TypeOK'
BY DEF TypeOK, inputs, ghosts

(* A build that ends without saving leaves its locals behind. *)
LEMMA BuildAbandons ==
  ASSUME BuildInv, pc # "idle", NEW why \in {"error", "failed", "killed"}, Abandon(why), out' = out
  PROVE  BuildInv'
<1> USE DEF BuildInv
<1>1. dirty' \subseteq Key
  BY DEF Abandon, TypeOK, LocalsInv
<1>2. pc' = "idle" /\ last' = why /\ state' = state /\ flag' = flag /\ uncovered' = uncovered
  BY DEF Abandon
<1>3. post' = post /\ layout' = layout /\ nav' = nav /\ mtime' = mtime /\ stime' = stime
      /\ clock' = clock
  BY DEF Abandon, inputs
<1>4. TypeOK'
  BY <1>1, <1>2, <1>3 DEF TypeOK
<1>5. LocalsInv'
  BY <1>2 DEF LocalsInv, Rendering, Saving
<1>6. ForcedInv'
  BY <1>2 DEF ForcedInv
<1> QED
  BY <1>4, <1>5, <1>6

(* The errors, failures and kills at every step are such ends. *)
LEMMA BuildEndsEarly ==
  ASSUME BuildInv,
         \/ ScanError \/ NeighboursError \/ RelatedError \/ RenderFails
         \/ KeepDerivedError \/ CollisionError \/ Kill
  PROVE  BuildInv'
<1>1. pc # "idle" /\ out' = out
  BY DEF ScanError, NeighboursError, RelatedError, RenderFails, KeepDerivedError,
         CollisionError, Kill
<1>2. \E why \in {"error", "failed", "killed"} : Abandon(why)
  BY DEF ScanError, NeighboursError, RelatedError, RenderFails, KeepDerivedError,
         CollisionError, Kill
<1> QED
  BY <1>1, <1>2, BuildAbandons

-----------------------------------------------------------------------------
(* The build begins *)

(* Begin reads layouts and section tree and walks the content. *)
LEMMA BuildBegins == ASSUME BuildInv, NEW d \in Flags, NEW f \in Forces, Begin(d, f) PROVE BuildInv'
<1> USE DEF BuildInv
<1>1. pc' = "fingerprint" /\ out' = out /\ state' = state /\ last' = last
      /\ uncovered' = (uncovered \/ d # flag)
  BY DEF Begin, stored
<1>2. /\ DOMAIN b' = Early
      /\ b'.drafts = d /\ b'.force = f /\ b'.layout = layout /\ b'.nav = nav
      /\ b'.todo = {g \in Source : post[g] # Absent} /\ b'.changed = {}
  BY DEF Begin, Early
<1>3. post' = post /\ layout' = layout /\ nav' = nav /\ mtime' = mtime /\ stime' = stime
      /\ clock' = clock /\ dirty' = dirty /\ flag' = flag
  BY DEF Begin, inputs, ghosts
<1>4. TypeOK'
  BY <1>1, <1>3 DEF TypeOK
<1>5. LocalsInv'
  BY <1>1, <1>2, BuildAssumption DEF LocalsInv, Rendering, Saving
<1>6. ForcedInv'
  BY <1>1, <1>2, <1>3
     DEF ForcedInv, ForcedScan, ForcedRender, ForcedStatic, Scanning, Rendering, Saving
<1> QED
  BY <1>4, <1>5, <1>6

(* Fingerprint loads what the last build saved and sets the locals up. *)
LEMMA BuildFingerprints == ASSUME BuildInv, Fingerprint PROVE BuildInv'
<1> USE DEF BuildInv
<1>1. pc = "fingerprint" /\ pc' = "scan" /\ out' = out /\ state' = state /\ last' = last
      /\ uncovered' = uncovered /\ still' = still
  BY DEF Fingerprint, stored
<1>2. post' = post /\ layout' = layout /\ nav' = nav /\ static' = static /\ mtime' = mtime
      /\ stime' = stime /\ dirty' = dirty /\ flag' = flag
  BY DEF Fingerprint, ghosts
<1>3. clock' \in Nat
  BY TicksAreTimes DEF Fingerprint, TypeOK
<1>4. DOMAIN b' = Locals
  BY DEF Fingerprint, Locals, Early
<1>5. /\ b'.drafts = b.drafts /\ b'.force = b.force /\ b'.layout = b.layout /\ b'.nav = b.nav
      /\ b'.todo = b.todo /\ b'.changed = {} /\ b'.expected = {} /\ b'.collisions = {}
      /\ b'.current = NoEntries /\ b'.prior = state /\ b'.derived = {} /\ b'.started = clock'
      /\ b'.reusable = (~b.force /\ state.fingerprint = layout)
      /\ b'.shipped = {k \in Static : static[k] # Absent}
      /\ b'.stamps = [f \in Source |-> -1]
      /\ b'.pages = [f \in Source |-> Absent]
      /\ b'.sources = [f \in Source |-> Absent]
  BY DEF Fingerprint
<1>6. TypeOK'
  BY <1>1, <1>2, <1>3 DEF TypeOK
<1>7. Present(b'.pages) = {}
  BY <1>5 DEF Present
<1>8. LocalsInv'
  <2>1. b'.stamps \in [Source -> Int] /\ b'.started \in Nat
    BY <1>3, <1>5
  <2>2. DOMAIN b'.current = Key
    BY <1>5 DEF NoEntries
  <2>3. b'.pages \in [Source -> PageRecord \cup {Absent}]
        /\ b'.sources \in [Source -> SourceEntry \cup {Absent}]
    BY <1>5
  <2>4. b'.drafts \in BOOLEAN /\ b'.force \in BOOLEAN /\ b'.todo \subseteq Source
    BY <1>1, <1>5 DEF LocalsInv
  <2>5. b'.prior.sources \in [Source -> SourceEntry \cup {Absent}]
        /\ b'.prior.derived \subseteq {"index", "404"}
    BY <1>5 DEF TypeOK
  <2> QED
    BY <1>1, <1>4, <1>5, <1>7, <2>1, <2>2, <2>3, <2>4, <2>5
       DEF LocalsInv, Scanning, Rendering, Saving
<1>9. ForcedInv'
  <2> SUFFICES ASSUME b'.force, still'
               PROVE  /\ b'.layout = layout' /\ b'.nav = nav'
                      /\ ForcedScan' /\ ForcedRender' /\ ForcedStatic'
    BY <1>1 DEF ForcedInv, Saving
  <2>1. b.force /\ still
    BY <1>1, <1>5
  <2>2. b.layout = layout /\ b.nav = nav /\ b.todo = {f \in Source : post[f] # Absent}
    BY <1>1, <2>1 DEF ForcedInv, ForcedScan
  <2>3. ForcedRender' /\ ForcedStatic'
    BY <1>1 DEF ForcedRender, ForcedStatic, Rendering
  <2>4. \A f \in Source : f \notin b'.todo => ReadPage(f)' = Absent
    BY <1>2, <1>5, <2>2 DEF ReadPage, FreshPages
  <2>5. \A f \in Source : /\ f \in b'.todo => post'[f] # Absent
                          /\ b'.pages[f] = IF f \in b'.todo THEN Absent ELSE ReadPage(f)'
    BY <1>2, <1>5, <2>2, <2>4
  <2>6. b'.shipped = Shipping' /\ ~b'.reusable
    BY <1>2, <1>5, <2>1 DEF Shipping
  <2>7. ForcedScan'
    BY <1>1, <1>5, <1>7, <2>5, <2>6 DEF ForcedScan, Scanning, Rendering
  <2> QED
    BY <1>2, <1>5, <2>2, <2>3, <2>7
<1> QED
  BY <1>6, <1>8, <1>9

-----------------------------------------------------------------------------
(* The walk of the sources *)

(* A source is stamped. *)
LEMMA BuildScanStamps == ASSUME BuildInv, ScanStamp PROVE BuildInv'
<1> USE DEF BuildInv
<1>1. pc = "scan" /\ pc' = "read" /\ b.todo # {} /\ out' = out /\ still' = still
  BY DEF ScanStamp, stored
<1>2. TypeOK'
  BY TypesStay DEF ScanStamp, stored
<1>3. PICK f : f = Min(b.todo)
  OBVIOUS
<1>4. f \in b.todo /\ f \in Source
  BY <1>1, <1>3, EndsInSet DEF LocalsInv
<1>5. DOMAIN b = Locals /\ b.stamps \in [Source -> Int]
  BY <1>1 DEF LocalsInv
<1>6. b' = [b EXCEPT !.stamps[f] = IF post[f] = Absent THEN 0 ELSE mtime[f]]
  BY <1>3 DEF ScanStamp
<1>7. DOMAIN b' = Locals /\ \A x \in Locals \ {"stamps"} : b'[x] = b[x]
  BY <1>5, <1>6
<1>8. b'.stamps = [b.stamps EXCEPT ![f] = IF post[f] = Absent THEN 0 ELSE mtime[f]]
  BY <1>5, <1>6 DEF Locals
<1>9. /\ b'.stamps \in [Source -> Int] /\ b'.stamps[f] \in Nat
      /\ \A g \in Source : b.stamps[g] \in Nat => b'.stamps[g] \in Nat
  BY <1>4, <1>5, <1>8 DEF TypeOK
<1>10. /\ b'.drafts = b.drafts /\ b'.force = b.force /\ b'.layout = b.layout /\ b'.nav = b.nav
       /\ b'.todo = b.todo /\ b'.changed = b.changed /\ b'.expected = b.expected
       /\ b'.collisions = b.collisions /\ b'.current = b.current /\ b'.prior = b.prior
       /\ b'.derived = b.derived /\ b'.started = b.started /\ b'.reusable = b.reusable
       /\ b'.shipped = b.shipped /\ b'.pages = b.pages /\ b'.sources = b.sources
  BY <1>7 DEF Locals, Early
<1>11. LocalsInv'
  <2>1. \A g \in Present(b'.pages) : b'.stamps[g] \in Nat
    BY <1>1, <1>9, <1>10 DEF LocalsInv, Present
  <2> QED
    BY <1>1, <1>3, <1>7, <1>9, <1>10, <2>1 DEF LocalsInv, Scanning, Rendering, Saving
<1>12. ForcedInv'
  <2>1. post' = post /\ layout' = layout /\ nav' = nav /\ static' = static
    BY DEF ScanStamp, inputs
  <2> QED
    BY <1>1, <1>10, <2>1
       DEF ForcedInv, ForcedScan, ForcedRender, ForcedStatic, Scanning, Rendering, Saving,
           ReadPage, FreshPages, Shipping
<1> QED
  BY <1>2, <1>11, <1>12

(* The walk moves past a source f, for which it has found the page p (or     *)
(* none).                                                                    *)
LEMMA ScanMoves ==
  ASSUME BuildInv, pc = "read", pc' = "scan", out' = out, still' = still, TypeOK',
         post' = post, layout' = layout, nav' = nav, static' = static,
         NEW f, f = Min(b.todo), NEW p \in PageRecord \cup {Absent},
         DOMAIN b' = Locals,
         \A x \in Locals \ {"todo", "pages", "sources"} : b'[x] = b[x],
         b'.todo = b.todo \ {f}, b'.pages = [b.pages EXCEPT ![f] = p],
         b'.sources \in [Source -> SourceEntry \cup {Absent}],
         b.force /\ still => p = ReadPage(f) /\ (p # Absent => ~Taken(p.output))
  PROVE  BuildInv'
<1> USE DEF BuildInv
<1>1. b.todo \subseteq Source /\ f \in b.todo /\ b.stamps[f] \in Nat
  BY EndsInSet DEF LocalsInv
<1>2. /\ b'.drafts = b.drafts /\ b'.force = b.force /\ b'.layout = b.layout /\ b'.nav = b.nav
      /\ b'.changed = b.changed /\ b'.expected = b.expected
      /\ b'.collisions = b.collisions /\ b'.current = b.current /\ b'.prior = b.prior
      /\ b'.derived = b.derived /\ b'.started = b.started /\ b'.reusable = b.reusable
      /\ b'.shipped = b.shipped /\ b'.stamps = b.stamps
  BY DEF Locals, Early
<1>3. b.pages \in [Source -> PageRecord \cup {Absent}]
  BY DEF LocalsInv
<1>4. b'.pages \in [Source -> PageRecord \cup {Absent}] /\ b'.pages[f] = p
      /\ \A g \in Source \ {f} : b'.pages[g] = b.pages[g]
  BY <1>1, <1>3
<1>5. LocalsInv'
  <2>1. \A g \in Present(b'.pages) : b'.stamps[g] \in Nat
    BY <1>1, <1>2, <1>4 DEF LocalsInv, Present
  <2> QED
    BY <1>1, <1>2, <1>4, <2>1 DEF LocalsInv, Scanning, Rendering, Saving
<1>6. ForcedInv'
  <2> SUFFICES ASSUME b.force, still
               PROVE  /\ b'.layout = layout' /\ b'.nav = nav'
                      /\ ForcedScan' /\ ForcedRender' /\ ForcedStatic'
    BY <1>2 DEF ForcedInv, Saving
  <2>1. ForcedScan /\ b.layout = layout /\ b.nav = nav
    BY DEF ForcedInv
  <2>2. \A g \in Source : ReadPage(g)' = ReadPage(g)
    BY <1>2 DEF ReadPage, FreshPages
  <2>3. \A g \in Source : /\ g \in b'.todo => post'[g] # Absent
                          /\ b'.pages[g] = IF g \in b'.todo THEN Absent ELSE ReadPage(g)'
    BY <1>1, <1>4, <2>1, <2>2 DEF ForcedScan, Scanning
  <2>4. \A g, h \in Present(b'.pages) : b'.pages[g].output = b'.pages[h].output => g = h
    <3>1. \A g, h \in Present(b.pages) : b.pages[g].output = b.pages[h].output => g = h
      BY <2>1 DEF ForcedScan, Scanning
    <3>2. \A g \in Present(b'.pages) \ {f} : g \in Present(b.pages) /\ b'.pages[g] = b.pages[g]
      BY <1>4 DEF Present
    <3>3. f \in Present(b'.pages) => ~Taken(b'.pages[f].output)
      BY <1>4 DEF Present
    <3>4. f \in Present(b'.pages) =>
            \A g \in Present(b'.pages) \ {f} : b'.pages[g].output # b'.pages[f].output
      BY <3>2, <3>3 DEF Taken
    <3> QED
      BY <3>1, <3>2, <3>4
  <2>5. b'.shipped = Shipping' /\ ~b'.reusable
        /\ b'.expected = {} /\ b'.current = NoEntries /\ b'.collisions = {}
    BY <1>2, <2>1 DEF ForcedScan, Scanning, Shipping
  <2>6. ForcedScan'
    BY <2>3, <2>4, <2>5 DEF ForcedScan, Scanning, Rendering
  <2>7. ForcedRender' /\ ForcedStatic'
    BY DEF ForcedRender, ForcedStatic, Rendering
  <2> QED
    BY <1>2, <2>1, <2>6, <2>7
<1> QED
  BY <1>5, <1>6

(* A source left alone, held back or read. *)
LEMMA BuildScans == ASSUME BuildInv, ScanKeep \/ ScanHold \/ ScanLoad PROVE BuildInv'
<1> USE DEF BuildInv
<1>1. pc = "read" /\ pc' = "scan" /\ out' = out /\ still' = still
  BY DEF ScanKeep, ScanHold, ScanLoad, stored
<1>2. post' = post /\ layout' = layout /\ nav' = nav /\ static' = static
  BY DEF ScanKeep, ScanHold, ScanLoad, inputs
<1>3. TypeOK'
  BY TypesStay DEF ScanKeep, ScanHold, ScanLoad, stored
<1>4. PICK f : f = Min(b.todo)
  OBVIOUS
<1>5. f \in b.todo /\ f \in Source
  BY <1>1, <1>4, EndsInSet DEF LocalsInv
<1>6. DOMAIN b = Locals /\ b.pages \in [Source -> PageRecord \cup {Absent}]
      /\ b.sources \in [Source -> SourceEntry \cup {Absent}]
      /\ b.prior.sources \in [Source -> SourceEntry \cup {Absent}]
  BY <1>1 DEF LocalsInv
<1>7. b.force /\ still => ~b.reusable /\ b.pages[f] = Absent
  BY <1>1, <1>5 DEF ForcedInv, ForcedScan, Scanning
<1>8. post[f] \in Post \cup {Absent}
  BY <1>5 DEF TypeOK
<1>9. CASE ScanKeep
  <2>1. PICK known : known = b.prior.sources[f]
    OBVIOUS
  <2>2. known \in SourceEntry /\ b.reusable
    BY <1>4, <1>5, <1>6, <1>9, <2>1 DEF ScanKeep, Unchanged
  <2>3. PICK p : p = [parsed |-> FALSE, post |-> known.post, output |-> known.output]
    OBVIOUS
  <2>4. p \in PageRecord
    BY <2>2, <2>3 DEF PageRecord, SourceEntry
  <2>5. b' = [b EXCEPT !.todo = @ \ {f}, !.pages[f] = p, !.sources[f] = known]
    BY <1>4, <1>9, <2>1, <2>3 DEF ScanKeep, Advance
  <2>6. DOMAIN b' = Locals /\ \A x \in Locals \ {"todo", "pages", "sources"} : b'[x] = b[x]
    BY <1>6, <2>5
  <2>7. b'.todo = b.todo \ {f} /\ b'.pages = [b.pages EXCEPT ![f] = p]
        /\ b'.sources = [b.sources EXCEPT ![f] = known]
    BY <1>6, <2>5 DEF Locals, Early
  <2>8. b'.sources \in [Source -> SourceEntry \cup {Absent}]
    BY <1>5, <1>6, <2>2, <2>7
  <2> QED
    BY <1>1, <1>2, <1>3, <1>4, <1>7, <2>2, <2>4, <2>6, <2>7, <2>8, ScanMoves
<1>10. CASE ScanHold
  <2>1. b' = [b EXCEPT !.todo = @ \ {f}]
    BY <1>4, <1>10 DEF ScanHold, Advance
  <2>2. DOMAIN b' = Locals /\ \A x \in Locals \ {"todo"} : b'[x] = b[x]
    BY <1>6, <2>1
  <2>3. b'.todo = b.todo \ {f} /\ b'.pages = b.pages /\ b'.sources = b.sources
    BY <1>6, <2>1 DEF Locals, Early
  <2>4. PICK p : p = b.pages[f]
    OBVIOUS
  <2>5. b'.pages = [b.pages EXCEPT ![f] = p] /\ p \in PageRecord \cup {Absent}
    BY <1>5, <1>6, <2>3, <2>4
  <2>6. ReadPage(f) = Absent
    BY <1>4, <1>5, <1>10 DEF ScanHold, Held, ReadPage, FreshPages
  <2> QED
    BY <1>1, <1>2, <1>3, <1>4, <1>6, <1>7, <2>2, <2>3, <2>4, <2>5, <2>6, ScanMoves
<1>11. CASE ScanLoad
  <2>1. PICK p : p = [parsed |-> TRUE, post |-> post[f], output |-> post[f].title]
    OBVIOUS
  <2>2. post[f] \in Post /\ ~Held(f) /\ ~Taken(post[f].title)
    BY <1>4, <1>8, <1>11 DEF ScanLoad
  <2>3. p \in PageRecord
    BY <2>1, <2>2 DEF PageRecord, Titles
  <2>4. b' = [b EXCEPT !.todo = @ \ {f}, !.pages[f] = p]
    BY <1>4, <1>11, <2>1 DEF ScanLoad, Advance
  <2>5. DOMAIN b' = Locals /\ \A x \in Locals \ {"todo", "pages"} : b'[x] = b[x]
    BY <1>6, <2>4
  <2>6. b'.todo = b.todo \ {f} /\ b'.pages = [b.pages EXCEPT ![f] = p] /\ b'.sources = b.sources
    BY <1>6, <2>4 DEF Locals, Early
  <2>7. ReadPage(f) = p
    <3>1. post[f] # Absent /\ ~(post[f].draft /\ ~b.drafts)
      BY <2>2, AbsentAssumption DEF Held
    <3>2. FreshPages(b.drafts)[f] = [post |-> post[f], output |-> post[f].title]
      BY <1>5, <3>1 DEF FreshPages
    <3>3. FreshPages(b.drafts)[f] # Absent
      BY <2>2, <3>2, AbsentAssumption DEF Titles
    <3> QED
      BY <2>1, <3>3 DEF ReadPage
  <2>8. p.output = post[f].title
    BY <2>1
  <2> QED
    BY <1>1, <1>2, <1>3, <1>4, <1>6, <2>2, <2>3, <2>5, <2>6, <2>7, <2>8, ScanMoves
<1> QED
  BY <1>9, <1>10, <1>11

-----------------------------------------------------------------------------
(* Pages are placed between their neighbours and related *)

(* Reading pages again changes no output and makes no page come or go. *)
LEMMA ReadAgainKeeps ==
  ASSUME TypeOK, b.pages \in [Source -> PageRecord \cup {Absent}],
         NEW files \in SUBSET Present(b.pages), \A f \in files : post[f] # Absent
  PROVE  /\ ReadAgain(files) \in [Source -> PageRecord \cup {Absent}]
         /\ Present(ReadAgain(files)) = Present(b.pages)
         /\ files = {} => ReadAgain(files) = b.pages
<1>1. \A f \in files : f \in Source /\ post[f] \in Post /\ b.pages[f].output \in Titles
  BY DEF TypeOK, Present, PageRecord
<1>2. \A f \in files :
        [parsed |-> TRUE, post |-> post[f], output |-> b.pages[f].output] \in PageRecord
  BY <1>1 DEF PageRecord
<1>3. Absent \notin PageRecord
  BY AbsentAssumption
<1>4. ReadAgain(files) \in [Source -> PageRecord \cup {Absent}]
  BY <1>2 DEF ReadAgain
<1>5. \A f \in Source : ReadAgain(files)[f] # Absent <=> b.pages[f] # Absent
  BY <1>2, <1>3 DEF ReadAgain, Present
<1>6. Present(ReadAgain(files)) = Present(b.pages)
  BY <1>5 DEF Present
<1>7. files = {} => ReadAgain(files) = b.pages
  BY DEF ReadAgain
<1> QED
  BY <1>4, <1>6, <1>7

(* A page of a forced build has been read already. *)
LEMMA ForcedPagesParsed ==
  ASSUME BuildInv, pc # "idle", b.force, still,
         \/ pc = "scan" /\ b.todo = {}
         \/ pc \in {"related"} \cup Rendering
  PROVE  \A f \in Source : b.pages[f] = ReadPage(f) /\ (b.pages[f] # Absent => b.pages[f].parsed)
<1>1. \A f \in Source : b.pages[f] = ReadPage(f)
  BY DEF BuildInv, ForcedInv, ForcedScan, Scanning, Rendering
<1>2. \A f \in Source : ReadPage(f) # Absent => ReadPage(f).parsed
  BY DEF ReadPage
<1> QED
  BY <1>1, <1>2

(* The posts either side of each page are worked out, and pages that moved   *)
(* are read again.                                                           *)
LEMMA BuildNeighbours == ASSUME BuildInv, Neighbours PROVE BuildInv'
<1> USE DEF BuildInv
<1>1. pc = "scan" /\ pc' = "related" /\ b.todo = {} /\ out' = out /\ still' = still
  BY DEF Neighbours, stored
<1>2. post' = post /\ layout' = layout /\ nav' = nav /\ static' = static
  BY DEF Neighbours, inputs
<1>3. TypeOK'
  BY TypesStay DEF Neighbours, stored
<1>4. DOMAIN b = Locals /\ b.pages \in [Source -> PageRecord \cup {Absent}]
  BY <1>1 DEF LocalsInv
<1>5. PICK moved : moved = {f \in Present(b.pages) : Moved(f)}
  OBVIOUS
<1>6. \A f \in moved : post[f] # Absent
  BY <1>5 DEF Neighbours
<1>7. b' = [b EXCEPT !.around = [f \in Source |->
                        IF f \in Present(b.pages) THEN Around(b.pages, f) ELSE Absent],
                     !.pages = ReadAgain(moved)]
  BY <1>5 DEF Neighbours
<1>8. DOMAIN b' = Locals /\ \A x \in Locals \ {"around", "pages"} : b'[x] = b[x]
  BY <1>4, <1>7
<1>9. /\ b'.pages = ReadAgain(moved)
      /\ \A f \in Source : f \in Present(b.pages) => b'.around[f] = Around(b.pages, f)
  BY <1>4, <1>7 DEF Locals, Early
<1>10. /\ b'.drafts = b.drafts /\ b'.force = b.force /\ b'.layout = b.layout /\ b'.nav = b.nav
       /\ b'.todo = b.todo /\ b'.changed = b.changed /\ b'.expected = b.expected
       /\ b'.collisions = b.collisions /\ b'.current = b.current /\ b'.prior = b.prior
       /\ b'.derived = b.derived /\ b'.started = b.started /\ b'.reusable = b.reusable
       /\ b'.shipped = b.shipped /\ b'.stamps = b.stamps /\ b'.sources = b.sources
  BY <1>8 DEF Locals, Early
<1>11. /\ b'.pages \in [Source -> PageRecord \cup {Absent}]
       /\ Present(b'.pages) = Present(b.pages)
       /\ moved = {} => b'.pages = b.pages
  BY <1>4, <1>5, <1>6, <1>9, ReadAgainKeeps
<1>12. LocalsInv'
  <2>1. \A f \in Present(b'.pages) : b'.stamps[f] \in Nat
    BY <1>1, <1>10, <1>11 DEF LocalsInv
  <2>2. \A f \in Present(b'.pages) : b'.around[f] \in Arounds
    BY <1>4, <1>9, <1>11, AroundType DEF Present
  <2> QED
    BY <1>1, <1>8, <1>10, <1>11, <2>1, <2>2 DEF LocalsInv, Scanning, Rendering, Saving
<1>13. ForcedInv'
  <2> SUFFICES ASSUME b.force, still
               PROVE  /\ b'.layout = layout' /\ b'.nav = nav'
                      /\ ForcedScan' /\ ForcedRender' /\ ForcedStatic'
    BY <1>1, <1>10 DEF ForcedInv, Saving
  <2>1. ForcedScan /\ b.layout = layout /\ b.nav = nav
    BY <1>1 DEF ForcedInv
  <2>2. \A f \in Source : b.pages[f] = ReadPage(f) /\ (b.pages[f] # Absent => b.pages[f].parsed)
    BY <1>1, ForcedPagesParsed
  <2>3. b'.pages = b.pages
    BY <1>5, <1>11, <2>2 DEF Moved, Present
  <2>4. \A f \in Source : b'.pages[f] = ReadPage(f)'
    BY <1>2, <1>10, <2>2, <2>3 DEF ReadPage, FreshPages
  <2>5. \A f \in Present(b'.pages) : b'.around[f] = Around(b'.pages, f)
    BY <1>9, <2>3 DEF Present
  <2>6. ForcedScan'
    BY <1>1, <1>2, <1>10, <2>1, <2>3, <2>4, <2>5 DEF ForcedScan, Scanning, Rendering, Shipping
  <2>7. ForcedRender' /\ ForcedStatic'
    BY <1>1 DEF ForcedRender, ForcedStatic, Rendering
  <2> QED
    BY <1>2, <1>10, <2>1, <2>6, <2>7
<1> QED
  BY <1>3, <1>12, <1>13

(* The related posts are chosen, and what is still left alone is kept. *)
LEMMA BuildAssignsRelated == ASSUME BuildInv, AssignRelated PROVE BuildInv'
<1> USE DEF BuildInv
<1>1. pc = "related" /\ pc' = "render" /\ out' = out /\ still' = still
  BY DEF AssignRelated, stored
<1>2. post' = post /\ layout' = layout /\ nav' = nav /\ static' = static
  BY DEF AssignRelated, inputs
<1>3. TypeOK'
  BY TypesStay DEF AssignRelated, stored
<1>4. DOMAIN b = Locals /\ b.pages \in [Source -> PageRecord \cup {Absent}]
  BY <1>1 DEF LocalsInv
<1>5. PICK retold : retold = {f \in Present(b.pages) : Retold(f)}
  OBVIOUS
<1>6. PICK kept : kept = {f \in Present(b.pages) \ retold : ~b.pages[f].parsed}
  OBVIOUS
<1>7. PICK keys : keys = {b.pages[f].output : f \in kept}
  OBVIOUS
<1>8. \A f \in retold : post[f] # Absent
  BY <1>5 DEF AssignRelated
<1>9. b' = [b EXCEPT !.related = [f \in Source |->
                        IF f \in Present(b.pages) THEN Related(b.pages, f) ELSE Absent],
                     !.pages = ReadAgain(retold),
                     !.expected = @ \cup keys,
                     !.current = [k \in Key |-> IF k \in keys THEN b.previous[k] ELSE @[k]],
                     !.todo = Present(b.pages) \ kept]
  BY <1>5, <1>6, <1>7 DEF AssignRelated
<1>10. /\ DOMAIN b' = Locals
       /\ \A x \in Locals \ {"related", "pages", "expected", "current", "todo"} : b'[x] = b[x]
  BY <1>4, <1>9
<1>11. /\ b'.pages = ReadAgain(retold) /\ b'.todo = Present(b.pages) \ kept
       /\ b'.expected = b.expected \cup keys
       /\ b'.current = [k \in Key |-> IF k \in keys THEN b.previous[k] ELSE b.current[k]]
       /\ \A f \in Source : f \in Present(b.pages) => b'.related[f] = Related(b.pages, f)
  BY <1>4, <1>9 DEF Locals, Early
<1>12. /\ b'.drafts = b.drafts /\ b'.force = b.force /\ b'.layout = b.layout /\ b'.nav = b.nav
       /\ b'.changed = b.changed /\ b'.collisions = b.collisions /\ b'.prior = b.prior
       /\ b'.derived = b.derived /\ b'.started = b.started /\ b'.reusable = b.reusable
       /\ b'.shipped = b.shipped /\ b'.stamps = b.stamps /\ b'.sources = b.sources
       /\ b'.around = b.around
  BY <1>10 DEF Locals, Early
<1>13. /\ b'.pages \in [Source -> PageRecord \cup {Absent}]
       /\ Present(b'.pages) = Present(b.pages)
       /\ retold = {} => b'.pages = b.pages
  BY <1>4, <1>5, <1>8, <1>11, ReadAgainKeeps
<1>14. keys \subseteq Key
  <2>1. \A f \in kept : b.pages[f] \in PageRecord
    BY <1>4, <1>6 DEF Present
  <2>2. keys \subseteq Titles
    BY <1>7, <2>1 DEF PageRecord
  <2> QED
    BY <2>2, BuildAssumption
<1>15. LocalsInv'
  <2>1. \A f \in Present(b'.pages) : b'.stamps[f] \in Nat /\ b'.around[f] \in Arounds
    BY <1>1, <1>12, <1>13 DEF LocalsInv
  <2>2. \A f \in Present(b'.pages) : b'.related[f] \in Relatives
    BY <1>4, <1>11, <1>13, RelatedType DEF Present
  <2>3. b'.todo \subseteq Present(b'.pages) /\ b'.todo \subseteq Source
    BY <1>11, <1>13 DEF Present
  <2>4. b'.expected \subseteq Key /\ DOMAIN b'.current = Key
    BY <1>1, <1>11, <1>14 DEF LocalsInv
  <2> QED
    BY <1>1, <1>10, <1>12, <1>13, <2>1, <2>2, <2>3, <2>4
       DEF LocalsInv, Scanning, Rendering, Saving
<1>16. ForcedInv'
  <2> SUFFICES ASSUME b.force, still
               PROVE  /\ b'.layout = layout' /\ b'.nav = nav'
                      /\ ForcedScan' /\ ForcedRender' /\ ForcedStatic'
    BY <1>1, <1>12 DEF ForcedInv, Saving
  <2>1. ForcedScan /\ b.layout = layout /\ b.nav = nav
    BY <1>1 DEF ForcedInv
  <2>2. \A f \in Source : b.pages[f] = ReadPage(f) /\ (b.pages[f] # Absent => b.pages[f].parsed)
    BY <1>1, ForcedPagesParsed
  <2>3. retold = {} /\ kept = {} /\ keys = {}
    BY <1>5, <1>6, <1>7, <2>2 DEF Retold, Present
  <2>4. b'.pages = b.pages /\ b'.todo = Present(b.pages)
    BY <1>11, <1>13, <2>3
  <2>5. \A f \in Source : b'.pages[f] = ReadPage(f)'
    BY <1>2, <1>12, <2>2, <2>4 DEF ReadPage, FreshPages
  <2>6. \A f \in Present(b'.pages) :
          b'.around[f] = Around(b'.pages, f) /\ b'.related[f] = Related(b'.pages, f)
    BY <1>1, <1>11, <1>12, <2>1, <2>4 DEF Present, ForcedScan
  <2>7. b'.expected = {} /\ \A k \in Key : b'.current[k] = Absent
    BY <1>1, <1>11, <2>1, <2>3 DEF ForcedScan, NoEntries
  <2>8. ForcedScan'
    BY <1>1, <1>2, <1>12, <2>1, <2>4, <2>5, <2>6 DEF ForcedScan, Scanning, Rendering, Shipping
  <2>9. ForcedRender' /\ ForcedStatic'
    BY <1>1, <2>4, <2>7 DEF ForcedRender, ForcedStatic
  <2> QED
    BY <1>2, <1>12, <2>1, <2>8, <2>9
<1> QED
  BY <1>3, <1>15, <1>16

-----------------------------------------------------------------------------
(* Pages and listings are rendered *)

(* Fields that neither a write nor a keep changes. *)
SameElsewhere(w, bb) ==
    /\ w.drafts = bb.drafts /\ w.force = bb.force /\ w.repeat = bb.repeat
    /\ w.layout = bb.layout /\ w.nav = bb.nav
    /\ w.prior = bb.prior /\ w.derived = bb.derived /\ w.started = bb.started
    /\ w.reusable = bb.reusable /\ w.shipped = bb.shipped /\ w.stamps = bb.stamps
    /\ w.sources = bb.sources /\ w.around = bb.around /\ w.related = bb.related
    /\ w.pages = bb.pages /\ w.todo = bb.todo /\ w.fingerprint = bb.fingerprint

(* The locals w after v was written to k with the locals bb. *)
WroteTo(w, bb, k, v) ==
    /\ DOMAIN w = Locals /\ DOMAIN w.current = Key /\ SameElsewhere(w, bb)
    /\ w.expected = bb.expected \cup {k}
    /\ bb.collisions \subseteq w.collisions
    /\ Collides(bb.current, k, v) => k \in w.collisions
    /\ w.current[k] = v /\ \A j \in Key \ {k} : w.current[j] = bb.current[j]
    /\ w.changed \subseteq bb.changed \cup {k}

(* What one call of Writer::write does to the locals. *)
LEMMA WroteFields ==
  ASSUME NEW bb, DOMAIN bb = Locals, DOMAIN bb.current = Key, NEW k \in Key, NEW v
  PROVE  WroteTo(Wrote(bb, k, v), bb, k, v)
<1> DEFINE w == Wrote(bb, k, v)
<1>1. DOMAIN w = Locals
  BY DEF Wrote
<1>2. \A x \in Locals \ {"expected", "collisions", "current", "changed"} : w[x] = bb[x]
  BY DEF Wrote
<1>3. w.expected = bb.expected \cup {k} /\ w.current = [bb.current EXCEPT ![k] = v]
  BY DEF Wrote, Locals, Early
<1>4. w.collisions =
        IF Collides(bb.current, k, v) THEN bb.collisions \cup {k} ELSE bb.collisions
  BY DEF Wrote, Locals, Early
<1>5. w.changed =
        IF Skips(bb.force, bb.previous, out, k, v) THEN bb.changed ELSE bb.changed \cup {k}
  BY DEF Wrote, Locals, Early
<1> HIDE DEF w
<1>6. SameElsewhere(w, bb)
  BY <1>2 DEF SameElsewhere, Locals, Early
<1>7. DOMAIN w.current = Key /\ w.current[k] = v
      /\ \A j \in Key \ {k} : w.current[j] = bb.current[j]
  BY <1>3
<1>8. bb.collisions \subseteq w.collisions /\ (Collides(bb.current, k, v) => k \in w.collisions)
  BY <1>4
<1>9. WroteTo(w, bb, k, v)
  BY <1>1, <1>3, <1>5, <1>6, <1>7, <1>8 DEF WroteTo
<1> QED
  BY <1>9 DEF w

(* A forced build writes whatever it is given. *)
LEMMA ForcedWrites == ASSUME b.force, NEW k, NEW v PROVE OnDisk(k, v) = v
BY DEF OnDisk, Skips

(* The pool renders one page. *)
LEMMA BuildRenders == ASSUME BuildInv, NEW f \in Source, Render(f) PROVE BuildInv'
<1> USE DEF BuildInv
<1>1. pc = "render" /\ pc' = pc /\ f \in b.todo /\ still' = still
  BY DEF Render
<1>2. post' = post /\ layout' = layout /\ nav' = nav /\ static' = static
  BY DEF Render, inputs
<1>3. TypeOK'
  BY TypesStay DEF Render
<1>4. DOMAIN b = Locals /\ DOMAIN b.current = Key /\ DOMAIN out = Key
      /\ b.pages \in [Source -> PageRecord \cup {Absent}] /\ f \in Present(b.pages)
  BY <1>1 DEF LocalsInv, Rendering
<1>5. PICK k : k = b.pages[f].output
  OBVIOUS
<1>6. PICK v : v = Rendered(f)
  OBVIOUS
<1>7. k \in Key
  <2>1. b.pages[f] \in PageRecord
    BY <1>4 DEF Present
  <2>2. k \in Titles
    BY <1>5, <2>1 DEF PageRecord
  <2> QED
    BY <2>2, BuildAssumption
<1>8. out' = [out EXCEPT ![k] = OnDisk(k, v)]
  BY <1>5, <1>6 DEF Render, Rendered
<1>9. PICK w : w = Wrote(b, k, v)
  OBVIOUS
<1>10. b' = [w EXCEPT !.todo = @ \ {f}]
  BY <1>5, <1>6, <1>9 DEF Render, Rendered
<1>11. WroteTo(w, b, k, v)
  BY <1>4, <1>7, <1>9, WroteFields
<1>12. DOMAIN b' = Locals /\ \A x \in Locals \ {"todo"} : b'[x] = w[x]
  BY <1>10, <1>11 DEF WroteTo
<1>13. /\ b'.todo = b.todo \ {f} /\ b'.expected = b.expected \cup {k}
       /\ b.collisions \subseteq b'.collisions /\ b'.changed \subseteq b.changed \cup {k}
       /\ DOMAIN b'.current = Key /\ b'.current[k] = v
       /\ \A j \in Key \ {k} : b'.current[j] = b.current[j]
  BY <1>10, <1>11 DEF WroteTo, SameElsewhere, Locals, Early
<1>14. /\ b'.drafts = b.drafts /\ b'.force = b.force /\ b'.layout = b.layout /\ b'.nav = b.nav
       /\ b'.prior = b.prior /\ b'.derived = b.derived /\ b'.started = b.started
       /\ b'.reusable = b.reusable /\ b'.shipped = b.shipped /\ b'.stamps = b.stamps
       /\ b'.sources = b.sources /\ b'.around = b.around /\ b'.related = b.related
       /\ b'.pages = b.pages
  BY <1>11, <1>12 DEF WroteTo, SameElsewhere, Locals, Early
<1>15. DOMAIN out' = Key
  BY <1>4, <1>8
<1>16. LocalsInv'
  BY <1>1, <1>7, <1>12, <1>13, <1>14, <1>15 DEF LocalsInv, Scanning, Rendering, Saving
<1>17. ForcedInv'
  <2> SUFFICES ASSUME b.force, still
               PROVE  /\ b'.layout = layout' /\ b'.nav = nav'
                      /\ ForcedScan' /\ ForcedRender' /\ ForcedStatic'
    BY <1>1, <1>14 DEF ForcedInv, Saving
  <2>1. ForcedScan /\ ForcedRender /\ b.layout = layout /\ b.nav = nav
    BY <1>1 DEF ForcedInv
  <2>2. \A g \in Source : ReadPage(g)' = ReadPage(g)
    BY <1>2, <1>14 DEF ReadPage, FreshPages
  <2>3. Shipping' = Shipping
    BY <1>2 DEF Shipping
  <2>4. ForcedScan'
    BY <1>1, <1>14, <2>1, <2>2, <2>3 DEF ForcedScan, Scanning, Rendering
  <2>5. \A g \in Source : Rendered(g)' = Rendered(g)
    BY <1>14 DEF Rendered
  <2>6. out'[k] = v /\ b'.current[k] = v
        /\ \A j \in Key \ {k} : out'[j] = out[j] /\ b'.current[j] = b.current[j]
    BY <1>4, <1>7, <1>8, <1>13, ForcedWrites
  <2>7. b.collisions \subseteq b'.collisions
    BY <1>13
  <2>8. \A j \in Key \ b'.expected : b'.current[j] = Absent
    BY <1>1, <1>13, <2>1, <2>6 DEF ForcedRender, Rendering
  <2>9. ASSUME NEW g \in Present(b'.pages) \ b'.todo
        PROVE  /\ b'.pages[g].output \in b'.expected
               /\ \/ /\ out'[b'.pages[g].output] = Rendered(g)'
                     /\ b'.current[b'.pages[g].output] = Rendered(g)'
                  \/ b'.pages[g].output \in b'.collisions
    <3>1. g \in Source /\ g \in Present(b.pages)
      BY <1>14 DEF Present
    <3>2. CASE g = f
      BY <1>5, <1>6, <1>13, <1>14, <2>5, <2>6, <3>1, <3>2
    <3>3. CASE g # f
      <4>1. g \in Present(b.pages) \ b.todo
        BY <1>13, <3>1, <3>3
      <4>2. /\ b.pages[g].output \in b.expected
            /\ \/ /\ out[b.pages[g].output] = Rendered(g)
                  /\ b.current[b.pages[g].output] = Rendered(g)
               \/ b.pages[g].output \in b.collisions
        BY <1>1, <2>1, <4>1 DEF ForcedRender, Rendering
      <4>3. b.pages[g].output # k
        BY <1>1, <1>4, <1>5, <2>1, <3>1, <3>3 DEF ForcedScan, Rendering
      <4>4. b.pages[g].output \in Key
        BY <1>1, <4>2 DEF LocalsInv
      <4> QED
        BY <1>13, <1>14, <2>5, <2>6, <2>7, <3>1, <4>2, <4>3, <4>4
    <3> QED
      BY <3>2, <3>3
  <2>10. ASSUME NEW j \in b'.expected
         PROVE  \E g \in Present(b'.pages) \ b'.todo : j = b'.pages[g].output
    <3>1. CASE j = k
      BY <1>4, <1>5, <1>13, <1>14, <3>1
    <3>2. CASE j \in b.expected
      <4>1. PICK g \in Present(b.pages) \ b.todo : j = b.pages[g].output
        BY <1>1, <2>1, <3>2 DEF ForcedRender, Rendering
      <4> QED
        BY <1>13, <1>14, <4>1
    <3> QED
      BY <1>13, <3>1, <3>2
  <2>11. ForcedRender'
    BY <2>8, <2>9, <2>10 DEF ForcedRender
  <2>12. ForcedStatic'
    BY <1>1 DEF ForcedStatic
  <2> QED
    BY <1>2, <1>14, <2>1, <2>4, <2>11, <2>12
<1> QED
  BY <1>3, <1>16, <1>17

(* What the next build will know of the pages read is recorded. *)
LEMMA BuildRecords == ASSUME BuildInv, Record PROVE BuildInv'
<1> USE DEF BuildInv
<1>1. pc = "render" /\ pc' = "derived" /\ b.todo = {} /\ out' = out /\ still' = still
  BY DEF Record, stored
<1>2. post' = post /\ layout' = layout /\ nav' = nav /\ static' = static
  BY DEF Record, inputs
<1>3. TypeOK'
  BY TypesStay DEF Record, stored
<1>4. DOMAIN b = Locals
  BY <1>1 DEF LocalsInv
<1>5. DOMAIN b' = Locals /\ \A x \in Locals \ {"sources"} : b'[x] = b[x]
  BY <1>4 DEF Record
<1>6. b'.sources = [f \in Source |->
        IF f \in Present(b.pages) /\ b.pages[f].parsed THEN Entry(f) ELSE b.sources[f]]
  BY <1>4 DEF Record, Locals
<1>7. /\ b'.drafts = b.drafts /\ b'.force = b.force /\ b'.layout = b.layout /\ b'.nav = b.nav
      /\ b'.todo = b.todo /\ b'.changed = b.changed /\ b'.expected = b.expected
      /\ b'.collisions = b.collisions /\ b'.current = b.current /\ b'.prior = b.prior
      /\ b'.derived = b.derived /\ b'.started = b.started /\ b'.reusable = b.reusable
      /\ b'.shipped = b.shipped /\ b'.stamps = b.stamps /\ b'.pages = b.pages
      /\ b'.around = b.around /\ b'.related = b.related
  BY <1>5 DEF Locals, Early
<1>8. \A f \in Present(b.pages) : Entry(f) \in SourceEntry
  <2> TAKE f \in Present(b.pages)
  <2>1. f \in Source /\ b.pages[f] \in PageRecord
    BY <1>1 DEF LocalsInv, Present
  <2>2. b.stamps[f] \in Nat /\ b.around[f] \in Arounds /\ b.related[f] \in Relatives
    BY <1>1 DEF LocalsInv, Rendering
  <2>3. (IF b.stamps[f] >= b.started THEN post[f] ELSE Absent) \in Post \cup {Absent}
    BY <2>1 DEF TypeOK
  <2>4. b.pages[f].post \in Post /\ b.pages[f].output \in Titles
    BY <2>1 DEF PageRecord
  <2> QED
    BY <2>2, <2>3, <2>4 DEF Entry, SourceEntry
<1>9. b'.sources \in [Source -> SourceEntry \cup {Absent}]
  <2>1. b.sources \in [Source -> SourceEntry \cup {Absent}]
    BY <1>1 DEF LocalsInv
  <2> QED
    BY <1>6, <1>8, <2>1
<1>10. LocalsInv'
  BY <1>1, <1>5, <1>7, <1>9 DEF LocalsInv, Scanning, Rendering, Saving
<1>11. ForcedInv'
  <2> SUFFICES ASSUME b.force, still
               PROVE  /\ b'.layout = layout' /\ b'.nav = nav'
                      /\ ForcedScan' /\ ForcedRender' /\ ForcedStatic'
    BY <1>1, <1>7 DEF ForcedInv, Saving
  <2>1. ForcedScan /\ ForcedRender /\ b.layout = layout /\ b.nav = nav
    BY <1>1 DEF ForcedInv
  <2>2. \A g \in Source : ReadPage(g)' = ReadPage(g) /\ Rendered(g)' = Rendered(g)
    BY <1>2, <1>7 DEF ReadPage, FreshPages, Rendered
  <2>3. Shipping' = Shipping
    BY <1>2 DEF Shipping
  <2>4. ForcedScan'
    BY <1>1, <1>7, <2>1, <2>2, <2>3 DEF ForcedScan, Scanning, Rendering
  <2>5. ForcedRender'
    <3>1. \A k \in b'.expected : \E f \in Present(b'.pages) \ b'.todo : k = b'.pages[f].output
      BY <1>1, <1>7, <2>1 DEF ForcedRender, Rendering
    <3>2. \A k \in Key \ b'.expected : b'.current[k] = Absent
      BY <1>1, <1>7, <2>1 DEF ForcedRender, Rendering
    <3>3. \A f \in Present(b'.pages) \ b'.todo :
              /\ b'.pages[f].output \in b'.expected
              /\ \/ /\ out'[b'.pages[f].output] = Rendered(f)'
                    /\ b'.current[b'.pages[f].output] = Rendered(f)'
                 \/ b'.pages[f].output \in b'.collisions
      BY <1>1, <1>7, <2>1, <2>2 DEF ForcedRender, Rendering, Present
    <3> QED
      BY <3>1, <3>2, <3>3 DEF ForcedRender
  <2>6. ForcedStatic'
    BY <1>1 DEF ForcedStatic
  <2> QED
    BY <1>2, <1>7, <2>1, <2>4, <2>5, <2>6
<1> QED
  BY <1>3, <1>10, <1>11

(* The listings of the last build are carried over: never by a forced build. *)
LEMMA BuildKeepsDerived == ASSUME BuildInv, KeepDerived PROVE BuildInv'
<1> USE DEF BuildInv
<1>1. pc = "derived" /\ pc' = "static" /\ out' = out /\ still' = still /\ b.reusable
  BY DEF KeepDerived, DerivedReusable, stored
<1>2. TypeOK'
  BY TypesStay DEF KeepDerived, stored
<1>3. DOMAIN b = Locals /\ b.prior.derived \subseteq {"index", "404"} /\ b.expected \subseteq Key
  BY <1>1 DEF LocalsInv
<1>4. DOMAIN b' = Locals /\ \A x \in Locals \ {"derived", "expected", "current"} : b'[x] = b[x]
  BY <1>3 DEF KeepDerived
<1>5. b'.derived = b.prior.derived /\ b'.expected = b.expected \cup b.prior.derived
      /\ DOMAIN b'.current = Key
  BY <1>3 DEF KeepDerived, Locals, Early
<1>6. /\ b'.drafts = b.drafts /\ b'.force = b.force /\ b'.todo = b.todo
      /\ b'.changed = b.changed /\ b'.prior = b.prior /\ b'.started = b.started
      /\ b'.shipped = b.shipped /\ b'.stamps = b.stamps /\ b'.pages = b.pages
      /\ b'.around = b.around /\ b'.related = b.related /\ b'.sources = b.sources
  BY <1>4 DEF Locals, Early
<1>7. b'.expected \subseteq Key
  BY <1>3, <1>5, BuildAssumption
<1>8. LocalsInv'
  BY <1>1, <1>3, <1>4, <1>5, <1>6, <1>7 DEF LocalsInv, Scanning, Rendering, Saving
<1>9. ForcedInv'
  <2>1. ~(b.force /\ still)
    BY <1>1 DEF ForcedInv, ForcedScan, Rendering
  <2> QED
    BY <1>1, <1>6, <2>1 DEF ForcedInv
<1> QED
  BY <1>2, <1>8, <1>9

(* A page of the site has a title for its key. *)
LEMMA OutputsAreTitles ==
  ASSUME LocalsInv, pc \notin {"idle", "fingerprint"}, NEW f \in Present(b.pages)
  PROVE  f \in Source /\ b.pages[f].output \in Titles /\ b.pages[f].output \in Key
<1>1. f \in Source /\ b.pages[f] \in PageRecord
  BY DEF LocalsInv, Present
<1>2. b.pages[f].output \in Titles
  BY <1>1 DEF PageRecord
<1> QED
  BY <1>1, <1>2, BuildAssumption

(* The listings and the 404 page are rendered. *)
LEMMA BuildRendersDerived == ASSUME BuildInv, RenderDerived PROVE BuildInv'
<1> USE DEF BuildInv
<1>1. pc = "derived" /\ pc' = "static" /\ still' = still
  BY DEF RenderDerived
<1>2. post' = post /\ layout' = layout /\ nav' = nav /\ static' = static
  BY DEF RenderDerived, inputs
<1>3. TypeOK'
  BY TypesStay DEF RenderDerived
<1>4. DOMAIN b = Locals /\ DOMAIN b.current = Key /\ DOMAIN out = Key /\ b.expected \subseteq Key
      /\ b.changed \subseteq Key
  BY <1>1 DEF LocalsInv
<1>5. PICK index : index = IndexBytes(b.pages, b.layout, b.nav)
  OBVIOUS
<1>6. PICK missing : missing = MissingBytes(b.layout, b.nav)
  OBVIOUS
<1>7. PICK some \in BOOLEAN : some <=> Present(b.pages) # {}
  OBVIOUS
<1>8. PICK page \in BOOLEAN : page <=> "404" \notin b.shipped
  OBVIOUS
<1>9. PICK b1 : b1 = IF some THEN Wrote(b, "index", index) ELSE b
  OBVIOUS
<1>10. PICK b2 : b2 = IF page THEN Wrote(b1, "404", missing) ELSE b1
  OBVIOUS
<1>11. b' = [b2 EXCEPT !.derived = b2.expected \ b.expected]
  BY <1>5, <1>6, <1>7, <1>8, <1>9, <1>10 DEF RenderDerived
<1>12. out' = [k \in Key |-> IF k = "index" /\ some THEN OnDisk(k, index)
                             ELSE IF k = "404" /\ page THEN OnDisk(k, missing)
                             ELSE out[k]]
  BY <1>5, <1>6, <1>7, <1>8 DEF RenderDerived
<1>13. "index" \in Key /\ "404" \in Key
  BY BuildAssumption
<1>14. /\ DOMAIN b1 = Locals /\ DOMAIN b1.current = Key /\ SameElsewhere(b1, b)
       /\ b1.expected = b.expected \cup (IF some THEN {"index"} ELSE {})
       /\ b.collisions \subseteq b1.collisions
       /\ b1.changed \subseteq b.changed \cup {"index"}
       /\ \A k \in Key \ {"index"} : b1.current[k] = b.current[k]
       /\ ~some => b1.current = b.current
  <2>1. CASE some
    <3>1. WroteTo(b1, b, "index", index)
      BY <1>4, <1>9, <1>13, <2>1, WroteFields
    <3> QED
      BY <2>1, <3>1 DEF WroteTo
  <2>2. CASE ~some
    <3>1. b1 = b
      BY <1>9, <2>2
    <3>2. SameElsewhere(b1, b)
      BY <3>1 DEF SameElsewhere
    <3> QED
      BY <1>4, <2>2, <3>1, <3>2
  <2> QED
    BY <2>1, <2>2
<1>15. /\ DOMAIN b2 = Locals /\ DOMAIN b2.current = Key /\ SameElsewhere(b2, b1)
       /\ b2.expected = b1.expected \cup (IF page THEN {"404"} ELSE {})
       /\ b1.collisions \subseteq b2.collisions
       /\ b2.changed \subseteq b1.changed \cup {"404"}
       /\ \A k \in Key \ {"404"} : b2.current[k] = b1.current[k]
       /\ ~page => b2.current = b1.current
  <2>1. CASE page
    <3>1. WroteTo(b2, b1, "404", missing)
      BY <1>10, <1>13, <1>14, <2>1, WroteFields
    <3> QED
      BY <2>1, <3>1 DEF WroteTo
  <2>2. CASE ~page
    <3>1. b2 = b1
      BY <1>10, <2>2
    <3>2. SameElsewhere(b2, b1)
      BY <3>1 DEF SameElsewhere
    <3> QED
      BY <1>14, <2>2, <3>1, <3>2
  <2> QED
    BY <2>1, <2>2
<1>16. DOMAIN b' = Locals /\ \A x \in Locals \ {"derived"} : b'[x] = b2[x]
  BY <1>11, <1>15
<1>17. b'.derived = b2.expected \ b.expected
  BY <1>11, <1>15 DEF Locals
<1>18. b'.expected = b2.expected /\ b'.current = b2.current /\ b'.collisions = b2.collisions
       /\ b'.changed = b2.changed
  BY <1>16 DEF Locals, Early
<1>19. /\ b'.drafts = b.drafts /\ b'.force = b.force /\ b'.layout = b.layout /\ b'.nav = b.nav
       /\ b'.prior = b.prior /\ b'.started = b.started /\ b'.reusable = b.reusable
       /\ b'.shipped = b.shipped /\ b'.stamps = b.stamps /\ b'.sources = b.sources
       /\ b'.around = b.around /\ b'.related = b.related /\ b'.pages = b.pages
       /\ b'.todo = b.todo
  BY <1>14, <1>15, <1>16 DEF SameElsewhere, Locals, Early
<1>20. /\ b'.derived \subseteq {"index", "404"} /\ b'.expected \subseteq Key
       /\ b'.changed \subseteq Key /\ DOMAIN b'.current = Key /\ DOMAIN out' = Key
  BY <1>4, <1>12, <1>13, <1>14, <1>15, <1>17, <1>18
<1>21. LocalsInv'
  BY <1>1, <1>16, <1>19, <1>20 DEF LocalsInv, Scanning, Rendering, Saving
<1>22. ForcedInv'
  <2> SUFFICES ASSUME b.force, still
               PROVE  /\ b'.layout = layout' /\ b'.nav = nav'
                      /\ ForcedScan' /\ ForcedRender' /\ ForcedStatic'
    BY <1>1, <1>19 DEF ForcedInv, Saving
  <2>1. ForcedScan /\ ForcedRender /\ b.layout = layout /\ b.nav = nav
    BY <1>1 DEF ForcedInv
  <2>2. \A g \in Source : ReadPage(g)' = ReadPage(g) /\ Rendered(g)' = Rendered(g)
    BY <1>2, <1>19 DEF ReadPage, FreshPages, Rendered
  <2>3. Shipping' = Shipping /\ b.shipped = Shipping
    BY <1>1, <1>2, <2>1 DEF Shipping, ForcedScan
  <2>4. ForcedScan'
    BY <1>1, <1>19, <2>1, <2>2, <2>3 DEF ForcedScan, Scanning, Rendering
  <2>5. /\ some => out'["index"] = index
        /\ page => out'["404"] = missing
        /\ \A k \in Key \ {"index", "404"} : out'[k] = out[k]
    BY <1>12, <1>13, ForcedWrites
  <2>6. \A k \in Key \ {"index", "404"} : b'.current[k] = b.current[k]
    BY <1>14, <1>15, <1>18
  <2>7. b.todo = {}
    BY <1>1 DEF LocalsInv, Rendering
  <2>8. b.expected \subseteq b'.expected /\ b.collisions \subseteq b'.collisions
        /\ b'.expected \subseteq b.expected \cup (IF some THEN {"index"} ELSE {})
                                            \cup (IF page THEN {"404"} ELSE {})
        /\ (some => "index" \in b'.expected) /\ (page => "404" \in b'.expected)
    BY <1>14, <1>15, <1>18
  <2>9. \A k \in Key \ b'.expected : b'.current[k] = Absent
    <3> SUFFICES ASSUME NEW k \in Key \ b'.expected PROVE b'.current[k] = Absent
      OBVIOUS
    <3>1. b.current[k] = Absent
      BY <1>1, <2>1, <2>8 DEF ForcedRender, Rendering
    <3>2. (k = "index" => ~some) /\ (k = "404" => ~page)
      BY <2>8
    <3> QED
      BY <1>14, <1>15, <1>18, <3>1, <3>2
  <2>10. ASSUME NEW g \in Present(b'.pages) \ b'.todo
         PROVE  /\ b'.pages[g].output \in b'.expected
                /\ \/ /\ out'[b'.pages[g].output] = Rendered(g)'
                      /\ b'.current[b'.pages[g].output] = Rendered(g)'
                   \/ b'.pages[g].output \in b'.collisions
    <3>1. g \in Present(b.pages) \ b.todo
      BY <1>19
    <3>2. g \in Source /\ b.pages[g].output \in Key /\ b.pages[g].output \notin {"index", "404"}
      BY <1>1, <3>1, OutputsAreTitles, BuildAssumption
    <3>3. /\ b.pages[g].output \in b.expected
          /\ \/ /\ out[b.pages[g].output] = Rendered(g)
                /\ b.current[b.pages[g].output] = Rendered(g)
             \/ b.pages[g].output \in b.collisions
      BY <1>1, <2>1, <3>1 DEF ForcedRender, Rendering
    <3> QED
      BY <1>19, <2>2, <2>5, <2>6, <2>8, <3>2, <3>3
  <2>11. ASSUME NEW k \in b'.expected
         PROVE  \/ \E g \in Present(b'.pages) \ b'.todo : k = b'.pages[g].output
                \/ k = "index" /\ Present(b'.pages) # {}
                \/ k = "404" /\ k \notin Shipping'
    <3>1. CASE k \in b.expected
      BY <1>1, <1>19, <2>1, <3>1 DEF ForcedRender, Rendering
    <3>2. CASE k \notin b.expected
      <4>1. (k = "index" /\ some) \/ (k = "404" /\ page)
        BY <2>8, <3>2
      <4> QED
        BY <1>7, <1>8, <1>19, <2>3, <4>1
    <3> QED
      BY <3>1, <3>2
  <2>12. ForcedRender'
    BY <1>1, <2>9, <2>10, <2>11 DEF ForcedRender
  <2>13. ForcedStatic'
    <3>1. Present(b'.pages) # {} =>
            "index" \in b'.expected /\ out'["index"] = IndexBytes(b'.pages, b'.layout, b'.nav)
      BY <1>5, <1>7, <1>19, <2>5, <2>8
    <3>2. "404" \notin Shipping' =>
            "404" \in b'.expected /\ out'["404"] = MissingBytes(b'.layout, b'.nav)
      BY <1>6, <1>8, <1>19, <2>3, <2>5, <2>8
    <3>3. b'.shipped = Shipping'
      BY <1>19, <2>3
    <3> QED
      BY <3>1, <3>2, <3>3 DEF ForcedStatic
  <2> QED
    BY <1>2, <1>19, <2>1, <2>4, <2>12, <2>13
<1> QED
  BY <1>3, <1>21, <1>22

-----------------------------------------------------------------------------
(* Static files are copied, and the output is pruned *)

(* A static file is left alone on its stamp: never by a forced build. *)
LEMMA BuildCopyKeeps == ASSUME BuildInv, NEW k \in Static, CopyKeep(k) PROVE BuildInv'
<1> USE DEF BuildInv
<1>1. pc = "static" /\ pc' = pc /\ out' = out /\ still' = still /\ ~b.force
  BY DEF CopyKeep, CopyUnchanged, stored
<1>2. TypeOK'
  BY TypesStay DEF CopyKeep, stored
<1>3. DOMAIN b = Locals /\ DOMAIN b.current = Key /\ b.expected \subseteq Key
  BY <1>1 DEF LocalsInv
<1>4. PICK w : w = Kept(b, k)
  OBVIOUS
<1>5. /\ DOMAIN w = Locals /\ \A x \in Locals \ {"expected", "current"} : w[x] = b[x]
      /\ w.expected = b.expected \cup {k} /\ DOMAIN w.current = Key
  <2>1. w = [b EXCEPT !.expected = @ \cup {k}, !.current[k] = b.previous[k]]
    BY <1>4 DEF Kept
  <2>2. DOMAIN w = Locals /\ \A x \in Locals \ {"expected", "current"} : w[x] = b[x]
    BY <1>3, <2>1
  <2>3. w.expected = b.expected \cup {k} /\ w.current = [b.current EXCEPT ![k] = b.previous[k]]
    BY <1>3, <2>1 DEF Locals, Early
  <2> QED
    BY <1>3, <2>2, <2>3
<1>6. b' = [w EXCEPT !.copies[k] = b.prior.copies[k], !.shipped = @ \ {k}]
  BY <1>4 DEF CopyKeep
<1>7. DOMAIN b' = Locals /\ \A x \in Locals \ {"copies", "shipped"} : b'[x] = w[x]
  BY <1>5, <1>6
<1>8. b'.shipped = w.shipped \ {k}
  BY <1>5, <1>6 DEF Locals
<1>9. /\ b'.drafts = b.drafts /\ b'.force = b.force /\ b'.todo = b.todo
      /\ b'.changed = b.changed /\ b'.prior = b.prior /\ b'.started = b.started
      /\ b'.stamps = b.stamps /\ b'.pages = b.pages /\ b'.derived = b.derived
      /\ b'.around = b.around /\ b'.related = b.related /\ b'.sources = b.sources
      /\ b'.expected = b.expected \cup {k} /\ b'.current = w.current
      /\ b'.shipped = b.shipped \ {k}
  BY <1>5, <1>7, <1>8 DEF Locals, Early
<1>10. b'.expected \subseteq Key
  BY <1>3, <1>9, BuildAssumption
<1>11. LocalsInv'
  BY <1>1, <1>5, <1>7, <1>9, <1>10 DEF LocalsInv, Scanning, Rendering, Saving
<1>12. ForcedInv'
  BY <1>1, <1>9 DEF ForcedInv
<1> QED
  BY <1>2, <1>11, <1>12

(* The bytes of a page are neither nothing nor those of a static file. *)
LEMMA PagesAreNotStatic ==
  ASSUME BuildInv, pc = "static", b.layout = layout, b.nav = nav,
         NEW g \in Present(b.pages), NEW v
  PROVE  Rendered(g) \notin {Absent, StaticBytes(v)}
<1>1. b.pages[g] \in PageRecord /\ b.around[g] \in Arounds /\ b.related[g] \in Relatives
  BY DEF BuildInv, LocalsInv, Rendering, Present
<1>2. layout \in Layout /\ nav \in Nav
  BY DEF BuildInv, TypeOK
<1>3. b.pages[g].post \in Post
  BY <1>1 DEF PageRecord
<1>4. b.pages[g].post.title \in Titles /\ b.pages[g].post.text \in Nat /\ b.pages[g].post.tag \in Nat
  BY <1>3, BuildAssumption DEF Titles
<1>5. Rendered(g) = <<"page", b.pages[g].post.title, b.pages[g].post.text, b.pages[g].post.tag,
                      layout, nav, b.around[g], b.related[g]>>
  BY DEF Rendered, PageBytes
<1>6. Rendered(g) \in PageContents
  BY <1>1, <1>2, <1>4, <1>5 DEF PageContents
<1>7. Rendered(g)[1] = "page" /\ StaticBytes(v)[1] = "static"
  BY <1>5 DEF StaticBytes
<1> QED
  BY <1>6, <1>7, AbsentAssumption

(* A static file is copied. *)
LEMMA BuildCopyWrites == ASSUME BuildInv, NEW k \in Static, CopyWrite(k) PROVE BuildInv'
<1> USE DEF BuildInv
<1>1. pc = "static" /\ pc' = pc /\ still' = still /\ k \in b.shipped
  BY DEF CopyWrite
<1>2. post' = post /\ layout' = layout /\ nav' = nav /\ static' = static
  BY DEF CopyWrite, inputs
<1>3. TypeOK'
  BY TypesStay DEF CopyWrite
<1>4. DOMAIN b = Locals /\ DOMAIN b.current = Key /\ DOMAIN out = Key /\ b.expected \subseteq Key
      /\ b.changed \subseteq Key
  BY <1>1 DEF LocalsInv
<1>5. k \in Key /\ k # "index"
  BY BuildAssumption
<1>6. PICK v : v = StaticBytes(static[k])
  OBVIOUS
<1>7. PICK c : c = [modified |-> stime[k],
                    hash |-> IF stime[k] >= b.started THEN static[k] ELSE Absent]
  OBVIOUS
<1>8. PICK w : w = Wrote(b, k, v)
  OBVIOUS
<1>9. out' = [out EXCEPT ![k] = OnDisk(k, v)]
      /\ b' = [w EXCEPT !.copies[k] = c, !.shipped = @ \ {k}]
  BY <1>6, <1>7, <1>8 DEF CopyWrite
<1>10. WroteTo(w, b, k, v)
  BY <1>4, <1>5, <1>8, WroteFields
<1>11. DOMAIN b' = Locals /\ \A x \in Locals \ {"copies", "shipped"} : b'[x] = w[x]
  BY <1>9, <1>10 DEF WroteTo
<1>12. b'.shipped = w.shipped \ {k}
  BY <1>9, <1>10 DEF WroteTo, Locals
<1>13. /\ b'.drafts = b.drafts /\ b'.force = b.force /\ b'.layout = b.layout /\ b'.nav = b.nav
       /\ b'.prior = b.prior /\ b'.derived = b.derived /\ b'.started = b.started
       /\ b'.reusable = b.reusable /\ b'.stamps = b.stamps
       /\ b'.sources = b.sources /\ b'.around = b.around /\ b'.related = b.related
       /\ b'.pages = b.pages /\ b'.todo = b.todo /\ b'.shipped = b.shipped \ {k}
  BY <1>10, <1>11, <1>12 DEF WroteTo, SameElsewhere, Locals, Early
<1>14. /\ b'.expected = b.expected \cup {k} /\ b.collisions \subseteq b'.collisions
       /\ Collides(b.current, k, v) => k \in b'.collisions
       /\ DOMAIN b'.current = Key /\ b'.current[k] = v
       /\ \A j \in Key \ {k} : b'.current[j] = b.current[j]
       /\ b'.changed \subseteq b.changed \cup {k}
  BY <1>10, <1>11 DEF WroteTo, Locals, Early
<1>15. DOMAIN out' = Key /\ \A j \in Key \ {k} : out'[j] = out[j]
  BY <1>4, <1>9
<1>16. LocalsInv'
  BY <1>1, <1>4, <1>5, <1>11, <1>13, <1>14, <1>15 DEF LocalsInv, Scanning, Rendering, Saving
<1>17. ForcedInv'
  <2> SUFFICES ASSUME b.force, still
               PROVE  /\ b'.layout = layout' /\ b'.nav = nav'
                      /\ ForcedScan' /\ ForcedRender' /\ ForcedStatic'
    BY <1>1, <1>13 DEF ForcedInv, Saving
  <2>1. ForcedScan /\ ForcedRender /\ ForcedStatic /\ b.layout = layout /\ b.nav = nav
    BY <1>1 DEF ForcedInv
  <2>2. \A g \in Source : ReadPage(g)' = ReadPage(g) /\ Rendered(g)' = Rendered(g)
    BY <1>2, <1>13 DEF ReadPage, FreshPages, Rendered
  <2>3. Shipping' = Shipping /\ k \in Shipping /\ b.shipped \subseteq Shipping
    BY <1>1, <1>2, <2>1 DEF Shipping, ForcedStatic
  <2>4. ForcedScan'
    BY <1>1, <1>13, <2>1, <2>2 DEF ForcedScan, Scanning, Rendering
  <2>5. out'[k] = v
    BY <1>4, <1>5, <1>9, ForcedWrites
  <2>6. b.todo = {} /\ b'.todo = {}
    BY <1>1, <1>13 DEF LocalsInv, Rendering
  <2>7. \A g \in Present(b.pages) :
              /\ b.pages[g].output \in b.expected
              /\ \/ /\ out[b.pages[g].output] = Rendered(g)
                    /\ b.current[b.pages[g].output] = Rendered(g)
                 \/ b.pages[g].output \in b.collisions
    BY <1>1, <2>1, <2>6 DEF ForcedRender, Rendering
  <2>8. \A g \in Present(b.pages) : b.pages[g].output = k => k \in b'.collisions
    <3> SUFFICES ASSUME NEW g \in Present(b.pages), b.pages[g].output = k,
                        k \notin b.collisions
                 PROVE  Collides(b.current, k, v)
      BY <1>14
    <3>1. b.current[k] = Rendered(g)
      BY <2>7
    <3>2. Rendered(g) \notin {Absent, v}
      BY <1>1, <1>6, <2>1, PagesAreNotStatic
    <3> QED
      BY <3>1, <3>2 DEF Collides
  <2>9. \A j \in Key \ b'.expected : b'.current[j] = Absent
    BY <1>1, <1>14, <2>1 DEF ForcedRender, Rendering
  <2>10. ASSUME NEW g \in Present(b'.pages) \ b'.todo
         PROVE  /\ b'.pages[g].output \in b'.expected
                /\ \/ /\ out'[b'.pages[g].output] = Rendered(g)'
                      /\ b'.current[b'.pages[g].output] = Rendered(g)'
                   \/ b'.pages[g].output \in b'.collisions
    <3>1. g \in Present(b.pages) /\ g \in Source /\ b.pages[g].output \in Key
      BY <1>1, <1>13, OutputsAreTitles
    <3>2. CASE b.pages[g].output = k
      BY <1>13, <1>14, <2>7, <2>8, <3>1, <3>2
    <3>3. CASE b.pages[g].output # k
      BY <1>13, <1>14, <1>15, <2>2, <2>7, <3>1, <3>3
    <3> QED
      BY <3>2, <3>3
  <2>11. ASSUME NEW j \in b'.expected
         PROVE  \/ \E g \in Present(b'.pages) \ b'.todo : j = b'.pages[g].output
                \/ j = "index" /\ Present(b'.pages) # {}
                \/ j = "404" /\ j \notin Shipping'
                \/ j \in Shipping' \ b'.shipped
    <3>1. CASE j = k
      BY <1>13, <2>3, <3>1
    <3>2. CASE j \in b.expected
      <4>1. \/ \E g \in Present(b.pages) \ b.todo : j = b.pages[g].output
            \/ j = "index" /\ Present(b.pages) # {}
            \/ j = "404" /\ j \notin Shipping
            \/ j \in Shipping \ b.shipped
        BY <1>1, <2>1, <3>2 DEF ForcedRender, Rendering
      <4> QED
        BY <1>13, <2>3, <4>1
    <3> QED
      BY <1>14, <3>1, <3>2
  <2>12. ForcedRender'
    BY <1>1, <2>9, <2>10, <2>11 DEF ForcedRender
  <2>13. ForcedStatic'
    <3>1. Present(b'.pages) # {} =>
            "index" \in b'.expected /\ out'["index"] = IndexBytes(b'.pages, b'.layout, b'.nav)
      BY <1>1, <1>5, <1>13, <1>14, <1>15, <2>1, BuildAssumption DEF ForcedStatic
    <3>2. "404" \notin Shipping' =>
            "404" \in b'.expected /\ out'["404"] = MissingBytes(b'.layout, b'.nav)
      BY <1>1, <1>13, <1>14, <1>15, <2>1, <2>3, BuildAssumption DEF ForcedStatic
    <3>3. ASSUME NEW j \in Shipping' \ b'.shipped
          PROVE  /\ j \in b'.expected /\ out'[j] = StaticBytes(static'[j])
                 /\ \A g \in Present(b'.pages) : b'.pages[g].output = j => j \in b'.collisions
      <4>1. CASE j = k
        BY <1>2, <1>6, <1>13, <1>14, <2>5, <2>8, <4>1
      <4>2. CASE j # k
        <5>1. j \in Shipping \ b.shipped /\ j \in Key
          BY <1>13, <2>3, <4>2, BuildAssumption DEF Shipping
        <5>2. /\ j \in b.expected /\ out[j] = StaticBytes(static[j])
              /\ \A g \in Present(b.pages) : b.pages[g].output = j => j \in b.collisions
          BY <1>1, <2>1, <5>1 DEF ForcedStatic
        <5> QED
          BY <1>2, <1>13, <1>14, <1>15, <4>2, <5>1, <5>2
      <4> QED
        BY <4>1, <4>2
    <3>4. b'.shipped \subseteq Shipping'
      BY <1>13, <2>3
    <3> QED
      BY <3>1, <3>2, <3>3, <3>4 DEF ForcedStatic
  <2> QED
    BY <1>2, <1>13, <2>1, <2>4, <2>12, <2>13
<1> QED
  BY <1>3, <1>16, <1>17

(* The pages of a forced build are the fresh ones. *)
LEMMA ForcedPagesFresh ==
  ASSUME BuildInv, pc = "static", b.force, still
  PROVE  LET pages == FreshPages(b.drafts) IN
         /\ Present(pages) = Present(b.pages)
         /\ \A f \in Present(pages) :
               pages[f].post = b.pages[f].post /\ pages[f].output = b.pages[f].output
<1> DEFINE pages == FreshPages(b.drafts)
<1>1. \A f \in Source : b.pages[f] = ReadPage(f)
  BY ForcedPagesParsed DEF Rendering
<1>2. \A f \in Source : pages[f] # Absent =>
        pages[f] = [post |-> post[f], output |-> post[f].title]
  BY DEF FreshPages
<1>3. \A f \in Source : pages[f] # Absent =>
        b.pages[f] = [parsed |-> TRUE, post |-> post[f], output |-> post[f].title]
  BY <1>1 DEF ReadPage
<1>4. \A f \in Source : pages[f] = Absent => b.pages[f] = Absent
  BY <1>1 DEF ReadPage
<1>5. \A f \in Source : pages[f] # Absent => b.pages[f] # Absent
  <2> SUFFICES ASSUME NEW f \in Source, pages[f] # Absent PROVE b.pages[f] # Absent
    OBVIOUS
  <2>1. post[f] # Absent
    BY DEF FreshPages
  <2>2. post[f] \in Post /\ post[f].title \in Titles
    BY <2>1 DEF BuildInv, TypeOK, Titles
  <2>3. b.pages[f] = [parsed |-> TRUE, post |-> post[f], output |-> post[f].title]
    BY <1>3
  <2>4. b.pages[f] \in PageRecord
    BY <2>2, <2>3 DEF PageRecord
  <2> QED
    BY <2>4, AbsentAssumption
<1>6. Present(pages) = Present(b.pages)
  BY <1>4, <1>5 DEF Present
<1>7. \A f \in Present(pages) :
        pages[f].post = b.pages[f].post /\ pages[f].output = b.pages[f].output
  <2> TAKE f \in Present(pages)
  <2>1. f \in Source /\ pages[f] # Absent
    BY DEF Present
  <2>2. pages[f] = [post |-> post[f], output |-> post[f].title]
    BY <1>2, <2>1
  <2>3. b.pages[f] = [parsed |-> TRUE, post |-> post[f], output |-> post[f].title]
    BY <1>3, <2>1
  <2> HIDE DEF pages
  <2> QED
    BY <2>2, <2>3
<1> QED
  BY <1>6, <1>7

(* A forced build whose static files are copied, with no collision, is a     *)
(* build that a fresh one accepts, and has written what that would write.    *)
LEMMA ForcedOutput ==
  ASSUME BuildInv, pc = "static", b.force, still, b.shipped = {}, b.collisions = {}
  PROVE  ~FreshFails(b.drafts) /\ Prune(out, b.expected) = FreshOut(b.drafts)
<1> DEFINE pages == FreshPages(b.drafts)
<1>1. ForcedScan /\ ForcedRender /\ ForcedStatic /\ b.layout = layout /\ b.nav = nav
  BY DEF BuildInv, ForcedInv
<1>2. Present(pages) = Present(b.pages)
      /\ \A f \in Present(pages) :
            pages[f].post = b.pages[f].post /\ pages[f].output = b.pages[f].output
  BY ForcedPagesFresh
<1>3. b.todo = {}
  BY DEF BuildInv, LocalsInv, Rendering
<1>4. \A f, g \in Present(b.pages) : b.pages[f].output = b.pages[g].output => f = g
  BY <1>1 DEF ForcedScan, Rendering
<1>5. \A k \in Shipping : k \in b.expected /\ out[k] = StaticBytes(static[k])
                          /\ \A f \in Present(b.pages) : b.pages[f].output # k
  BY <1>1 DEF ForcedStatic
<1>6. ~FreshFails(b.drafts)
  BY <1>2, <1>4, <1>5 DEF FreshFails, Shipping
<1>7. \A f \in Present(b.pages) :
        b.pages[f].output \in b.expected /\ out[b.pages[f].output] = Rendered(f)
  BY <1>1, <1>3 DEF ForcedRender, Rendering
<1>8. \A k \in b.expected :
        \/ \E f \in Present(b.pages) : k = b.pages[f].output
        \/ k = "index" /\ Present(b.pages) # {}
        \/ k = "404" /\ k \notin Shipping
        \/ k \in Shipping
  BY <1>1, <1>3 DEF ForcedRender, Rendering
<1>9. \A f \in Present(b.pages) : b.pages[f].output \notin {"index", "404"}
  BY OutputsAreTitles, BuildAssumption DEF BuildInv
<1>10. \A f \in Present(pages) :
         Rendered(f) = PageBytes(pages[f], Around(pages, f), Related(pages, f), layout, nav)
  <2> SUFFICES ASSUME NEW f \in Present(pages)
               PROVE  Rendered(f) =
                        PageBytes(pages[f], Around(pages, f), Related(pages, f), layout, nav)
    OBVIOUS
  <2>1. b.around[f] = Around(b.pages, f) /\ b.related[f] = Related(b.pages, f)
    BY <1>1, <1>2 DEF ForcedScan, Rendering
  <2>2. Around(pages, f) = Around(b.pages, f) /\ Related(pages, f) = Related(b.pages, f)
    BY <1>2, ShownAlike
  <2>3. pages[f].post = b.pages[f].post
    BY <1>2
  <2> HIDE DEF pages
  <2> QED
    BY <1>1, <2>1, <2>2, <2>3 DEF Rendered, PageBytes
<1>11. IndexBytes(b.pages, b.layout, b.nav) = IndexBytes(pages, layout, nav)
  BY <1>1, <1>2, ShownAlike
<1> HIDE DEF pages
<1>12. ASSUME NEW k \in Key PROVE Prune(out, b.expected)[k] = FreshOut(b.drafts)[k]
  <2>0. Prune(out, b.expected)[k] = IF k \in b.expected THEN out[k] ELSE Absent
    BY DEF Prune
  <2>1. CASE k \in Shipping
    <3>1. FreshOut(b.drafts)[k] = StaticBytes(static[k])
      BY <2>1 DEF FreshOut, Shipping
    <3> QED
      BY <1>5, <2>0, <2>1, <3>1
  <2>2. CASE k = "404" /\ k \notin Shipping
    <3>1. FreshOut(b.drafts)[k] = MissingBytes(layout, nav)
      BY <2>2 DEF FreshOut, Shipping
    <3> QED
      BY <1>1, <2>0, <2>2, <3>1 DEF ForcedStatic
  <2>3. CASE k = "index" /\ k \notin Shipping
    <3>1. FreshOut(b.drafts)[k] =
            IF Present(pages) = {} THEN Absent ELSE IndexBytes(pages, layout, nav)
      BY <2>3 DEF FreshOut, Shipping, pages
    <3>2. k \in b.expected <=> Present(b.pages) # {}
      BY <1>1, <1>8, <1>9, <2>3 DEF ForcedStatic
    <3>3. Present(b.pages) # {} => out[k] = IndexBytes(b.pages, b.layout, b.nav)
      BY <1>1, <2>3 DEF ForcedStatic
    <3> QED
      BY <1>2, <1>11, <2>0, <3>1, <3>2, <3>3
  <2>4. CASE k \notin Shipping \cup {"index", "404"}
             /\ \E f \in Present(pages) : pages[f].output = k
    <3>1. PICK f \in Present(pages) : pages[f].output = k
      BY <2>4
    <3>2. \A g \in Present(pages) : pages[g].output = k => g = f
      BY <1>2, <1>4, <3>1
    <3>3. f = CHOOSE g \in Present(pages) : pages[g].output = k
      BY <3>1, <3>2
    <3>4. FreshOut(b.drafts)[k] =
            PageBytes(pages[f], Around(pages, f), Related(pages, f), layout, nav)
      BY <2>4, <3>1, <3>3 DEF FreshOut, Shipping, pages
    <3>5. k \in b.expected /\ out[k] = Rendered(f)
      BY <1>2, <1>7, <3>1
    <3> QED
      BY <1>10, <2>0, <3>4, <3>5
  <2>5. CASE k \notin Shipping \cup {"index", "404"}
             /\ ~ \E f \in Present(pages) : pages[f].output = k
    <3>1. FreshOut(b.drafts)[k] = Absent
      BY <2>5 DEF FreshOut, Shipping, pages
    <3>2. k \notin b.expected
      BY <1>2, <1>8, <2>5
    <3> QED
      BY <2>0, <3>1, <3>2
  <2> QED
    BY <2>1, <2>2, <2>3, <2>4, <2>5
<1>13. Prune(out, b.expected) = FreshOut(b.drafts)
  <2>1. Prune(out, b.expected) = [k \in Key |-> Prune(out, b.expected)[k]]
    BY DEF Prune
  <2>2. FreshOut(b.drafts) = [k \in Key |-> FreshOut(b.drafts)[k]]
    BY DEF FreshOut
  <2> QED
    BY <1>12, <2>1, <2>2
<1> QED
  BY <1>6, <1>13

(* What was not produced is removed. *)
LEMMA BuildPrunes == ASSUME BuildInv, PruneStep PROVE BuildInv'
<1> USE DEF BuildInv
<1>1. pc = "static" /\ pc' = "manifest" /\ b' = b /\ still' = still
      /\ b.shipped = {} /\ b.collisions = {} /\ out' = Prune(out, b.expected)
  BY DEF PruneStep
<1>2. TypeOK'
  BY TypesStay DEF PruneStep
<1>3. DOMAIN out' = Key
  BY <1>1 DEF Prune
<1>4. LocalsInv'
  BY <1>1, <1>3 DEF LocalsInv, Scanning, Rendering, Saving
<1>5. ForcedInv'
  <2> SUFFICES ASSUME b.force, still
               PROVE  /\ b'.layout = layout' /\ b'.nav = nav'
                      /\ ForcedScan' /\ ForcedRender' /\ ForcedStatic'
                      /\ ~FreshFails(b.drafts)' /\ out' = FreshOut(b.drafts)'
    BY <1>1 DEF ForcedInv
  <2>1. post' = post /\ layout' = layout /\ nav' = nav /\ static' = static
    BY DEF PruneStep, inputs
  <2>2. ~FreshFails(b.drafts) /\ out' = FreshOut(b.drafts)
    BY <1>1, ForcedOutput
  <2>3. FreshFails(b.drafts)' = FreshFails(b.drafts) /\ FreshOut(b.drafts)' = FreshOut(b.drafts)
    BY <1>1, <2>1 DEF FreshFails, FreshOut, FreshPages
  <2>4. b.layout = layout /\ b.nav = nav
    BY <1>1 DEF ForcedInv
  <2>5. ForcedScan' /\ ForcedRender' /\ ForcedStatic'
    BY <1>1 DEF ForcedScan, ForcedRender, ForcedStatic, Scanning, Rendering
  <2> QED
    BY <1>1, <2>1, <2>2, <2>3, <2>4, <2>5
<1> QED
  BY <1>2, <1>4, <1>5

-----------------------------------------------------------------------------
(* Manifest and state are saved *)

(* Truncating and writing the two files leaves the output and the locals as  *)
(* they were.                                                                *)
LEMMA BuildSaves ==
  ASSUME BuildInv, OpenManifest \/ SaveManifest \/ OpenState \/ SaveState
  PROVE  BuildInv'
<1> USE DEF BuildInv
<1>1. pc \in Saving /\ pc' \in Saving /\ b' = b /\ out' = out /\ still' = still
      /\ last' = last /\ uncovered' = uncovered
  BY DEF OpenManifest, SaveManifest, OpenState, SaveState, Saving
<1>2. post' = post /\ layout' = layout /\ nav' = nav /\ static' = static /\ mtime' = mtime
      /\ stime' = stime /\ clock' = clock /\ dirty' = dirty /\ flag' = flag
  BY DEF OpenManifest, SaveManifest, OpenState, SaveState, inputs, ghosts
<1>3. state'.sources \in [Source -> SourceEntry \cup {Absent}]
      /\ state'.derived \subseteq {"index", "404"}
  <2>1. CASE state' = state
    BY <2>1 DEF TypeOK
  <2>2. CASE state' = NoState
    BY <2>2 DEF NoState
  <2>3. CASE SaveState
    <3>1. state'.sources = b.sources /\ state'.derived = b.derived
      BY <2>3 DEF SaveState
    <3> QED
      BY <1>1, <3>1 DEF LocalsInv, Saving
  <2> QED
    BY <2>1, <2>2, <2>3 DEF OpenManifest, SaveManifest, OpenState, SaveState
<1>4. TypeOK'
  BY <1>1, <1>2, <1>3 DEF TypeOK
<1>5. LocalsInv'
  BY <1>1 DEF LocalsInv, Scanning, Rendering, Saving
<1>6. ForcedInv'
  <2> SUFFICES ASSUME b.force, still
               PROVE  /\ b'.layout = layout' /\ b'.nav = nav'
                      /\ ForcedScan' /\ ForcedRender' /\ ForcedStatic'
                      /\ ~FreshFails(b.drafts)' /\ out' = FreshOut(b.drafts)'
    BY <1>1 DEF ForcedInv
  <2>1. /\ b.layout = layout /\ b.nav = nav
        /\ ~FreshFails(b.drafts) /\ out = FreshOut(b.drafts)
    BY <1>1 DEF ForcedInv, Saving
  <2>2. FreshFails(b.drafts)' = FreshFails(b.drafts) /\ FreshOut(b.drafts)' = FreshOut(b.drafts)
    BY <1>1, <1>2 DEF FreshFails, FreshOut, FreshPages
  <2>3. ForcedScan' /\ ForcedRender' /\ ForcedStatic'
    BY <1>1 DEF ForcedScan, ForcedRender, ForcedStatic, Scanning, Rendering, Saving
  <2> QED
    BY <1>1, <1>2, <2>1, <2>2, <2>3
<1> QED
  BY <1>4, <1>5, <1>6

(* build returns. *)
LEMMA BuildReturns == ASSUME BuildInv, End PROVE BuildInv'
<1> USE DEF BuildInv
<1>1. pc' = "idle" /\ out' = out /\ state' = state /\ last' = "ok" /\ flag' = b.drafts
      /\ pc = "end"
  BY DEF End, stored
<1>2. dirty' \subseteq Key /\ uncovered' \in BOOLEAN /\ flag' \in BOOLEAN
  <2>1. dirty' \subseteq dirty
    BY DEF End
  <2>2. uncovered' \in BOOLEAN
    BY DEF End
  <2> QED
    BY <1>1, <2>1, <2>2 DEF TypeOK, LocalsInv
<1>3. post' = post /\ layout' = layout /\ nav' = nav /\ mtime' = mtime /\ stime' = stime
      /\ clock' = clock
  BY DEF End, inputs
<1>4. TypeOK'
  BY <1>1, <1>2, <1>3 DEF TypeOK
<1>5. LocalsInv'
  BY <1>1 DEF LocalsInv, Rendering, Saving
<1>6. ForcedInv'
  BY <1>1 DEF ForcedInv
<1> QED
  BY <1>4, <1>5, <1>6

-----------------------------------------------------------------------------
(* The theorems *)

(* The variables and the build's locals keep their types, and a forced build *)
(* that nobody disturbs is at every step on its way to a fresh one.          *)
THEOREM BuildInvariant == Spec => []BuildInv
<1>1. BuildInv /\ [Next]_vars => BuildInv'
  <2> SUFFICES ASSUME BuildInv, [Next]_vars PROVE BuildInv'
    OBVIOUS
  <2>1. CASE UNCHANGED vars
    <3>1. pc' = pc /\ b' = b /\ still' = still /\ last' = last /\ uncovered' = uncovered
      BY <2>1 DEF vars
    <3>2. out' = out /\ state' = state
      BY <2>1 DEF vars, stored
    <3>3. post' = post /\ layout' = layout /\ nav' = nav /\ static' = static
      BY <2>1 DEF vars, inputs
    <3>4. TypeOK'
      BY <2>1, <3>1, <3>2, TypesStay DEF BuildInv, vars
    <3>5. LocalsInv'
      BY <3>1, <3>2, LocalsStay DEF BuildInv
    <3>6. \A d : FreshFails(d)' = FreshFails(d) /\ FreshOut(d)' = FreshOut(d)
      BY <3>3 DEF FreshFails, FreshOut, FreshPages
    <3>7. Shipping' = Shipping /\ \A f : ReadPage(f)' = ReadPage(f) /\ Rendered(f)' = Rendered(f)
      BY <3>1, <3>3 DEF Shipping, ReadPage, FreshPages, Rendered
    <3>8. ForcedScan' = ForcedScan /\ ForcedRender' = ForcedRender /\ ForcedStatic' = ForcedStatic
      BY <3>1, <3>2, <3>3, <3>7 DEF ForcedScan, ForcedRender, ForcedStatic
    <3>9. ForcedInv'
      BY <3>1, <3>2, <3>3, <3>6, <3>8 DEF BuildInv, ForcedInv
    <3> QED
      BY <3>4, <3>5, <3>9 DEF BuildInv
  <2>2. CASE Owner
    BY <2>2, BuildOwner
  <2>3. CASE Step
    <3>1. ASSUME NEW d \in Flags, NEW f \in Forces, Begin(d, f) PROVE BuildInv'
      BY <3>1, BuildBegins
    <3>2. CASE Fingerprint
      BY <3>2, BuildFingerprints
    <3>3. CASE ScanStamp
      BY <3>3, BuildScanStamps
    <3>4. CASE ScanKeep \/ ScanHold \/ ScanLoad
      BY <3>4, BuildScans
    <3>5. CASE Neighbours
      BY <3>5, BuildNeighbours
    <3>6. CASE AssignRelated
      BY <3>6, BuildAssignsRelated
    <3>7. ASSUME NEW f \in Source, Render(f) PROVE BuildInv'
      BY <3>7, BuildRenders
    <3>8. CASE Record
      BY <3>8, BuildRecords
    <3>9. CASE KeepDerived
      BY <3>9, BuildKeepsDerived
    <3>10. CASE RenderDerived
      BY <3>10, BuildRendersDerived
    <3>11. ASSUME NEW k \in Static, CopyKeep(k) \/ CopyWrite(k) PROVE BuildInv'
      BY <3>11, BuildCopyKeeps, BuildCopyWrites
    <3>12. CASE PruneStep
      BY <3>12, BuildPrunes
    <3>13. CASE OpenManifest \/ SaveManifest \/ OpenState \/ SaveState
      BY <3>13, BuildSaves
    <3>14. CASE End
      BY <3>14, BuildReturns
    <3>15. CASE \/ ScanError \/ NeighboursError \/ RelatedError \/ RenderFails
                \/ KeepDerivedError \/ CollisionError \/ Kill
      BY <3>15, BuildEndsEarly
    <3> QED
      BY <2>3, <3>1, <3>2, <3>3, <3>4, <3>5, <3>6, <3>7, <3>8, <3>9, <3>10, <3>11, <3>12,
         <3>13, <3>14, <3>15 DEF Step
  <2> QED
    BY <2>1, <2>2, <2>3 DEF Next
<1> QED
  BY BuildInitially, <1>1, PTL DEF Spec

(* Whatever the builds before it did, and wherever they were killed, a build *)
(* with --force during which nothing is edited leaves exactly the output of  *)
(* a build from scratch, of a site such a build accepts.                     *)
THEOREM BuildForced == Spec => []ForcedMatchesFreshBuild
<1>1. BuildInv => ForcedMatchesFreshBuild
  BY DEF BuildInv, ForcedInv, ForcedMatchesFreshBuild, Done, Saving
<1> QED
  BY BuildInvariant, <1>1, PTL

=============================================================================
