---------------------------- MODULE BuildHistory ----------------------------
(***************************************************************************)
(* What a build may take from the builds before it: the invariants that    *)
(* make MatchesButAbandoned inductive.  They relate four things: what the  *)
(* saved state says of each input, the input itself, the bytes the         *)
(* manifest records, and the bytes on disk.                                *)
(***************************************************************************)
EXTENDS Build

Started == pc \notin {"idle", "fingerprint"}
Writing == Rendering \cup Saving
Listed == {"derived", "static"} \cup Saving
Copying == {"static"} \cup Saving

(* No static file is a page's. *)
Plain == \A k \in Titles \cap Static : static[k] = Absent

(* Where the saved state can be believed, or is about to be replaced by one  *)
(* that can.                                                                 *)
Covered == Plain /\ (~uncovered \/ (pc # "idle" /\ b.force /\ still))

(* The keys whose bytes on disk or in the manifest may not be those of the   *)
(* state.                                                                    *)
Dirt ==
    IF pc = "idle" THEN dirty
    ELSE IF pc = "end" THEN dirty \ b.changed
    ELSE dirty \cup b.changed

(* What the manifest records, or is about to record again. *)
Memo == IF pc = "save manifest" THEN b.previous ELSE LoadManifest(manifest)

(* The --drafts value that the saved state was built with. *)
Drafts == IF pc = "end" THEN b.drafts ELSE flag

-----------------------------------------------------------------------------
(* Time, and what a build has loaded and read *)

(* Nothing is stamped in the future, and no stamp is later than that of the  *)
(* file it was taken from.                                                   *)
TimeInv ==
    /\ \A f \in Source : mtime[f] <= clock
    /\ \A k \in Static : stime[k] <= clock
    /\ state.started \in Nat /\ state.started <= clock
    /\ \A f \in Known(state.sources) : state.sources[f].modified <= mtime[f]
    /\ DOMAIN state.copies = Static
    /\ \A k \in Static : state.copies[k] # Absent =>
          state.copies[k].modified \in Nat /\ state.copies[k].modified <= stime[k]
    /\ Started =>
          /\ b.started <= clock
          /\ \A f \in Present(b.pages) : b.stamps[f] <= mtime[f]
          /\ pc = "read" => b.stamps[Min(b.todo)] <= mtime[Min(b.todo)]
          /\ DOMAIN b.copies = Static
          /\ \A k \in Static : b.copies[k] # Absent =>
                b.copies[k].modified \in Nat /\ b.copies[k].modified <= stime[k]

(* The build works from what was saved until it replaces it. *)
LoadInv ==
    /\ static \in [Static -> {1, 2, Absent}]
    /\ Started =>
        /\ pc \notin {"save manifest", "state", "save state", "end"} =>
              b.previous = LoadManifest(manifest)
        /\ pc \notin {"save state", "end"} => b.prior = state /\ state.started <= b.started
        /\ b.reusable => ~b.force /\ b.prior.fingerprint = b.fingerprint
        /\ pc = "save manifest" => manifest = Torn
        /\ pc \in {"state", "save state", "end"} => manifest = b.current
        /\ pc = "save state" => state = NoState
        /\ pc = "end" =>
              state = [fingerprint |-> b.fingerprint, started |-> b.started,
                       sources |-> b.sources, copies |-> b.copies, derived |-> b.derived]

(* What is covered is what the build has read. *)
ReadInv ==
    /\ ~uncovered => Plain
    /\ pc # "idle" => b.layout \in Layout /\ b.nav \in Nav
    /\ pc = "fingerprint" => b.changed = {}
    /\ pc # "idle" /\ ~uncovered => b.drafts = flag
    /\ pc # "idle" /\ Covered =>
          /\ b.nav = nav
          /\ pc = "fingerprint" => b.layout = layout
          /\ Started => b.fingerprint = b.layout
    /\ pc # "idle" /\ still =>
          /\ b.layout = layout
          /\ pc = "fingerprint" => b.todo = {f \in Source : post[f] # Absent}

-----------------------------------------------------------------------------
(* The saved state *)

(* The bytes of the page that an entry was recorded for. *)
EntryBytes(e, lay, tree) == PageBytes(e, e.around, e.related, lay, tree)

(* What the state knows of file f is what the file says, unless its stamp,   *)
(* or else the hash for a stamp that cannot be believed, tells.              *)
SourceTrue(e, f, started, drafts) ==
    \/ e.modified < mtime[f]
    \/ /\ e.output = e.post.title
       /\ e.post.draft => drafts
       /\ e.modified >= started => e.hash \in {e.post, Absent}
       /\ e.modified < started => post[f] \in {e.post, Absent}

(* The same for the copy of a static file, of which v was written. *)
CopyTrue(c, k, v, started) ==
    \/ c.modified < stime[k]
    \/ v = StaticBytes(IF c.modified >= started THEN c.hash ELSE static[k])

(* The pages, copies and listings of the state are in the manifest or        *)
(* nowhere, and what is on disk is what the manifest records.                *)
StateTrue ==
    /\ \A k \in Key \ Dirt : out[k] \in {Absent, Memo[k]} \/ Memo[k] = Absent
    /\ \A f \in Known(state.sources) :
          /\ SourceTrue(state.sources[f], f, state.started, Drafts)
          /\ \/ state.sources[f].output \in Dirt
             \/ Memo[state.sources[f].output] \in
                    {Absent, EntryBytes(state.sources[f], state.fingerprint, nav)}
    /\ \A k \in Static \ Dirt :
          state.copies[k] # Absent =>
              Memo[k] = Absent \/ CopyTrue(state.copies[k], k, Memo[k], state.started)
    /\ state.fingerprint # Absent =>
          /\ "index" \in state.derived <=> Known(state.sources) # {}
          /\ "404" \in state.derived <=> "404" \notin Shipping
          /\ "index" \in state.derived \ Dirt =>
                Memo["index"] \in {Absent, IndexBytes(state.sources, state.fingerprint, nav)}
          /\ "404" \in state.derived \ Dirt =>
                Memo["404"] \in {Absent, MissingBytes(state.fingerprint, nav)}

StateInv == (IF pc = "end" THEN Covered ELSE ~uncovered) => StateTrue

-----------------------------------------------------------------------------
(* The build *)

(* A page says what its file says, unless the file was saved since it was    *)
(* stamped.                                                                  *)
PageTrue(f) ==
    \/ b.stamps[f] < mtime[f]
    \/ /\ b.pages[f].output = b.pages[f].post.title
       /\ b.pages[f].post.draft => b.drafts
       /\ post[f] \in {b.pages[f].post, Absent}

(* What is not walked yet has no page.  Entries are of pages.  A page left   *)
(* alone has the entry it had, of which it is the page, and every page has   *)
(* an entry once they are recorded.                                          *)
EntryInv ==
    Started =>
        /\ pc \in Scanning => \A f \in b.todo : b.pages[f] = Absent
        /\ pc = "related" => b.todo = {}
        /\ \A f \in Known(b.sources) :
              f \in Present(b.pages) /\ b.sources[f].modified = b.stamps[f]
        /\ \A f \in Present(b.pages) : ~b.pages[f].parsed =>
              /\ b.reusable /\ b.sources[f] # Absent
              /\ pc \notin {"save state", "end"} => b.sources[f] = state.sources[f]
              /\ b.sources[f].post = b.pages[f].post
              /\ b.sources[f].output = b.pages[f].output
              /\ pc \in {"related"} \cup Writing => b.sources[f].around = b.around[f]
              /\ pc \in Writing => b.sources[f].related = b.related[f]
        /\ pc \in Listed =>
              \A f \in Present(b.pages) :
                  /\ b.sources[f] # Absent
                  /\ b.sources[f].post = b.pages[f].post
                  /\ b.sources[f].output = b.pages[f].output
                  /\ b.sources[f].around = b.around[f]
                  /\ b.sources[f].related = b.related[f]

(* What the pages and the entries say is true. *)
TruthInv ==
    Started /\ Covered =>
        /\ \A f \in Present(b.pages) : PageTrue(f)
        /\ \A f \in Known(b.sources) : SourceTrue(b.sources[f], f, b.started, b.drafts)

(* The keys produced so far are those of pages, of listings and of copies,   *)
(* and what was not written is what the last build wrote.                    *)
WriteInv ==
    Started =>
        /\ b.changed \subseteq b.expected
        /\ \A k \in Key : k \in b.expected <=> b.current[k] # Absent
        /\ \A k \in b.expected \ b.changed : b.current[k] = b.previous[k]
        /\ b.force => b.expected \subseteq b.changed
        /\ pc \in Rendering => \A k \in b.expected : out[k] # Absent
        /\ pc \notin Writing => b.expected = {} /\ b.collisions = {}
        /\ pc \notin Copying =>
              /\ b.derived = {}
              /\ \A k \in Static : b.copies[k] = Absent
        /\ pc \in Writing =>
              /\ b.todo \subseteq Present(b.pages) /\ (pc # "render" => b.todo = {})
              /\ \A f \in Present(b.pages) \ b.todo : b.pages[f].output \in b.expected
              /\ \A k \in b.expected :
                    \/ \E f \in Present(b.pages) \ b.todo : k = b.pages[f].output
                    \/ pc \in Copying /\ k \in b.derived \cup (Static \ b.shipped)
        /\ pc \in Copying =>
              /\ b.derived \subseteq b.expected
              /\ \A k \in Static : b.copies[k] # Absent => k \in b.expected \ b.shipped
        /\ pc \in Saving =>
              /\ b.collisions = {} /\ b.shipped = {}
              /\ \A k \in Key \ b.expected : out[k] = Absent

(* What is on disk is what the build takes it for, and so is what the        *)
(* manifest will say of each page: the bytes that this build would render.   *)
BytesInv ==
    Started /\ Covered =>
        /\ \A k \in b.expected \ b.collisions : out[k] = b.current[k] \/ k \in dirty \ b.changed
        /\ pc \in Writing =>
              \A f \in Present(b.pages) \ b.todo :
                  \/ b.pages[f].output \in b.collisions
                  \/ b.current[b.pages[f].output] = Rendered(f)
                  \/ b.pages[f].output \in dirty \ b.changed

(* The listings are those of the pages, and the copies those of the files. *)
DerivedInv ==
    Started /\ Covered =>
        /\ b.shipped \cap (Titles \cup {"404"}) \subseteq Shipping
        /\ pc \notin Copying => ("404" \in Shipping => "404" \in b.shipped)
        /\ pc \in Copying =>
              /\ "index" \in b.derived <=> Present(b.pages) # {}
              /\ "404" \in b.derived <=> "404" \notin Shipping
              /\ "index" \in b.derived =>
                    \/ b.current["index"] = IndexBytes(b.pages, b.layout, b.nav)
                    \/ "index" \in dirty \ b.changed
              /\ "404" \in b.derived =>
                    \/ b.current["404"] = MissingBytes(b.layout, b.nav)
                    \/ "404" \in dirty \ b.changed
              /\ \A k \in Static : b.copies[k] # Absent =>
                    \/ k \in dirty \ b.changed
                    \/ CopyTrue(b.copies[k], k, b.current[k], b.started)

(* A build that nobody disturbs finds what a fresh build finds. *)
AgreeInv ==
    Started /\ Covered /\ still =>
        /\ \A f \in Present(b.pages) : b.stamps[f] = mtime[f] /\ post[f] # Absent
        /\ pc = "read" => b.stamps[Min(b.todo)] = mtime[Min(b.todo)]
        /\ \A f \in b.todo : post[f] # Absent
        /\ \A f \in Source :
              f \notin Present(b.pages) \cup b.todo => FreshPages(b.drafts)[f] = Absent
        /\ pc \in {"related"} \cup Writing =>
              \A f \in Present(b.pages) : b.around[f] = Around(b.pages, f)
        /\ pc \in Writing => \A f \in Present(b.pages) : b.related[f] = Related(b.pages, f)
        /\ pc \notin Copying => b.shipped = Shipping
        /\ pc \in Copying =>
              /\ b.shipped \subseteq Shipping
              /\ \A k \in Shipping \ b.shipped :
                    /\ k \in b.expected
                    /\ b.current[k] = StaticBytes(static[k]) \/ k \in dirty \ b.changed
              /\ \A k \in b.expected :
                    \/ \E f \in Present(b.pages) : k = b.pages[f].output
                    \/ k \in b.derived \cup Shipping

(* What a build takes from the builds before it is true of what it builds    *)
(* from: see the parts.                                                      *)
PastInv ==
    /\ TimeInv /\ LoadInv /\ ReadInv /\ StateInv
    /\ EntryInv /\ TruthInv /\ WriteInv /\ BytesInv /\ DerivedInv /\ AgreeInv

(* With the types and what is known of forced builds, the inductive          *)
(* invariant behind MatchesButAbandoned: whatever was edited, failed or was  *)
(* killed since, what the saved state says of a file, a page, a copy or a    *)
(* listing is still so, or the stamps, the hashes or the manifest tell the   *)
(* next build that it is not (Unchanged, Moved, Retold, DerivedReusable and  *)
(* CopyUnchanged; build_state.cpp, writer.cpp).                              *)
HistoryInv == BuildInv /\ PastInv

-----------------------------------------------------------------------------
(* Building again: the invariants behind NothingChangedNothingWritten and    *)
(* RefusesOnlyWhatFreshRefuses, which hold also of what is not covered       *)

(* What SourceTrue and PageTrue say of the text of a post. *)
SourceRead(e, f, started) ==
    \/ e.modified < mtime[f]
    \/ /\ e.modified >= started => e.hash \in {e.post, Absent}
       /\ e.modified < started => post[f] \in {e.post, Absent}

PageRead(f) == b.stamps[f] < mtime[f] \/ post[f] \in {b.pages[f].post, Absent}

TextInv ==
    /\ \A f \in Known(state.sources) : SourceRead(state.sources[f], f, state.started)
    /\ Started =>
          /\ \A f \in Present(b.pages) : PageRead(f)
          /\ \A f \in Known(b.sources) : SourceRead(b.sources[f], f, b.started)

(* A record whose stamp can be believed, or whose hash is that of v. *)
Trusted(e, started, v) == e.modified < started \/ e.hash = v

(* What a build that nobody disturbs has found is what there is. *)
FoundInv ==
    Started /\ still =>
        /\ b.fingerprint = layout
        /\ \A f \in Present(b.pages) : b.stamps[f] = mtime[f] /\ post[f] # Absent
        /\ pc = "read" => b.stamps[Min(b.todo)] = mtime[Min(b.todo)]
        /\ \A f \in b.todo : post[f] # Absent
        /\ \A f \in Source \ (Present(b.pages) \cup b.todo) :
              post[f] # Absent => post[f].draft /\ ~b.drafts
        /\ \A f \in Known(b.sources) : Trusted(b.sources[f], b.started, post[f])
        /\ pc \in {"related"} \cup Writing =>
              \A f \in Present(b.pages) : b.around[f] = Around(b.pages, f)
        /\ pc \in Writing => \A f \in Present(b.pages) : b.related[f] = Related(b.pages, f)
        /\ b.shipped \subseteq Shipping /\ (pc \notin Copying => b.shipped = Shipping)
        /\ \A k \in Shipping \ b.shipped :
              /\ k \in b.expected /\ b.copies[k] # Absent
              /\ b.copies[k].modified = stime[k] /\ Trusted(b.copies[k], b.started, static[k])

(* What was produced is there when it is saved. *)
ThereInv == pc \in Saving => \A k \in b.expected : out[k] # Absent

(* What is saved is what there is: a build with this --drafts would leave    *)
(* everything alone.                                                         *)
AsSaved(drafts) ==
    LET previous == LoadManifest(manifest) IN
    /\ state.fingerprint = layout
    /\ \A f \in Source \ Known(state.sources) : post[f] # Absent => post[f].draft /\ ~drafts
    /\ \A f \in Known(state.sources) :
          /\ post[f] # Absent
          /\ state.sources[f].modified = mtime[f]
          /\ Trusted(state.sources[f], state.started, post[f])
          /\ state.sources[f].around = Around(state.sources, f)
          /\ state.sources[f].related = Related(state.sources, f)
          /\ Reusable(previous, out, state.sources[f].output)
    /\ \A k \in state.derived : Reusable(previous, out, k)
    /\ \A k \in Shipping :
          /\ state.copies[k] # Absent
          /\ state.copies[k].modified = stime[k]
          /\ Trusted(state.copies[k], state.started, static[k])
          /\ Reusable(previous, out, k)

SavedInv ==
    /\ pc = "idle" /\ same /\ last = "ok" => AsSaved(flag)
    /\ pc = "end" /\ still => AsSaved(b.drafts)

(* A build that repeats the last one leaves alone whatever it meets. *)
AgainInv ==
    pc # "idle" /\ b.repeat /\ ~b.force /\ still =>
        /\ pc \notin Saving => AsSaved(b.drafts)
        /\ Started => b.reusable /\ NothingParsed /\ b.changed = {}
        /\ pc \in Scanning => Present(b.pages) = Known(state.sources) \ b.todo
        /\ pc \in {"related"} \cup Rendering => Present(b.pages) = Known(state.sources)
        /\ pc \in Rendering => b.todo = {}

(* Two results meet on a key only if two posts have it. *)
ClashInv ==
    Started /\ Covered /\ still =>
        \A k \in b.collisions : \E f, g \in Present(b.pages) :
            f # g /\ b.pages[f].output = k /\ b.pages[g].output = k

(* A manifest that was written through can be read. *)
ManifestInv ==
    /\ manifest \in Manifests \cup {Torn}
    /\ Started => b.previous \in Manifests /\ b.current \in Manifests

(* Unless a build is killed while it saves, the listings of the state are there. *)
ListingsInv ==
    "kill" \notin Faults /\ pc \notin Saving \ {"end"} =>
        \A k \in state.derived : Reusable(LoadManifest(manifest), out, k)

(* With HistoryInv, the inductive invariant behind the two properties: a     *)
(* build that nobody disturbed leaves a state that agrees with the site in   *)
(* each thing that Unchanged, Moved, Retold, DerivedReusable and             *)
(* CopyUnchanged ask.                                                        *)
RepeatInv ==
    TextInv /\ FoundInv /\ ThereInv /\ SavedInv /\ AgainInv /\ ClashInv /\ ListingsInv

=============================================================================
