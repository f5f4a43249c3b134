------------------------------- MODULE Build --------------------------------
(***************************************************************************)
(* The incremental build (blogin::build in site.cpp, with build_state.cpp  *)
(* and writer.cpp): a series of builds of one site, between and during     *)
(* which its owner edits it, and any of which may fail or be killed.       *)
(*                                                                         *)
(* A build decides from what the last one saved which pages to leave       *)
(* alone: by the fingerprint of everything outside the content tree, by    *)
(* each source's stamp (or its hash, for a stamp not older than the last   *)
(* build), by the posts either side of it, and by the posts it calls       *)
(* related.  The reference is the build with no history, FreshOut.         *)
(*                                                                         *)
(* Data: a post is a title (whose slug names the page), a text, a tag and  *)
(* a draft flag, and the layouts print related posts; nav stands for the   *)
(* section tree and the translations of the switcher; a file number is its *)
(* place in the walk and in its section; equal sizes, so a stamp is a      *)
(* time.  "index" stands for what is rendered from all pages together      *)
(* (listings, feeds, sitemap, search index) and "404" for a generated file *)
(* that a static file may replace.                                         *)
(***************************************************************************)
EXTENDS WriterRules, Integers, FiniteSets, FiniteSetsExt

CONSTANTS
    Source,     \* content files, an interval of numbers
    Post,       \* what a content file may say: records [title, text, draft, tag]
    Layout,     \* states of the layouts, data and shortcodes
    Nav,        \* section trees and translations the navigation can be built from
    Static,     \* the keys static/ may ship
    Flags,      \* --drafts values builds are run with
    Forces,     \* --force values builds are run with
    Kinds,      \* what may be edited: "post", "delete", "layout", "nav", "static"
    Mid,        \* what may be edited while a build runs
    Faults,     \* "fail" (a page does not render), "kill", "coarse" (the stamps of edits
                \* between builds and of builds may be equal)
    MaxEdit,    \* bound: edits
    MaxBuild    \* bound: builds

Titles == {p.title : p \in Post}

ASSUME BuildAssumption ==
    /\ Source \subseteq Nat
    /\ \A files \in (SUBSET Source) \ {{}} :  \* there are finitely many
          \E first, final \in files : \A f \in files : first <= f /\ f <= final
    /\ Post \subseteq [title : Titles, text : Nat, draft : BOOLEAN, tag : Nat]
    /\ Key = Titles \cup {"index", "404"} \cup Static
    /\ Titles \cap {"", "index", "404"} = {} /\ "index" \notin Static
    /\ Flags \subseteq BOOLEAN /\ Forces \subseteq BOOLEAN
    /\ Mid \subseteq Kinds
    /\ MaxEdit \in Nat /\ MaxBuild \in Nat

VARIABLES
    post,       \* content/: what each file says, or Absent
    layout, nav,
    static,     \* static/: what each file says, or Absent
    mtime,      \* the stamps of the content files
    stime,      \* the stamps of the static files
    clock,
    out,        \* the output directory
    manifest,   \* .blogin-manifest.json
    state,      \* .blogin-state.json
    pc,         \* where the build stands
    b,          \* the build's locals
    last,       \* how the last build ended: "none", "ok", "error", "failed", "killed"
    edits, builds,
    still,      \* ghost: no edit since the build began
    same,       \* ghost: no edit since the last build that ended "ok" began
    dirty,      \* ghost: keys written by a build that did not save its state
    flag,       \* ghost: the --drafts value of the last build that ended "ok"
    uncovered   \* ghost: an input the fingerprint leaves out (navigation, --drafts, static
                \* files in place of pages or generated files, a layout saved
                \* between its two reads) changed since the
                \* first build or the last forced one, or a static file is a page's

inputs == <<post, layout, nav, static, mtime, stime, clock, edits>>
stored == <<out, manifest, state>>
ghosts == <<same, dirty, flag>>
vars == <<inputs, stored, pc, b, last, builds, still, ghosts, uncovered>>

-----------------------------------------------------------------------------
(* What a build renders *)

Nobody == <<"", "">>

(* A post's url and title, as its neighbours and the listings show them. *)
Link(page) == <<page.output, page.post.title>>

Present(pages) == {f \in Source : pages[f] # Absent}

(* The links to the posts either side of f, in section order. *)
Around(pages, f) ==
    LET before == {g \in Present(pages) : g < f}
        after  == {g \in Present(pages) : g > f}
    IN  [prev |-> IF before = {} THEN Nobody ELSE Link(pages[Max(before)]),
         next |-> IF after = {} THEN Nobody ELSE Link(pages[Min(after)])]

(* The posts that share a term with f, as its page shows them: the link and *)
(* the summary of each.                                                     *)
Related(pages, f) ==
    {<<Link(pages[g]), pages[g].post.text>> :
        g \in {h \in Present(pages) \ {f} : pages[h].post.tag = pages[f].post.tag}}

PageBytes(page, around, related, lay, tree) ==
    <<"page", page.post.title, page.post.text, page.post.tag, lay, tree, around, related>>

IndexBytes(pages, lay, tree) ==
    <<"index", lay, tree, {<<Link(pages[f]), pages[f].post.text>> : f \in Present(pages)}>>

MissingBytes(lay, tree) == <<"404", lay, tree>>

StaticBytes(v) == <<"static", v>>

(* The links, the neighbours, the related posts and the pages there can be. *)
Shown == Titles \X Titles
Arounds == [prev : Shown \cup {Nobody}, next : Shown \cup {Nobody}]
Relatives == SUBSET (Shown \X Nat)
PageRecord == [parsed : BOOLEAN, post : Post, output : Titles]
PageContents ==
    {"page"} \X Titles \X Nat \X Nat \X Layout \X Nav \X Arounds \X Relatives
OtherContents ==
    ({"index"} \X Layout \X Nav \X Relatives) \cup ({"404"} \X Layout \X Nav)
        \cup ({"static"} \X {1, 2, Absent})

(* What the state knows of a source. *)
SourceEntry ==
    [modified : Nat, hash : Post \cup {Absent}, post : Post, output : Titles,
     around : Arounds, related : Relatives]

(* And of a static file. *)
CopyEntry == [modified : Nat, hash : {1, 2, Absent}]

(* Nothing is not a post, a page, an entry, the bytes of a file or a fingerprint. *)
ASSUME AbsentAssumption ==
    Absent \notin Post \cup [post : Post, output : Titles] \cup PageRecord
                  \cup SourceEntry \cup CopyEntry
                  \cup PageContents \cup OtherContents \cup Layout

(* What a manifest may record: of each key the bytes of a file, or nothing.  *)
(* A torn manifest is none.                                                  *)
Manifests == [Key -> PageContents \cup OtherContents \cup {Absent}]

ASSUME TornAssumption == Torn \notin Manifests

-----------------------------------------------------------------------------
(* The build with no history, as a function of the inputs *)

FreshPages(drafts) ==
    [f \in Source |->
        IF post[f] = Absent \/ (post[f].draft /\ ~drafts) THEN Absent
        ELSE [post |-> post[f], output |-> post[f].title]]

(* Two posts on one page, or a static file on a page: both are errors. *)
FreshFails(drafts) ==
    LET pages == FreshPages(drafts) IN
    \/ \E f, g \in Present(pages) : f # g /\ pages[f].output = pages[g].output
    \/ \E f \in Present(pages) : pages[f].output \in Static /\ static[pages[f].output] # Absent

FreshOut(drafts) ==
    LET pages == FreshPages(drafts) IN
    [k \in Key |->
        IF k \in Static /\ static[k] # Absent THEN StaticBytes(static[k])
        ELSE IF k = "404" THEN MissingBytes(layout, nav)
        ELSE IF k = "index"
             THEN IF Present(pages) = {} THEN Absent ELSE IndexBytes(pages, layout, nav)
        ELSE IF \E f \in Present(pages) : pages[f].output = k
             THEN LET f == CHOOSE f \in Present(pages) : pages[f].output = k
                  IN  PageBytes(pages[f], Around(pages, f), Related(pages, f), layout, nav)
        ELSE Absent]

-----------------------------------------------------------------------------
(* What is carried between builds *)

NoState == [fingerprint |-> Absent, started |-> 0,
            sources |-> [f \in Source |-> Absent],
            copies |-> [k \in Static |-> Absent],
            derived |-> {}]

(* BuildState::settled *)
Settled(st, entry) == entry.modified < st.started

(* The locals when no build is running. *)
NoBuild == [drafts |-> FALSE]

Init ==
    /\ post \in [Source -> {Absent} \cup {p \in Post : ~p.draft}]
    /\ layout \in Layout /\ nav \in Nav
    /\ static = [k \in Static |-> Absent]
    /\ mtime = [f \in Source |-> 0] /\ stime = [k \in Static |-> 0]
    /\ clock = 0
    /\ out = NoEntries /\ manifest = NoEntries /\ state = NoState
    /\ pc = "idle" /\ b = NoBuild
    /\ last = "none"
    /\ edits = 0 /\ builds = 0
    /\ still = TRUE /\ same = FALSE
    /\ dirty = {} /\ flag = FALSE /\ uncovered = FALSE

-----------------------------------------------------------------------------
(* The site's owner *)

MayEdit(kind) ==
    /\ kind \in Kinds
    /\ pc = "idle" \/ kind \in Mid
    /\ edits < MaxEdit
    /\ edits' = edits + 1
    /\ still' = FALSE /\ same' = FALSE

(* Stamps are equal only when the clock is coarse.  An edit during a build   *)
(* always gets a later one: the hash that would tell two edits of one tick   *)
(* apart is taken after the page was rendered, so the code cannot.           *)
Ticks ==
    IF "coarse" \in Faults /\ pc \in {"idle", "fingerprint"}
    THEN {clock, clock + 1} ELSE {clock + 1}

EditPost(f, p) ==
    /\ MayEdit("post") /\ post[f] # p
    /\ post' = [post EXCEPT ![f] = p]
    /\ clock' \in Ticks
    /\ mtime' = [mtime EXCEPT ![f] = clock']
    /\ UNCHANGED <<stime, layout, nav, static, stored, pc, b, last, builds, dirty, flag, uncovered>>

DeletePost(f) ==
    /\ MayEdit("delete") /\ post[f] # Absent
    /\ post' = [post EXCEPT ![f] = Absent]
    /\ UNCHANGED <<layout, nav, static, mtime, stime, clock, stored, pc, b, last, builds,
                   dirty, flag, uncovered>>

(* Saved between the reading of the layouts and their fingerprint, a layout *)
(* is recorded as built and was not.                                        *)
EditLayout(l) ==
    /\ MayEdit("layout") /\ layout # l
    /\ layout' = l
    /\ uncovered' = (uncovered \/ pc = "fingerprint")
    /\ UNCHANGED <<post, nav, static, mtime, stime, clock, stored, pc, b, last, builds,
                   dirty, flag>>

EditNav(n) ==
    /\ MayEdit("nav") /\ nav # n
    /\ nav' = n
    /\ uncovered' = TRUE
    /\ UNCHANGED <<post, layout, static, mtime, stime, clock, stored, pc, b, last, builds,
                   dirty, flag>>

EditStatic(k, v) ==
    /\ MayEdit("static") /\ static[k] # v
    /\ static' = [static EXCEPT ![k] = v]
    /\ clock' \in Ticks
    /\ stime' = [stime EXCEPT ![k] = clock']
    /\ uncovered' = (uncovered \/ k \in Titles \cup {"404"})
    /\ UNCHANGED <<mtime, post, layout, nav, stored, pc, b, last, builds, dirty, flag>>

Owner ==
    \/ \E f \in Source, p \in Post : EditPost(f, p)
    \/ \E f \in Source : DeletePost(f)
    \/ \E l \in Layout : EditLayout(l)
    \/ \E n \in Nav : EditNav(n)
    \/ \E k \in Static, v \in {1, 2, Absent} : EditStatic(k, v)

-----------------------------------------------------------------------------
(* The build, step by step *)

(* Ends a build that saves nothing. *)
Abandon(why) ==
    /\ pc' = "idle" /\ b' = NoBuild /\ last' = why
    /\ dirty' = dirty \cup b.changed
    /\ UNCHANGED <<manifest, state, builds, inputs, still, same, flag, uncovered>>

(* Templates, data and the section tree are read, and the content tree is    *)
(* walked.  [The directory of content exists.]                               *)
Begin(drafts, force) ==
    /\ pc = "idle" /\ builds < MaxBuild
    /\ builds' = builds + 1
    /\ pc' = "fingerprint"
    /\ b' = [drafts |-> drafts, force |-> force, repeat |-> same /\ last = "ok" /\ drafts = flag,
             layout |-> layout, nav |-> nav, todo |-> {f \in Source : post[f] # Absent},
             changed |-> {}]
    /\ still' = TRUE
    /\ uncovered' = (uncovered \/ drafts # flag)
    /\ UNCHANGED <<inputs, stored, last, ghosts>>

(* The manifest and the state are loaded, the clock is read, the layouts are *)
(* read again to be fingerprinted, and the static tree is listed.            *)
Fingerprint ==
    /\ pc = "fingerprint"
    /\ clock' \in Ticks
    /\ b' = [drafts |-> b.drafts, force |-> b.force, repeat |-> b.repeat,
             layout |-> b.layout, nav |-> b.nav, todo |-> b.todo,
             prior |-> state,
             previous |-> LoadManifest(manifest), current |-> NoEntries,
             expected |-> {}, changed |-> {}, collisions |-> {},
             started |-> clock', fingerprint |-> layout,
             shipped |-> {k \in Static : static[k] # Absent},
             reusable |-> ~b.force /\ state.fingerprint = layout,
             stamps |-> [f \in Source |-> -1],
             pages |-> [f \in Source |-> Absent],
             around |-> [f \in Source |-> Absent],
             related |-> [f \in Source |-> Absent],
             sources |-> [f \in Source |-> Absent],
             derived |-> {}, copies |-> [k \in Static |-> Absent]]
    /\ pc' = "scan"
    /\ UNCHANGED <<post, layout, nav, static, mtime, stime, edits, stored, last, builds, still,
                   ghosts, uncovered>>

(* A source is stamped before it is read. *)
ScanStamp ==
    /\ pc = "scan" /\ b.todo # {}
    /\ LET f == Min(b.todo) IN
          b' = [b EXCEPT !.stamps[f] = IF post[f] = Absent THEN 0 ELSE mtime[f]]
    /\ pc' = "read"
    /\ UNCHANGED <<inputs, stored, last, builds, still, ghosts, uncovered>>

(* Whether the last build's page for f can be left alone, as far as its own  *)
(* file goes.                                                                *)
Unchanged(f) ==
    LET known == b.prior.sources[f] IN
    /\ b.reusable
    /\ known # Absent
    /\ known.modified = b.stamps[f]
    /\ Settled(b.prior, known) \/ (post[f] # Absent /\ known.hash = post[f])
    /\ Reusable(b.previous, out, known.output)

Advance(f) == [b EXCEPT !.todo = @ \ {f}]

ScanKeep ==
    /\ pc = "read"
    /\ LET f == Min(b.todo)
           known == b.prior.sources[f] IN
       /\ Unchanged(f)
       /\ b' = [Advance(f) EXCEPT
                  !.pages[f] = [parsed |-> FALSE, post |-> known.post, output |-> known.output],
                  !.sources[f] = known]
    /\ pc' = "scan"
    /\ UNCHANGED <<inputs, stored, last, builds, still, ghosts, uncovered>>

(* A draft is held back unless the build asks for drafts. *)
Held(f) == post[f].draft /\ ~b.drafts

ScanHold ==
    /\ pc = "read"
    /\ LET f == Min(b.todo) IN
       /\ ~Unchanged(f) /\ post[f] # Absent /\ Held(f)
       /\ b' = Advance(f)
    /\ pc' = "scan"
    /\ UNCHANGED <<inputs, stored, last, builds, still, ghosts, uncovered>>

(* Mutant: outputs of the last build count as taken. *)
TakenBefore(output) == \E g \in Source : b.prior.sources[g] # Absent /\ b.prior.sources[g].output = output

(* seen: an earlier source of this walk already has the output. *)
Taken(output) == \E g \in Present(b.pages) : b.pages[g].output = output

ScanLoad ==
    /\ pc = "read"
    /\ LET f == Min(b.todo) IN
       /\ ~Unchanged(f) /\ post[f] # Absent /\ ~Held(f)
       /\ ~Taken(post[f].title)
       /\ b' = [Advance(f) EXCEPT
                  !.pages[f] = [parsed |-> TRUE, post |-> post[f], output |-> post[f].title]]
    /\ pc' = "scan"
    /\ UNCHANGED <<inputs, stored, last, builds, still, ghosts, uncovered>>

(* The file is gone, or two posts write the same page. *)
ScanError ==
    /\ pc = "read"
    /\ LET f == Min(b.todo) IN
       /\ ~Unchanged(f)
       /\ post[f] # Absent => ~Held(f) /\ Taken(post[f].title)
    /\ Abandon("error")
    /\ UNCHANGED out

(* Mutant: a page whose own file did not change is kept whatever its neighbours. *)
MovedIgnored(f) ==
    /\ ~b.pages[f].parsed
    /\ ~Reusable(b.previous, out, b.pages[f].output)

(* The posts either side of each page are worked out.  A page left alone so  *)
(* far is read again if they are not those it was rendered with.             *)
Moved(f) ==
    /\ ~b.pages[f].parsed
    /\ ~( /\ b.prior.sources[f].around = Around(b.pages, f)
          /\ Reusable(b.previous, out, b.pages[f].output) )

ReadAgain(files) ==
    [f \in Source |->
        IF f \in files THEN [parsed |-> TRUE, post |-> post[f], output |-> b.pages[f].output]
        ELSE b.pages[f]]

Neighbours ==
    /\ pc = "scan" /\ b.todo = {}
    /\ LET moved == {f \in Present(b.pages) : Moved(f)} IN
       /\ \A f \in moved : post[f] # Absent
       /\ b' = [b EXCEPT
                  !.around = [f \in Source |->
                      IF f \in Present(b.pages) THEN Around(b.pages, f) ELSE Absent],
                  !.pages = ReadAgain(moved)]
    /\ pc' = "related"
    /\ UNCHANGED <<inputs, stored, last, builds, still, ghosts, uncovered>>

NeighboursError ==
    /\ pc = "scan" /\ b.todo = {}
    /\ \E f \in Present(b.pages) : Moved(f) /\ post[f] = Absent
    /\ Abandon("error")
    /\ UNCHANGED out

(* Every page's summary is known, so the related posts are chosen.  A page   *)
(* still left alone is read again if they are not those it was rendered      *)
(* with, and otherwise kept.                                                 *)
Retold(f) ==
    /\ ~b.pages[f].parsed
    /\ ~( /\ b.prior.sources[f].related = Related(b.pages, f)
          /\ Reusable(b.previous, out, b.pages[f].output) )

AssignRelated ==
    /\ pc = "related"
    /\ LET retold == {f \in Present(b.pages) : Retold(f)}
           kept   == {f \in Present(b.pages) \ retold : ~b.pages[f].parsed}
           keys   == {b.pages[f].output : f \in kept} IN
       /\ \A f \in retold : post[f] # Absent
       /\ b' = [b EXCEPT
                  !.related = [f \in Source |->
                      IF f \in Present(b.pages) THEN Related(b.pages, f) ELSE Absent],
                  !.pages = ReadAgain(retold),
                  !.expected = @ \cup keys,
                  !.current = [k \in Key |-> IF k \in keys THEN b.previous[k] ELSE @[k]],
                  !.todo = Present(b.pages) \ kept]
    /\ pc' = "render"
    /\ UNCHANGED <<inputs, stored, last, builds, still, ghosts, uncovered>>

RelatedError ==
    /\ pc = "related"
    /\ \E f \in Present(b.pages) : Retold(f) /\ post[f] = Absent
    /\ Abandon("error")
    /\ UNCHANGED out

(* Writer::write, one call at a time. *)
Wrote(bb, k, v) ==
    [bb EXCEPT !.expected = @ \cup {k},
               !.collisions = IF Collides(bb.current, k, v) THEN @ \cup {k} ELSE @,
               !.current[k] = v,
               !.changed = IF Skips(bb.force, bb.previous, out, k, v) THEN @ ELSE @ \cup {k}]

Kept(bb, k) == [bb EXCEPT !.expected = @ \cup {k}, !.current[k] = bb.previous[k]]

OnDisk(k, v) == IF Skips(b.force, b.previous, out, k, v) THEN out[k] ELSE v

(* The pool renders the pages in any order. *)
Render(f) ==
    /\ pc = "render" /\ f \in b.todo
    /\ LET page == b.pages[f]
           v == PageBytes(page, b.around[f], b.related[f], b.layout, b.nav) IN
       /\ out' = [out EXCEPT ![page.output] = OnDisk(page.output, v)]
       /\ b' = [Wrote(b, page.output, v) EXCEPT !.todo = @ \ {f}]
    /\ UNCHANGED <<inputs, manifest, state, pc, last, builds, still, ghosts, uncovered>>

RenderFails ==
    /\ pc = "render" /\ b.todo # {} /\ "fail" \in Faults
    /\ Abandon("failed")
    /\ UNCHANGED out

(* Mutant: the time of the build is recorded in place of the file's. *)
EntryOfBuildTime(f) ==
    [modified |-> b.started,
     hash     |-> Absent,
     post     |-> b.pages[f].post,
     output   |-> b.pages[f].output,
     around   |-> b.around[f],
     related  |-> b.related[f]]

(* What the next build will know of each page read: its stamp from before it *)
(* was read, and its bytes if that stamp cannot be believed.                 *)
Entry(f) ==
    [modified |-> b.stamps[f],
     hash     |-> IF b.stamps[f] >= b.started THEN post[f] ELSE Absent,
     post     |-> b.pages[f].post,
     output   |-> b.pages[f].output,
     around   |-> b.around[f],
     related  |-> b.related[f]]

Record ==
    /\ pc = "render" /\ b.todo = {}
    /\ b' = [b EXCEPT !.sources = [f \in Source |->
                  IF f \in Present(b.pages) /\ b.pages[f].parsed THEN Entry(f) ELSE @[f]]]
    /\ pc' = "derived"
    /\ UNCHANGED <<inputs, stored, last, builds, still, ghosts, uncovered>>

NothingParsed == \A f \in Present(b.pages) : ~b.pages[f].parsed

Known(sources) == {f \in Source : sources[f] # Absent}

(* Nothing was added, removed or read again: the listings are carried over. *)
DerivedReusable ==
    /\ b.reusable
    /\ NothingParsed
    /\ Cardinality(Known(b.sources)) = Cardinality(Known(b.prior.sources))

KeepDerived ==
    /\ pc = "derived" /\ DerivedReusable
    /\ \A k \in b.prior.derived : Reusable(b.previous, out, k)
    /\ b' = [b EXCEPT !.derived = b.prior.derived,
                      !.expected = @ \cup b.prior.derived,
                      !.current = [k \in Key |->
                          IF k \in b.prior.derived THEN b.previous[k] ELSE @[k]]]
    /\ pc' = "static"
    /\ UNCHANGED <<inputs, stored, last, builds, still, ghosts, uncovered>>

(* "cannot reuse '...'. Build with --force" *)
KeepDerivedError ==
    /\ pc = "derived" /\ DerivedReusable
    /\ \E k \in b.prior.derived : ~Reusable(b.previous, out, k)
    /\ Abandon("error")
    /\ UNCHANGED out

(* Listings, feeds, sitemap, search index and the 404 page are rendered. *)
RenderDerived ==
    /\ pc = "derived" /\ ~DerivedReusable
    /\ LET index == IndexBytes(b.pages, b.layout, b.nav)
           missing == MissingBytes(b.layout, b.nav)
           writesIndex == Present(b.pages) # {}
           writes404 == "404" \notin b.shipped
           b1 == IF writesIndex THEN Wrote(b, "index", index) ELSE b
           b2 == IF writes404 THEN Wrote(b1, "404", missing) ELSE b1 IN
       /\ out' = [k \in Key |->
                    IF k = "index" /\ writesIndex THEN OnDisk(k, index)
                    ELSE IF k = "404" /\ writes404 THEN OnDisk(k, missing)
                    ELSE out[k]]
       /\ b' = [b2 EXCEPT !.derived = b2.expected \ b.expected]
    /\ pc' = "static"
    /\ UNCHANGED <<inputs, manifest, state, last, builds, still, ghosts, uncovered>>

(* A static file is kept on its stamp, or copied. *)
CopyUnchanged(k) ==
    LET known == b.prior.copies[k] IN
    /\ ~b.force
    /\ known # Absent
    /\ known.modified = stime[k]
    /\ Settled(b.prior, known) \/ (static[k] # Absent /\ known.hash = static[k])
    /\ Reusable(b.previous, out, k)

(* Mutant: a copy that is kept is not recorded again. *)
CopyKeepForgets(k) ==
    /\ pc = "static" /\ k \in b.shipped /\ CopyUnchanged(k)
    /\ b' = [Kept(b, k) EXCEPT !.shipped = @ \ {k}]
    /\ UNCHANGED <<inputs, stored, pc, last, builds, still, ghosts, uncovered>>

CopyKeep(k) ==
    /\ pc = "static" /\ k \in b.shipped /\ CopyUnchanged(k)
    /\ b' = [Kept(b, k) EXCEPT !.copies[k] = b.prior.copies[k], !.shipped = @ \ {k}]
    /\ UNCHANGED <<inputs, stored, pc, last, builds, still, ghosts, uncovered>>

(* A file that is gone by now is read as empty. *)
CopyWrite(k) ==
    /\ pc = "static" /\ k \in b.shipped /\ ~CopyUnchanged(k)
    /\ LET v == StaticBytes(static[k]) IN
       /\ out' = [out EXCEPT ![k] = OnDisk(k, v)]
       /\ b' = [Wrote(b, k, v) EXCEPT
                  !.copies[k] = [modified |-> stime[k],
                                 hash |-> IF stime[k] >= b.started THEN static[k] ELSE Absent],
                  !.shipped = @ \ {k}]
    /\ UNCHANGED <<inputs, manifest, state, pc, last, builds, still, ghosts, uncovered>>

(* "two different results were written to ..." *)
CollisionError ==
    /\ pc = "static" /\ b.shipped = {} /\ b.collisions # {}
    /\ Abandon("error")
    /\ UNCHANGED out

PruneStep ==
    /\ pc = "static" /\ b.shipped = {} /\ b.collisions = {}
    /\ out' = Prune(out, b.expected)
    /\ pc' = "manifest"
    /\ UNCHANGED <<inputs, manifest, state, b, last, builds, still, ghosts, uncovered>>

(* Both files are truncated and then written. *)
OpenManifest ==
    /\ pc = "manifest"
    /\ manifest' = Torn
    /\ pc' = "save manifest"
    /\ UNCHANGED <<inputs, out, state, b, last, builds, still, ghosts, uncovered>>

SaveManifest ==
    /\ pc = "save manifest"
    /\ manifest' = b.current
    /\ pc' = "state"
    /\ UNCHANGED <<inputs, out, state, b, last, builds, still, ghosts, uncovered>>

(* Mutant: a state cut short is read as far as it goes. *)
OpenStateKeepsHead ==
    /\ pc = "state"
    /\ state' = [state EXCEPT !.derived = {}]
    /\ pc' = "save state"
    /\ UNCHANGED <<inputs, out, manifest, b, last, builds, still, ghosts, uncovered>>

(* An unparseable state is a state with nothing in it. *)
OpenState ==
    /\ pc = "state"
    /\ state' = NoState
    /\ pc' = "save state"
    /\ UNCHANGED <<inputs, out, manifest, b, last, builds, still, ghosts, uncovered>>

SaveState ==
    /\ pc = "save state"
    /\ state' = [fingerprint |-> b.fingerprint, started |-> b.started,
                 sources |-> b.sources, copies |-> b.copies, derived |-> b.derived]
    /\ pc' = "end"
    /\ UNCHANGED <<inputs, out, manifest, b, last, builds, still, ghosts, uncovered>>

(* build returns its report. *)
End ==
    /\ pc = "end"
    /\ pc' = "idle" /\ last' = "ok"
    /\ same' = still
    /\ dirty' = (dirty \cap b.expected) \ b.changed
    /\ flag' = b.drafts
    /\ uncovered' = (uncovered /\ ~(/\ b.force /\ still
                                    /\ \A k \in Titles \cap Static : static[k] = Absent))
    /\ b' = NoBuild
    /\ UNCHANGED <<inputs, stored, builds, still>>

Kill ==
    /\ pc # "idle" /\ "kill" \in Faults
    /\ Abandon("killed")
    /\ UNCHANGED out

Step ==
    \/ \E d \in Flags, f \in Forces : Begin(d, f)
    \/ Fingerprint
    \/ ScanStamp \/ ScanKeep \/ ScanHold \/ ScanLoad \/ ScanError
    \/ Neighbours \/ NeighboursError \/ AssignRelated \/ RelatedError
    \/ \E f \in Source : Render(f)
    \/ RenderFails \/ Record
    \/ KeepDerived \/ KeepDerivedError \/ RenderDerived
    \/ \E k \in Static : CopyKeep(k) \/ CopyWrite(k)
    \/ CollisionError \/ PruneStep
    \/ OpenManifest \/ SaveManifest \/ OpenState \/ SaveState \/ End
    \/ Kill

Next == Owner \/ Step

Spec == Init /\ [][Next]_vars

-----------------------------------------------------------------------------
(* Properties: a build that ran with no edit under way has just saved. *)

Done == pc = "end" /\ still

(* "The result is byte-identical to a build from scratch." *)
MatchesFreshBuild == Done => ~FreshFails(b.drafts) /\ out = FreshOut(b.drafts)

(* The same, as long as nothing changes that the fingerprint leaves out, and  *)
(* but for the pages that a failed or killed build wrote and no build has    *)
(* written since: the limit of what the saved state can know.                *)
MatchesButAbandoned ==
    Done /\ ~uncovered =>
        /\ dirty \ b.changed = {} => ~FreshFails(b.drafts)
        /\ \A k \in Key \ (dirty \ b.changed) : out[k] = FreshOut(b.drafts)[k]

(* A forced build is a fresh build, whatever happened before it. *)
ForcedMatchesFreshBuild ==
    Done /\ b.force => ~FreshFails(b.drafts) /\ out = FreshOut(b.drafts)

(* "When nothing changed, nothing is parsed, rendered, or written": right    *)
(* after a build that nothing disturbed, another with the same --drafts      *)
(* writes nothing.                                                           *)
NothingChangedNothingWritten ==
    Done /\ b.repeat /\ ~b.force => NothingParsed /\ b.changed = {}

(* An incremental build that can read its manifest, and whose inputs the     *)
(* fingerprint covers, refuses only a site that a fresh build refuses.       *)
RefusesOnlyWhatFreshRefuses ==
    [][pc # "idle" /\ pc' = "idle" /\ last' = "error" /\ still
         /\ manifest # Torn /\ ~uncovered => FreshFails(b.drafts)]_vars

(* The values of the variables.  Derived output is never a page: the mark    *)
(* taken before the listings separates the two.                              *)
TypeOK ==
    /\ post \in [Source -> Post \cup {Absent}]
    /\ layout \in Layout /\ nav \in Nav
    /\ mtime \in [Source -> Nat] /\ stime \in [Static -> Nat] /\ clock \in Nat
    /\ state.sources \in [Source -> SourceEntry \cup {Absent}]
    /\ state.derived \subseteq {"index", "404"}
    /\ dirty \subseteq Key /\ flag \in BOOLEAN /\ uncovered \in BOOLEAN
    /\ last \in {"none", "ok", "error", "failed", "killed"}

-----------------------------------------------------------------------------
(* The inductive invariant behind TypeOK and ForcedMatchesFreshBuild *)

Early == {"drafts", "force", "repeat", "layout", "nav", "todo", "changed"}

Locals == Early \cup
    {"prior", "previous", "current", "expected", "collisions", "started", "fingerprint",
     "shipped", "reusable", "stamps", "pages", "around", "related", "sources", "derived", "copies"}

Scanning == {"scan", "read"}
Rendering == {"render", "derived", "static"}
Saving == {"manifest", "save manifest", "state", "save state", "end"}

(* The values of the build's locals: the pages it has found so far are       *)
(* stamped, and the posts around and related to them are worked out before   *)
(* they are rendered.                                                        *)
LocalsInv ==
    /\ DOMAIN out = Key
    /\ pc \in {"idle", "fingerprint", "related"} \cup Scanning \cup Rendering \cup Saving
    /\ pc = "fingerprint" => DOMAIN b = Early
    /\ pc # "idle" =>
          /\ b.drafts \in BOOLEAN /\ b.force \in BOOLEAN
          /\ b.changed \subseteq Key /\ b.todo \subseteq Source
    /\ pc \notin {"idle", "fingerprint"} =>
          /\ DOMAIN b = Locals
          /\ DOMAIN b.current = Key /\ b.expected \subseteq Key /\ b.shipped \subseteq Static
          /\ b.prior.sources \in [Source -> SourceEntry \cup {Absent}]
          /\ b.prior.derived \subseteq {"index", "404"}
          /\ b.derived \subseteq {"index", "404"}
          /\ b.stamps \in [Source -> Int] /\ b.started \in Nat
          /\ b.pages \in [Source -> PageRecord \cup {Absent}]
          /\ \A f \in Present(b.pages) : b.stamps[f] \in Nat
          /\ b.sources \in [Source -> SourceEntry \cup {Absent}]
    /\ pc = "read" => b.todo # {} /\ b.stamps[Min(b.todo)] \in Nat
    /\ pc \in {"related"} \cup Rendering =>
          \A f \in Present(b.pages) : b.around[f] \in Arounds
    /\ pc \in Rendering =>
          /\ \A f \in Present(b.pages) : b.related[f] \in Relatives
          /\ b.todo \subseteq Present(b.pages)
          /\ pc # "render" => b.todo = {}

(* What a build that leaves nothing alone makes of a source. *)
ReadPage(f) ==
    IF FreshPages(b.drafts)[f] = Absent THEN Absent
    ELSE [parsed |-> TRUE, post |-> post[f], output |-> post[f].title]

Shipping == {k \in Static : static[k] # Absent}

Rendered(f) == PageBytes(b.pages[f], b.around[f], b.related[f], b.layout, b.nav)

(* A forced build that nobody disturbs finds the pages of a fresh build, ... *)
ForcedScan ==
    /\ pc = "fingerprint" => b.todo = {f \in Source : post[f] # Absent}
    /\ pc \in Scanning => \A f \in Source :
          /\ f \in b.todo => post[f] # Absent
          /\ b.pages[f] = IF f \in b.todo THEN Absent ELSE ReadPage(f)
    /\ pc \in {"related"} \cup Rendering => \A f \in Source : b.pages[f] = ReadPage(f)
    /\ pc \in {"related"} \cup Scanning \cup Rendering =>
          /\ ~b.reusable
          /\ \A f, g \in Present(b.pages) : b.pages[f].output = b.pages[g].output => f = g
    /\ pc \in {"related", "render", "derived"} \cup Scanning => b.shipped = Shipping
    /\ pc \in {"related"} \cup Scanning =>
          b.expected = {} /\ b.current = NoEntries /\ b.collisions = {}
    /\ pc \in {"related"} \cup Rendering => \A f \in Present(b.pages) :
          b.around[f] = Around(b.pages, f)
    /\ pc \in Rendering => \A f \in Present(b.pages) : b.related[f] = Related(b.pages, f)

(* ... writes what it renders of them, and of nothing else, ... *)
ForcedRender ==
    pc \in Rendering =>
        /\ \A k \in Key \ b.expected : b.current[k] = Absent
        /\ \A f \in Present(b.pages) \ b.todo :
              /\ b.pages[f].output \in b.expected
              /\ \/ /\ out[b.pages[f].output] = Rendered(f)
                    /\ b.current[b.pages[f].output] = Rendered(f)
                 \/ b.pages[f].output \in b.collisions
        /\ \A k \in b.expected :
              \/ \E f \in Present(b.pages) \ b.todo : k = b.pages[f].output
              \/ /\ pc = "static"
                 /\ \/ k = "index" /\ Present(b.pages) # {}
                    \/ k = "404" /\ k \notin Shipping
                    \/ k \in Shipping \ b.shipped

(* ... and copies every static file, over no page. *)
ForcedStatic ==
    pc = "static" =>
        /\ b.shipped \subseteq Shipping
        /\ Present(b.pages) # {} =>
              "index" \in b.expected /\ out["index"] = IndexBytes(b.pages, b.layout, b.nav)
        /\ "404" \notin Shipping =>
              "404" \in b.expected /\ out["404"] = MissingBytes(b.layout, b.nav)
        /\ \A k \in Shipping \ b.shipped :
              /\ k \in b.expected /\ out[k] = StaticBytes(static[k])
              /\ \A f \in Present(b.pages) : b.pages[f].output = k => k \in b.collisions

ForcedInv ==
    pc # "idle" /\ b.force /\ still =>
        /\ b.layout = layout /\ b.nav = nav
        /\ ForcedScan /\ ForcedRender /\ ForcedStatic
        /\ pc \in Saving => ~FreshFails(b.drafts) /\ out = FreshOut(b.drafts)

(* The inductive invariant. *)
BuildInv == TypeOK /\ LocalsInv /\ ForcedInv

=============================================================================
