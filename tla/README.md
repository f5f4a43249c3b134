# Blogin: a TLA+ verification project

Blogin is a static site generator with a preview server (C++, `src/src/blogin`).
This directory models the parts of it in which order, concurrency, failure and
history matter, and the path from what an author writes to the page a reader
sees; it checks them with TLC on small instances, and proves the safety
properties of six of them with TLAPS for every instance.

## The system

| Component | State it keeps | Operations | Talks to |
|---|---|---|---|
| Page pool (`site.cpp` over_pages, `workers.cpp`) | shared counter, failure flag, first failure | draw a page, run a task, report a failure, join | runs the tasks of the build, which call the writer |
| Writer (`writer.cpp`) | hashes of the last build and of this one, what is expected, collisions, changed pages; the output tree and `.blogin-manifest.json` | write, copy, keep, reusable, prune, load and save the manifest | called by every render thread |
| Incremental build (`site.cpp` build, `build_state.cpp`) | `.blogin-state.json`: fingerprint, a stamp, hash and metadata per source, derived output, copies, start time | scan, leave alone or read, place between neighbours, render, derive listings, copy static files, save | writer, pool, template store, asset plan |
| Reload protocol (`server.cpp` build_once and push, `reload.cpp`) | version, session, standing failure; in each tab the version its script knows | rebuild, push, greet, tell of a failure; reload, show or hide the overlay | watch thread, connection threads, browsers |
| Connections (`server.cpp` run) | listed connections, push list, stop flag, descriptor numbers | accept, reap, serve, upgrade, push, tear down | browsers, the watch thread |
| Watcher and rebuild loop (`watcher.cpp`, `server.cpp`) | watched directories, pending event, stop flag | open, wait, debounce, build | file system, build |
| HTTP, WebSocket frames (`http.cpp`, `websocket.cpp`) | a receive buffer | parse, resolve a url to a file, serialise | connection threads |
| Assets (`assets.cpp`, plan_assets) | fingerprinted names, reuse by stamp | plan, rewrite references | build, writer |
| Markdown (`markdown.cpp`, `markdown_inline.cpp`) | the open blocks; delimiters and brackets not yet matched | a line continues, closes and opens blocks; a token is text, a delimiter or a bracket | prepare and render of a page |
| Layouts (`haml*.cpp`, `expression.cpp`, `value.cpp`) | compiled templates | compile by indentation; evaluate; render with partials and fragments | render threads |
| Names and fragments (`view_context.cpp`, `template_store.cpp`) | values, locals, open recordings; templates by section; the fragment cache, shared | look up, record, replay; find up the section tree; find, store | render threads |
| Urls and files (`site.cpp`, `nav.cpp`, `view.cpp`, `feed.cpp`, `search.cpp`) | the pages and where each is written | place posts, listings, terms, feeds, redirects; print the links between them | writer, preview server |
| Content (`post.cpp`, `yaml.cpp`, `date.cpp`, `slug.cpp`) | none | parse | build |
| Command line, configuration, scaffolding | none | parse, create files | everything above |

What is hard here: render threads that share a counter and a writer; a decision
to leave a page alone that rests on what an earlier, perhaps killed, build saved;
files edited while they are read; stamps that are equal; a push that races a
connecting tab; descriptor numbers that are reused while they are listed; a stop
at any moment; saves that arrive while a burst is coalesced or a build runs; two
threads that share a fragment rendered for one page and right for another;
parsers that remember positions in trees they then rearrange; urls and files
that are named in four places which have to agree. The
`hazards` of `PROJECT.json` list them at the line where each bites.

## The modules

**PagePool** is `over_pages` on `run_on_workers`, one action per shared access:
`Fetch` is the `fetch_add`, `TestStop`/`TestGo` the two-part test, `Lock`,
`Exchange`, `Store`, `Unlock` the failure path. `Spawn` and `SpawnRefused` are
the two outcomes of `pthread_create`; `Spawned` runs the task in the caller if
no thread started. Ghosts: how often each page's task was started, and which
pages failed. **OverPages** is what its caller relies on, with no threads in it:
tasks begin and break, each page at most once, and the call ends in success if
every page was begun and none broke, or in the failure of one that did.
`KeepsItsPromise` is `PagePool` implementing it, fairness included, with the
pages not yet started for `todo` and the failed ones for `broken`.

**WriterRules** holds the writer's decisions as operators (what a write skips,
what collides, what may be kept, what an unreadable manifest means); **Writer**
steps them. A session loads the manifest, threads call `Write` (the part under
the mutex) and then `Open`, `Put`, `Rename` outside it, and the session ends by
`PruneStep`, `SaveOpen`, `SaveText`, by `Abandon` (an error) or by `Kill`.
Callers may bring two threads to one key or keep a key they already wrote, and a
write to the disk may fail; the ghost `spoiled` collects the keys this happens
to, for which the code makes no promise. A hash is taken to be the bytes.
**Output** is what the build relies on, with no threads, temporary files or
manifest in it: pages are asked for, replaced as wholes at some later moment,
and committed together, when each key has its one result and every other page is
gone. A key asked for twice or whose file failed may be given up (`lost`), and a
page that an unsaved session left is not noticed (`stale`). `KeepsPagesWhole` is
`Writer` implementing it, `spoiled` for `lost`, `dirty` for `stale` and the
output tree without the spoiled pages for `pages`.
**MCWriter** adds the symmetry of pages, contents and threads.

**Build** is the incremental build over a series of builds of one site, between
and (if `Mid` says so) during which the owner edits it. Its reference is
`FreshOut`, the output of a build with no history as a function of the inputs.
A post is a title, a text, a tag and a draft flag; a file's number is its place in the
walk and in its section; sizes are equal, so a stamp is a time. `"index"` stands
for everything rendered from all pages together, `"404"` for a generated file
that a static file may replace. `Begin` reads layouts, data and section tree;
`Fingerprint` loads manifest and state, reads the clock and the layouts again;
`ScanStamp` and one of `ScanKeep`, `ScanHold`, `ScanLoad`, `ScanError` treat one
source; `Neighbours` re-reads pages whose neighbours moved, `AssignRelated` those
whose related posts changed, and the rest are kept;
`Render` is one page of the pool in any order; `Record`, `KeepDerived` or
`RenderDerived`, `CopyKeep` or `CopyWrite`, `PruneStep` and the four saving
steps follow. The ghosts `dirty` and `uncovered` mark what the saved state cannot
know: pages written by a build that did not get to save, and changes of inputs
that the fingerprint leaves out. **BuildHistory** states what one build may take
from those before it: the invariants that relate the saved state to the inputs,
the manifest and the output (`HistoryInv`), and what a build finds if nothing
happened since the last one (`RepeatInv`, `ManifestInv`). **MCBuild** defines the small sites.

**Preview** is the reload protocol: the watch thread's `build_once`
(`BuildStart` to `Push`), a connection thread's page (`FetchScript`, `Serve`)
and upgrade (`Greet`, `TellStanding`, `Register`), and the script in the page
(`OnHello`, `OnFailure`, `OnChange`). A page on disk is a revision number.
A build writes some pages, a failed one too, and which is not assumed: the next
good build may rewrite what a failed one left or leave it alone. The ghost `due`
is the revision a tab of the page has to reach, the one the last good build to
write it left (or, after a restart, found). Connections drop and the server
restarts with a new session.

**Connections** is who owns a descriptor. `at` says what each number denotes and
`fd` the number a connection was accepted under, so that every system call goes
through the number, as in the code. Main accepts, reaps, spawns, lists and tears
down; a connection's thread serves, upgrades, throws and finishes; the watch
thread pushes.

**Watch** is the way from a save to a rebuild: opening a watcher (inotify,
directory by directory, some of which are refused; FSEvents, whole trees less
the output; the backend is chosen in `Init`), `Wait`, `Debounce`, `Check` and a build that reads directories one
at a time while saves continue.

**Blocks** is the block parser, one `HandleLine` for each line: `Descend` asks the
open blocks whether the line continues them (`Continues`), `OpenNew` opens what
it starts, `Close` and the `Finalize` operators end a block. A line is a sequence
of tokens with the columns before each, so the lexical matchers are sets of
tokens and everything about nesting, lazy lines and indentation is kept. The
tree is a sequence of nodes with parents. **Inlines** is the inline parser:
`Step` reads a token, `HandleDelimiterRun` and `HandleCloseBracket` are the two
that look back, `Resolve` and `Wrapped` are `process_emphasis` with its node list
and its holes. **Expressions** is the recursive descent with both limits on depth,
and the evaluator; `Means` is the reference, which splits a text at its last
operator of lowest precedence and knows nothing of the parser. **Haml** compiles
lines by their indentation, **Layouts** renders the result with scopes, partials
and the fragment cache, and its `Shown` is the reference: line by line, what
stands above it decides whether it is printed. **Fragments** steps one cached
fragment through the cache with several threads, which lock for each operation
and for nothing longer. **Site** says which files a build writes and which urls
it prints in them, each with the page it is meant to lead to, and what the
preview server answers a url with. **Requests** is the loop of a connection's
thread over its buffer: `parse_request` on what is in hand, a recv of any length
when that is not a request yet, one answer at a time. **Documents** composes these: a behaviour
takes one subject and writes it one line, token or post at a time, or lets the
threads render. **MCDocuments** holds the alphabets.

**PagePoolProofs**, **WriterProofs**, **BuildProofs**, **BuildHistoryProofs**,
**BuildRepeatProofs**, **PreviewProofs**, **ConnectionsProofs**, **WatchProofs** hold the theorems.

Operators named in a comment as a mutant are not part of the model: each is a
plausible mistake in the definition that follows it, and each property is shown
to fail under one of them.

## What the runs show

Passing:

| Run | Bounds | Result |
|---|---|---|
| `page_pool` | 3 pages, 1 to 3 workers | no page twice, success means all done, first failure kept, `over_pages` returns and implements `OverPages` |
| `writer` | 2 pages, 2 contents, 2 threads, 2 calls a session, 3 sessions; kills, shared keys, a full disk | pages whole, manifest truthful, output exact (spoiled keys aside); changes reported; implements `Output` |
| `build` | 2 files, 2 titles, 2 texts, 2 layouts, 1 static file, 2 edits (of posts and layouts also during a build), posts that share a tag or not, 3 builds, equal stamps, failing pages | as a build from scratch; nothing written when nothing changed, as what was saved is what there is (`RepeatInv`); no spurious refusal |
| `build_faults` | 1 file (perhaps a draft), 2 navigations, 3 static files (one in place of the page), every `--force` and `--drafts`, 2 edits, 3 builds, kills at any step | what is saved is true or contradicted (`HistoryInv`, from which only abandoned pages and uncovered inputs differ); `--force` is a build from scratch |
| `preview` | 1 tab, 2 pages, 2 rebuilds, 1 drop, 1 restart | tabs reached by every push show what good builds wrote (`due`) or newer, and the right overlay; tabs come to rest |
| `connections` | 2 connections, 2 numbers, another opener of sockets; browsers may stop reading pages | every call reaches its own socket, none leaks, one writer; a stopped server returns |
| `watch` | 4 directories, 3 saves, both backends | saves in known directories are remembered and built, rebuilds end |
| `documents` | see below | the parsers, the renderer, the fragment cache, the urls of a site and the request loop do what their references say |

The properties of `documents`, over every text of the bounded size:

- `BlocksKeepWords`: every word of a document is in its tree, in its order.
  `ContainersAreTransparent`: a document in a quote, lazy lines included, or in an
  item of a list is read as on its own. All documents of 3 lines over 28 kinds of
  line, and of 4 over 11.
- `InlinesKeepText`: printing the tree with its markers gives the text back.
  `NoLinkInLink`: no link holds a link, at any depth. All texts of 4 tokens over
  15, of 7 over the tokens of emphasis and of links.
- `ExpressionsFollowGrammar`: an expression is refused or parsed to the tree the
  reference gives it; refusal for depth comes neither early nor late (`MaxDepth`
  is 10 here, 64 in the code). All texts
  of 5 tokens over 13, of 7 over the operators, and chains, parentheses and
  negations up to twice the limit.
- `LayoutsPrintTheirLines`: a layout fails or prints what the reference says. All
  layouts of 2 lines over 48, of 3 over most of them, of 4 over the control flow.
- `FragmentsAreFresh`: what a thread prints for a page from the cache is what
  it would have rendered. Two threads, any number of pages of 3 kinds, 7 bodies,
  3 calls.
- `LinksLead`: every url on every page of a build that reports no collision is
  answered by the preview server with the page it stands for, and the pages of a
  listing, followed from the first, show each post of a section once, in order.
  Sites of up to 4 of 10 posts (8 in two languages), under 96 configurations:
  clean urls or not, one language or two, a home listing or not, page sizes, files
  shipped in place of a feed or the 404 page, and a layout for that page or none.
- `RequestsAreAnswered`: however reads cut what a browser sends, each request that
  is in is answered, in order, before the thread waits again; a response is as
  long as it announces (a HEAD has no body) and says of the connection what
  becomes of it; only a request over the limit is refused for its size, and one
  that never ends is. Requests of all kinds in 3 lines over 14, two pipelined
  requests in 6 lines over the methods and over the headers, every cut between
  and within lines (`MaxRequest` is 8 units here, 64 KiB in the code, so that
  requests of two lines fit and longer ones do not). The reference
  splits lines, not units. Two choices of the code are taken over into it: a
  refused method leaves the connection open whatever the request asks, and the
  first of two headers of one name counts.

Each reference is written from what the construct is for and shares nothing with
the code's algorithm but trees, values and, for layouts, the evaluator.

The bounds are the smallest at which the cases of interest occur: three workers
let two fail while one draws; three sessions or builds let one save, one fail or
be killed, and one believe what it finds; two files are neighbours and can meet
on one page; a text of four lines opens a container, fills it, leaves it and
comes back; another opener of sockets forces a number to be reused while its
old owner is still listed.

Disagreements with what the repository says (each is a run that must be
violated, with the quoted line in `findings`):

- `build_reverted`: pages of a failed build survive when its cause is undone.
- `preview_missed`: a push between hello and registration does not reach its tab,
  which rests with what it had, in the trace without the overlay of a failed build.
- `connections_hang`: a stalled reload socket keeps `run` from returning.
- `watch_new_directory`: inotify does not follow new directories.

One more has no run of its own: "The names read since recording began, each with the
value it had, as one string. Two renders agree exactly when this does."
(`view_context.h:63-64`). They do not in the cases that `FragmentsAreFresh` excepts,
listed below. Without the exceptions TLC shows it in eight steps: two threads render
a fragment holding `yield` (`haml_render.cpp:210`, recorded nowhere) on two pages,
read the same names with the same values, and the second gets the first's body.

## Known limits of the code

What the passing properties except, because the code does not guarantee it:

- *Writer* (`spoiled`): two threads on one page share its temporary file and may
  leave it cut short; a write that fails replaces a good page; a `keep` after a
  `write` hides a collision.
- *Build* (`dirty`): pages of a failed or killed build may survive until they are
  rendered again. *Build* (`uncovered`): the fingerprint covers neither the
  section tree nor `--drafts` nor what `static/` ships in place of a page or a
  generated file, so after such a change an incremental build may keep old pages,
  keep a published draft, lose a generated file or refuse the site. `--force`
  recovers from all of these (`ForcedMatchesFreshBuild`).
- *Build*: a manifest cut short by a kill makes the next build of an empty site
  refuse; a layout saved between being read and being fingerprinted is recorded
  as built (`uncovered` excepts that window), and so is a post saved twice within
  one tick during a build (stamps of edits during a build differ). A post retitled
  onto the page of one that is left alone is refused, as kept pages are noted
  before any is rendered; only if an abandoned build left that page behind may
  the clash go unseen.
- *Preview* (`due`): what a failed build wrote is announced to nobody, then or
  later. The next good build reports a page only if it writes it, and it may leave
  it alone, so a tab may go on showing such a page or the one before it. A page that is
  pruned is not announced either (removal of pages is not modelled here).
- *Connections*: a push may close a number that is still listed, and the
  shutdown at teardown may then reach another socket.
- *Blocks* (`moved`): `detach` clears the parent that the next statement asks for,
  so a table, a definition list or what follows a paragraph of reference
  definitions inside a quote or an item becomes a block of the document. A list
  marker that may not interrupt a paragraph still ends a quote when its line is lazy.
- *Inlines*: `compact` forgets delimiters and brackets opened before a link.
- *Expressions*: a deferred block is said to reach a function unevaluated and is
  evaluated.
- *Fragments* (`unsure`, `Shadowed`): the key of a fragment does not tell a name
  read with two values, `yield` inside the fragment, a partial that a section has
  of its own, or a local around the call that hides a value of the page.
- *Site* (`KnownLost`): the preview server tries no page for a clean url with a dot in
  its path; taxonomies, tags and `robots.txt` are linked without the prefix of their
  language; the switcher takes the `index.md` at the root for a page named by its
  slug (`ToRootIndex`, of the links of a switcher and no others). The menu links to
  directories that publish nothing, the switcher of a listing to sections another
  language may lack, feeds and the plain 404 page to a root where there may be no
  page: these are checked where the page exists. What is shipped is copied into, and
  stands in for files of, each language's own output. An alias may take the path of a listing, two terms may share a slug and a
  post may have the path of a section: the writer reports these as collisions.
- *Watch* (`Unknown`): inotify has no watch on directories made later, or on
  those it was refused.

## Fairness

`PagePool`: every thread is scheduled and a task ends. `Preview`: a build that
started ends, connection threads run, a browser handles its messages; nobody has
to edit, drop or restart. `Connections`: every thread of the server is
scheduled, but a thread in a blocking call waits for the browser, of which
nothing is assumed; accepting, throwing and requests are never forced. `Watch`:
the watch thread is scheduled, a wait times out (it has a timeout in the code)
and a build ends. Nothing else is assumed.

## What is proved

All theorems hold for every value of the constants under the assumptions named
in the modules (`PoolAssumption`, `WriterAssumption`, `BuildAssumption`,
`AbsentAssumption`, `TornAssumption`, `PreviewAssumption`,
`ConnectionsAssumption`, `WatchAssumption`). Every inductive invariant is also an
invariant of its component's run, but for `ManifestInv`, which says only what
values a manifest has.

- *Pool.* `PoolInv` ties the counter to the pages started (`DrawInv`), the pages
  started to the threads working on them (`CoverInv`), roles to labels
  (`RolesInv`), the flag to the stored failure (`FailureInv`) and the store to the
  one thread whose exchange came first (`StoreInv`); from it
  `OneTaskPerPage`, `ResultSound` and the action property `FirstFailureKept`.
  None is inductive alone: success says
  that every page was done only because an index below the counter is either
  done or held by a live thread, and the first failure stays because the thread
  that is about to store it is the only one. `PoolKeepsPromise` is the
  refinement, step by step: a fetch of an index that is a page is `Begin`, the
  end of a failing task is `Break`, the join of the last thread is `Succeed` or
  `GiveUp` by `ResultSound`, and every other step leaves what the caller sees
  alone. Only the fairness of `OverPages` is left to TLC.
- *Writer*: `WriterInv` says that a key in flight that is not spoiled has one
  thread, whose temporary file it is (`FlightInv`), that what was produced has
  one hash unless a collision is noted (`ProducedInv`), that the old manifest
  is right about untouched pages and the new one about the others (`TruthInv`),
  and that a page produced and out of flight is on disk (`OutputInv`);
  from it `NoTornPage`, `ManifestTruthful`, `OneResultPerKey`, `OutputIsExpected`
  and the action property `ChangesReported`. The properties
  speak of one key at a time, but each rests on no other key's trouble reaching
  it, which is what the proof of `FlightInv` shows. `WriterKeepsPagesWhole` is
  the refinement of `Output`, all of it, as `Output` has no fairness: a call
  under the mutex is `Ask`, a rename `Land`, a stream that fails `Fail`, pruning
  `Commit`, the manifest's text `Save`, an error or a kill `Quit`. It needs what
  is on its way to a page to have been asked for (`AskedInv`). The three hard
  steps are the rename, which lands the bytes of its own call because no other
  thread has the temporary file (`FlightInv`); the late bytes of a stream whose
  file has become the page, unseen because they only reach a key given up; and
  the commit, which `ProducedInv`, `OutputInv` and `TruthInv` settle key by key.
- *Build*: a forced build is a build from scratch, whatever history it starts from
  (`ForcedMatchesFreshBuild`). Nothing is assumed of what earlier builds left: the
  invariant `BuildInv` follows one build. Its pages are those of a fresh build as far
  as the walk has come (`ForcedScan`), what it has written is what it renders of
  them and of nothing else (`ForcedRender`), and static files are copied over no page
  without a collision (`ForcedStatic`); at pruning these three give the fresh output,
  key by key. The other half of `BuildInv` (`TypeOK`, `LocalsInv`) holds of every build.
- *Build, incremental*: `MatchesButAbandoned` is about what a build finds, so its
  invariant `HistoryInv` has to say what every build, also one that was killed
  between two of its saving steps, leaves. No stamp is later than its file
  (`TimeInv`). Each claim of the saved state (what a source says, the bytes of its
  page, of a copy, of the listings) is true, or the file has a newer stamp, or the
  stamp is too recent to be believed and the hash tells, or the manifest does not
  have the page, or the key is dirty (`StateInv`; `Dirt` and `Memo` say which keys
  and which manifest at each moment, `Covered` when the state can be believed at
  all). Seven parts then follow one build: it works from what was saved
  (`LoadInv`) and what was read (`ReadInv`), a page left alone still has the entry it was
  left alone for (`EntryInv`), pages and entries are true of the files (`TruthInv`),
  what was not written is what the manifest has (`WriteInv`), and the bytes of
  pages, listings and copies are those this build would produce (`BytesInv`,
  `DerivedInv`). `AgreeInv` adds, for a build that nobody disturbs, that it has
  found what a fresh build finds. `BuildMatches` follows at the end of the build,
  key by key. That the site is one a fresh build accepts (`NoTwins`) needs an
  argument of its own, as equal bytes are no collision: two pages with one
  output and the same bytes name the same next page, so their successors share an
  output too, and the last such pair has none. It needs `""` not to be a title.
- *Build, again*: "When nothing changed, nothing is parsed, rendered, or written"
  (`BuildRepeats`, the property `NothingChangedNothingWritten`). `HistoryInv` lets
  a claim of the saved state be contradicted; here it must not be. `RepeatInv`
  says so: what was saved was read from the file it names (`TextInv`), an
  undisturbed build has found what there is, stamps included (`FoundInv`), what
  it produced is there when it saves (`ThereInv`), so it leaves a state that
  agrees with the site in each question the next build asks, stamps, hashes,
  neighbours, related posts, manifest and output alike (`SavedInv`, by `AsSaved`),
  and a build that repeats it answers each with "unchanged" and keeps
  `AsSaved` until it saves the same again (`AgainInv`). `ManifestInv` is needed
  because a manifest that cannot be read would make every page be written: one
  that was saved can. `RepeatInvariant` has a lemma for each action and rests on
  `HistoryInv` throughout. Two more parts serve `BuildRefuses`, the action property
  `RefusesOnlyWhatFreshRefuses`: results meet on a key only if two posts have it
  (`ClashInv`), and the listings the state names are there (`ListingsInv`). It
  assumes that no build is killed, and must: where stamps may be equal TLC finds
  a build killed while pruning, a post restored within the tick, and a state that
  names listings the output lacks, for which the next build asks for `--force`.
- *Preview*: `ReachedTabsAreCurrent` speaks of quiet moments only, so its
  invariant has to say for every other moment what makes the next quiet one
  right. `PreviewInv` does so for each tab: no tab knows a version the server has
  not reached (`KnownInv`), its messages come in the order they were pushed
  (`InboxInv`), a tab between hello and registration that no push has passed
  over is behind only while the newer version is still to be pushed (`GreetInv`),
  a page out of date has its reload on the way or its change still to be pushed
  (`PageInv`), and an overlay that is wrong likewise (`OverlayInv`). Out of date means
  older than `due`, which only a good build raises, and only for pages in its
  report; of the server the invariant needs no more than that such a page is on
  disk and that a push agrees with the failure that stands (`ServerInv`). The proof has
  a lemma for each action; `Push` is the hard one, as it appends to some inboxes
  and passes over others in one step.
- *Connections*: `ConnInv` says that an open socket has exactly one owner (main
  until the connection is upgraded, the push list afterwards) and that an
  owner's number denotes its socket (`Ownership`), which needs what main and the
  threads know of each other (`Listing`, `Flags`, `PushList`); from it
  `ReachesItsOwn`, `NothingLeaked`, `OneWriter`.
- *Watch*: once its thread is past opening, the watcher sees every directory it
  knows, and a save not yet read has left an event unless a build is about to
  read everything (`WatchInv`); hence `SavesAreRemembered`.

Only model-checked: liveness (fairness and ENABLED are outside the prover), and
everything about `Documents`. What a recursive definition computes for
every input cannot be proved with the installed provers, and a module with a
theorem must not reach a RECURSIVE operator, which rules out the parsers, the
renderer and `Fragments`.

## What is not modelled

The lexical detail of the parsers (entities, raw html, autolinks, attribute
blocks, footnotes, shortcode arguments, Haml attributes), YAML and front matter,
JSON, HTML, highlighting, the text of feeds and meta tags, the ranking of search
results, configuration, the command line and scaffolding: conversions of text
that hold no state between steps and touch none of the properties above.
WebSocket frames, the asset plan and share images are left for later. In
`Requests` every line ends in CR LF and no request has a body (the code would read
one as the next request).
In `Build` any page may fail to render (`RenderFails`); an error in rendering the
listings or the 404 page, which ends a build in the same way, is left out.
Hash collisions of `content_hash`, file sizes, and exceptions that end the process
(on a pool thread, on the watch thread, when a thread cannot be created) are left
out, as is a stream of saves that never pauses, which puts a rebuild off for as
long as it lasts.

In `Site` a post is what its front matter says, a slug is given, and what a page
prints besides urls is left out; in `Expressions` numbers are whole and strings are
words; in `Layouts` the only function is one that shows its arguments.

## Plan

1. *Serving*: WebSocket frames, and `Requests` composed with `Connections`.
2. *Assets*: the plan with reuse by stamp and the `copies` map it shares with static
   files, as an extension of `Build`.
3. *Refinement*: `Build` calls the writer one page at a time through `WriterRules`;
   stating it over `Output` instead would put the pool, the writer and the build in
   one chain.
