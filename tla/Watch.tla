------------------------------- MODULE Watch --------------------------------
(***************************************************************************)
(* From a save to a rebuild: the watch thread of Server::run (server.cpp), *)
(* the watcher it waits on (watcher.cpp, inotify or FSEvents) and the      *)
(* directories of the site.                                                *)
(***************************************************************************)
EXTENDS Naturals

CONSTANTS
    Dir,        \* directories of the site, some of them made later
    Root, Out,  \* the site's own directory and the build's output tree
    MaxEdit     \* bound: saves

ASSUME WatchAssumption == Root \in Dir /\ Out \in Dir /\ Root # Out /\ MaxEdit \in Nat

VARIABLES
    backend,    \* "inotify" or "fsevents", whichever the program was built with
    made,       \* directories that exist
    watched,    \* directories with an inotify watch
    asked,      \* directories still to be given one
    open,       \* whether the watcher delivers events
    pending,    \* whether it holds an event not yet read
    watching,   \* State::watching
    wpc,        \* the watch thread
    unread,     \* what its build has still to read
    stopping,
    owed,       \* ghost: directories saved to since the server was ready, not read since
    late,       \* ghost: directories made since the server was ready
    missed,     \* ghost: directories inotify would not watch, or made while it opened
    edits

vars == <<backend, made, watched, asked, open, pending, watching, wpc, unread, stopping,
          owed, late, missed, edits>>

(* The values of the variables; no watch is set on a directory that is not   *)
(* there, and nobody owes a build of the output tree.                        *)
TypeOK ==
    /\ backend \in {"inotify", "fsevents"}
    /\ made \in SUBSET Dir /\ watched \in SUBSET made /\ asked \in SUBSET made
    /\ unread \in SUBSET made /\ owed \in SUBSET (made \ {Out}) /\ late \in SUBSET made
    /\ missed \in SUBSET made
    /\ open \in BOOLEAN /\ pending \in BOOLEAN /\ watching \in BOOLEAN /\ stopping \in BOOLEAN
    /\ wpc \in {"list", "open", "loop", "wait", "debounce", "check", "build", "ended", "unwatched"}
    /\ edits \in 0..MaxEdit

(* The build at startup has run. *)
Init ==
    /\ backend \in {"inotify", "fsevents"}
    /\ made \in {ds \in SUBSET Dir : {Root, Out} \subseteq ds}
    /\ watched = {} /\ asked = {} /\ open = FALSE /\ pending = FALSE /\ watching = FALSE
    /\ wpc = "list" /\ unread = {}
    /\ stopping = FALSE /\ owed = {} /\ late = {} /\ missed = {} /\ edits = 0

-----------------------------------------------------------------------------
(* The watcher *)

(* Mutant: a recursive watcher reports the output tree, too. *)
SeesOutput(d) == open /\ (backend = "fsevents" \/ d \in watched)

(* Whether a change in d reaches the watcher.  FSEvents covers whole trees   *)
(* and leaves out what is excluded; inotify reports the directories it was   *)
(* given.                                                                    *)
Sees(d) == open /\ ((backend = "fsevents" /\ d # Out) \/ d \in watched)

(* Mutant: the server says it is watching once the list is made. *)
ListDirectoriesReady ==
    /\ wpc = "list"
    /\ asked' = made \ {Out}
    /\ wpc' = "open"
    /\ watching' = TRUE
    /\ UNCHANGED <<backend, made, watched, open, pending, unread, stopping, owed, late,
                   missed, edits>>

(* watchable_directories *)
ListDirectories ==
    /\ wpc = "list"
    /\ asked' = made \ {Out}
    /\ wpc' = "open"
    /\ UNCHANGED <<backend, made, watched, open, pending, watching, unread, stopping, owed,
                   late, missed, edits>>

(* InotifyWatcher::open: the queue exists from the start, and each directory *)
(* is added to it.                                                           *)
AddWatch(d) ==
    /\ wpc = "open" /\ d \in asked /\ backend = "inotify"
    /\ watched' = watched \cup {d}
    /\ asked' = asked \ {d}
    /\ open' = TRUE
    /\ UNCHANGED <<backend, made, pending, watching, wpc, unread, stopping, owed, late,
                   missed, edits>>

(* A directory that cannot be watched is passed over without a word. *)
PassOver(d) ==
    /\ wpc = "open" /\ d \in asked /\ backend = "inotify"
    /\ asked' = asked \ {d}
    /\ missed' = missed \cup {d}
    /\ UNCHANGED <<backend, made, watched, open, pending, watching, wpc, unread, stopping, owed,
                   late, edits>>

(* Mutant: the loop starts while directories are still being added. *)
OpenedEarly ==
    /\ wpc = "open"
    /\ asked' = {}
    /\ open' = TRUE
    /\ watching' = TRUE
    /\ wpc' = "loop"
    /\ UNCHANGED <<backend, made, watched, pending, unread, stopping, owed, late, missed,
                   edits>>

Opened ==
    /\ wpc = "open"
    /\ asked = {} \/ backend = "fsevents"
    /\ asked' = {}
    /\ open' = TRUE
    /\ watching' = TRUE
    /\ wpc' = "loop"
    /\ UNCHANGED <<backend, made, watched, pending, unread, stopping, owed, late, missed,
                   edits>>

(* The per-user limit, or a stream that does not start: the thread warns,    *)
(* says it is watching, and returns.                                         *)
OpenFails ==
    /\ wpc = "open"
    /\ asked' = {} /\ watched' = {} /\ open' = FALSE /\ pending' = FALSE
    /\ watching' = TRUE
    /\ wpc' = "unwatched"
    /\ UNCHANGED <<backend, made, unread, stopping, owed, late, missed, edits>>

-----------------------------------------------------------------------------
(* The site's owner *)

Save(d) ==
    /\ d \in made \ {Out} /\ edits < MaxEdit
    /\ edits' = edits + 1
    /\ pending' = (pending \/ Sees(d))
    /\ owed' = IF watching THEN owed \cup {d} ELSE owed
    /\ UNCHANGED <<backend, made, watched, asked, open, watching, wpc, unread, stopping,
                   late, missed>>

MakeDir(d) ==
    /\ d \notin made
    /\ made' = made \cup {d}
    /\ pending' = (pending \/ Sees(Root))
    /\ late' = IF watching THEN late \cup {d} ELSE late
    /\ missed' = IF wpc = "open" THEN missed \cup {d} ELSE missed
    /\ UNCHANGED <<backend, watched, asked, open, watching, wpc, unread, stopping, owed, edits>>

Stop ==
    /\ ~stopping
    /\ stopping' = TRUE
    /\ UNCHANGED <<backend, made, watched, asked, open, pending, watching, wpc, unread,
                   owed, late, missed, edits>>

-----------------------------------------------------------------------------
(* The watch thread's loop *)

Loop ==
    /\ wpc = "loop"
    /\ wpc' = IF stopping THEN "ended" ELSE "wait"
    /\ UNCHANGED <<backend, made, watched, asked, open, pending, watching, unread,
                   stopping, owed, late, missed, edits>>

(* wait(poll_interval): the events are drained, or the time runs out. *)
Wait ==
    /\ wpc = "wait"
    /\ wpc' = IF pending THEN "debounce" ELSE "loop"
    /\ pending' = FALSE
    /\ UNCHANGED <<backend, made, watched, asked, open, watching, unread, stopping, owed,
                   late, missed, edits>>

(* Mutant: events that arrive while it settles cancel the rebuild. *)
DebounceDrops ==
    /\ wpc = "debounce"
    /\ wpc' = IF pending THEN "loop" ELSE "check"
    /\ pending' = FALSE
    /\ UNCHANGED <<backend, made, watched, asked, open, watching, unread, stopping, owed,
                   late, missed, edits>>

(* while (wait(window)): more events are swallowed until a window is quiet. *)
Debounce ==
    /\ wpc = "debounce"
    /\ wpc' = IF ~pending THEN "check" ELSE IF stopping THEN "ended" ELSE "debounce"
    /\ pending' = FALSE
    /\ UNCHANGED <<backend, made, watched, asked, open, watching, unread, stopping, owed,
                   late, missed, edits>>

(* The last look at stopping, then build_once(true). *)
Check ==
    /\ wpc = "check"
    /\ wpc' = IF stopping THEN "ended" ELSE "build"
    /\ unread' = IF stopping THEN {} ELSE made \ {Out}
    /\ UNCHANGED <<backend, made, watched, asked, open, pending, watching, stopping, owed,
                   late, missed, edits>>

(* The build reads a directory, and writes some of its output. *)
BuildReads(d) ==
    /\ wpc = "build" /\ d \in unread
    /\ unread' = unread \ {d}
    /\ owed' = owed \ {d}
    /\ pending' = (pending \/ Sees(Out))
    /\ UNCHANGED <<backend, made, watched, asked, open, watching, wpc, stopping, late,
                   missed, edits>>

BuildEnds ==
    /\ wpc = "build" /\ unread = {}
    /\ wpc' = "loop"
    /\ UNCHANGED <<backend, made, watched, asked, open, pending, watching, unread,
                   stopping, owed, late, missed, edits>>

-----------------------------------------------------------------------------

WatchStep ==
    \/ ListDirectories \/ Opened \/ OpenFails \/ Loop \/ Wait \/ Debounce \/ Check \/ BuildEnds
    \/ \E d \in Dir : AddWatch(d) \/ PassOver(d) \/ BuildReads(d)

Next == WatchStep \/ Stop \/ \E d \in Dir : Save(d) \/ MakeDir(d)

Spec == Init /\ [][Next]_vars

(* The watch thread is scheduled, every wait times out and every build ends. *)
FairSpec == Spec /\ WF_vars(WatchStep)

-----------------------------------------------------------------------------
(* Properties *)

(* Nobody is building, and nothing will make the watch thread build. *)
Asleep == wpc \in {"loop", "wait"} /\ ~pending

(* What inotify has no watch on: the directories made since it listed them,  *)
(* and those it would not watch.  FSEvents follows the whole tree.           *)
Unknown == IF backend = "inotify" THEN late \cup missed ELSE {}

(* A save made once the server is ready, in a directory the watcher knows,   *)
(* is never forgotten: as long as it has not been built the thread is on its *)
(* way to a build that will read it, or holds an event.                      *)
SavesAreRemembered ==
    /\ Asleep => owed \subseteq Unknown
    /\ wpc = "build" /\ ~pending => owed \ Unknown \subseteq unread

(* Why, step by step: once the thread is past opening its watcher the        *)
(* watcher sees every directory it knows, and from then on a save that has   *)
(* not been read leaves an event, unless a build is about to read everything.*)
WatchInv ==
    /\ TypeOK
    /\ wpc \in {"list", "open"} <=> ~watching
    /\ ~watching => owed = {}
    /\ wpc = "open" /\ backend = "inotify" => made \ ({Out} \cup Unknown) \subseteq watched \cup asked
    /\ wpc \notin {"list", "open", "unwatched"} =>
          open /\ \A d \in made \ ({Out} \cup Unknown) : Sees(d)
    /\ wpc # "unwatched" => SavesAreRemembered

(* "Directories created after the watcher starts are picked up too, since a  *)
(* new section appears without a restart": a save in one is not forgotten.   *)
NewDirectoriesArePickedUp == Asleep => owed \cap late = {}

(* Every such save is built, unless the server is stopped or could not watch *)
(* at all.                                                                   *)
SavesAreBuilt ==
    \A d \in Dir : d \in owed \ Unknown ~> (d \notin owed \/ stopping \/ wpc = "unwatched")

(* "a build writing its own output must not wake the watcher that started    *)
(* it": once the owner rests, the watch thread rests.                        *)
RebuildsEnd == <>[](wpc \notin {"debounce", "check", "build"})

=============================================================================
