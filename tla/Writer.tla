------------------------------- MODULE Writer -------------------------------
(***************************************************************************)
(* blogin::Writer (writer.cpp) over a series of builds.                    *)
(*                                                                         *)
(* A session is one build's Writer: the manifest is loaded, render threads *)
(* write and keep pages, and the session ends by being pruned and saved,   *)
(* by an error that abandons it, or by the process being killed.  A write  *)
(* decides under the mutex and touches the disk outside it, through a      *)
(* temporary file named after the page: open (truncating), write, rename.  *)
(***************************************************************************)
EXTENDS WriterRules, Naturals

CONSTANTS
    Bytes,      \* what a page can contain
    Thread,     \* render threads
    MaxCalls,   \* bound: write and keep calls in one session
    MaxSession  \* bound: sessions

ASSUME WriterAssumption ==
    /\ Absent \notin Bytes /\ Torn \notin Bytes /\ Absent # Torn
    /\ MaxCalls \in Nat /\ MaxSession \in Nat

VARIABLES
    disk,       \* the output directory
    tmp,        \* the temporary file beside each page
    manifest,   \* .blogin-manifest.json on disk
    mode,       \* "idle", "run", "pruned", "saving"
    force,      \* force_
    previous, current, expected, changed, collisions,   \* the members of Writer
    pc,         \* per thread: "idle", "open", "put", "rename"
    job,        \* per thread: the key and the bytes it is flushing
    fd,         \* per thread: what its stream's file is linked as
    calls, session,
    made,       \* ghost: per key, the results produced for it this session
    flushed,    \* ghost: the keys renamed into place this session
    dirty,      \* ghost: the keys last renamed by a session that was not saved
    spoiled     \* ghost: the keys two threads wrote at once, a file could not be
                \* written for, or that were kept after they were produced

local == <<force, previous, current, expected, changed, collisions>>
vars == <<disk, tmp, manifest, mode, local, pc, job, fd, calls, session, made, flushed, dirty, spoiled>>

File == Bytes \cup {Absent, Torn}
NoEntry == [k \in Key |-> {}]

(* The values of the variables. *)
TypeOK ==
    /\ disk \in [Key -> File]
    /\ tmp \in [Key -> File]
    /\ manifest \in [Key -> Bytes \cup {Absent}] \cup {Torn}
    /\ mode \in {"idle", "run", "pruned", "saving"}
    /\ force \in BOOLEAN
    /\ previous \in [Key -> Bytes \cup {Absent}]
    /\ current \in [Key -> Bytes \cup {Absent}]
    /\ expected \in SUBSET Key
    /\ changed \in SUBSET Key
    /\ collisions \in SUBSET Key
    /\ pc \in [Thread -> {"idle", "open", "put", "rename"}]
    /\ job \in [Thread -> [key : Key, bytes : Bytes]]
    /\ fd \in [Thread -> {"none", "tmp", "page"}]
    /\ calls \in Nat
    /\ session \in Nat
    /\ made \in [Key -> SUBSET Bytes]
    /\ flushed \in SUBSET Key
    /\ dirty \in SUBSET Key
    /\ spoiled \in SUBSET Key

Init ==
    /\ disk = NoEntries
    /\ tmp = NoEntries
    /\ manifest = NoEntries
    /\ mode = "idle"
    /\ force = FALSE
    /\ previous = NoEntries
    /\ current = NoEntries
    /\ expected = {}
    /\ changed = {}
    /\ collisions = {}
    /\ pc = [t \in Thread |-> "idle"]
    /\ job \in [Thread -> [key : Key, bytes : Bytes]]
    /\ fd = [t \in Thread |-> "none"]
    /\ calls = 0
    /\ session = 0
    /\ made = NoEntry
    /\ flushed = {}
    /\ dirty = {}
    /\ spoiled = {}

-----------------------------------------------------------------------------
(* The session *)

(* The constructor and load_manifest. *)
Begin(f) ==
    /\ mode = "idle" /\ session < MaxSession
    /\ session' = session + 1
    /\ mode' = "run"
    /\ force' = f
    /\ previous' = LoadManifest(manifest)
    /\ current' = NoEntries
    /\ expected' = {} /\ changed' = {} /\ collisions' = {}
    /\ calls' = 0
    /\ made' = NoEntry
    /\ flushed' = {}
    /\ UNCHANGED <<disk, tmp, manifest, pc, job, fd, dirty, spoiled>>

Quiet == \A t \in Thread : pc[t] = "idle"

(* The build returns an error: a page failed, or two results met on one key. *)
(* Pages already renamed stay; nothing is pruned and nothing is saved.       *)
Abandon ==
    /\ mode = "run" /\ Quiet
    /\ mode' = "idle"
    /\ dirty' = dirty \cup flushed
    /\ UNCHANGED <<disk, tmp, manifest, local, pc, job, fd, calls, session, made, flushed, spoiled>>

(* Mutant: collisions are not looked at. *)
PruneStepUnchecked ==
    /\ mode = "run" /\ Quiet
    /\ disk' = Prune(disk, expected)
    /\ tmp' = NoEntries
    /\ mode' = "pruned"
    /\ UNCHANGED <<manifest, local, pc, job, fd, calls, session, made, flushed, dirty, spoiled>>

(* No collisions: prune removes what is not expected, stray temporary files  *)
(* included.                                                                 *)
PruneStep ==
    /\ mode = "run" /\ Quiet
    /\ collisions = {}
    /\ disk' = Prune(disk, expected)
    /\ tmp' = NoEntries
    /\ mode' = "pruned"
    /\ UNCHANGED <<manifest, local, pc, job, fd, calls, session, made, flushed, dirty, spoiled>>

(* save_manifest truncates the file, then writes it; it is not renamed. *)
SaveOpen ==
    /\ mode = "pruned"
    /\ manifest' = Torn
    /\ mode' = "saving"
    /\ UNCHANGED <<disk, tmp, local, pc, job, fd, calls, session, made, flushed, dirty, spoiled>>

(* Mutant: what the last build saved is carried over where this build has no entry. *)
SaveMerged ==
    /\ mode = "saving"
    /\ manifest' = [k \in Key |-> IF previous[k] # Absent THEN previous[k] ELSE current[k]]
    /\ mode' = "idle"
    /\ dirty' = dirty \ flushed
    /\ UNCHANGED <<disk, tmp, local, pc, job, fd, calls, session, made, flushed, spoiled>>

SaveText ==
    /\ mode = "saving"
    /\ manifest' = current
    /\ mode' = "idle"
    /\ dirty' = dirty \ flushed
    /\ UNCHANGED <<disk, tmp, local, pc, job, fd, calls, session, made, flushed, spoiled>>

(* The process is killed between any two steps. *)
Kill ==
    /\ mode # "idle"
    /\ mode' = "idle"
    /\ pc' = [t \in Thread |-> "idle"]
    /\ fd' = [t \in Thread |-> "none"]
    /\ dirty' = dirty \cup flushed
    /\ UNCHANGED <<disk, tmp, manifest, local, job, calls, session, made, flushed, spoiled>>

(* Between builds the site's owner deletes a page of the output. *)
Disturb(k) ==
    /\ mode = "idle" /\ disk[k] # Absent
    /\ disk' = [disk EXCEPT ![k] = Absent]
    /\ UNCHANGED <<tmp, manifest, mode, local, pc, job, fd, calls, session, made, flushed, dirty, spoiled>>

-----------------------------------------------------------------------------
(* One call *)

InFlight(t, k) == pc[t] # "idle" /\ job[t].key = k

(* Mutant: the page is skipped on the manifest's word, without asking whether it exists. *)
WriteUnseen(t, k, v) ==
    /\ mode = "run" /\ pc[t] = "idle" /\ calls < MaxCalls
    /\ calls' = calls + 1
    /\ made' = [made EXCEPT ![k] = @ \cup {v}]
    /\ expected' = expected \cup {k}
    /\ collisions' = IF Collides(current, k, v) THEN collisions \cup {k} ELSE collisions
    /\ current' = [current EXCEPT ![k] = v]
    /\ \/ /\ ~force /\ previous[k] = v
          /\ UNCHANGED <<changed, pc, job>>
       \/ /\ force \/ previous[k] # v
          /\ changed' = changed \cup {k}
          /\ job' = [job EXCEPT ![t] = [key |-> k, bytes |-> v]]
          /\ pc' = [pc EXCEPT ![t] = "open"]
    /\ spoiled' = IF \E u \in Thread : InFlight(u, k) THEN spoiled \cup {k} ELSE spoiled
    /\ UNCHANGED <<disk, tmp, manifest, mode, force, previous, fd, session, flushed, dirty>>

(* Mutant: a page the last build did not have is not reported. *)
WriteUnreported(t, k, v) ==
    /\ mode = "run" /\ pc[t] = "idle" /\ calls < MaxCalls
    /\ calls' = calls + 1
    /\ made' = [made EXCEPT ![k] = @ \cup {v}]
    /\ expected' = expected \cup {k}
    /\ collisions' = IF Collides(current, k, v) THEN collisions \cup {k} ELSE collisions
    /\ current' = [current EXCEPT ![k] = v]
    /\ \/ /\ Skips(force, previous, disk, k, v)
          /\ UNCHANGED <<changed, pc, job>>
       \/ /\ ~Skips(force, previous, disk, k, v)
          /\ changed' = IF previous[k] # Absent THEN changed \cup {k} ELSE changed
          /\ job' = [job EXCEPT ![t] = [key |-> k, bytes |-> v]]
          /\ pc' = [pc EXCEPT ![t] = "open"]
    /\ spoiled' = IF \E u \in Thread : InFlight(u, k) THEN spoiled \cup {k} ELSE spoiled
    /\ UNCHANGED <<disk, tmp, manifest, mode, force, previous, fd, session, flushed, dirty>>

(* write, the part under the mutex.  Two pages with one output, or the two   *)
(* passes over the pages, may bring two threads to one key.                  *)
Write(t, k, v) ==
    /\ mode = "run" /\ pc[t] = "idle" /\ calls < MaxCalls
    /\ calls' = calls + 1
    /\ made' = [made EXCEPT ![k] = @ \cup {v}]
    /\ expected' = expected \cup {k}
    /\ collisions' = IF Collides(current, k, v) THEN collisions \cup {k} ELSE collisions
    /\ current' = [current EXCEPT ![k] = v]
    /\ \/ /\ Skips(force, previous, disk, k, v)
          /\ UNCHANGED <<changed, pc, job>>
       \/ /\ ~Skips(force, previous, disk, k, v)
          /\ changed' = changed \cup {k}
          /\ job' = [job EXCEPT ![t] = [key |-> k, bytes |-> v]]
          /\ pc' = [pc EXCEPT ![t] = "open"]
    /\ spoiled' = IF \E u \in Thread : InFlight(u, k) THEN spoiled \cup {k} ELSE spoiled
    /\ UNCHANGED <<disk, tmp, manifest, mode, force, previous, fd, session, flushed, dirty>>

(* Mutant: the page itself is truncated and written, with no temporary file. *)
OpenInPlace(t) ==
    /\ pc[t] = "open"
    /\ disk' = [disk EXCEPT ![job[t].key] = Torn]
    /\ fd' = [fd EXCEPT ![t] = "page"]
    /\ pc' = [pc EXCEPT ![t] = "put"]
    /\ UNCHANGED <<tmp, manifest, mode, local, job, calls, session, made, flushed, dirty, spoiled>>

(* The stream is opened with trunc, on the temporary file another thread may *)
(* have open.                                                                *)
Open(t) ==
    /\ pc[t] = "open"
    /\ tmp' = [tmp EXCEPT ![job[t].key] = Torn]
    /\ fd' = [fd EXCEPT ![t] = "tmp"]
    /\ pc' = [pc EXCEPT ![t] = "put"]
    /\ UNCHANGED <<disk, manifest, mode, local, job, calls, session, made, flushed, dirty, spoiled>>

(* The bytes go to whatever the stream's file is linked as by now. *)
Put(t) ==
    /\ pc[t] = "put"
    /\ \/ /\ fd[t] = "tmp"
          /\ tmp' = [tmp EXCEPT ![job[t].key] = job[t].bytes]
          /\ UNCHANGED disk
       \/ /\ fd[t] = "page"
          /\ disk' = [disk EXCEPT ![job[t].key] = job[t].bytes]
          /\ UNCHANGED tmp
       \/ /\ fd[t] = "none"
          /\ UNCHANGED <<disk, tmp>>
    /\ fd' = [fd EXCEPT ![t] = "none"]
    /\ pc' = [pc EXCEPT ![t] = "rename"]
    /\ UNCHANGED <<manifest, mode, local, job, calls, session, made, flushed, dirty, spoiled>>

(* The file cannot be opened: nothing tests the stream, and the rename runs. *)
OpenFails(t) ==
    /\ pc[t] = "open"
    /\ pc' = [pc EXCEPT ![t] = "rename"]
    /\ spoiled' = spoiled \cup {job[t].key}
    /\ UNCHANGED <<disk, tmp, manifest, mode, local, job, fd, calls, session, made, flushed, dirty>>

(* The bytes do not fit: nothing tests the stream, the file stays cut short. *)
PutFails(t) ==
    /\ pc[t] = "put"
    /\ fd' = [fd EXCEPT ![t] = "none"]
    /\ pc' = [pc EXCEPT ![t] = "rename"]
    /\ spoiled' = spoiled \cup {job[t].key}
    /\ UNCHANGED <<disk, tmp, manifest, mode, local, job, calls, session, made, flushed, dirty>>

(* Other streams open on the same temporary file follow it to its new name,  *)
(* and those open on the page it replaces are left with an unlinked file.    *)
(* With no temporary file to rename the error is ignored.                    *)
Relink(k) ==
    [u \in Thread |->
        IF job[u].key # k THEN fd[u]
        ELSE IF fd[u] = "tmp" THEN "page" ELSE "none"]

Rename(t) ==
    /\ pc[t] = "rename"
    /\ LET k == job[t].key IN
          \/ /\ tmp[k] # Absent
             /\ disk' = [disk EXCEPT ![k] = tmp[k]]
             /\ tmp' = [tmp EXCEPT ![k] = Absent]
             /\ fd' = Relink(k)
             /\ flushed' = flushed \cup {k}
          \/ /\ tmp[k] = Absent
             /\ UNCHANGED <<disk, tmp, fd, flushed, spoiled>>
    /\ pc' = [pc EXCEPT ![t] = "idle"]
    /\ UNCHANGED <<manifest, mode, local, job, calls, session, made, dirty, spoiled>>

(* keep: a page left alone, its hash carried forward.  Nothing compares it   *)
(* with what this session may have produced for the key already.             *)
Keep(k) ==
    /\ mode = "run" /\ calls < MaxCalls
    /\ Reusable(previous, disk, k)
    /\ calls' = calls + 1
    /\ expected' = expected \cup {k}
    /\ current' = [current EXCEPT ![k] = previous[k]]
    /\ made' = [made EXCEPT ![k] = @ \cup {previous[k]}]
    /\ spoiled' = IF k \in expected THEN spoiled \cup {k} ELSE spoiled
    /\ UNCHANGED <<disk, tmp, manifest, mode, force, previous, changed, collisions,
                   pc, job, fd, session, flushed, dirty>>

Call(t) ==
    \/ \E k \in Key, v \in Bytes : Write(t, k, v)
    \/ Open(t) \/ OpenFails(t) \/ Put(t) \/ PutFails(t) \/ Rename(t)

Next ==
    \/ \E f \in BOOLEAN : Begin(f)
    \/ Abandon \/ PruneStep \/ SaveOpen \/ SaveText \/ Kill
    \/ \E k \in Key : Disturb(k) \/ Keep(k)
    \/ \E t \in Thread : Call(t)

Spec == Init /\ [][Next]_vars

-----------------------------------------------------------------------------
(* Properties *)

(* "Every write goes to a temporary file and is renamed into place, so a     *)
(* build killed partway leaves either the old page or the new one": at no    *)
(* moment is a page cut short, unless two threads wrote it at once or the    *)
(* file could not be written.                                                *)
NoTornPage == \A k \in Key \ spoiled : disk[k] # Torn

(* The manifest, which later builds believe without reading a page back,     *)
(* says what is on disk for every page but those a session that was never    *)
(* saved left behind and no saved session has rewritten, and those spoiled.  *)
ManifestTruthful ==
    mode = "idle" /\ manifest # Torn =>
        \A k \in Key \ (dirty \cup spoiled) :
            manifest[k] # Absent => disk[k] \in {manifest[k], Absent}

(* "Paths produced twice in one build with different content ... reported":  *)
(* a session reaches its save only if each key has one result, kept or       *)
(* written (keep itself reports nothing: a key kept late is spoiled).        *)
OneResultPerKey ==
    mode \in {"pruned", "saving"} => \A k \in Key \ spoiled : \A v, w \in made[k] : v = w

(* After a saved session the output directory holds exactly what was         *)
(* produced, and no temporary file, also where the output was disturbed or   *)
(* an earlier session was killed.                                            *)
OutputIsExpected ==
    mode \in {"pruned", "saving"} =>
        /\ tmp = NoEntries
        /\ \A k \in Key : disk[k] # Absent => k \in expected
        /\ \A k \in expected \ spoiled : disk[k] # Absent

(* The report lists every page whose bytes the session replaced: what the    *)
(* preview tells open pages to refresh.                                      *)
ChangesReported == [][\A k \in Key :
    mode = "run" /\ disk'[k] # disk[k] /\ mode' = "run" => k \in changed]_vars

Promise == INSTANCE Output WITH
    pages  <- [k \in Key |-> IF k \in spoiled THEN Absent ELSE disk[k]],
    asked  <- made,
    landed <- flushed,
    stale  <- dirty,
    lost   <- spoiled,
    phase  <- IF mode \in {"idle", "run"} THEN mode ELSE "done"

(* Seen by the build, the writer is Output: threads, temporary files and the *)
(* manifest apart, every step of it asks for a page, replaces one as a       *)
(* whole, commits the tree, saves, gives up or cannot be seen.               *)
KeepsPagesWhole == Promise!Spec

-----------------------------------------------------------------------------
(* The inductive invariant behind these *)

(* A key in flight, unless spoiled, belongs to one thread, whose temporary   *)
(* file it is.                                                               *)
FlightInv ==
    /\ \A t \in Thread : pc[t] # "idle" => mode = "run" /\ job[t].key \in expected
    /\ \A t \in Thread : pc[t] # "put" => fd[t] = "none"
    /\ \A t \in Thread : pc[t] # "idle" /\ job[t].key \notin spoiled =>
          /\ current[job[t].key] = job[t].bytes
          /\ pc[t] = "put" => fd[t] = "tmp"
          /\ pc[t] = "rename" => tmp[job[t].key] = job[t].bytes
          /\ \A u \in Thread : pc[u] # "idle" /\ t # u => job[u].key # job[t].key

(* What was produced is what has a hash, and one result unless reported. *)
ProducedInv ==
    /\ \A k \in Key : k \in expected <=> current[k] # Absent
    /\ \A k \in Key \ (collisions \cup spoiled) : made[k] \subseteq {current[k]}
    /\ flushed \subseteq expected
    /\ mode \in {"pruned", "saving"} => collisions = {}

(* The loaded manifest is right about the pages this session has not         *)
(* touched, and the new one about those it has.                              *)
TruthInv ==
    /\ mode \in {"run", "pruned"} => previous = LoadManifest(manifest)
    /\ mode \in {"run", "pruned"} => \A k \in Key \ (dirty \cup flushed \cup spoiled) :
          previous[k] # Absent => disk[k] \in {previous[k], Absent}
    /\ mode # "idle" => \A k \in expected \ (collisions \cup spoiled) :
          (k \in flushed \/ k \notin dirty) /\ (\A t \in Thread : ~InFlight(t, k))
             => disk[k] = current[k]
    /\ mode = "saving" => manifest = Torn

(* A page that was produced and is in nobody's hands is there, and a page in *)
(* somebody's hands is in the report.                                        *)
OutputInv ==
    /\ mode = "run" => \A k \in expected \ spoiled :
          (\A t \in Thread : ~InFlight(t, k)) => disk[k] # Absent
    /\ \A t \in Thread : pc[t] # "idle" => job[t].key \in changed

(* Whatever is on its way to a page, or has a hash, was asked for. *)
AskedInv ==
    /\ \A k \in Key : k \in expected <=> made[k] # {}
    /\ \A k \in expected : current[k] \in made[k]
    /\ \A t \in Thread : pc[t] # "idle" => job[t].bytes \in made[job[t].key]

WriterInv ==
    /\ TypeOK
    /\ AskedInv
    /\ NoTornPage
    /\ FlightInv
    /\ ProducedInv
    /\ TruthInv
    /\ ManifestTruthful
    /\ OutputInv
    /\ OutputIsExpected

=============================================================================
