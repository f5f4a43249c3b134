---------------------------- MODULE WriterRules -----------------------------
(***************************************************************************)
(* The decisions of blogin::Writer (writer.cpp) as operators: what a write *)
(* skips, what counts as a collision, what may be kept, what an unreadable *)
(* manifest means.  Writer steps them thread by thread; Build uses them    *)
(* one call at a time.                                                     *)
(*                                                                         *)
(* A manifest maps every output key to the hash of its bytes, or Absent.   *)
(* content_hash is taken to be injective, so a hash is the bytes.          *)
(***************************************************************************)
CONSTANTS
    Key,      \* output paths relative to the root
    Absent,   \* no such file, no such entry
    Torn      \* a file cut short: a truncated page, an unparseable document

NoEntries == [k \in Key |-> Absent]

(* load_manifest: a missing, empty or unparseable manifest leaves previous_ empty. *)
LoadManifest(stored) == IF stored = Torn THEN NoEntries ELSE stored

(* Mutant: --force does not reach the writer. *)
SkipsForced(force, previous, disk, k, v) == previous[k] = v /\ disk[k] # Absent

(* write, under the mutex: the bytes of the last build are still there. *)
Skips(force, previous, disk, k, v) ==
    ~force /\ previous[k] = v /\ disk[k] # Absent

(* write, under the mutex: this build already produced other bytes for k. *)
Collides(current, k, v) == current[k] \notin {Absent, v}

(* reusable, and the test of keep. *)
Reusable(previous, disk, k) == previous[k] # Absent /\ disk[k] # Absent

(* prune: what was not produced is removed; the manifest and the state are not keys. *)
Prune(disk, expected) == [k \in Key |-> IF k \in expected THEN disk[k] ELSE Absent]

=============================================================================
