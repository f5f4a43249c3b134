------------------------------- MODULE Output -------------------------------
(***************************************************************************)
(* What blogin::Writer (writer.cpp) promises the build, with no threads,   *)
(* temporary files, hashes or manifest in it: pages are asked for and      *)
(* replaced as wholes, at some moment after they were asked for; the tree  *)
(* is committed only with one result for each page, and then holds the     *)
(* pages asked for and no others.  Two things are not promised: that a     *)
(* page on which two calls met or whose file failed is right (lost), and   *)
(* that a page left by a session that was not saved is noticed when a      *)
(* later one does not replace it (stale).                                  *)
(***************************************************************************)
CONSTANTS Key, Bytes, Absent
VARIABLES
    pages,      \* what is on disk, of the keys that are not lost
    asked,      \* what this session was asked for, by key
    landed,     \* the keys this session has replaced
    stale, lost,
    phase       \* "idle", "run" or, once the tree is committed, "done"

promised == <<pages, asked, landed, stale, lost, phase>>

Init ==
    /\ pages = [k \in Key |-> Absent] /\ asked = [k \in Key |-> {}]
    /\ landed = {} /\ stale = {} /\ lost = {}
    /\ phase = "idle"

Start ==
    /\ phase = "idle" /\ phase' = "run"
    /\ asked' = [k \in Key |-> {}] /\ landed' = {}
    /\ UNCHANGED <<pages, stale, lost>>

(* Gives up the keys of a set. *)
Losing(keys) ==
    /\ lost' = lost \cup keys
    /\ pages' = [k \in Key |-> IF k \in keys THEN Absent ELSE pages[k]]

(* write and keep, which may give up a key that was asked for already. *)
Ask(k, v) ==
    /\ phase = "run"
    /\ asked' = [asked EXCEPT ![k] = @ \cup {v}]
    /\ Losing({}) \/ (asked[k] # {} /\ Losing({k}))
    /\ UNCHANGED <<landed, stale, phase>>

(* The page is replaced, from one moment to the next. *)
Land(k, v) ==
    /\ phase = "run" /\ v \in asked[k]
    /\ pages' = [pages EXCEPT ![k] = IF k \in lost THEN @ ELSE v]
    /\ landed' = landed \cup {k}
    /\ UNCHANGED <<asked, stale, lost, phase>>

Fail(k) ==
    /\ phase = "run" /\ asked[k] # {}
    /\ Losing({k})
    /\ UNCHANGED <<asked, landed, stale, phase>>

(* The page is there, the only one asked for under its key, and unless it    *)
(* was stale and not replaced it has the bytes asked for.                    *)
Settled(k) ==
    \E v \in Bytes :
        /\ asked[k] = {v}
        /\ pages[k] # Absent
        /\ k \in landed \/ k \notin stale => pages[k] = v

Commit ==
    /\ phase = "run" /\ phase' = "done"
    /\ \A k \in Key \ lost : asked[k] = {} \/ Settled(k)
    /\ pages' = [k \in Key |-> IF asked[k] = {} THEN Absent ELSE pages[k]]
    /\ UNCHANGED <<asked, landed, stale, lost>>

Save ==
    /\ phase = "done" /\ phase' = "idle"
    /\ stale' = stale \ landed
    /\ UNCHANGED <<pages, asked, landed, lost>>

(* An error, or the end of the process. *)
Quit ==
    /\ phase # "idle" /\ phase' = "idle"
    /\ stale' = stale \cup landed
    /\ UNCHANGED <<pages, asked, landed, lost>>

(* Somebody else deletes a page between sessions. *)
Remove(k) ==
    /\ phase = "idle"
    /\ pages' = [pages EXCEPT ![k] = Absent]
    /\ UNCHANGED <<asked, landed, stale, lost, phase>>

Next ==
    \/ Start \/ Commit \/ Save \/ Quit
    \/ \E k \in Key : Fail(k) \/ Remove(k)
    \/ \E k \in Key, v \in Bytes : Ask(k, v) \/ Land(k, v)

Spec == Init /\ [][Next]_promised
=============================================================================
