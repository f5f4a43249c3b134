---------------------------- MODULE WatchProofs -----------------------------
(***************************************************************************)
(* Once the server is ready no save in a directory the watcher knows is    *)
(* forgotten, for every set of directories and any number of saves, with   *)
(* either backend.                                                         *)
(***************************************************************************)
EXTENDS Watch, TLAPS

USE WatchAssumption

(* The thread starts with nothing watched and nothing owed. *)
LEMMA WatchInit == Init => WatchInv
  <1>1. Init => made \in SUBSET Dir
    BY DEF Init
  <1>2. Init => TypeOK
    <2>1. Init => edits \in 0..MaxEdit
      BY DEF Init
    <2>2. Init => open \in BOOLEAN /\ pending \in BOOLEAN /\ watching \in BOOLEAN /\ stopping \in BOOLEAN
      BY DEF Init
    <2>3. QED
      BY <1>1, <2>1, <2>2 DEF Init, TypeOK
  <1>3. QED
    BY <1>2 DEF Init, WatchInv, SavesAreRemembered, Asleep, Unknown

(* The owner's steps: a save is seen by the watcher, or comes too early to   *)
(* be owed.                                                                  *)
LEMMA OwnerStep ==
  ASSUME WatchInv,
         Stop \/ \E d \in Dir : Save(d) \/ MakeDir(d)
  PROVE  WatchInv'
  <1>1. CASE Stop
    BY <1>1 DEF Stop, WatchInv, TypeOK, SavesAreRemembered, Asleep, Sees, Unknown
  <1>2. ASSUME NEW d \in Dir, Save(d) PROVE WatchInv'
    BY <1>2 DEF Save, WatchInv, TypeOK, SavesAreRemembered, Asleep, Sees, Unknown
  <1>3. ASSUME NEW d \in Dir, MakeDir(d) PROVE WatchInv'
    <2>2. TypeOK'
      BY <1>3 DEF MakeDir, WatchInv, TypeOK, Sees
    <2>3. QED
      BY <1>3, <2>2 DEF MakeDir, WatchInv, TypeOK, SavesAreRemembered, Asleep, Sees, Unknown
  <1>4. QED
    BY <1>1, <1>2, <1>3

(* The watch thread's steps: what it drains it is about to build. *)
LEMMA ThreadStep ==
  ASSUME WatchInv, WatchStep
  PROVE  WatchInv'
  <1>1. CASE ListDirectories
    BY <1>1 DEF ListDirectories, WatchInv, TypeOK, SavesAreRemembered, Asleep, Sees, Unknown
  <1>2. CASE Opened
    BY <1>2 DEF Opened, WatchInv, TypeOK, SavesAreRemembered, Asleep, Sees, Unknown
  <1>3. CASE OpenFails
    BY <1>3 DEF OpenFails, WatchInv, TypeOK, SavesAreRemembered, Asleep, Sees, Unknown
  <1>4. CASE Loop
    BY <1>4 DEF Loop, WatchInv, TypeOK, SavesAreRemembered, Asleep, Sees, Unknown
  <1>5. CASE Wait
    BY <1>5 DEF Wait, WatchInv, TypeOK, SavesAreRemembered, Asleep, Sees, Unknown
  <1>6. CASE Debounce
    BY <1>6 DEF Debounce, WatchInv, TypeOK, SavesAreRemembered, Asleep, Sees, Unknown
  <1>7. CASE Check
    BY <1>7 DEF Check, WatchInv, TypeOK, SavesAreRemembered, Asleep, Sees, Unknown
  <1>8. CASE BuildEnds
    BY <1>8 DEF BuildEnds, WatchInv, TypeOK, SavesAreRemembered, Asleep, Sees, Unknown
  <1>9. ASSUME NEW d \in Dir, AddWatch(d) PROVE WatchInv'
    BY <1>9 DEF AddWatch, WatchInv, TypeOK, SavesAreRemembered, Asleep, Sees, Unknown
  <1>10. ASSUME NEW d \in Dir, BuildReads(d) PROVE WatchInv'
    BY <1>10 DEF BuildReads, WatchInv, TypeOK, SavesAreRemembered, Asleep, Sees, Unknown
  <1>11. ASSUME NEW d \in Dir, PassOver(d) PROVE WatchInv'
    BY <1>11 DEF PassOver, WatchInv, TypeOK, SavesAreRemembered, Asleep, Sees, Unknown
  <1>12. QED
    BY <1>1, <1>2, <1>3, <1>4, <1>5, <1>6, <1>7, <1>8, <1>9, <1>10, <1>11 DEF WatchStep

(* The invariant holds with both backends, whatever directories appear.      *)
THEOREM WatchInvariant == Spec => []WatchInv
  <1>1. WatchInv /\ [Next]_vars => WatchInv'
    <2>1. ASSUME WatchInv, Next PROVE WatchInv'
      BY <2>1, OwnerStep, ThreadStep DEF Next
    <2>2. ASSUME WatchInv, UNCHANGED vars PROVE WatchInv'
      BY <2>2 DEF vars, WatchInv, TypeOK, SavesAreRemembered, Asleep, Sees, Unknown
    <2>3. QED
      BY <2>1, <2>2
  <1>2. QED
    BY <1>1, WatchInit, PTL DEF Spec

(* A save made once the server is ready, in a directory that was there when  *)
(* inotify started or anywhere under FSEvents, is held as an event or is about to be read by a build, whatever the saves, stops and *)
(* builds around it.                                                         *)
THEOREM WatchRemembers == Spec => []SavesAreRemembered
  <1>1. WatchInv => SavesAreRemembered
    BY DEF WatchInv, SavesAreRemembered, Asleep, Unknown
  <1>2. QED
    BY <1>1, WatchInvariant, PTL

=============================================================================
