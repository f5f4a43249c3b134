------------------------- MODULE ConnectionsProofs --------------------------
(***************************************************************************)
(* Every socket `blogin serve` accepts has one owner until it is closed,   *)
(* for any number of connections and of descriptor numbers.                *)
(***************************************************************************)
EXTENDS Connections, TLAPS

(* At the start nothing is open and no thread runs. *)
LEMMA ConnInit == Init => ConnInv
  <1> USE ConnectionsAssumption
  <1>1. SUFFICES ASSUME Init PROVE ConnInv
    OBVIOUS
  <1>2. TypeOK
    BY <1>1 DEF Init, TypeOK, Serving
  <1>3. Listing
    BY <1>1 DEF Init, Listing
  <1>4. Flags
    BY <1>1 DEF Init, Flags
  <1>5. PushList /\ Ownership
    BY <1>1 DEF Init, PushList, Ownership, Owned, Held, Pushable
  <1>6. QED
    BY <1>2, <1>3, <1>4, <1>5 DEF ConnInv


(* A running thread's move leaves the listing as it was. *)
LEMMA ThreadKeepsListing ==
  ASSUME Listing, NEW c \in Conn, NEW pc, NEW S,
         tpc \in [Conn -> S], tpc' = [tpc EXCEPT ![c] = pc],
         tpc[c] \notin {"none", "ended"}, pc # "none",
         UNCHANGED <<peer, fd, mpc, taken, connections>>
  PROVE  Listing'
  <1>1. tpc'[c] = pc
    OBVIOUS
  <1>2. \A d \in Conn : d # c => tpc'[d] = tpc[d]
    OBVIOUS
  <1>3. c \in connections \cup {taken}
    BY DEF Listing
  <1>4. \A d \in Conn : tpc'[d] = "none" <=> tpc[d] = "none"
    BY <1>1, <1>2
  <1>5. \A d \in Conn : tpc'[d] \notin {"none", "ended"} => d \in connections \cup {taken}
    BY <1>1, <1>2, <1>3 DEF Listing
  <1>6. QED
    BY <1>4, <1>5 DEF Listing

(* A step of one thread keeps the flags if its own still tell what it did. *)
LEMMA FlagsOfOne ==
  ASSUME Flags, NEW c \in Conn,
         \A d \in Conn : d # c => /\ tpc'[d] = tpc[d] /\ done'[d] = done[d]
                                  /\ was_upgraded'[d] = was_upgraded[d]
                                  /\ upgraded'[d] = upgraded[d],
         done'[c] = (tpc'[c] = "ended"),
         tpc'[c] \in {"finish", "ended"} => was_upgraded'[c] = upgraded'[c],
         upgraded'[c] => tpc'[c] \in {"log", "flag", "finish", "ended"}
  PROVE  Flags'
  <1>1. ASSUME NEW d \in Conn, d # c
        PROVE  /\ done'[d] = (tpc'[d] = "ended")
               /\ tpc'[d] \in {"finish", "ended"} => was_upgraded'[d] = upgraded'[d]
               /\ upgraded'[d] => tpc'[d] \in {"log", "flag", "finish", "ended"}
    <2>1. /\ done[d] = (tpc[d] = "ended")
          /\ tpc[d] \in {"finish", "ended"} => was_upgraded[d] = upgraded[d]
          /\ upgraded[d] => tpc[d] \in {"log", "flag", "finish", "ended"}
      BY DEF Flags
    <2>2. QED
      BY <1>1, <2>1
  <1>2. QED
    BY <1>1, Zenon DEF Flags

(* A thread that serves or logs may go on before it flags.                   *)
LEMMA ThreadKeepsFlags ==
  ASSUME TypeOK, Flags, NEW c \in Conn, NEW pc, tpc' = [tpc EXCEPT ![c] = pc],
         tpc[c] \in Serving \cup {"log"}, pc = "flag" \/ (pc \in Serving /\ tpc[c] \in Serving),
         UNCHANGED <<upgraded, was_upgraded, done>>
  PROVE  Flags'
  <1>1. tpc'[c] = pc /\ \A d \in Conn : d # c => tpc'[d] = tpc[d]
    BY DEF TypeOK
  <1>2. pc \notin {"finish", "ended"} /\ tpc[c] # "ended"
    BY DEF Serving
  <1>3. done[c] = (tpc[c] = "ended") /\ (upgraded[c] => tpc[c] \notin Serving)
    BY DEF Flags, Serving
  <1>4. done'[c] = (tpc'[c] = "ended")
    BY <1>1, <1>2, <1>3
  <1>5. upgraded'[c] => tpc'[c] \in {"log", "flag", "finish", "ended"}
    BY <1>1, <1>3
  <1>6. QED
    BY <1>1, <1>2, <1>4, <1>5, FlagsOfOne

(* Owners and numbers stay if no entry, upgrade or push is touched. *)
LEMMA OwnershipStays ==
  ASSUME Ownership, UNCHANGED <<at, fd, taken, connections, upgraded>>, Pushable' = Pushable
  PROVE  Ownership'
  <1>1. \A c \in Conn : Owned(c)' = Owned(c)
    BY DEF Owned, Held
  <1>2. QED
    BY <1>1 DEF Ownership

(* A connection whose thread runs and that is not upgraded owns its number. *)
LEMMA RunningHeld ==
  ASSUME TypeOK, Listing, Flags, NEW c \in Conn, tpc[c] \in Serving
  PROVE  Held(c) /\ c \notin {d \in Conn : upgraded[d]}
  <1>1. tpc[c] \notin {"none", "ended", "log", "flag", "finish"}
    BY DEF Serving
  <1>2. QED
    BY <1>1 DEF Listing, Flags, Held

(* Closing sockets their owners give up leaves every other owner its own. *)
LEMMA ClosingKeepsOwnership ==
  ASSUME Ownership, None \notin Conn, NEW cs \in SUBSET Conn, at \in [Fd -> Conn \cup {None,
  Other}],
         \A c \in cs : Owned(c), Close(cs), fd' = fd,
         \A d \in Conn : Owned(d)' <=> Owned(d) /\ d \notin cs
  PROVE  Ownership'
  <1>1. \A f \in Fd : at'[f] = IF \E c \in cs : fd[c] = f THEN None ELSE at[f]
    BY DEF Close
  <1>2. ASSUME NEW d \in Conn, Owned(d)' PROVE fd'[d] \in Fd /\ at'[fd'[d]] = d
    <2>1. Owned(d) /\ d \notin cs /\ fd[d] \in Fd /\ at[fd[d]] = d
      BY <1>2 DEF Ownership
    <2>2. \A c \in cs : at[fd[c]] = c
      BY DEF Ownership
    <2>3. \A c \in cs : fd[c] # fd[d]
      BY <2>1, <2>2
    <2>4. QED
      BY <1>1, <2>1, <2>3
  <1>3. ASSUME NEW f \in Fd, NEW d \in Conn, at'[f] = d PROVE fd'[d] = f /\ Owned(d)'
    <2>1. at[f] = d /\ \A c \in cs : fd[c] # f
      BY <1>1, <1>3
    <2>2. fd[d] = f /\ Owned(d) /\ d \notin cs
      BY <2>1 DEF Ownership
    <2>3. QED
      BY <2>2
  <1>4. QED
    BY <1>2, <1>3 DEF Ownership

(* The main thread accepts, joins, shuts down and closes. *)
LEMMA ConnMainStep ==
  ASSUME ConnInv, MainStep \/ \E c \in Conn : Accept(c)
  PROVE  ConnInv'
  <1> USE ConnectionsAssumption
  <1>0. TypeOK /\ Listing /\ Flags /\ PushList /\ Ownership
    BY DEF ConnInv
  <1> USE <1>0
  <1>1. CASE Loop
    <2>1. TypeOK'
      BY <1>1 DEF Loop, threads, watch, TypeOK
    <2>2. Listing'
      BY <1>1 DEF Loop, threads, watch, TypeOK, Listing, Flags
    <2>3. Flags'
      BY <1>1 DEF Loop, threads, watch, TypeOK, Flags, Listing
    <2>4. PushList'
      BY <1>1 DEF Loop, threads, watch, TypeOK, PushList, Flags, Listing
    <2>5. Ownership'
      <3>1. UNCHANGED <<at, fd, taken, connections, upgraded>>
        BY <1>1 DEF Loop, threads
      <3>2. Pushable' = Pushable
        BY <1>1 DEF Loop, watch, Pushable
      <3>3. QED
        BY <3>1, <3>2, OwnershipStays
    <2>6. QED
      BY <2>1, <2>2, <2>3, <2>4, <2>5 DEF ConnInv
  <1>2. CASE PollTimeout
    <2>1. TypeOK'
      BY <1>2 DEF PollTimeout, threads, watch, TypeOK
    <2>2. Listing'
      BY <1>2 DEF PollTimeout, threads, watch, TypeOK, Listing, Flags
    <2>3. Flags'
      BY <1>2 DEF PollTimeout, threads, watch, TypeOK, Flags, Listing
    <2>4. PushList'
      BY <1>2 DEF PollTimeout, threads, watch, TypeOK, PushList, Flags, Listing
    <2>5. Ownership'
      <3>1. UNCHANGED <<at, fd, taken, connections, upgraded>>
        BY <1>2 DEF PollTimeout, threads
      <3>2. Pushable' = Pushable
        BY <1>2 DEF PollTimeout, watch, Pushable
      <3>3. QED
        BY <3>1, <3>2, OwnershipStays
    <2>6. QED
      BY <2>1, <2>2, <2>3, <2>4, <2>5 DEF ConnInv
  <1>3. ASSUME NEW c \in Conn, Accept(c) PROVE ConnInv'
    <2>1. TypeOK'
      BY <1>3 DEF Accept, threads, watch, TypeOK
    <2>2. Listing'
      BY <1>3 DEF Accept, threads, watch, TypeOK, Listing, Flags
    <2>3. Flags'
      BY <1>3 DEF Accept, threads, watch, TypeOK, Flags, Listing
    <2>4. PushList'
      BY <1>3 DEF Accept, threads, watch, TypeOK, PushList, Flags, Listing
    <2>5. Ownership'
      BY <1>3 DEF Accept, threads, watch, TypeOK, Ownership, Owned, Held, Pushable, Flags,
             Listing, PushList
    <2>6. QED
      BY <2>1, <2>2, <2>3, <2>4, <2>5 DEF ConnInv
  <1>4. CASE Reap
    <2>1. TypeOK'
      BY <1>4 DEF Reap, Close, threads, watch, TypeOK
    <2>2. Listing'
      BY <1>4 DEF Reap, Close, threads, watch, TypeOK, Listing, Flags
    <2>3. Flags'
      BY <1>4 DEF Reap, Close, threads, watch, TypeOK, Flags, Listing
    <2>4. PushList'
      BY <1>4 DEF Reap, Close, threads, watch, TypeOK, PushList, Flags, Listing
    <2>5. Ownership'
      <3> DEFINE cs == {c \in connections : done[c] /\ ~was_upgraded[c]}
      <3>1. \A c \in connections : done[c] => (was_upgraded[c] <=> upgraded[c])
        BY DEF TypeOK, Flags
      <3>2. cs \in SUBSET Conn /\ \A c \in cs : Owned(c)
        BY <3>1 DEF TypeOK, Owned, Held
      <3>3. \A d \in Conn : Owned(d)' <=> Owned(d) /\ d \notin cs
        <4>1. cs \cap sockets = {} /\ cs \cap (due \cup living) = {}
          BY <3>1 DEF PushList
        <4>2. \A d \in Conn : d \in Pushable => d \notin cs
          BY <4>1 DEF Pushable
        <4>3. taken \notin cs
          BY DEF Listing
        <4>4. \A d \in Conn : Held(d)' <=> Held(d) /\ d \notin cs
          BY <1>4, <3>1, <4>3 DEF Reap, Held, threads
        <4>5. Pushable' = Pushable
          BY <1>4 DEF Reap, Pushable, watch
        <4>6. QED
          BY <4>2, <4>4, <4>5 DEF Owned
      <3>4. Close(cs) /\ fd' = fd
        BY <1>4 DEF Reap
      <3>5. QED
        BY <3>2, <3>3, <3>4, ClosingKeepsOwnership DEF TypeOK
    <2>6. QED
      BY <2>1, <2>2, <2>3, <2>4, <2>5 DEF ConnInv
  <1>5. CASE Spawn
    <2>1. TypeOK'
      BY <1>5 DEF Spawn, threads, watch, TypeOK, Listing, Serving
    <2>2. Listing'
      <3>1. taken \in Conn /\ tpc[taken] = "none" /\ peer[taken] # "new"
        BY <1>5 DEF Spawn, TypeOK, Listing
      <3>2. tpc'[taken] = "head" /\ \A c \in Conn : c # taken => tpc'[c] = tpc[c]
        BY <1>5, <3>1 DEF Spawn, TypeOK
      <3>3. mpc = "spawn" /\ mpc' = "list" /\ UNCHANGED <<peer, fd, taken, connections>>
        BY <1>5 DEF Spawn
      <3>4. QED
        BY <3>1, <3>2, <3>3 DEF Listing
    <2>3. Flags'
      BY <1>5 DEF Spawn, watch, TypeOK, Flags, Listing
    <2>4. PushList'
      BY <1>5 DEF Spawn, watch, TypeOK, PushList, Flags, Listing
    <2>5. Ownership'
      <3>1. UNCHANGED <<at, fd, taken, connections, upgraded>>
        BY <1>5 DEF Spawn
      <3>2. Pushable' = Pushable
        BY <1>5 DEF Spawn, watch, Pushable
      <3>3. QED
        BY <3>1, <3>2, OwnershipStays
    <2>6. QED
      BY <2>1, <2>2, <2>3, <2>4, <2>5 DEF ConnInv
  <1>6. CASE List
    <2>1. TypeOK'
      BY <1>6 DEF List, threads, watch, TypeOK, Listing, Serving
    <2>2. Listing'
      <3>1. taken \in Conn /\ tpc[taken] # "none"
        BY <1>6 DEF List, TypeOK, Listing
      <3>2. /\ mpc = "list" /\ mpc' = "loop" /\ taken' = None /\ connections' = connections \cup {taken}
            /\ UNCHANGED <<peer, fd, tpc>>
        BY <1>6 DEF List, threads
      <3>3. None \notin connections'
        BY <3>1, <3>2 DEF TypeOK
      <3>4. QED
        BY <3>1, <3>2, <3>3 DEF Listing
    <2>3. Flags'
      BY <1>6 DEF List, threads, watch, TypeOK, Flags, Listing
    <2>4. PushList'
      BY <1>6 DEF List, threads, watch, TypeOK, PushList, Flags, Listing
    <2>5. Ownership'
      BY <1>6 DEF List, threads, watch, TypeOK, Ownership, Owned, Held, Pushable, Flags, Listing,
             PushList
    <2>6. QED
      BY <2>1, <2>2, <2>3, <2>4, <2>5 DEF ConnInv
  <1>7. CASE JoinWatch
    <2>1. TypeOK'
      BY <1>7 DEF JoinWatch, threads, watch, TypeOK
    <2>2. Listing'
      BY <1>7 DEF JoinWatch, threads, watch, TypeOK, Listing, Flags
    <2>3. Flags'
      BY <1>7 DEF JoinWatch, threads, watch, TypeOK, Flags, Listing
    <2>4. PushList'
      BY <1>7 DEF JoinWatch, threads, watch, TypeOK, PushList, Flags, Listing
    <2>5. Ownership'
      <3>1. UNCHANGED <<at, fd, taken, connections, upgraded>>
        BY <1>7 DEF JoinWatch, threads
      <3>2. Pushable' = Pushable
        BY <1>7 DEF JoinWatch, watch, Pushable
      <3>3. QED
        BY <3>1, <3>2, OwnershipStays
    <2>6. QED
      BY <2>1, <2>2, <2>3, <2>4, <2>5 DEF ConnInv
  <1>8. CASE ShutConnections
    <2>1. TypeOK'
      BY <1>8 DEF ShutConnections, Shutdown, threads, watch, TypeOK
    <2>2. Listing'
      BY <1>8 DEF ShutConnections, Shutdown, threads, watch, TypeOK, Listing, Flags
    <2>3. Flags'
      BY <1>8 DEF ShutConnections, Shutdown, threads, watch, TypeOK, Flags, Listing
    <2>4. PushList'
      BY <1>8 DEF ShutConnections, Shutdown, threads, watch, TypeOK, PushList, Flags, Listing
    <2>5. Ownership'
      BY <1>8 DEF ShutConnections, Shutdown, threads, watch, TypeOK, Ownership, Owned, Held,
             Pushable, Flags, Listing, PushList
    <2>6. QED
      BY <2>1, <2>2, <2>3, <2>4, <2>5 DEF ConnInv
  <1>9. CASE ShutSockets
    <2>1. TypeOK'
      BY <1>9 DEF ShutSockets, Shutdown, threads, watch, TypeOK
    <2>2. Listing'
      BY <1>9 DEF ShutSockets, Shutdown, threads, watch, TypeOK, Listing, Flags
    <2>3. Flags'
      BY <1>9 DEF ShutSockets, Shutdown, threads, watch, TypeOK, Flags, Listing
    <2>4. PushList'
      BY <1>9 DEF ShutSockets, Shutdown, threads, watch, TypeOK, PushList, Flags, Listing
    <2>5. Ownership'
      BY <1>9 DEF ShutSockets, Shutdown, threads, watch, TypeOK, Ownership, Owned, Held,
             Pushable, Flags, Listing, PushList
    <2>6. QED
      BY <2>1, <2>2, <2>3, <2>4, <2>5 DEF ConnInv
  <1>10. ASSUME NEW c \in Conn, Release(c) PROVE ConnInv'
    <2>1. TypeOK'
      BY <1>10 DEF Release, Close, threads, watch, TypeOK
    <2>2. Listing'
      BY <1>10 DEF Release, Close, threads, watch, TypeOK, Listing, Flags
    <2>3. Flags'
      BY <1>10 DEF Release, Close, threads, watch, TypeOK, Flags, Listing
    <2>4. PushList'
      BY <1>10 DEF Release, Close, threads, watch, TypeOK, PushList, Flags, Listing
    <2>5. Ownership'
      <3>1. c \in connections /\ tpc[c] = "ended" /\ (was_upgraded[c] <=> upgraded[c])
        BY <1>10 DEF Release, Flags
      <3>2. Pushable' = Pushable
        BY <1>10 DEF Release, Pushable, watch
      <3>3. \A d \in Conn : Held(d)' <=> Held(d) /\ d # c
        BY <1>10, <3>1 DEF Release, Held, threads, Listing
      <3>4. CASE upgraded[c]
        <4>1. \A d \in Conn : Owned(d)' <=> Owned(d)
          BY <3>2, <3>3, <3>4 DEF Owned, Held
        <4>2. Close({}) /\ fd' = fd
          BY <1>10, <3>1, <3>4 DEF Release
        <4>3. QED
          BY <4>1, <4>2, ClosingKeepsOwnership DEF TypeOK
      <3>5. CASE ~upgraded[c]
        <4>1. Owned(c) /\ c \notin Pushable
          BY <3>1, <3>5 DEF Owned, Held, Pushable, PushList
        <4>2. \A d \in Conn : Owned(d)' <=> Owned(d) /\ d \notin {c}
          BY <3>2, <3>3, <4>1 DEF Owned
        <4>3. Close({c}) /\ fd' = fd
          BY <1>10, <3>1, <3>5 DEF Release
        <4>4. QED
          BY <4>1, <4>2, <4>3, ClosingKeepsOwnership DEF TypeOK
      <3>6. QED
        BY <3>4, <3>5
    <2>6. QED
      BY <2>1, <2>2, <2>3, <2>4, <2>5 DEF ConnInv
  <1>11. CASE Released
    <2>1. TypeOK'
      BY <1>11 DEF Released, threads, watch, TypeOK
    <2>2. Listing'
      BY <1>11 DEF Released, threads, watch, TypeOK, Listing, Flags
    <2>3. Flags'
      BY <1>11 DEF Released, threads, watch, TypeOK, Flags, Listing
    <2>4. PushList'
      BY <1>11 DEF Released, threads, watch, TypeOK, PushList, Flags, Listing
    <2>5. Ownership'
      <3>1. UNCHANGED <<at, fd, taken, connections, upgraded>>
        BY <1>11 DEF Released, threads
      <3>2. Pushable' = Pushable
        BY <1>11 DEF Released, watch, Pushable
      <3>3. QED
        BY <3>1, <3>2, OwnershipStays
    <2>6. QED
      BY <2>1, <2>2, <2>3, <2>4, <2>5 DEF ConnInv
  <1>12. CASE CloseSockets
    <2>1. TypeOK'
      BY <1>12 DEF CloseSockets, Close, threads, watch, TypeOK
    <2>2. Listing'
      BY <1>12 DEF CloseSockets, Close, threads, watch, TypeOK, Listing, Flags
    <2>3. Flags'
      BY <1>12 DEF CloseSockets, Close, threads, watch, TypeOK, Flags, Listing
    <2>4. PushList'
      BY <1>12 DEF CloseSockets, Close, threads, watch, TypeOK, PushList, Flags, Listing
    <2>5. Ownership'
      <3>1. wpc = "ended" /\ connections = {} /\ taken = None
        BY <1>12 DEF CloseSockets, Listing, PushList
      <3>2. Pushable = sockets /\ Pushable' = {}
        BY <1>12, <3>1 DEF CloseSockets, Pushable, watch
      <3>3. \A d \in Conn : ~Held(d) /\ ~Held(d)'
        BY <1>12, <3>1 DEF CloseSockets, Held
      <3>4. \A d \in Conn : Owned(d)' <=> Owned(d) /\ d \notin sockets
        BY <3>2, <3>3 DEF Owned
      <3>5. Close(sockets) /\ fd' = fd /\ \A d \in sockets : Owned(d)
        BY <1>12, <3>2 DEF CloseSockets, Owned
      <3>6. QED
        BY <3>4, <3>5, ClosingKeepsOwnership DEF TypeOK
    <2>6. QED
      BY <2>1, <2>2, <2>3, <2>4, <2>5 DEF ConnInv
  <1>13. QED
    BY <1>1, <1>2, <1>3, <1>4, <1>5, <1>6, <1>7, <1>8, <1>9, <1>10, <1>11, <1>12 DEF MainStep

(* A connection's thread serves, upgrades and ends. *)
LEMMA ConnThreadStep ==
  ASSUME ConnInv, NEW conn \in Conn, ThreadStep(conn) \/ Request(conn) \/ Upgrade(conn) \/ Throws(conn)
  PROVE  ConnInv'
  <1> USE ConnectionsAssumption
  <1>0. TypeOK /\ Listing /\ Flags /\ PushList /\ Ownership
    BY DEF ConnInv
  <1> USE <1>0
  <1>1. ASSUME NEW c \in Conn, Head(c) PROVE ConnInv'
    <2>1. TypeOK'
      BY <1>1 DEF Head, Goto, main, watch, TypeOK, Serving
    <2>2. Listing'
      <3>1. tpc \in [Conn -> Serving \cup {"none", "log", "flag", "finish", "ended"}]
        BY DEF TypeOK
      <3>2. tpc' = [tpc EXCEPT ![c] = IF stopping THEN "flag" ELSE "recv"] /\ tpc[c] \notin {"none", "ended"}
        BY <1>1 DEF Head, Goto, Serving
      <3>3. UNCHANGED <<peer, fd, mpc, taken, connections>>
        BY <1>1 DEF Head, main
      <3>4. QED
        BY <3>1, <3>2, <3>3, ThreadKeepsListing
    <2>3. Flags'
      <3>1. tpc[c] = "head" /\ UNCHANGED <<upgraded, was_upgraded, done>>
        BY <1>1 DEF Head
      <3>2. PICK pc \in {"recv", "flag"} : tpc' = [tpc EXCEPT ![c] = pc]
        BY <1>1 DEF Head, Goto
      <3>3. QED
        BY <3>1, <3>2, ThreadKeepsFlags DEF Serving
    <2>4. PushList'
      BY <1>1 DEF Head, Goto, main, watch, TypeOK, PushList, Flags, Listing, Serving
    <2>5. Ownership'
      <3>1. UNCHANGED <<at, fd, taken, connections, upgraded>>
        BY <1>1 DEF Head, main
      <3>2. Pushable' = Pushable
        BY <1>1 DEF Head, watch, Pushable
      <3>3. QED
        BY <3>1, <3>2, OwnershipStays
    <2>6. QED
      BY <2>1, <2>2, <2>3, <2>4, <2>5 DEF ConnInv
  <1>2. ASSUME NEW c \in Conn, RecvEnds(c) PROVE ConnInv'
    <2>1. TypeOK'
      BY <1>2 DEF RecvEnds, Goto, main, watch, TypeOK, Serving
    <2>2. Listing'
      <3>1. tpc \in [Conn -> Serving \cup {"none", "log", "flag", "finish", "ended"}]
        BY DEF TypeOK
      <3>2. tpc' = [tpc EXCEPT ![c] = "flag"] /\ tpc[c] \notin {"none", "ended"}
        BY <1>2 DEF RecvEnds, Goto, Serving
      <3>3. UNCHANGED <<peer, fd, mpc, taken, connections>>
        BY <1>2 DEF RecvEnds, main
      <3>4. QED
        BY <3>1, <3>2, <3>3, ThreadKeepsListing
    <2>3. Flags'
      <3>1. tpc[c] = "recv" /\ UNCHANGED <<upgraded, was_upgraded, done>>
        BY <1>2 DEF RecvEnds
      <3>2. PICK pc \in {"flag"} : tpc' = [tpc EXCEPT ![c] = pc]
        BY <1>2 DEF RecvEnds, Goto
      <3>3. QED
        BY <3>1, <3>2, ThreadKeepsFlags DEF Serving
    <2>4. PushList'
      BY <1>2 DEF RecvEnds, Goto, main, watch, TypeOK, PushList, Flags, Listing, Serving
    <2>5. Ownership'
      <3>1. UNCHANGED <<at, fd, taken, connections, upgraded>>
        BY <1>2 DEF RecvEnds, main
      <3>2. Pushable' = Pushable
        BY <1>2 DEF RecvEnds, watch, Pushable
      <3>3. QED
        BY <3>1, <3>2, OwnershipStays
    <2>6. QED
      BY <2>1, <2>2, <2>3, <2>4, <2>5 DEF ConnInv
  <1>3. ASSUME NEW c \in Conn, Request(c) PROVE ConnInv'
    <2>1. TypeOK'
      BY <1>3 DEF Request, Goto, main, watch, TypeOK, Serving
    <2>2. Listing'
      <3>1. tpc \in [Conn -> Serving \cup {"none", "log", "flag", "finish", "ended"}]
        BY DEF TypeOK
      <3>2. tpc' = [tpc EXCEPT ![c] = "reply"] /\ tpc[c] \notin {"none", "ended"}
        BY <1>3 DEF Request, Goto, Serving
      <3>3. UNCHANGED <<peer, fd, mpc, taken, connections>>
        BY <1>3 DEF Request, main
      <3>4. QED
        BY <3>1, <3>2, <3>3, ThreadKeepsListing
    <2>3. Flags'
      <3>1. tpc[c] = "recv" /\ UNCHANGED <<upgraded, was_upgraded, done>>
        BY <1>3 DEF Request
      <3>2. PICK pc \in {"reply"} : tpc' = [tpc EXCEPT ![c] = pc]
        BY <1>3 DEF Request, Goto
      <3>3. QED
        BY <3>1, <3>2, ThreadKeepsFlags DEF Serving
    <2>4. PushList'
      BY <1>3 DEF Request, Goto, main, watch, TypeOK, PushList, Flags, Listing, Serving
    <2>5. Ownership'
      <3>1. UNCHANGED <<at, fd, taken, connections, upgraded>>
        BY <1>3 DEF Request, main
      <3>2. Pushable' = Pushable
        BY <1>3 DEF Request, watch, Pushable
      <3>3. QED
        BY <3>1, <3>2, OwnershipStays
    <2>6. QED
      BY <2>1, <2>2, <2>3, <2>4, <2>5 DEF ConnInv
  <1>4. ASSUME NEW c \in Conn, Reply(c) PROVE ConnInv'
    <2>1. TypeOK'
      BY <1>4 DEF Reply, Goto, main, watch, TypeOK, Serving
    <2>2. Listing'
      <3>1. tpc \in [Conn -> Serving \cup {"none", "log", "flag", "finish", "ended"}]
        BY DEF TypeOK
      <3>2. PICK pc \in {"head", "flag"} : tpc' = [tpc EXCEPT ![c] = pc]
        BY <1>4 DEF Reply, Goto
      <3>3. tpc[c] \notin {"none", "ended"} /\ pc # "none"
        BY <1>4 DEF Reply
      <3>4. UNCHANGED <<peer, fd, mpc, taken, connections>>
        BY <1>4 DEF Reply, main
      <3>5. QED
        BY <3>1, <3>2, <3>3, <3>4, ThreadKeepsListing
    <2>3. Flags'
      <3>1. tpc[c] = "reply" /\ UNCHANGED <<done, was_upgraded, upgraded>>
        BY <1>4 DEF Reply
      <3>2. PICK pc \in {"head", "flag"} : tpc' = [tpc EXCEPT ![c] = pc]
        BY <1>4 DEF Reply, Goto
      <3>3. QED
        BY <3>1, <3>2, ThreadKeepsFlags DEF Serving
    <2>4. PushList'
      BY <1>4 DEF Reply, Goto, main, watch, TypeOK, PushList, Flags, Listing, Serving
    <2>5. Ownership'
      <3>1. UNCHANGED <<at, fd, taken, connections, upgraded>>
        BY <1>4 DEF Reply, main
      <3>2. Pushable' = Pushable
        BY <1>4 DEF Reply, watch, Pushable
      <3>3. QED
        BY <3>1, <3>2, OwnershipStays
    <2>6. QED
      BY <2>1, <2>2, <2>3, <2>4, <2>5 DEF ConnInv
  <1>5. ASSUME NEW c \in Conn, Upgrade(c) PROVE ConnInv'
    <2>1. TypeOK'
      BY <1>5 DEF Upgrade, Goto, main, watch, TypeOK, Serving
    <2>2. Listing'
      <3>1. tpc \in [Conn -> Serving \cup {"none", "log", "flag", "finish", "ended"}]
        BY DEF TypeOK
      <3>2. tpc' = [tpc EXCEPT ![c] = "greet"] /\ tpc[c] \notin {"none", "ended"}
        BY <1>5 DEF Upgrade, Goto, Serving
      <3>3. UNCHANGED <<peer, fd, mpc, taken, connections>>
        BY <1>5 DEF Upgrade, main
      <3>4. QED
        BY <3>1, <3>2, <3>3, ThreadKeepsListing
    <2>3. Flags'
      <3>1. tpc[c] = "recv" /\ UNCHANGED <<upgraded, was_upgraded, done>>
        BY <1>5 DEF Upgrade
      <3>2. PICK pc \in {"greet"} : tpc' = [tpc EXCEPT ![c] = pc]
        BY <1>5 DEF Upgrade, Goto
      <3>3. QED
        BY <3>1, <3>2, ThreadKeepsFlags DEF Serving
    <2>4. PushList'
      BY <1>5 DEF Upgrade, Goto, main, watch, TypeOK, PushList, Flags, Listing, Serving
    <2>5. Ownership'
      <3>1. UNCHANGED <<at, fd, taken, connections, upgraded>>
        BY <1>5 DEF Upgrade, main
      <3>2. Pushable' = Pushable
        BY <1>5 DEF Upgrade, watch, Pushable
      <3>3. QED
        BY <3>1, <3>2, OwnershipStays
    <2>6. QED
      BY <2>1, <2>2, <2>3, <2>4, <2>5 DEF ConnInv
  <1>6. ASSUME NEW c \in Conn, Greet(c) PROVE ConnInv'
    <2>1. TypeOK'
      BY <1>6 DEF Greet, Goto, main, watch, TypeOK, Serving
    <2>2. Listing'
      <3>1. tpc \in [Conn -> Serving \cup {"none", "log", "flag", "finish", "ended"}]
        BY DEF TypeOK
      <3>2. tpc' = [tpc EXCEPT ![c] = "register"] /\ tpc[c] \notin {"none", "ended"}
        BY <1>6 DEF Greet, Goto, Serving
      <3>3. UNCHANGED <<peer, fd, mpc, taken, connections>>
        BY <1>6 DEF Greet, main
      <3>4. QED
        BY <3>1, <3>2, <3>3, ThreadKeepsListing
    <2>3. Flags'
      <3>1. tpc[c] = "greet" /\ UNCHANGED <<upgraded, was_upgraded, done>>
        BY <1>6 DEF Greet
      <3>2. PICK pc \in {"register"} : tpc' = [tpc EXCEPT ![c] = pc]
        BY <1>6 DEF Greet, Goto
      <3>3. QED
        BY <3>1, <3>2, ThreadKeepsFlags DEF Serving
    <2>4. PushList'
      BY <1>6 DEF Greet, Goto, main, watch, TypeOK, PushList, Flags, Listing, Serving
    <2>5. Ownership'
      <3>1. UNCHANGED <<at, fd, taken, connections, upgraded>>
        BY <1>6 DEF Greet, main
      <3>2. Pushable' = Pushable
        BY <1>6 DEF Greet, watch, Pushable
      <3>3. QED
        BY <3>1, <3>2, OwnershipStays
    <2>6. QED
      BY <2>1, <2>2, <2>3, <2>4, <2>5 DEF ConnInv
  <1>7. ASSUME NEW c \in Conn, Register(c) PROVE ConnInv'
    <2>1. TypeOK'
      BY <1>7 DEF Register, Goto, main, watch, TypeOK, Serving
    <2>2. Listing'
      <3>1. tpc \in [Conn -> Serving \cup {"none", "log", "flag", "finish", "ended"}]
        BY DEF TypeOK
      <3>2. tpc' = [tpc EXCEPT ![c] = "log"] /\ tpc[c] \notin {"none", "ended"}
        BY <1>7 DEF Register, Goto, Serving
      <3>3. UNCHANGED <<peer, fd, mpc, taken, connections>>
        BY <1>7 DEF Register, main
      <3>4. QED
        BY <3>1, <3>2, <3>3, ThreadKeepsListing
    <2>3. Flags'
      <3>1. /\ tpc[c] = "register" /\ tpc' = [tpc EXCEPT ![c] = "log"]
            /\ upgraded' = [upgraded EXCEPT ![c] = TRUE] /\ UNCHANGED <<was_upgraded, done>>
        BY <1>7 DEF Register, Goto
      <3>2. tpc'[c] = "log" /\ \A d \in Conn : d # c => tpc'[d] = tpc[d] /\ upgraded'[d] = upgraded[d]
        BY <3>1 DEF TypeOK
      <3>3. done'[c] = (tpc'[c] = "ended")
        BY <3>1, <3>2 DEF Flags
      <3>4. QED
        BY <3>1, <3>2, <3>3, FlagsOfOne
    <2>4. PushList'
      <3>1. /\ sockets' = sockets \cup {c} /\ upgraded' = [upgraded EXCEPT ![c] = TRUE]
            /\ wpc # "push" /\ tpc[c] = "register" /\ UNCHANGED <<mpc, wpc, due, living>>
        BY <1>7 DEF Register, main, watch
      <3>2. ASSUME NEW d \in sockets' PROVE upgraded'[d]
        <4>1. upgraded \in [Conn -> BOOLEAN] /\ d \in Conn
          BY <3>1, <3>2 DEF TypeOK
        <4>2. d # c => upgraded[d]
          BY <3>1, <3>2 DEF PushList
        <4>3. QED
          BY <3>1, <4>1, <4>2
      <3>3. mpc # "ended"
        BY <3>1 DEF Listing
      <3>4. QED
        BY <3>1, <3>2, <3>3 DEF PushList
    <2>5. Ownership'
      <3>1. /\ sockets' = sockets \cup {c} /\ upgraded' = [upgraded EXCEPT ![c] = TRUE]
            /\ wpc # "push" /\ tpc[c] = "register"
            /\ UNCHANGED <<at, fd, taken, connections, wpc, due, living>>
        BY <1>7 DEF Register, main, watch
      <3>2. Held(c) /\ Pushable' = Pushable \cup {c}
        BY <3>1, RunningHeld DEF Serving, Pushable
      <3>3. \A d \in Conn : d # c => (Held(d)' <=> Held(d))
        BY <3>1 DEF Held, TypeOK
      <3>4. \A d \in Conn : Owned(d)' <=> Owned(d)
        BY <3>2, <3>3 DEF Owned
      <3>5. QED
        BY <3>1, <3>4 DEF Ownership
    <2>6. QED
      BY <2>1, <2>2, <2>3, <2>4, <2>5 DEF ConnInv
  <1>8. ASSUME NEW c \in Conn, Log(c) PROVE ConnInv'
    <2>1. TypeOK'
      BY <1>8 DEF Log, Goto, main, watch, TypeOK, Serving
    <2>2. Listing'
      <3>1. tpc \in [Conn -> Serving \cup {"none", "log", "flag", "finish", "ended"}]
        BY DEF TypeOK
      <3>2. tpc' = [tpc EXCEPT ![c] = "flag"] /\ tpc[c] \notin {"none", "ended"}
        BY <1>8 DEF Log, Goto, Serving
      <3>3. UNCHANGED <<peer, fd, mpc, taken, connections>>
        BY <1>8 DEF Log, main
      <3>4. QED
        BY <3>1, <3>2, <3>3, ThreadKeepsListing
    <2>3. Flags'
      <3>1. tpc[c] = "log" /\ UNCHANGED <<upgraded, was_upgraded, done>>
        BY <1>8 DEF Log
      <3>2. PICK pc \in {"flag"} : tpc' = [tpc EXCEPT ![c] = pc]
        BY <1>8 DEF Log, Goto
      <3>3. QED
        BY <3>1, <3>2, ThreadKeepsFlags DEF Serving
    <2>4. PushList'
      BY <1>8 DEF Log, Goto, main, watch, TypeOK, PushList, Flags, Listing, Serving
    <2>5. Ownership'
      <3>1. UNCHANGED <<at, fd, taken, connections, upgraded>>
        BY <1>8 DEF Log, main
      <3>2. Pushable' = Pushable
        BY <1>8 DEF Log, watch, Pushable
      <3>3. QED
        BY <3>1, <3>2, OwnershipStays
    <2>6. QED
      BY <2>1, <2>2, <2>3, <2>4, <2>5 DEF ConnInv
  <1>9. ASSUME NEW c \in Conn, Throws(c) PROVE ConnInv'
    <2>1. TypeOK'
      BY <1>9 DEF Throws, Shutdown, Goto, main, watch, TypeOK, Serving
    <2>2. Listing'
      <3>1. tpc \in [Conn -> Serving \cup {"none", "log", "flag", "finish", "ended"}]
        BY DEF TypeOK
      <3>2. tpc' = [tpc EXCEPT ![c] = "flag"] /\ tpc[c] \notin {"none", "ended"}
        BY <1>9 DEF Throws, Goto, Serving
      <3>3. UNCHANGED <<peer, fd, mpc, taken, connections>>
        BY <1>9 DEF Throws, main
      <3>4. QED
        BY <3>1, <3>2, <3>3, ThreadKeepsListing
    <2>3. Flags'
      <3>1. /\ tpc[c] \in Serving \cup {"log"} /\ tpc' = [tpc EXCEPT ![c] = "flag"]
            /\ UNCHANGED <<upgraded, was_upgraded, done>>
        BY <1>9 DEF Throws, Goto
      <3>2. QED
        BY <3>1, ThreadKeepsFlags
    <2>4. PushList'
      BY <1>9 DEF Throws, Shutdown, Goto, main, watch, TypeOK, PushList, Flags, Listing, Serving
    <2>5. Ownership'
      <3>1. UNCHANGED <<at, fd, main, upgraded, sockets, watch>>
        BY <1>9 DEF Throws
      <3>2. \A d \in Conn : Owned(d)' = Owned(d)
        BY <3>1 DEF main, watch, Owned, Held, Pushable
      <3>3. QED
        BY <3>1, <3>2 DEF Ownership
    <2>6. QED
      BY <2>1, <2>2, <2>3, <2>4, <2>5 DEF ConnInv
  <1>10. ASSUME NEW c \in Conn, Flag(c) PROVE ConnInv'
    <2>1. TypeOK'
      BY <1>10 DEF Flag, Goto, main, watch, TypeOK, Serving
    <2>2. Listing'
      <3>1. tpc \in [Conn -> Serving \cup {"none", "log", "flag", "finish", "ended"}]
        BY DEF TypeOK
      <3>2. tpc' = [tpc EXCEPT ![c] = "finish"] /\ tpc[c] \notin {"none", "ended"}
        BY <1>10 DEF Flag, Goto, Serving
      <3>3. UNCHANGED <<peer, fd, mpc, taken, connections>>
        BY <1>10 DEF Flag, main
      <3>4. QED
        BY <3>1, <3>2, <3>3, ThreadKeepsListing
    <2>3. Flags'
      <3>1. /\ tpc[c] = "flag" /\ tpc' = [tpc EXCEPT ![c] = "finish"]
            /\ was_upgraded' = [was_upgraded EXCEPT ![c] = upgraded[c]]
            /\ UNCHANGED <<upgraded, done>>
        BY <1>10 DEF Flag, Goto
      <3>2. /\ tpc'[c] = "finish" /\ was_upgraded'[c] = upgraded'[c]
            /\ \A d \in Conn : d # c => tpc'[d] = tpc[d] /\ was_upgraded'[d] = was_upgraded[d]
        BY <3>1 DEF TypeOK
      <3>3. done'[c] = (tpc'[c] = "ended")
        BY <3>1, <3>2 DEF Flags
      <3>4. QED
        BY <3>1, <3>2, <3>3, FlagsOfOne
    <2>4. PushList'
      BY <1>10 DEF Flag, Goto, main, watch, TypeOK, PushList, Flags, Listing, Serving
    <2>5. Ownership'
      <3>1. UNCHANGED <<at, fd, taken, connections, upgraded>>
        BY <1>10 DEF Flag, main
      <3>2. Pushable' = Pushable
        BY <1>10 DEF Flag, watch, Pushable
      <3>3. QED
        BY <3>1, <3>2, OwnershipStays
    <2>6. QED
      BY <2>1, <2>2, <2>3, <2>4, <2>5 DEF ConnInv
  <1>11. ASSUME NEW c \in Conn, Finish(c) PROVE ConnInv'
    <2>1. TypeOK'
      BY <1>11 DEF Finish, Goto, main, watch, TypeOK, Serving
    <2>2. Listing'
      <3>1. tpc \in [Conn -> Serving \cup {"none", "log", "flag", "finish", "ended"}]
        BY DEF TypeOK
      <3>2. tpc' = [tpc EXCEPT ![c] = "ended"] /\ tpc[c] \notin {"none", "ended"}
        BY <1>11 DEF Finish, Goto, Serving
      <3>3. UNCHANGED <<peer, fd, mpc, taken, connections>>
        BY <1>11 DEF Finish, main
      <3>4. QED
        BY <3>1, <3>2, <3>3, ThreadKeepsListing
    <2>3. Flags'
      <3>1. /\ tpc[c] = "finish" /\ tpc' = [tpc EXCEPT ![c] = "ended"]
            /\ done' = [done EXCEPT ![c] = TRUE] /\ UNCHANGED <<was_upgraded, upgraded>>
        BY <1>11 DEF Finish, Goto
      <3>2. /\ tpc'[c] = "ended" /\ done'[c] = TRUE
            /\ \A d \in Conn : d # c => tpc'[d] = tpc[d] /\ done'[d] = done[d]
        BY <3>1 DEF TypeOK
      <3>3. was_upgraded'[c] = upgraded'[c]
        BY <3>1 DEF Flags
      <3>4. QED
        BY <3>1, <3>2, <3>3, FlagsOfOne
    <2>4. PushList'
      BY <1>11 DEF Finish, Goto, main, watch, TypeOK, PushList, Flags, Listing, Serving
    <2>5. Ownership'
      <3>1. UNCHANGED <<at, fd, taken, connections, upgraded>>
        BY <1>11 DEF Finish, main
      <3>2. Pushable' = Pushable
        BY <1>11 DEF Finish, watch, Pushable
      <3>3. QED
        BY <3>1, <3>2, OwnershipStays
    <2>6. QED
      BY <2>1, <2>2, <2>3, <2>4, <2>5 DEF ConnInv
  <1>12. QED
    BY <1>1, <1>2, <1>3, <1>4, <1>5, <1>6, <1>7, <1>8, <1>9, <1>10, <1>11 DEF ThreadStep

(* The watch thread pushes, and closes what it cannot reach. *)
LEMMA ConnWatchStep ==
  ASSUME ConnInv, WatchStep \/ BuildStarts
  PROVE  ConnInv'
  <1> USE ConnectionsAssumption
  <1>0. TypeOK /\ Listing /\ Flags /\ PushList /\ Ownership
    BY DEF ConnInv
  <1> USE <1>0
  <1>1. CASE BuildStarts
    <2>1. TypeOK'
      BY <1>1 DEF BuildStarts, main, threads, TypeOK
    <2>2. Listing'
      BY <1>1 DEF BuildStarts, main, threads, TypeOK, Listing, Flags
    <2>3. Flags'
      BY <1>1 DEF BuildStarts, main, threads, TypeOK, Flags, Listing
    <2>4. PushList'
      BY <1>1 DEF BuildStarts, main, threads, TypeOK, PushList, Flags, Listing
    <2>5. Ownership'
      <3>1. UNCHANGED <<at, fd, taken, connections, upgraded>>
        BY <1>1 DEF BuildStarts, main, threads
      <3>2. Pushable' = Pushable
        BY <1>1 DEF BuildStarts, Pushable
      <3>3. QED
        BY <3>1, <3>2, OwnershipStays
    <2>6. QED
      BY <2>1, <2>2, <2>3, <2>4, <2>5 DEF ConnInv
  <1>2. CASE BuildQuiet
    <2>1. TypeOK'
      BY <1>2 DEF BuildQuiet, main, threads, TypeOK
    <2>2. Listing'
      BY <1>2 DEF BuildQuiet, main, threads, TypeOK, Listing, Flags
    <2>3. Flags'
      BY <1>2 DEF BuildQuiet, main, threads, TypeOK, Flags, Listing
    <2>4. PushList'
      BY <1>2 DEF BuildQuiet, main, threads, TypeOK, PushList, Flags, Listing
    <2>5. Ownership'
      <3>1. UNCHANGED <<at, fd, taken, connections, upgraded>>
        BY <1>2 DEF BuildQuiet, main, threads
      <3>2. Pushable' = Pushable
        BY <1>2 DEF BuildQuiet, Pushable
      <3>3. QED
        BY <3>1, <3>2, OwnershipStays
    <2>6. QED
      BY <2>1, <2>2, <2>3, <2>4, <2>5 DEF ConnInv
  <1>3. CASE Push
    <2>1. TypeOK'
      BY <1>3 DEF Push, main, threads, TypeOK
    <2>2. Listing'
      BY <1>3 DEF Push, main, threads, TypeOK, Listing, Flags
    <2>3. Flags'
      BY <1>3 DEF Push, main, threads, TypeOK, Flags, Listing
    <2>4. PushList'
      <3>1. /\ wpc = "build" /\ wpc' = "push" /\ due' = sockets /\ living' = {}
            /\ UNCHANGED <<sockets, upgraded, mpc>>
        BY <1>3 DEF Push, main, threads
      <3>2. QED
        BY <3>1 DEF PushList
    <2>5. Ownership'
      <3>1. UNCHANGED <<at, fd, taken, connections, upgraded>>
        BY <1>3 DEF Push, main, threads
      <3>2. Pushable' = Pushable
        BY <1>3 DEF Push, Pushable, PushList
      <3>3. QED
        BY <3>1, <3>2, OwnershipStays
    <2>6. QED
      BY <2>1, <2>2, <2>3, <2>4, <2>5 DEF ConnInv
  <1>4. ASSUME NEW c \in Conn, PushTo(c) PROVE ConnInv'
    <2>1. TypeOK'
      BY <1>4 DEF PushTo, Close, main, threads, TypeOK
    <2>2. Listing'
      BY <1>4 DEF PushTo, Close, main, threads, TypeOK, Listing, Flags
    <2>3. Flags'
      BY <1>4 DEF PushTo, Close, main, threads, TypeOK, Flags, Listing
    <2>4. PushList'
      <3>1. /\ wpc = "push" /\ c \in due /\ due' = due \ {c} /\ living' \subseteq living \cup {c}
            /\ UNCHANGED <<sockets, upgraded, mpc, wpc>>
        BY <1>4 DEF PushTo, main, threads
      <3>2. QED
        BY <3>1 DEF PushList
    <2>5. Ownership'
      <3>1. wpc = "push" /\ c \in due /\ c \notin living /\ c \in sockets /\ upgraded[c]
        BY <1>4 DEF PushTo, PushList
      <3>2. \A d \in Conn : Held(d)' <=> Held(d)
        BY <1>4 DEF PushTo, main, threads, Held
      <3>3. Owned(c) /\ ~Held(c)
        BY <3>1 DEF Owned, Held, Pushable
      <3>4. CASE Fails(c)
        <4>1. Pushable' = Pushable \ {c} /\ Close({c}) /\ fd' = fd
          BY <1>4, <3>1, <3>4 DEF PushTo, Pushable
        <4>2. \A d \in Conn : Owned(d)' <=> Owned(d) /\ d \notin {c}
          BY <3>2, <3>3, <4>1 DEF Owned
        <4>3. QED
          BY <3>3, <4>1, <4>2, ClosingKeepsOwnership DEF TypeOK
      <3>5. CASE ~Fails(c)
        <4>1. Pushable' = Pushable /\ Close({}) /\ fd' = fd
          BY <1>4, <3>1, <3>5 DEF PushTo, Pushable
        <4>2. \A d \in Conn : Owned(d)' <=> Owned(d)
          BY <3>2, <4>1 DEF Owned
        <4>3. QED
          BY <4>1, <4>2, ClosingKeepsOwnership DEF TypeOK
      <3>6. QED
        BY <3>4, <3>5
    <2>6. QED
      BY <2>1, <2>2, <2>3, <2>4, <2>5 DEF ConnInv
  <1>5. CASE Pushed
    <2>1. TypeOK'
      BY <1>5 DEF Pushed, main, threads, TypeOK
    <2>2. Listing'
      BY <1>5 DEF Pushed, main, threads, TypeOK, Listing, Flags
    <2>3. Flags'
      BY <1>5 DEF Pushed, main, threads, TypeOK, Flags, Listing
    <2>4. PushList'
      BY <1>5 DEF Pushed, main, threads, TypeOK, PushList, Flags, Listing
    <2>5. Ownership'
      <3>1. UNCHANGED <<at, fd, taken, connections, upgraded>>
        BY <1>5 DEF Pushed, main, threads
      <3>2. Pushable' = Pushable
        BY <1>5 DEF Pushed, Pushable, PushList
      <3>3. QED
        BY <3>1, <3>2, OwnershipStays
    <2>6. QED
      BY <2>1, <2>2, <2>3, <2>4, <2>5 DEF ConnInv
  <1>6. CASE WatchEnds
    <2>1. TypeOK'
      BY <1>6 DEF WatchEnds, main, threads, TypeOK
    <2>2. Listing'
      BY <1>6 DEF WatchEnds, main, threads, TypeOK, Listing, Flags
    <2>3. Flags'
      BY <1>6 DEF WatchEnds, main, threads, TypeOK, Flags, Listing
    <2>4. PushList'
      BY <1>6 DEF WatchEnds, main, threads, TypeOK, PushList, Flags, Listing
    <2>5. Ownership'
      <3>1. UNCHANGED <<at, fd, taken, connections, upgraded>>
        BY <1>6 DEF WatchEnds, main, threads
      <3>2. Pushable' = Pushable
        BY <1>6 DEF WatchEnds, Pushable
      <3>3. QED
        BY <3>1, <3>2, OwnershipStays
    <2>6. QED
      BY <2>1, <2>2, <2>3, <2>4, <2>5 DEF ConnInv
  <1>7. QED
    BY <1>1, <1>2, <1>3, <1>4, <1>5, <1>6 DEF WatchStep

(* Browsers come and go, stop is called, other sockets are opened. *)
LEMMA ConnOutsideStep ==
  ASSUME ConnInv,
  Stop \/ (\E f \in Fd : OtherOpens(f)) \/ \E c \in Conn : PeerStalls(c) \/ PeerLeaves(c)
  PROVE  ConnInv'
  <1> USE ConnectionsAssumption
  <1>0. TypeOK /\ Listing /\ Flags /\ PushList /\ Ownership
    BY DEF ConnInv
  <1> USE <1>0
  <1>1. CASE Stop
    <2>1. TypeOK'
      BY <1>1 DEF Stop, main, threads, watch, TypeOK
    <2>2. Listing'
      BY <1>1 DEF Stop, main, threads, watch, TypeOK, Listing, Flags
    <2>3. Flags'
      BY <1>1 DEF Stop, main, threads, watch, TypeOK, Flags, Listing
    <2>4. PushList'
      BY <1>1 DEF Stop, main, threads, watch, TypeOK, PushList, Flags, Listing
    <2>5. Ownership'
      <3>1. UNCHANGED <<at, fd, taken, connections, upgraded>>
        BY <1>1 DEF Stop, main, threads
      <3>2. Pushable' = Pushable
        BY <1>1 DEF Stop, watch, Pushable
      <3>3. QED
        BY <3>1, <3>2, OwnershipStays
    <2>6. QED
      BY <2>1, <2>2, <2>3, <2>4, <2>5 DEF ConnInv
  <1>2. ASSUME NEW f \in Fd, OtherOpens(f) PROVE ConnInv'
    <2>1. TypeOK'
      BY <1>2 DEF OtherOpens, main, threads, watch, TypeOK
    <2>2. Listing'
      BY <1>2 DEF OtherOpens, main, threads, watch, TypeOK, Listing, Flags
    <2>3. Flags'
      BY <1>2 DEF OtherOpens, main, threads, watch, TypeOK, Flags, Listing
    <2>4. PushList'
      BY <1>2 DEF OtherOpens, main, threads, watch, TypeOK, PushList, Flags, Listing
    <2>5. Ownership'
      <3>1. at[f] = None /\ at' = [at EXCEPT ![f] = Other] /\ fd' = fd
        BY <1>2 DEF OtherOpens
      <3>2. \A d \in Conn : Owned(d)' <=> Owned(d)
        BY <1>2 DEF OtherOpens, main, threads, watch, Owned, Held, Pushable
      <3>3. \A g \in Fd : at'[g] \in Conn => at'[g] = at[g]
        BY <3>1 DEF TypeOK
      <3>4. ASSUME NEW d \in Conn, Owned(d) PROVE fd[d] \in Fd /\ at'[fd[d]] = d
        <4>1. fd[d] \in Fd /\ at[fd[d]] = d /\ d # None
          BY <3>4 DEF Ownership
        <4>2. fd[d] # f
          BY <3>1, <4>1
        <4>3. QED
          BY <3>1, <4>1, <4>2 DEF TypeOK
      <3>5. QED
        BY <3>1, <3>2, <3>3, <3>4 DEF Ownership
    <2>6. QED
      BY <2>1, <2>2, <2>3, <2>4, <2>5 DEF ConnInv
  <1>3. ASSUME NEW c \in Conn, PeerStalls(c) PROVE ConnInv'
    <2>1. TypeOK'
      BY <1>3 DEF PeerStalls, main, threads, watch, TypeOK
    <2>2. Listing'
      <3>1. peer' = [peer EXCEPT ![c] = "stalled"] /\ peer[c] = "reads"
        BY <1>3 DEF PeerStalls
      <3>2. \A d \in Conn : peer'[d] = "new" <=> peer[d] = "new"
        BY <3>1 DEF TypeOK
      <3>3. UNCHANGED <<tpc, fd, mpc, taken, connections>>
        BY <1>3 DEF PeerStalls, main, threads
      <3>4. QED
        BY <3>2, <3>3 DEF Listing
    <2>3. Flags'
      BY <1>3 DEF PeerStalls, main, threads, watch, TypeOK, Flags, Listing
    <2>4. PushList'
      BY <1>3 DEF PeerStalls, main, threads, watch, TypeOK, PushList, Flags, Listing
    <2>5. Ownership'
      <3>1. UNCHANGED <<at, fd, main, threads, sockets, watch>>
        BY <1>3 DEF PeerStalls
      <3>2. \A d \in Conn : Owned(d)' = Owned(d)
        BY <3>1 DEF main, threads, watch, Owned, Held, Pushable
      <3>3. QED
        BY <3>1, <3>2 DEF Ownership
    <2>6. QED
      BY <2>1, <2>2, <2>3, <2>4, <2>5 DEF ConnInv
  <1>4. ASSUME NEW c \in Conn, PeerLeaves(c) PROVE ConnInv'
    <2>1. TypeOK'
      BY <1>4 DEF PeerLeaves, main, threads, watch, TypeOK
    <2>2. Listing'
      <3>1. peer' = [peer EXCEPT ![c] = "gone"] /\ peer[c] = "reads"
        BY <1>4 DEF PeerLeaves
      <3>2. \A d \in Conn : peer'[d] = "new" <=> peer[d] = "new"
        BY <3>1 DEF TypeOK
      <3>3. UNCHANGED <<tpc, fd, mpc, taken, connections>>
        BY <1>4 DEF PeerLeaves, main, threads
      <3>4. QED
        BY <3>2, <3>3 DEF Listing
    <2>3. Flags'
      BY <1>4 DEF PeerLeaves, main, threads, watch, TypeOK, Flags, Listing
    <2>4. PushList'
      BY <1>4 DEF PeerLeaves, main, threads, watch, TypeOK, PushList, Flags, Listing
    <2>5. Ownership'
      <3>1. UNCHANGED <<at, fd, main, threads, sockets, watch>>
        BY <1>4 DEF PeerLeaves
      <3>2. \A d \in Conn : Owned(d)' = Owned(d)
        BY <3>1 DEF main, threads, watch, Owned, Held, Pushable
      <3>3. QED
        BY <3>1, <3>2 DEF Ownership
    <2>6. QED
      BY <2>1, <2>2, <2>3, <2>4, <2>5 DEF ConnInv
  <1>5. QED
    BY <1>1, <1>2, <1>3, <1>4

(* Every open socket has exactly one owner, and an owner's number denotes    *)
(* its socket.                                                               *)
THEOREM ConnInvariant == Spec => []ConnInv
  <1>1. ConnInv /\ [Next]_vars => ConnInv'
    <2>1. ASSUME ConnInv, Next PROVE ConnInv'
      BY <2>1, ConnMainStep, ConnThreadStep, ConnWatchStep, ConnOutsideStep DEF Next, Environment
    <2>2. ASSUME ConnInv, UNCHANGED vars PROVE ConnInv'
      <3> USE <2>2 DEF vars, main, threads, watch, ConnInv
      <3>1. TypeOK' /\ Listing'
        BY DEF TypeOK, Listing
      <3>2. Flags' /\ PushList'
        BY DEF Flags, PushList
      <3>3. Ownership'
        BY OwnershipStays DEF Pushable
      <3>4. QED
        BY <3>1, <3>2, <3>3
    <2>3. QED
      BY <2>1, <2>2
  <1>2. QED
    BY <1>1, ConnInit, PTL DEF Spec

(* Threads, pushes, reaping and teardown only ever write to and close the    *)
(* socket they mean, although numbers are reused.                            *)
THEOREM ConnReachesItsOwn == Spec => []ReachesItsOwn
  <1>1. ConnInv => ReachesItsOwn
    <2>1. SUFFICES ASSUME TypeOK, Listing, Flags, PushList, Ownership PROVE ReachesItsOwn
      BY DEF ConnInv
    <2>2. \A c \in connections : done[c] /\ ~was_upgraded[c] => Held(c)
      BY <2>1 DEF Flags, Held, TypeOK
    <2>3. \A c \in Conn : tpc[c] \in Serving => Held(c)
      BY <2>1, RunningHeld
    <2>4. Pushable \subseteq Conn /\ connections \subseteq Conn
      BY <2>1 DEF Pushable, TypeOK
    <2>5. QED
      BY <2>1, <2>2, <2>3, <2>4 DEF Ownership, Owned, ReachesItsOwn
  <1>2. QED
    BY <1>1, ConnInvariant, PTL

(* run leaves no socket open behind it. *)
THEOREM ConnNothingLeaked == Spec => []NothingLeaked
  <1>1. ConnInv => NothingLeaked
    BY ConnectionsAssumption DEF ConnInv, TypeOK, Listing, PushList, Ownership, Owned, Held,
           Pushable, NothingLeaked
  <1>2. QED
    BY <1>1, ConnInvariant, PTL

(* The greeting and a push never write to one socket at once. *)
THEOREM ConnOneWriter == Spec => []OneWriter
  <1>1. ConnInv => OneWriter
    BY DEF ConnInv, TypeOK, Flags, PushList, OneWriter, Serving
  <1>2. QED
    BY <1>1, ConnInvariant, PTL

=============================================================================
