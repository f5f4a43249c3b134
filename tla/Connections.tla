---------------------------- MODULE Connections -----------------------------
(***************************************************************************)
(* Who owns a descriptor of `blogin serve`, from accept to close: the      *)
(* accept loop and teardown of Server::run, the connection threads, and    *)
(* the watch thread pushing to upgraded sockets (server.cpp).              *)
(*                                                                         *)
(* A number freed by close is given out again, so every call goes through  *)
(* the number a connection was accepted under: at[fd[c]] is what the call  *)
(* really reaches.                                                         *)
(***************************************************************************)
EXTENDS FiniteSets

CONSTANTS
    Conn,       \* the connections browsers make
    Fd,         \* descriptor numbers
    None,       \* a number that is not open
    Other,      \* a socket of some other part of the process
    Stalls      \* the kinds of connection whose browser may stop reading:
                \* a subset of {"page", "reload"}

ASSUME ConnectionsAssumption ==
    /\ None \notin Conn /\ Other \notin Conn /\ None # Other /\ None \notin Fd
    /\ Stalls \subseteq {"page", "reload"}

VARIABLES
    at,             \* what each number denotes
    fd,             \* the number each connection was accepted under
    peer,           \* the browser: "new", "reads", "stalled", "gone"
    shut,           \* connections whose socket has been shut down
    mpc,            \* the main thread
    taken,          \* the connection main has accepted and not yet listed
    connections,    \* the Connection entries
    tpc,            \* each connection's thread
    upgraded,       \* its local flag
    was_upgraded, done,     \* the flags it shares with main
    sockets,        \* the push list
    wpc,            \* the watch thread: "wait", "build", "push", "ended"
    due, living,    \* its push: entries still to send to, entries to keep
    stopping

main == <<mpc, taken, connections>>
threads == <<tpc, upgraded, was_upgraded, done>>
watch == <<wpc, due, living>>
vars == <<at, fd, peer, shut, main, threads, sockets, watch, stopping>>

(* The states a connection's thread is in before it is on the push list. *)
Serving == {"head", "recv", "reply", "greet", "register"}

(* The values of the variables. *)
TypeOK ==
    /\ at \in [Fd -> Conn \cup {None, Other}]
    /\ fd \in [Conn -> Fd \cup {None}]
    /\ peer \in [Conn -> {"new", "reads", "stalled", "gone"}]
    /\ shut \in SUBSET Conn
    /\ mpc \in {"loop", "poll", "reap", "spawn", "list", "join watch", "shut connections",
                "shut sockets", "release", "close sockets", "ended"}
    /\ taken \in Conn \cup {None} /\ connections \in SUBSET Conn
    /\ tpc \in [Conn -> Serving \cup {"none", "log", "flag", "finish", "ended"}]
    /\ upgraded \in [Conn -> BOOLEAN]
    /\ was_upgraded \in [Conn -> BOOLEAN] /\ done \in [Conn -> BOOLEAN]
    /\ sockets \in SUBSET Conn /\ due \in SUBSET Conn /\ living \in SUBSET Conn
    /\ wpc \in {"wait", "build", "push", "ended"}
    /\ stopping \in BOOLEAN

(* The build at startup has run; the listener is bound. *)
Init ==
    /\ at = [f \in Fd |-> None]
    /\ fd = [c \in Conn |-> None]
    /\ peer = [c \in Conn |-> "new"]
    /\ shut = {}
    /\ mpc = "loop" /\ taken = None /\ connections = {}
    /\ tpc = [c \in Conn |-> "none"]
    /\ upgraded = [c \in Conn |-> FALSE]
    /\ was_upgraded = [c \in Conn |-> FALSE] /\ done = [c \in Conn |-> FALSE]
    /\ sockets = {} /\ due = {} /\ living = {} /\ wpc = "wait"
    /\ stopping = FALSE

-----------------------------------------------------------------------------
(* System calls through the numbers of connections *)

(* A send or recv for c fails at once, or does not return. *)
Fails(c) ==
    \/ at[fd[c]] = None
    \/ at[fd[c]] \in shut
    \/ at[fd[c]] \in Conn /\ peer[at[fd[c]]] = "gone"

Blocks(c) == ~Fails(c) /\ at[fd[c]] \in Conn /\ peer[at[fd[c]]] = "stalled"

Close(cs) == at' = [f \in Fd |-> IF \E c \in cs : fd[c] = f THEN None ELSE at[f]]

Shutdown(cs) == shut' = shut \cup {d \in Conn : \E c \in cs : at[fd[c]] = d}

-----------------------------------------------------------------------------
(* Browsers and the rest of the process *)

(* What c is to its browser. *)
Kind(c) == IF tpc[c] \in {"head", "recv", "reply"} THEN "page" ELSE "reload"

PeerStalls(c) ==
    /\ peer[c] = "reads" /\ Kind(c) \in Stalls
    /\ peer' = [peer EXCEPT ![c] = "stalled"]
    /\ UNCHANGED <<at, fd, shut, main, threads, sockets, watch, stopping>>

PeerLeaves(c) ==
    /\ peer[c] = "reads"
    /\ peer' = [peer EXCEPT ![c] = "gone"]
    /\ UNCHANGED <<at, fd, shut, main, threads, sockets, watch, stopping>>

OtherOpens(f) ==
    /\ at[f] = None
    /\ at' = [at EXCEPT ![f] = Other]
    /\ UNCHANGED <<fd, peer, shut, main, threads, sockets, watch, stopping>>

Stop ==
    /\ ~stopping
    /\ stopping' = TRUE
    /\ UNCHANGED <<at, fd, peer, shut, main, threads, sockets, watch>>

-----------------------------------------------------------------------------
(* The main thread *)

Loop ==
    /\ mpc = "loop"
    /\ mpc' = IF stopping THEN "join watch" ELSE "poll"
    /\ UNCHANGED <<at, fd, peer, shut, taken, connections, threads, sockets, watch, stopping>>

PollTimeout ==
    /\ mpc = "poll"
    /\ mpc' = "loop"
    /\ UNCHANGED <<at, fd, peer, shut, taken, connections, threads, sockets, watch, stopping>>

(* Mutant: the -1 accept answers when there is no number left is taken for   *)
(* a descriptor.                                                             *)
AcceptUnchecked(c) ==
    /\ mpc = "poll" /\ peer[c] = "new"
    /\ \E f \in Fd \cup {"-1"} :
        /\ IF f \in Fd THEN at[f] = None ELSE \A g \in Fd : at[g] # None
        /\ at' = IF f \in Fd THEN [at EXCEPT ![f] = c] ELSE at
        /\ fd' = [fd EXCEPT ![c] = f]
    /\ peer' = [peer EXCEPT ![c] = "reads"]
    /\ taken' = c
    /\ mpc' = "reap"
    /\ UNCHANGED <<shut, connections, threads, sockets, watch, stopping>>

(* With no number left accept fails and the loop goes round: PollTimeout. *)
Accept(c) ==
    /\ mpc = "poll" /\ peer[c] = "new"
    /\ \E f \in Fd :
        /\ at[f] = None
        /\ at' = [at EXCEPT ![f] = c]
        /\ fd' = [fd EXCEPT ![c] = f]
    /\ peer' = [peer EXCEPT ![c] = "reads"]
    /\ taken' = c
    /\ mpc' = "reap"
    /\ UNCHANGED <<shut, connections, threads, sockets, watch, stopping>>

(* reap and release: a finished thread is joined, its socket closed unless   *)
(* the push list owns it.                                                    *)
Reap ==
    /\ mpc = "reap"
    /\ Close({c \in connections : done[c] /\ ~was_upgraded[c]})
    /\ connections' = {c \in connections : ~done[c]}
    /\ mpc' = "spawn"
    /\ UNCHANGED <<fd, peer, shut, taken, threads, sockets, watch, stopping>>

(* The thread runs before it is listed. *)
Spawn ==
    /\ mpc = "spawn"
    /\ tpc' = [tpc EXCEPT ![taken] = "head"]
    /\ mpc' = "list"
    /\ UNCHANGED <<at, fd, peer, shut, taken, connections, upgraded, was_upgraded, done,
                   sockets, watch, stopping>>

List ==
    /\ mpc = "list"
    /\ connections' = connections \cup {taken}
    /\ taken' = None
    /\ mpc' = "loop"
    /\ UNCHANGED <<at, fd, peer, shut, threads, sockets, watch, stopping>>

JoinWatch ==
    /\ mpc = "join watch" /\ wpc = "ended"
    /\ mpc' = "shut connections"
    /\ UNCHANGED <<at, fd, peer, shut, taken, connections, threads, sockets, watch, stopping>>

(* Mutant: only what the push list holds is shut down. *)
ShutConnectionsNot ==
    /\ mpc = "shut connections"
    /\ mpc' = "shut sockets"
    /\ UNCHANGED <<at, fd, peer, shut, taken, connections, threads, sockets, watch, stopping>>

ShutConnections ==
    /\ mpc = "shut connections"
    /\ Shutdown(connections)
    /\ mpc' = "shut sockets"
    /\ UNCHANGED <<at, fd, peer, taken, connections, threads, sockets, watch, stopping>>

ShutSockets ==
    /\ mpc = "shut sockets"
    /\ Shutdown(sockets)
    /\ mpc' = "release"
    /\ UNCHANGED <<at, fd, peer, taken, connections, threads, sockets, watch, stopping>>

(* A thread of `remaining` is joined, in whatever order they end. *)
Release(c) ==
    /\ mpc = "release" /\ c \in connections /\ tpc[c] = "ended"
    /\ Close(IF was_upgraded[c] THEN {} ELSE {c})
    /\ connections' = connections \ {c}
    /\ UNCHANGED <<fd, peer, shut, mpc, taken, threads, sockets, watch, stopping>>

Released ==
    /\ mpc = "release" /\ connections = {}
    /\ mpc' = "close sockets"
    /\ UNCHANGED <<at, fd, peer, shut, taken, connections, threads, sockets, watch, stopping>>

CloseSockets ==
    /\ mpc = "close sockets"
    /\ Close(sockets)
    /\ sockets' = {}
    /\ mpc' = "ended"
    /\ UNCHANGED <<fd, peer, shut, taken, connections, threads, watch, stopping>>

-----------------------------------------------------------------------------
(* A connection's thread *)

Goto(c, pc) == tpc' = [tpc EXCEPT ![c] = pc]

Head(c) ==
    /\ tpc[c] = "head"
    /\ Goto(c, IF stopping THEN "flag" ELSE "recv")
    /\ UNCHANGED <<at, fd, peer, shut, main, upgraded, was_upgraded, done, sockets, watch, stopping>>

RecvEnds(c) ==
    /\ tpc[c] = "recv" /\ Fails(c)
    /\ Goto(c, "flag")
    /\ UNCHANGED <<at, fd, peer, shut, main, upgraded, was_upgraded, done, sockets, watch, stopping>>

(* A request arrived, whole or malformed, to be answered. *)
Request(c) ==
    /\ tpc[c] = "recv" /\ ~Fails(c)
    /\ Goto(c, "reply")
    /\ UNCHANGED <<at, fd, peer, shut, main, upgraded, was_upgraded, done, sockets, watch, stopping>>

(* The answer is sent.  A failed send ends the connection, and so do a       *)
(* malformed request and one that does not keep the connection alive; a 405  *)
(* ignores how its send went.                                                *)
Reply(c) ==
    /\ tpc[c] = "reply" /\ ~Blocks(c)
    /\ Goto(c, "head") \/ Goto(c, "flag")
    /\ UNCHANGED <<at, fd, peer, shut, main, upgraded, was_upgraded, done, sockets, watch, stopping>>

(* Mutant: the socket joins the push list before the hello is sent. *)
UpgradeListedFirst(c) ==
    /\ tpc[c] = "recv" /\ ~Fails(c) /\ ~Blocks(c) /\ wpc # "push"
    /\ sockets' = sockets \cup {c}
    /\ Goto(c, "greet")
    /\ UNCHANGED <<at, fd, peer, shut, main, upgraded, was_upgraded, done, watch, stopping>>

(* The request asks for the reload socket and the 101 goes out. *)
Upgrade(c) ==
    /\ tpc[c] = "recv" /\ ~Fails(c) /\ ~Blocks(c)
    /\ Goto(c, "greet")
    /\ UNCHANGED <<at, fd, peer, shut, main, upgraded, was_upgraded, done, sockets, watch, stopping>>

(* The hello and a standing failure; how the sends went is not looked at. *)
Greet(c) ==
    /\ tpc[c] = "greet" /\ ~Blocks(c)
    /\ Goto(c, "register")
    /\ UNCHANGED <<at, fd, peer, shut, main, upgraded, was_upgraded, done, sockets, watch, stopping>>

(* Mutant: the push list is appended to without its mutex. *)
RegisterUnlocked(c) ==
    /\ tpc[c] = "register"
    /\ sockets' = sockets \cup {c}
    /\ upgraded' = [upgraded EXCEPT ![c] = TRUE]
    /\ Goto(c, "log")
    /\ UNCHANGED <<at, fd, peer, shut, main, was_upgraded, done, watch, stopping>>

(* Under sockets_mutex, which a push holds throughout. *)
Register(c) ==
    /\ tpc[c] = "register" /\ wpc # "push"
    /\ sockets' = sockets \cup {c}
    /\ upgraded' = [upgraded EXCEPT ![c] = TRUE]
    /\ Goto(c, "log")
    /\ UNCHANGED <<at, fd, peer, shut, main, was_upgraded, done, watch, stopping>>

Log(c) ==
    /\ tpc[c] = "log"
    /\ Goto(c, "flag")
    /\ UNCHANGED <<at, fd, peer, shut, main, upgraded, was_upgraded, done, sockets, watch, stopping>>

(* catch (...): an exception shuts the socket down and ends the thread. *)
Throws(c) ==
    /\ tpc[c] \in Serving \cup {"log"}
    /\ Shutdown({c})
    /\ Goto(c, "flag")
    /\ UNCHANGED <<at, fd, peer, main, upgraded, was_upgraded, done, sockets, watch, stopping>>

Flag(c) ==
    /\ tpc[c] = "flag"
    /\ was_upgraded' = [was_upgraded EXCEPT ![c] = upgraded[c]]
    /\ Goto(c, "finish")
    /\ UNCHANGED <<at, fd, peer, shut, main, upgraded, done, sockets, watch, stopping>>

Finish(c) ==
    /\ tpc[c] = "finish"
    /\ done' = [done EXCEPT ![c] = TRUE]
    /\ Goto(c, "ended")
    /\ UNCHANGED <<at, fd, peer, shut, main, upgraded, was_upgraded, sockets, watch, stopping>>

-----------------------------------------------------------------------------
(* The watch thread *)

BuildStarts ==
    /\ wpc = "wait" /\ ~stopping
    /\ wpc' = "build"
    /\ UNCHANGED <<at, fd, peer, shut, main, threads, sockets, due, living, stopping>>

(* A build that rewrote nothing has nothing to push. *)
BuildQuiet ==
    /\ wpc = "build"
    /\ wpc' = "wait"
    /\ UNCHANGED <<at, fd, peer, shut, main, threads, sockets, due, living, stopping>>

Push ==
    /\ wpc = "build"
    /\ due' = sockets /\ living' = {}
    /\ wpc' = "push"
    /\ UNCHANGED <<at, fd, peer, shut, main, threads, sockets, stopping>>

(* Mutant: a socket that was closed stays on the list. *)
PushToKeeps(c) ==
    /\ wpc = "push" /\ c \in due /\ ~Blocks(c)
    /\ due' = due \ {c}
    /\ living' = living \cup {c}
    /\ Close(IF Fails(c) THEN {c} ELSE {})
    /\ UNCHANGED <<fd, peer, shut, main, threads, sockets, wpc, stopping>>

PushTo(c) ==
    /\ wpc = "push" /\ c \in due /\ ~Blocks(c)
    /\ due' = due \ {c}
    /\ living' = IF Fails(c) THEN living ELSE living \cup {c}
    /\ Close(IF Fails(c) THEN {c} ELSE {})
    /\ UNCHANGED <<fd, peer, shut, main, threads, sockets, wpc, stopping>>

Pushed ==
    /\ wpc = "push" /\ due = {}
    /\ sockets' = living
    /\ living' = {}
    /\ wpc' = "wait"
    /\ UNCHANGED <<at, fd, peer, shut, main, threads, due, stopping>>

WatchEnds ==
    /\ wpc = "wait" /\ stopping
    /\ wpc' = "ended"
    /\ UNCHANGED <<at, fd, peer, shut, main, threads, sockets, due, living, stopping>>

-----------------------------------------------------------------------------

MainStep ==
    \/ Loop \/ PollTimeout \/ Reap \/ Spawn \/ List \/ JoinWatch \/ ShutConnections
    \/ ShutSockets \/ Released \/ CloseSockets
    \/ \E c \in Conn : Release(c)

ThreadStep(c) ==
    \/ Head(c) \/ RecvEnds(c) \/ Reply(c) \/ Greet(c) \/ Register(c) \/ Log(c) \/ Flag(c) \/ Finish(c)

WatchStep == BuildQuiet \/ Push \/ Pushed \/ WatchEnds \/ \E c \in Conn : PushTo(c)

(* What nobody has to do: browsers ask, leave or stall, files change, calls  *)
(* throw, another part of the process opens a socket.                        *)
Environment ==
    \/ Stop \/ BuildStarts
    \/ \E f \in Fd : OtherOpens(f)
    \/ \E c \in Conn :
         Accept(c) \/ Request(c) \/ Upgrade(c) \/ Throws(c) \/ PeerStalls(c) \/ PeerLeaves(c)

Next == MainStep \/ WatchStep \/ Environment \/ \E c \in Conn : ThreadStep(c)

Spec == Init /\ [][Next]_vars

(* Every thread of the server is scheduled.  A thread blocked in a call      *)
(* waits for the browser, of which nothing is assumed.                       *)
FairSpec ==
    /\ Spec
    /\ WF_vars(MainStep) /\ WF_vars(WatchStep)
    /\ \A c \in Conn : WF_vars(ThreadStep(c))

-----------------------------------------------------------------------------
(* Properties *)

(* What a push would still send to, and teardown close. *)
Pushable == IF wpc = "push" THEN due \cup living ELSE sockets

(* What main and the threads know of each other. *)
Listing ==
    /\ mpc \in {"reap", "spawn", "list"} <=> taken # None
    /\ taken \notin connections
    /\ \A c \in Conn :
        /\ tpc[c] = "none" <=> peer[c] = "new" \/ (c = taken /\ mpc \in {"reap", "spawn"})
        /\ peer[c] = "new" => c # taken
        /\ tpc[c] \notin {"none", "ended"} => c \in connections \cup {taken}
        /\ c \in connections => tpc[c] # "none"
    /\ mpc \in {"close sockets", "ended"} => connections = {}

(* A thread's flags tell what it did. *)
Flags ==
    \A c \in Conn :
        /\ done[c] = (tpc[c] = "ended")
        /\ tpc[c] \in {"finish", "ended"} => was_upgraded[c] = upgraded[c]
        /\ upgraded[c] => tpc[c] \in {"log", "flag", "finish", "ended"}

(* Only upgraded connections are on the push list, and a push in progress    *)
(* is what keeps it.                                                         *)
PushList ==
    /\ \A c \in sockets : upgraded[c]
    /\ IF wpc = "push" THEN due \cup living \subseteq sockets /\ due \cap living = {}
                       ELSE due = {} /\ living = {}
    /\ mpc \in {"shut connections", "shut sockets", "release", "close sockets", "ended"}
          => wpc = "ended"
    /\ mpc = "ended" => sockets = {}

(* Exactly one party has to close c: main while c is not upgraded, the push  *)
(* list from then on.                                                        *)
Held(c) == c \in connections \cup {taken} /\ ~upgraded[c]

Owned(c) == Held(c) \/ c \in Pushable

Ownership ==
    /\ \A c \in Conn : Owned(c) => fd[c] \in Fd /\ at[fd[c]] = c
    /\ \A f \in Fd, c \in Conn : at[f] = c => fd[c] = f /\ Owned(c)

(* Why the properties below hold, step by step: an open socket has one owner *)
(* and an owner's number denotes its socket.                                 *)
ConnInv == TypeOK /\ Listing /\ Flags /\ PushList /\ Ownership

(* Whoever is about to close or write a socket reaches that socket and not   *)
(* another one its number was given to: release closes finished connections  *)
(* that were not upgraded, threads answer on theirs, and push and teardown   *)
(* send to and close the push list.                                          *)
ReachesItsOwn ==
    /\ \A c \in connections : done[c] /\ ~was_upgraded[c] => at[fd[c]] = c
    /\ \A c \in Conn : tpc[c] \in Serving => at[fd[c]] = c
    /\ \A c \in Pushable : at[fd[c]] = c

(* When run has returned, every socket it accepted has been closed. *)
NothingLeaked == mpc = "ended" => \A f \in Fd : at[f] \notin Conn

(* Two threads never write to one socket: the frames of the greeting and of  *)
(* a push cannot interleave.                                                 *)
OneWriter == \A c \in sockets \cup due : tpc[c] \notin Serving

(* "Serves until stopped": a stopped server's run returns. *)
StopReturns == stopping ~> mpc = "ended"

=============================================================================
