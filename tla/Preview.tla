------------------------------ MODULE Preview -------------------------------
(***************************************************************************)
(* The reload protocol of `blogin serve`: the watch thread rebuilds and    *)
(* pushes (build_once and State::push in server.cpp, Channel in            *)
(* reload.cpp), connection threads serve pages and greet reload sockets    *)
(* (Server::run), and the script injected into every page (the client of   *)
(* reload.cpp) decides when its tab reloads.                               *)
(*                                                                         *)
(* A page on disk is a revision number.  A build writes some pages, a      *)
(* failed one too, and nothing is assumed of which: the next build may     *)
(* leave alone what a failed one wrote (see BuildReverted of MCBuild).     *)
(* A tab shows one page and holds at most one reload socket, whose         *)
(* messages arrive in order unless the connection drops.                   *)
(***************************************************************************)
EXTENDS Integers, Sequences

CONSTANTS
    Tab, Path,
    MaxBuild,   \* bound: rebuilds
    MaxDrop,    \* bound: connections lost
    MaxRestart  \* bound: restarts of the server

ASSUME PreviewAssumption ==
    MaxBuild \in Nat /\ MaxDrop \in Nat /\ MaxRestart \in Nat

VARIABLES
    disk,       \* the preview output: the revision of each page
    version, session,   \* Channel
    standing,   \* whether standing_failure is set
    bpc,        \* the watch thread: "wait", "write", "clear", "bump", "push change",
                \* "fail", "push failure"
    todo,       \* the pages its build has still to write
    changed,    \* report->changed
    outcome,    \* how its build will end
    sockets,    \* tabs whose socket is on the push list
    here,       \* per tab: its page
    tpc,        \* per tab: "load", "read", "connect", "greeted", "told", "live"
    script,     \* per tab: version and session injected into the page being served
    known,      \* per tab: known and blogin.session of the running script
    shown,      \* per tab: the revision it shows
    overlay,    \* per tab: whether the failure overlay is up
    inbox,      \* per tab: messages not yet handled
    greeted,    \* ghost, per tab: the version of the last hello sent
    missed,     \* ghost: tabs passed over by a push newer than their hello
    due,        \* ghost, per page: the revision tabs have to reach, left by the last good
                \* build that wrote the page, or found when the server was last started
    builds, drops, restarts

server == <<disk, due, version, session, standing, bpc, todo, changed, outcome>>
tabs == <<tpc, script, known, shown, overlay, inbox, greeted, missed>>
vars == <<server, sockets, here, tabs, builds, drops, restarts>>

Hello(v, s)    == [type |-> "hello", version |-> v, session |-> s, paths |-> {}]
Change(v, ps)  == [type |-> "change", version |-> v, session |-> 0, paths |-> ps]
Failure(v)     == [type |-> "failure", version |-> v, session |-> 0, paths |-> {}]

Message == [type : {"hello", "change", "failure"}, version : Nat, session : Nat, paths : SUBSET Path]

(* The values of the variables; the push list holds the tabs whose socket    *)
(* was registered and no others.                                             *)
TypeOK ==
    /\ disk \in [Path -> Nat]
    /\ due \in [Path -> Nat] /\ todo \in SUBSET Path /\ changed \in SUBSET Path
    /\ version \in Nat /\ session \in Nat
    /\ standing \in BOOLEAN /\ outcome \in {"ok", "error"}
    /\ bpc \in {"wait", "write", "clear", "bump", "push change", "fail", "push failure"}
    /\ sockets = {t \in Tab : tpc[t] = "live"}
    /\ here \in [Tab -> Path]
    /\ tpc \in [Tab -> {"load", "read", "connect", "greeted", "told", "live"}]
    /\ script \in [Tab -> Nat \X Nat] /\ known \in [Tab -> Nat \X Nat]
    /\ shown \in [Tab -> Nat] /\ overlay \in [Tab -> BOOLEAN]
    /\ inbox \in [Tab -> Seq(Message)]
    /\ greeted \in [Tab -> Nat] /\ missed \in SUBSET Tab
    /\ builds \in Nat /\ drops \in Nat /\ restarts \in Nat

(* The build at startup has run and the server is listening. *)
Init ==
    /\ disk = [p \in Path |-> 1]
    /\ due = disk /\ version = 0 /\ session = 0 /\ standing = FALSE
    /\ bpc = "wait" /\ todo = {} /\ changed = {} /\ outcome = "ok"
    /\ sockets = {}
    /\ here \in [Tab -> Path]
    /\ tpc = [t \in Tab |-> "load"]
    /\ script = [t \in Tab |-> <<0, 0>>] /\ known = [t \in Tab |-> <<0, 0>>]
    /\ shown = [t \in Tab |-> 0] /\ overlay = [t \in Tab |-> FALSE]
    /\ inbox = [t \in Tab |-> <<>>]
    /\ greeted = [t \in Tab |-> 0] /\ missed = {}
    /\ builds = 0 /\ drops = 0 /\ restarts = 0

-----------------------------------------------------------------------------
(* The watch thread: build_once(true) *)

(* A save makes a build write some pages, or none; it will succeed or fail. *)
BuildStart(pages, result) ==
    /\ bpc = "wait" /\ builds < MaxBuild
    /\ builds' = builds + 1
    /\ todo' = pages
    /\ changed' = {}
    /\ outcome' = result
    /\ bpc' = "write"
    /\ UNCHANGED <<disk, due, version, session, standing, sockets, here, tabs, drops, restarts>>

BuildWrite(p) ==
    /\ bpc = "write" /\ p \in todo
    /\ disk' = [disk EXCEPT ![p] = @ + 1]
    /\ todo' = todo \ {p}
    /\ changed' = changed \cup {p}
    /\ UNCHANGED <<due, version, session, standing, bpc, outcome, sockets, here, tabs,
                   builds, drops, restarts>>

(* Success, once everything is written; failure, at any point before that:  *)
(* what is written stays, and there is no report of it.                      *)
BuildOk ==
    /\ bpc = "write" /\ todo = {} /\ outcome = "ok"
    /\ due' = [p \in Path |-> IF p \in changed THEN disk[p] ELSE due[p]]
    /\ bpc' = "clear"
    /\ UNCHANGED <<disk, version, session, standing, todo, changed, outcome, sockets, here,
                   tabs, builds, drops, restarts>>

BuildError ==
    /\ bpc = "write" /\ outcome = "error"
    /\ todo' = {} /\ changed' = {}
    /\ bpc' = "fail"
    /\ UNCHANGED <<disk, due, version, session, standing, outcome, sockets, here, tabs,
                   builds, drops, restarts>>

(* channel.failure and standing_failure, under failure_mutex. *)
Fail ==
    /\ bpc = "fail"
    /\ version' = version + 1
    /\ standing' = TRUE
    /\ bpc' = "push failure"
    /\ UNCHANGED <<disk, due, session, todo, changed, outcome, sockets, here, tabs,
                   builds, drops, restarts>>

(* A success clears the failure, and is announced if it rewrote a page or    *)
(* ends one.                                                                 *)
ClearFailure ==
    /\ bpc = "clear"
    /\ standing' = FALSE
    /\ bpc' = IF changed # {} \/ standing THEN "bump" ELSE "wait"
    /\ UNCHANGED <<disk, due, version, session, todo, changed, outcome, sockets, here, tabs,
                   builds, drops, restarts>>

(* channel.change *)
Bump ==
    /\ bpc = "bump"
    /\ version' = version + 1
    /\ bpc' = "push change"
    /\ UNCHANGED <<disk, due, session, standing, todo, changed, outcome, sockets, here,
                   tabs, builds, drops, restarts>>

(* State::push, under sockets_mutex: every listed socket gets the message.   *)
(* A tab that was greeted with an older version and is not listed yet is     *)
(* passed over.                                                              *)
Pushed(message) ==
    /\ inbox' = [t \in Tab |-> IF t \in sockets THEN Append(inbox[t], message) ELSE inbox[t]]
    /\ missed' = missed \cup {t \in Tab : tpc[t] \in {"greeted", "told"} /\ greeted[t] # version}

Push ==
    /\ \/ bpc = "push change" /\ Pushed(Change(version, changed))
       \/ bpc = "push failure" /\ Pushed(Failure(version))
    /\ bpc' = "wait"
    /\ changed' = {} /\ outcome' = "ok"
    /\ UNCHANGED <<disk, due, version, session, standing, todo, sockets, here,
                   tpc, script, known, shown, overlay, greeted, builds, drops, restarts>>

-----------------------------------------------------------------------------
(* Connection threads *)

(* Mutant: one script is injected for the life of the server. *)
FetchScriptOnce(t) ==
    /\ tpc[t] = "load"
    /\ script' = [script EXCEPT ![t] = <<0, session>>]
    /\ tpc' = [tpc EXCEPT ![t] = "read"]
    /\ UNCHANGED <<server, sockets, here, known, shown, overlay, inbox, greeted, missed,
                   builds, drops, restarts>>

(* A page request fetches the script before it reads the file. *)
FetchScript(t) ==
    /\ tpc[t] = "load"
    /\ script' = [script EXCEPT ![t] = <<version, session>>]
    /\ tpc' = [tpc EXCEPT ![t] = "read"]
    /\ UNCHANGED <<server, sockets, here, known, shown, overlay, inbox, greeted, missed,
                   builds, drops, restarts>>

(* The file is read and injected, and the tab runs the page it is sent. *)
Serve(t) ==
    /\ tpc[t] = "read"
    /\ shown' = [shown EXCEPT ![t] = disk[here[t]]]
    /\ known' = [known EXCEPT ![t] = script[t]]
    /\ overlay' = [overlay EXCEPT ![t] = FALSE]
    /\ tpc' = [tpc EXCEPT ![t] = "connect"]
    /\ missed' = missed \ {t}
    /\ script' = [script EXCEPT ![t] = <<0, 0>>]
    /\ UNCHANGED <<server, sockets, here, inbox, greeted, builds, drops, restarts>>

(* The upgrade is answered and the hello is sent. *)
Greet(t) ==
    /\ tpc[t] = "connect"
    /\ inbox' = [inbox EXCEPT ![t] = <<Hello(version, session)>>]
    /\ greeted' = [greeted EXCEPT ![t] = version]
    /\ tpc' = [tpc EXCEPT ![t] = "greeted"]
    /\ UNCHANGED <<server, sockets, here, script, known, shown, overlay, missed,
                   builds, drops, restarts>>

(* A standing failure is read and sent. *)
TellStanding(t) ==
    /\ tpc[t] = "greeted"
    /\ inbox' = [inbox EXCEPT ![t] = IF standing THEN Append(@, Failure(version)) ELSE @]
    /\ tpc' = [tpc EXCEPT ![t] = "told"]
    /\ UNCHANGED <<server, sockets, here, script, known, shown, overlay, greeted, missed,
                   builds, drops, restarts>>

(* The socket joins the push list. *)
Register(t) ==
    /\ tpc[t] = "told"
    /\ sockets' = sockets \cup {t}
    /\ tpc' = [tpc EXCEPT ![t] = "live"]
    /\ greeted' = [greeted EXCEPT ![t] = 0]
    /\ UNCHANGED <<server, here, script, known, shown, overlay, inbox, missed,
                   builds, drops, restarts>>

-----------------------------------------------------------------------------
(* The script in the page *)

(* Mutant: the socket of the page that is left stays on the push list. *)
ReloadKeepsSocket(t) ==
    /\ tpc' = [tpc EXCEPT ![t] = "load"]
    /\ inbox' = [inbox EXCEPT ![t] = <<>>]
    /\ UNCHANGED sockets

(* location.reload: the page, its socket and its messages are gone. *)
Reload(t) ==
    /\ tpc' = [tpc EXCEPT ![t] = "load"]
    /\ sockets' = sockets \ {t}
    /\ inbox' = [inbox EXCEPT ![t] = <<>>]

Connected == {"greeted", "told", "live"}

(* Mutant: a page from another run of the server is not reloaded. *)
OnHelloAnySession(t) ==
    /\ tpc[t] \in Connected /\ inbox[t] # <<>> /\ Head(inbox[t]).type = "hello"
    /\ IF Head(inbox[t]).version # known[t][1]
       THEN Reload(t)
       ELSE inbox' = [inbox EXCEPT ![t] = Tail(@)] /\ UNCHANGED <<tpc, sockets>>
    /\ UNCHANGED <<server, here, script, known, shown, overlay, greeted, missed,
                   builds, drops, restarts>>

OnHello(t) ==
    /\ tpc[t] \in Connected /\ inbox[t] # <<>> /\ Head(inbox[t]).type = "hello"
    /\ IF <<Head(inbox[t]).version, Head(inbox[t]).session>> # known[t]
       THEN Reload(t)
       ELSE inbox' = [inbox EXCEPT ![t] = Tail(@)] /\ UNCHANGED <<tpc, sockets>>
    /\ UNCHANGED <<server, here, script, known, shown, overlay, greeted, missed,
                   builds, drops, restarts>>

OnFailure(t) ==
    /\ tpc[t] \in Connected /\ inbox[t] # <<>> /\ Head(inbox[t]).type = "failure"
    /\ known' = [known EXCEPT ![t] = <<Head(inbox[t]).version, @[2]>>]
    /\ overlay' = [overlay EXCEPT ![t] = TRUE]
    /\ inbox' = [inbox EXCEPT ![t] = Tail(@)]
    /\ UNCHANGED <<server, sockets, here, tpc, script, shown, greeted, missed,
                   builds, drops, restarts>>

OnChange(t) ==
    /\ tpc[t] \in Connected /\ inbox[t] # <<>> /\ Head(inbox[t]).type = "change"
    /\ known' = [known EXCEPT ![t] = <<Head(inbox[t]).version, @[2]>>]
    /\ overlay' = [overlay EXCEPT ![t] = FALSE]
    /\ IF here[t] \in Head(inbox[t]).paths
       THEN Reload(t)
       ELSE inbox' = [inbox EXCEPT ![t] = Tail(@)] /\ UNCHANGED <<tpc, sockets>>
    /\ UNCHANGED <<server, here, script, shown, greeted, missed, builds, drops, restarts>>

(* The connection is lost; onclose connects again. *)
Drop(t) ==
    /\ tpc[t] \in Connected /\ drops < MaxDrop
    /\ drops' = drops + 1
    /\ tpc' = [tpc EXCEPT ![t] = "connect"]
    /\ sockets' = sockets \ {t}
    /\ inbox' = [inbox EXCEPT ![t] = <<>>]
    /\ UNCHANGED <<server, here, script, known, shown, overlay, greeted, missed, builds, restarts>>

(* The server is stopped and started: a new session, one build announced to  *)
(* nobody, every connection gone.                                            *)
Restart(pages, result) ==
    /\ bpc = "wait" /\ restarts < MaxRestart
    /\ restarts' = restarts + 1
    /\ session' = session + 1
    /\ disk' = [p \in Path |-> IF p \in pages THEN disk[p] + 1 ELSE disk[p]]
    /\ due' = disk'
    /\ version' = IF result = "ok" THEN 0 ELSE 1
    /\ standing' = (result = "error")
    /\ sockets' = {}
    /\ tpc' = [t \in Tab |-> IF tpc[t] = "read" THEN "load"
                             ELSE IF tpc[t] \in Connected THEN "connect" ELSE tpc[t]]
    /\ inbox' = [t \in Tab |-> <<>>]
    /\ UNCHANGED <<bpc, todo, changed, outcome, here, script, known, shown, overlay, greeted,
                   missed, builds, drops>>

-----------------------------------------------------------------------------

BuildStep ==
    \/ \E p \in Path : BuildWrite(p)
    \/ BuildOk \/ BuildError \/ Fail \/ ClearFailure \/ Bump \/ Push

ServeStep(t) ==
    FetchScript(t) \/ Serve(t) \/ Greet(t) \/ TellStanding(t) \/ Register(t)

ClientStep(t) == OnHello(t) \/ OnFailure(t) \/ OnChange(t)

Environment ==
    \/ \E ps \in SUBSET Path, r \in {"ok", "error"} : BuildStart(ps, r) \/ Restart(ps, r)
    \/ \E t \in Tab : Drop(t)

Next == BuildStep \/ Environment \/ \E t \in Tab : ServeStep(t) \/ ClientStep(t)

Spec == Init /\ [][Next]_vars

(* A build that started ends, a connection thread runs, a browser handles    *)
(* its messages.  Nobody has to edit, drop or restart anything.              *)
FairSpec ==
    /\ Spec
    /\ WF_vars(BuildStep)
    /\ \A t \in Tab : WF_vars(ServeStep(t)) /\ WF_vars(ClientStep(t))

-----------------------------------------------------------------------------
(* Properties *)

(* Nothing is being built and the tab has nothing left to handle. *)
Settled(t) == bpc = "wait" /\ tpc[t] = "live" /\ inbox[t] = <<>>

(* A page that no failed build has written since is the one on disk.  What a *)
(* failed build wrote is announced to nobody, nor need the next good build   *)
(* write it again, so a tab may show it or the page from before it.          *)
UpToDate(t) == shown[t] >= due[here[t]]

(* "so a page that missed it can tell": whenever things are quiet, a tab     *)
(* shows its page as the last good build to write it left it, or newer, and  *)
(* the overlay exactly when the last build failed.                           *)
SettledTabsAreCurrent ==
    \A t \in Tab : Settled(t) => UpToDate(t) /\ overlay[t] = standing

(* The same for the tabs no push has passed over while they connected. *)
ReachedTabsAreCurrent ==
    \A t \in Tab \ missed : Settled(t) => UpToDate(t) /\ overlay[t] = standing

(* A tab never reloads for ever: once edits, drops and restarts are over,    *)
(* every tab comes to rest with its socket on the push list.                 *)
TabsComeToRest == <>[](\A t \in Tab : tpc[t] = "live" /\ inbox[t] = <<>>)

-----------------------------------------------------------------------------
(* The inductive invariant behind ReachedTabsAreCurrent *)

(* No tab has to reach what is not there, and a push agrees with the failure *)
(* that stands.                                                              *)
ServerInv ==
    /\ \A p \in Path : due[p] <= disk[p]
    /\ bpc \in {"bump", "push change"} => ~standing
    /\ bpc = "push failure" => standing

Current(t) == known[t] = <<version, session>>

(* No tab knows a version the server has not reached. *)
KnownInv(t) ==
    /\ known[t][2] < session \/ (known[t][2] = session /\ known[t][1] <= version)
    /\ tpc[t] = "read" => script[t][2] = session /\ script[t][1] <= version

(* A hello comes first, and a change after everything older than it. *)
InboxInv(t) ==
    /\ \A i \in DOMAIN inbox[t] :
          /\ inbox[t][i].version <= version
          /\ inbox[t][i].type = "hello" => i = 1
          /\ inbox[t][i].type # "hello" /\ bpc = "push change" => inbox[t][i].version < version
          /\ inbox[t][i].type = "failure" /\ inbox[t][i].version = version => standing \/ bpc = "bump"
    /\ \A i, j \in DOMAIN inbox[t] :
          i < j /\ inbox[t][i].type # "hello" /\ inbox[t][j].type = "change"
             => inbox[t][i].version < inbox[t][j].version

(* The tab is going to reload: a hello that is not about its page, or a      *)
(* change of its page, is on the way.                                        *)
Doomed(t) ==
    \/ /\ inbox[t] # <<>> /\ inbox[t][1].type = "hello"
       /\ <<inbox[t][1].version, inbox[t][1].session>> # known[t]
    \/ \E i \in DOMAIN inbox[t] : inbox[t][i].type = "change" /\ here[t] \in inbox[t][i].paths

Joining == {"greeted", "told"}

(* A tab between its hello and its place on the push list, which no push has *)
(* passed over: a newer version is still to be pushed, and with none its     *)
(* hello was about the page it has.                                          *)
GreetInv(t) ==
    /\ tpc[t] = "greeted" => \A i \in DOMAIN inbox[t] : inbox[t][i].type = "hello"
    /\ tpc[t] \in Joining =>
          greeted[t] <= version /\ \A i \in DOMAIN inbox[t] : inbox[t][i].version >= greeted[t]
    /\ tpc[t] \in Joining /\ t \notin missed /\ greeted[t] # version =>
          bpc \in {"push change", "push failure"}
    /\ tpc[t] \in Joining /\ ~Doomed(t) /\ greeted[t] = version => Current(t)

(* A page that is out of date is one the tab will hear of. *)
PageInv(t) ==
    /\ t \notin missed /\ tpc[t] \in Connected \cup {"connect"} /\ Current(t) =>
          UpToDate(t) \/ (here[t] \in changed /\ bpc \in {"clear", "bump"})
    /\ t \notin missed /\ tpc[t] \in Connected /\ ~Doomed(t) =>
          UpToDate(t) \/ (here[t] \in changed /\ bpc \in {"clear", "bump", "push change"})

(* Whether the overlay will be up once the tab has handled its messages. *)
OverlayAhead(t) ==
    IF inbox[t] # <<>> /\ inbox[t][Len(inbox[t])].type # "hello"
    THEN inbox[t][Len(inbox[t])].type = "failure"
    ELSE overlay[t]

(* The push under way will reach the tab. *)
Reaches(t) == tpc[t] = "live" \/ greeted[t] # version

(* An overlay that is wrong is one the tab will hear of. *)
OverlayInv(t) ==
    /\ t \notin missed /\ tpc[t] \in Connected \cup {"connect"} /\ Current(t) =>
          (overlay[t] => standing \/ bpc = "bump")
    /\ t \notin missed /\ tpc[t] \in {"told", "live"} /\ ~Doomed(t) =>
          \/ OverlayAhead(t) <=> standing
          \/ OverlayAhead(t) /\ (bpc = "bump" \/ (bpc = "push change" /\ Reaches(t)))
          \/ bpc = "push failure" /\ Reaches(t)

TabInv(t) == KnownInv(t) /\ InboxInv(t) /\ GreetInv(t) /\ PageInv(t) /\ OverlayInv(t)

(* The inductive invariant: every tab that is not up to date will be. *)
PreviewInv == TypeOK /\ ServerInv /\ \A t \in Tab : TabInv(t)

=============================================================================
