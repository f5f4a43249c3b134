--------------------------- MODULE PreviewProofs ----------------------------
(***************************************************************************)
(* Proofs about Preview for any number of tabs, pages, rebuilds, lost      *)
(* connections and restarts.                                               *)
(*                                                                         *)
(* A step of one tab leaves what the invariant says of the others alone    *)
(* (TabFrame); a step of the watch thread touches every tab at once, so it *)
(* has one proof for an arbitrary tab.                                     *)
(***************************************************************************)
EXTENDS Preview, TLAPS

USE DEF server, tabs

-----------------------------------------------------------------------------
(* Sequences of messages *)

(* What a socket delivers next, and what is left of it. *)
LEMMA TailOf ==
  ASSUME NEW s \in Seq(Message), s # <<>>
  PROVE  /\ Tail(s) \in Seq(Message) /\ Head(s) = s[1] /\ 1 \in DOMAIN s /\ s[1] \in Message
         /\ Len(Tail(s)) = Len(s) - 1 /\ Len(s) \in Nat /\ Len(s) >= 1
         /\ \A i \in DOMAIN Tail(s) : i \in Nat /\ i >= 1 /\ i + 1 \in DOMAIN s /\ Tail(s)[i] = s[i + 1]
         /\ \A i \in DOMAIN s : i # 1 => i - 1 \in DOMAIN Tail(s) /\ Tail(s)[i - 1] = s[i]
         /\ Tail(s) = <<>> <=> Len(s) = 1
<1>1. Len(s) \in Nat /\ Len(s) >= 1 /\ DOMAIN s = 1..Len(s)
  OBVIOUS
<1>2. Tail(s) \in Seq(Message) /\ Len(Tail(s)) = Len(s) - 1 /\ Head(s) = s[1] /\ s[1] \in Message
  BY <1>1
<1>3. DOMAIN Tail(s) = 1..(Len(s) - 1)
  BY <1>1, <1>2
<1>4. \A i \in 1..(Len(s) - 1) : Tail(s)[i] = s[i + 1]
  BY <1>1, <1>2
<1>5. Tail(s) = <<>> <=> Len(s) = 1
  <2>1. \A r \in Seq(Message) : Len(r) = 0 => r = <<>>
    OBVIOUS
  <2>2. Len(s) = 1 => Len(Tail(s)) = 0
    BY <1>1, <1>2
  <2>3. Len(s) = 1 => Tail(s) = <<>>
    BY <1>2, <2>1, <2>2
  <2>4. Tail(s) = <<>> => Len(Tail(s)) = 0
    BY <1>2
  <2> QED
    BY <1>1, <1>2, <2>3, <2>4
<1>6. \A i \in DOMAIN s : i # 1 => i - 1 \in DOMAIN Tail(s) /\ Tail(s)[i - 1] = s[i]
  BY <1>1, <1>3, <1>4
<1> QED
  BY <1>1, <1>2, <1>3, <1>4, <1>5, <1>6

(* What a push adds to a socket. *)
LEMMA AppendTo ==
  ASSUME NEW s \in Seq(Message), NEW m \in Message
  PROVE  /\ Append(s, m) \in Seq(Message)
         /\ Len(Append(s, m)) = Len(s) + 1 /\ Len(s) \in Nat
         /\ Append(s, m) # <<>>
         /\ \A i \in DOMAIN s : i \in DOMAIN Append(s, m) /\ Append(s, m)[i] = s[i]
         /\ Append(s, m)[Len(s) + 1] = m /\ Len(s) + 1 \in DOMAIN Append(s, m)
         /\ \A i \in DOMAIN Append(s, m) : i \in DOMAIN s \/ i = Len(s) + 1
         /\ \A i \in DOMAIN s : i \in Nat /\ 1 <= i /\ i <= Len(s)
  OBVIOUS

(* The messages the server sends. *)
LEMMA Messages ==
  ASSUME NEW v \in Nat, NEW s \in Nat, NEW ps \in SUBSET Path
  PROVE  Hello(v, s) \in Message /\ Change(v, ps) \in Message /\ Failure(v) \in Message
  BY DEF Hello, Change, Failure, Message

-----------------------------------------------------------------------------
(* One tab *)

(* The types of what a tab's part of the invariant is about. *)
LEMMA Types ==
  ASSUME TypeOK, NEW t \in Tab
  PROVE  /\ version \in Nat /\ session \in Nat /\ greeted[t] \in Nat
         /\ known[t] \in Nat \X Nat /\ known[t][1] \in Nat /\ known[t][2] \in Nat
         /\ script[t] \in Nat \X Nat /\ script[t][1] \in Nat /\ script[t][2] \in Nat
         /\ inbox[t] \in Seq(Message)
         /\ \A i \in DOMAIN inbox[t] : inbox[t][i] \in Message /\ inbox[t][i].version \in Nat
         /\ standing \in BOOLEAN /\ overlay[t] \in BOOLEAN
<1>1. version \in Nat /\ session \in Nat /\ greeted[t] \in Nat
  BY DEF TypeOK
<1>2. known[t] \in Nat \X Nat /\ script[t] \in Nat \X Nat
  BY DEF TypeOK
<1>3. \A k \in Nat \X Nat : k[1] \in Nat /\ k[2] \in Nat
  OBVIOUS
<1>4. inbox[t] \in Seq(Message)
  BY DEF TypeOK
<1>5. \A i \in DOMAIN inbox[t] : inbox[t][i] \in Message
  BY <1>4
<1>6. \A i \in DOMAIN inbox[t] : inbox[t][i].version \in Nat
  BY <1>5 DEF Message
<1>7. standing \in BOOLEAN /\ overlay[t] \in BOOLEAN
  BY DEF TypeOK
<1> QED
  BY <1>1, <1>2, <1>3, <1>4, <1>5, <1>6, <1>7

(* A step that leaves the server and a tab as they were keeps what the       *)
(* invariant says of that tab.                                               *)
LEMMA TabFrame ==
  ASSUME TypeOK, NEW t \in Tab, TabInv(t),
         /\ disk' = disk /\ due' = due /\ version' = version /\ session' = session
         /\ standing' = standing /\ bpc' = bpc /\ changed' = changed /\ here' = here
         /\ tpc'[t] = tpc[t] /\ script'[t] = script[t] /\ known'[t] = known[t]
         /\ shown'[t] = shown[t] /\ overlay'[t] = overlay[t] /\ inbox'[t] = inbox[t]
         /\ greeted'[t] = greeted[t] /\ (t \in missed' <=> t \in missed)
  PROVE  TabInv(t)'
<1>1. Doomed(t)' <=> Doomed(t)
  BY DEF Doomed
<1>2. (Current(t)' <=> Current(t)) /\ (UpToDate(t)' <=> UpToDate(t)) /\ (Reaches(t)' <=> Reaches(t))
  BY DEF Current, UpToDate, Reaches
<1>3. OverlayAhead(t)' <=> OverlayAhead(t)
  BY DEF OverlayAhead, TypeOK
<1>4. KnownInv(t)'
  BY DEF TabInv, KnownInv
<1>5. InboxInv(t)'
  BY DEF TabInv, InboxInv
<1>6. GreetInv(t)'
  BY <1>1, <1>2 DEF TabInv, GreetInv
<1>7. PageInv(t)'
  BY <1>1, <1>2 DEF TabInv, PageInv
<1>8. OverlayInv(t)'
  BY <1>1, <1>2, <1>3 DEF TabInv, OverlayInv
<1> QED
  BY <1>4, <1>5, <1>6, <1>7, <1>8 DEF TabInv

(* Before anything is edited every tab is about to load its page. *)
LEMMA PreviewInit == Init => PreviewInv
<1> SUFFICES ASSUME Init PROVE PreviewInv
  OBVIOUS
<1>1. TypeOK
  <2>1. <<>> \in Seq(Message) /\ <<0, 0>> \in Nat \X Nat
    OBVIOUS
  <2>2. inbox \in [Tab -> Seq(Message)]
    BY <2>1 DEF Init
  <2>3. script \in [Tab -> Nat \X Nat] /\ known \in [Tab -> Nat \X Nat]
    BY <2>1 DEF Init
  <2>4. sockets = {t \in Tab : tpc[t] = "live"}
    BY DEF Init
  <2> QED
    BY <2>2, <2>3, <2>4 DEF Init, TypeOK
<1>2. ServerInv
  BY DEF Init, ServerInv
<1>3. ASSUME NEW t \in Tab PROVE TabInv(t)
  <2>1. KnownInv(t)
    BY DEF Init, KnownInv
  <2>2. InboxInv(t)
    BY DEF Init, InboxInv
  <2>3. GreetInv(t)
    BY DEF Init, GreetInv, Joining
  <2>4. PageInv(t) /\ OverlayInv(t)
    BY DEF Init, PageInv, OverlayInv, Connected
  <2> QED
    BY <2>1, <2>2, <2>3, <2>4 DEF TabInv
<1> QED
  BY <1>1, <1>2, <1>3 DEF PreviewInv

-----------------------------------------------------------------------------
(* The watch thread *)

(* A step that leaves the tabs alone leaves what they have ahead of them. *)
LEMMA SameTab ==
  ASSUME TypeOK, NEW t \in Tab,
         known' = known /\ inbox' = inbox /\ overlay' = overlay /\ here' = here
  PROVE  (Doomed(t)' <=> Doomed(t)) /\ (OverlayAhead(t)' <=> OverlayAhead(t))
<1>1. Doomed(t)' <=> Doomed(t)
  BY DEF Doomed
<1>2. OverlayAhead(t)' <=> OverlayAhead(t)
  BY DEF OverlayAhead, TypeOK
<1> QED
  BY <1>1, <1>2

(* A new version is one no tab and no message has. *)
LEMMA NewVersion ==
  ASSUME TypeOK, NEW t \in Tab, TabInv(t), version' = version + 1,
         /\ session' = session /\ tpc' = tpc /\ script' = script /\ known' = known
         /\ inbox' = inbox /\ greeted' = greeted
  PROVE  /\ KnownInv(t)' /\ ~Current(t)'
         /\ \A i \in DOMAIN inbox'[t] :
               /\ inbox'[t][i].version < version' /\ inbox'[t][i].version <= version'
               /\ inbox'[t][i].version # version'
         /\ tpc[t] \in Joining => greeted'[t] # version' /\ greeted'[t] <= version'
<1>1. /\ version \in Nat /\ session \in Nat /\ greeted[t] \in Nat
      /\ known[t] \in Nat \X Nat /\ known[t][1] \in Nat /\ known[t][2] \in Nat /\ script[t][1] \in Nat
      /\ \A i \in DOMAIN inbox[t] : inbox[t][i].version \in Nat
  BY Types
<1>2. version' \in Nat /\ version < version'
  BY <1>1
<1>3. known[t][2] < session \/ (known[t][2] = session /\ known[t][1] < version')
  BY <1>1, <1>2 DEF TabInv, KnownInv
<1>4. ~Current(t)'
  BY <1>1, <1>2, <1>3 DEF Current
<1>5. ASSUME NEW i \in DOMAIN inbox[t]
      PROVE  /\ inbox[t][i].version < version' /\ inbox[t][i].version <= version'
             /\ inbox[t][i].version # version'
  <2>1. inbox[t][i].version <= version
    BY DEF TabInv, InboxInv
  <2> QED
    BY <1>1, <1>2, <2>1
<1>6. ASSUME tpc[t] \in Joining PROVE greeted[t] # version' /\ greeted[t] <= version'
  <2>1. greeted[t] <= version
    BY <1>6 DEF TabInv, GreetInv
  <2> QED
    BY <1>1, <1>2, <2>1
<1>7. KnownInv(t)'
  BY <1>1, <1>2, <1>3 DEF TabInv, KnownInv
<1> QED
  BY <1>4, <1>5, <1>6, <1>7

(* A build starts. *)
LEMMA PreviewBuildStart ==
  ASSUME PreviewInv, NEW ps \in SUBSET Path, NEW r \in {"ok", "error"}, BuildStart(ps, r)
  PROVE  PreviewInv'
<1>0. /\ TypeOK /\ ServerInv /\ \A t \in Tab : TabInv(t)
      /\ bpc = "wait" /\ bpc' = "write" /\ changed' = {} /\ todo' = ps /\ outcome' = r
      /\ disk' = disk /\ due' = due /\ version' = version /\ session' = session
      /\ standing' = standing /\ sockets' = sockets /\ here' = here /\ tpc' = tpc /\ script' = script
      /\ known' = known /\ shown' = shown /\ overlay' = overlay /\ inbox' = inbox
      /\ greeted' = greeted /\ missed' = missed
  BY DEF BuildStart, PreviewInv
<1>1. TypeOK'
  BY <1>0 DEF TypeOK, BuildStart
<1>2. ServerInv'
  BY <1>0 DEF ServerInv
<1>3. ASSUME NEW t \in Tab PROVE TabInv(t)'
  <2>0. TabInv(t) /\ (Doomed(t)' <=> Doomed(t)) /\ (OverlayAhead(t)' <=> OverlayAhead(t))
    BY <1>0, SameTab
  <2>1. KnownInv(t)'
    BY <1>0, <2>0 DEF TabInv, KnownInv
  <2>2. InboxInv(t)'
    BY <1>0, <2>0 DEF TabInv, InboxInv
  <2>3. GreetInv(t)'
    BY <1>0, <2>0 DEF TabInv, GreetInv, Current
  <2>4. PageInv(t)'
    BY <1>0, <2>0 DEF TabInv, PageInv, Current, UpToDate
  <2>5. OverlayInv(t)'
    BY <1>0, <2>0 DEF TabInv, OverlayInv, Current, Reaches
  <2> QED
    BY <2>1, <2>2, <2>3, <2>4, <2>5 DEF TabInv
<1> QED
  BY <1>1, <1>2, <1>3 DEF PreviewInv

(* The build writes a page. *)
LEMMA PreviewBuildWrite ==
  ASSUME PreviewInv, NEW p \in Path, BuildWrite(p)
  PROVE  PreviewInv'
<1>0. /\ TypeOK /\ ServerInv /\ \A t \in Tab : TabInv(t)
      /\ bpc = "write" /\ p \in todo /\ disk' = [disk EXCEPT ![p] = @ + 1]
      /\ todo' = todo \ {p} /\ changed' = changed \cup {p}
      /\ due' = due /\ version' = version /\ session' = session /\ standing' = standing
      /\ bpc' = bpc /\ outcome' = outcome /\ sockets' = sockets /\ here' = here /\ tpc' = tpc
      /\ script' = script /\ known' = known /\ shown' = shown /\ overlay' = overlay
      /\ inbox' = inbox /\ greeted' = greeted /\ missed' = missed
  BY DEF BuildWrite, PreviewInv
<1>1. TypeOK'
  BY <1>0 DEF TypeOK, BuildWrite
<1>2. ServerInv'
  <2>1. disk \in [Path -> Nat] /\ due \in [Path -> Nat]
    BY <1>0 DEF TypeOK
  <2>2. \A q \in Path : disk[q] <= disk'[q]
    BY <1>0, <2>1
  <2> QED
    BY <1>0, <2>1, <2>2 DEF ServerInv
<1>3. ASSUME NEW t \in Tab PROVE TabInv(t)'
  <2>0. TabInv(t) /\ (Doomed(t)' <=> Doomed(t)) /\ (OverlayAhead(t)' <=> OverlayAhead(t))
    BY <1>0, SameTab
  <2>1. KnownInv(t)'
    BY <1>0, <2>0 DEF TabInv, KnownInv
  <2>2. InboxInv(t)'
    BY <1>0, <2>0 DEF TabInv, InboxInv
  <2>3. GreetInv(t)'
    BY <1>0, <2>0 DEF TabInv, GreetInv, Current
  <2>4. PageInv(t)'
    BY <1>0, <2>0 DEF TabInv, PageInv, Current, UpToDate
  <2>5. OverlayInv(t)'
    BY <1>0, <2>0 DEF TabInv, OverlayInv, Current, Reaches
  <2> QED
    BY <2>1, <2>2, <2>3, <2>4, <2>5 DEF TabInv
<1> QED
  BY <1>1, <1>2, <1>3 DEF PreviewInv

(* The build succeeds. *)
LEMMA PreviewBuildOk ==
  ASSUME PreviewInv, BuildOk
  PROVE  PreviewInv'
<1>0. /\ TypeOK /\ ServerInv /\ \A t \in Tab : TabInv(t)
      /\ bpc = "write" /\ todo = {} /\ bpc' = "clear"
      /\ disk' = disk /\ version' = version /\ session' = session /\ standing' = standing
      /\ todo' = todo /\ changed' = changed /\ outcome' = outcome /\ sockets' = sockets
      /\ here' = here /\ tpc' = tpc /\ script' = script /\ known' = known /\ shown' = shown
      /\ overlay' = overlay /\ inbox' = inbox /\ greeted' = greeted /\ missed' = missed
  BY DEF BuildOk, PreviewInv
<1>d. due' = [p \in Path |-> IF p \in changed THEN disk[p] ELSE due[p]]
  BY DEF BuildOk
<1>e. disk \in [Path -> Nat] /\ due \in [Path -> Nat] /\ due' \in [Path -> Nat] /\ here \in [Tab -> Path]
  BY <1>0, <1>d DEF TypeOK
<1>1. TypeOK'
  BY <1>0, <1>e DEF TypeOK, BuildOk
<1>2. ServerInv'
  BY <1>0, <1>d, <1>e DEF ServerInv
<1>3. ASSUME NEW t \in Tab PROVE TabInv(t)'
  <2>0. TabInv(t) /\ (Doomed(t)' <=> Doomed(t)) /\ (OverlayAhead(t)' <=> OverlayAhead(t))
    BY <1>0, SameTab
  <2>1. KnownInv(t)'
    BY <1>0, <2>0 DEF TabInv, KnownInv
  <2>2. InboxInv(t)'
    BY <1>0, <2>0 DEF TabInv, InboxInv
  <2>3. GreetInv(t)'
    BY <1>0, <2>0 DEF TabInv, GreetInv, Current
  <2>4. PageInv(t)'
    <3>1. UpToDate(t) => UpToDate(t)' \/ here[t] \in changed
      BY <1>0, <1>d, <1>e DEF UpToDate
    <3> QED
      BY <1>0, <2>0, <3>1 DEF TabInv, PageInv, Current
  <2>5. OverlayInv(t)'
    BY <1>0, <2>0 DEF TabInv, OverlayInv, Current, Reaches
  <2> QED
    BY <2>1, <2>2, <2>3, <2>4, <2>5 DEF TabInv
<1> QED
  BY <1>1, <1>2, <1>3 DEF PreviewInv

(* The build fails, and what it wrote is told to nobody. *)
LEMMA PreviewBuildError ==
  ASSUME PreviewInv, BuildError
  PROVE  PreviewInv'
<1>0. /\ TypeOK /\ ServerInv /\ \A t \in Tab : TabInv(t)
      /\ bpc = "write" /\ todo' = {} /\ changed' = {} /\ bpc' = "fail" /\ due' = due
      /\ disk' = disk /\ version' = version /\ session' = session /\ standing' = standing
      /\ outcome' = outcome /\ sockets' = sockets /\ here' = here
      /\ tpc' = tpc /\ script' = script /\ known' = known /\ shown' = shown /\ overlay' = overlay
      /\ inbox' = inbox /\ greeted' = greeted /\ missed' = missed
  BY DEF BuildError, PreviewInv
<1>1. TypeOK'
  BY <1>0 DEF TypeOK, BuildError
<1>2. ServerInv'
  BY <1>0 DEF ServerInv
<1>3. ASSUME NEW t \in Tab PROVE TabInv(t)'
  <2>0. TabInv(t) /\ (Doomed(t)' <=> Doomed(t)) /\ (OverlayAhead(t)' <=> OverlayAhead(t))
    BY <1>0, SameTab
  <2>1. KnownInv(t)'
    BY <1>0, <2>0 DEF TabInv, KnownInv
  <2>2. InboxInv(t)'
    BY <1>0, <2>0 DEF TabInv, InboxInv
  <2>3. GreetInv(t)'
    BY <1>0, <2>0 DEF TabInv, GreetInv, Current
  <2>4. PageInv(t)'
    BY <1>0, <2>0 DEF TabInv, PageInv, Current, UpToDate
  <2>5. OverlayInv(t)'
    BY <1>0, <2>0 DEF TabInv, OverlayInv, Current, Reaches
  <2> QED
    BY <2>1, <2>2, <2>3, <2>4, <2>5 DEF TabInv
<1> QED
  BY <1>1, <1>2, <1>3 DEF PreviewInv

(* The failure gets a version and stands. *)
LEMMA PreviewFail ==
  ASSUME PreviewInv, Fail
  PROVE  PreviewInv'
<1>0. /\ TypeOK /\ ServerInv /\ \A t \in Tab : TabInv(t)
      /\ bpc = "fail" /\ standing' = TRUE /\ bpc' = "push failure"
      /\ disk' = disk /\ due' = due /\ session' = session /\ todo' = todo
      /\ changed' = changed /\ outcome' = outcome /\ sockets' = sockets /\ here' = here
      /\ tpc' = tpc /\ script' = script /\ known' = known /\ shown' = shown /\ overlay' = overlay
      /\ inbox' = inbox /\ greeted' = greeted /\ missed' = missed
      /\ builds' = builds /\ drops' = drops /\ restarts' = restarts
  BY DEF Fail, PreviewInv
<1>v. version \in Nat
  BY <1>0 DEF TypeOK
<1>a. version' = version + 1
  BY DEF Fail
<1>b. version' \in Nat
  BY <1>v, <1>a
<1>1. TypeOK'
  BY <1>0, <1>b DEF TypeOK
<1>2. ServerInv'
  BY <1>0 DEF ServerInv
<1>3. ASSUME NEW t \in Tab PROVE TabInv(t)'
  <2>0. TabInv(t) /\ (Doomed(t)' <=> Doomed(t)) /\ (OverlayAhead(t)' <=> OverlayAhead(t))
    BY <1>0, SameTab
  <2>1. /\ KnownInv(t)' /\ ~Current(t)'
        /\ \A i \in DOMAIN inbox'[t] :
              /\ inbox'[t][i].version < version' /\ inbox'[t][i].version <= version'
              /\ inbox'[t][i].version # version'
        /\ tpc[t] \in Joining => greeted'[t] # version' /\ greeted'[t] <= version'
    BY <1>0, <1>a, <2>0, NewVersion
  <2>2. InboxInv(t)'
    BY <1>0, <2>0, <2>1 DEF TabInv, InboxInv
  <2>3. GreetInv(t)'
    BY <1>0, <2>0, <2>1 DEF TabInv, GreetInv
  <2>4. PageInv(t)'
    BY <1>0, <2>0, <2>1 DEF TabInv, PageInv, UpToDate
  <2>5. OverlayInv(t)'
    BY <1>0, <2>0, <2>1 DEF TabInv, OverlayInv, Reaches, ServerInv, Joining
  <2> QED
    BY <2>1, <2>2, <2>3, <2>4, <2>5 DEF TabInv
<1> QED
  BY <1>1, <1>2, <1>3 DEF PreviewInv

(* A success clears the failure. *)
LEMMA PreviewClearFailure ==
  ASSUME PreviewInv, ClearFailure
  PROVE  PreviewInv'
<1>0. /\ TypeOK /\ ServerInv /\ \A t \in Tab : TabInv(t)
      /\ bpc = "clear" /\ standing' = FALSE
      /\ bpc' = IF changed # {} \/ standing THEN "bump" ELSE "wait"
      /\ disk' = disk /\ due' = due /\ version' = version /\ session' = session
      /\ todo' = todo /\ changed' = changed /\ outcome' = outcome /\ sockets' = sockets
      /\ here' = here /\ tpc' = tpc /\ script' = script /\ known' = known /\ shown' = shown
      /\ overlay' = overlay /\ inbox' = inbox /\ greeted' = greeted /\ missed' = missed
  BY DEF ClearFailure, PreviewInv
<1>1. TypeOK'
  BY <1>0 DEF TypeOK, ClearFailure
<1>2. ServerInv'
  BY <1>0 DEF ServerInv
<1>3. ASSUME NEW t \in Tab PROVE TabInv(t)'
  <2>0. TabInv(t) /\ (Doomed(t)' <=> Doomed(t)) /\ (OverlayAhead(t)' <=> OverlayAhead(t))
    BY <1>0, SameTab
  <2>1. KnownInv(t)'
    BY <1>0, <2>0 DEF TabInv, KnownInv
  <2>2. InboxInv(t)'
    BY <1>0, <2>0 DEF TabInv, InboxInv
  <2>3. GreetInv(t)'
    BY <1>0, <2>0 DEF TabInv, GreetInv, Current
  <2>4. PageInv(t)'
    BY <1>0, <2>0 DEF TabInv, PageInv, Current, UpToDate
  <2>5. OverlayInv(t)'
    BY <1>0, <2>0 DEF TabInv, OverlayInv, Current, Reaches, TypeOK
  <2> QED
    BY <2>1, <2>2, <2>3, <2>4, <2>5 DEF TabInv
<1> QED
  BY <1>1, <1>2, <1>3 DEF PreviewInv

(* The change gets a version. *)
LEMMA PreviewBump ==
  ASSUME PreviewInv, Bump
  PROVE  PreviewInv'
<1>0. /\ TypeOK /\ ServerInv /\ \A t \in Tab : TabInv(t)
      /\ bpc = "bump" /\ bpc' = "push change"
      /\ disk' = disk /\ due' = due /\ session' = session /\ standing' = standing
      /\ todo' = todo /\ changed' = changed /\ outcome' = outcome /\ sockets' = sockets
      /\ here' = here /\ tpc' = tpc /\ script' = script /\ known' = known /\ shown' = shown
      /\ overlay' = overlay /\ inbox' = inbox /\ greeted' = greeted /\ missed' = missed
      /\ builds' = builds /\ drops' = drops /\ restarts' = restarts
  BY DEF Bump, PreviewInv
<1>v. version \in Nat
  BY <1>0 DEF TypeOK
<1>a. version' = version + 1
  BY DEF Bump
<1>b. version' \in Nat
  BY <1>v, <1>a
<1>1. TypeOK'
  BY <1>0, <1>b DEF TypeOK
<1>2. ServerInv'
  BY <1>0 DEF ServerInv
<1>3. ASSUME NEW t \in Tab PROVE TabInv(t)'
  <2>0. TabInv(t) /\ (Doomed(t)' <=> Doomed(t)) /\ (OverlayAhead(t)' <=> OverlayAhead(t))
    BY <1>0, SameTab
  <2>1. /\ KnownInv(t)' /\ ~Current(t)'
        /\ \A i \in DOMAIN inbox'[t] :
              /\ inbox'[t][i].version < version' /\ inbox'[t][i].version <= version'
              /\ inbox'[t][i].version # version'
        /\ tpc[t] \in Joining => greeted'[t] # version' /\ greeted'[t] <= version'
    BY <1>0, <1>a, <2>0, NewVersion
  <2>2. InboxInv(t)'
    BY <1>0, <2>0, <2>1 DEF TabInv, InboxInv
  <2>3. GreetInv(t)'
    BY <1>0, <2>0, <2>1 DEF TabInv, GreetInv
  <2>4. PageInv(t)'
    BY <1>0, <2>0, <2>1 DEF TabInv, PageInv, UpToDate
  <2>5. OverlayInv(t)'
    BY <1>0, <2>0, <2>1 DEF TabInv, OverlayInv, Reaches, ServerInv, Joining
  <2> QED
    BY <2>1, <2>2, <2>3, <2>4, <2>5 DEF TabInv
<1> QED
  BY <1>1, <1>2, <1>3 DEF PreviewInv

(* The message reaches the sockets on the list; a tab that is passed over    *)
(* with an older hello is missed, and one with the newest hello needs no     *)
(* message.                                                                  *)
LEMMA PreviewPush == ASSUME PreviewInv, Push PROVE PreviewInv'
<1>0. /\ TypeOK /\ ServerInv /\ \A t \in Tab : TabInv(t)
      /\ bpc \in {"push change", "push failure"} /\ bpc' = "wait" /\ changed' = {} /\ outcome' = "ok"
      /\ missed' = missed \cup {t \in Tab : tpc[t] \in {"greeted", "told"} /\ greeted[t] # version}
      /\ disk' = disk /\ due' = due /\ version' = version /\ session' = session
      /\ standing' = standing /\ todo' = todo /\ sockets' = sockets /\ here' = here /\ tpc' = tpc
      /\ script' = script /\ known' = known /\ shown' = shown /\ overlay' = overlay
      /\ greeted' = greeted /\ builds' = builds /\ drops' = drops /\ restarts' = restarts
  BY DEF Push, Pushed, PreviewInv
<1>v. version \in Nat /\ changed \in SUBSET Path /\ sockets = {t \in Tab : tpc[t] = "live"}
  BY <1>0 DEF TypeOK
<1>m. PICK m \in Message :
        /\ m.version = version
        /\ inbox' = [t \in Tab |-> IF t \in sockets THEN Append(inbox[t], m) ELSE inbox[t]]
        /\ \/ bpc = "push change" /\ m.type = "change" /\ m.paths = changed
           \/ bpc = "push failure" /\ m.type = "failure"
  <2>1. CASE bpc = "push change" /\ Pushed(Change(version, changed))
    <3>1. Change(version, changed) \in Message
      BY <1>v, Messages
    <3> QED
      BY <2>1, <3>1 DEF Pushed, Change
  <2>2. CASE bpc = "push failure" /\ Pushed(Failure(version))
    <3>1. Failure(version) \in Message
      BY <1>v DEF Failure, Message
    <3> QED
      BY <2>2, <3>1 DEF Pushed, Failure
  <2> QED
    BY <2>1, <2>2 DEF Push
<1>i. inbox \in [Tab -> Seq(Message)]
  BY <1>0 DEF TypeOK
<1>j. inbox' \in [Tab -> Seq(Message)]
  <2>1. \A t \in Tab : inbox[t] \in Seq(Message) /\ Append(inbox[t], m) \in Seq(Message)
    BY <1>i, AppendTo
  <2> QED
    BY <1>m, <2>1
<1>1. TypeOK'
  BY <1>0, <1>j DEF TypeOK
<1>2. ServerInv'
  BY <1>0 DEF ServerInv
<1>3. ASSUME NEW t \in Tab, t \in sockets PROVE TabInv(t)'
  <2> DEFINE s == inbox[t]
             n == Len(s) + 1
  <2>0. /\ TabInv(t) /\ tpc[t] = "live" /\ inbox'[t] = Append(s, m) /\ s \in Seq(Message)
        /\ (t \notin missed' <=> t \notin missed)
    BY <1>0, <1>v, <1>m, <1>i, <1>3
  <2>1. /\ \A i \in DOMAIN s : i \in DOMAIN inbox'[t] /\ inbox'[t][i] = s[i]
        /\ inbox'[t][n] = m /\ n \in DOMAIN inbox'[t] /\ Len(inbox'[t]) = n /\ inbox'[t] # <<>>
        /\ \A i \in DOMAIN inbox'[t] : i \in DOMAIN s \/ i = n
        /\ \A i \in DOMAIN s : i \in Nat /\ 1 <= i /\ i < n
        /\ n \in Nat
    BY <2>0, AppendTo
  <2>2. s # <<>> => 1 \in DOMAIN s
    BY <2>0
  <2>3. Doomed(t) => Doomed(t)'
    BY <1>0, <2>1, <2>2 DEF Doomed
  <2>4. m.type = "change" /\ here[t] \in changed => Doomed(t)'
    BY <1>0, <1>m, <2>1 DEF Doomed
  <2>5. KnownInv(t)'
    BY <1>0, <2>0 DEF TabInv, KnownInv
  <2>6. InboxInv(t)'
    <3>1. ASSUME NEW i \in DOMAIN inbox'[t]
          PROVE  /\ inbox'[t][i].version <= version
                 /\ inbox'[t][i].type = "hello" => i = 1
                 /\ inbox'[t][i].type = "failure" /\ inbox'[t][i].version = version => standing
      <4>1. CASE i \in DOMAIN s
        BY <1>0, <2>0, <2>1, <4>1 DEF TabInv, InboxInv
      <4>2. CASE i = n
        <5>1. m.type # "hello" /\ (m.type = "failure" => standing)
          BY <1>0, <1>m DEF ServerInv
        <5>2. m.version <= version
          <6>1. version \in Nat
            BY <1>v
          <6>2. version <= version
            BY <6>1
          <6> QED
            BY <1>m, <6>2
        <5> QED
          BY <2>1, <4>2, <5>1, <5>2
      <4> QED
        BY <2>1, <4>1, <4>2
    <3>2. ASSUME NEW i \in DOMAIN inbox'[t], NEW j \in DOMAIN inbox'[t], i < j,
                 inbox'[t][i].type # "hello", inbox'[t][j].type = "change"
          PROVE  inbox'[t][i].version < inbox'[t][j].version
      <4>1. i \in DOMAIN s
        BY <2>1, <3>2
      <4>2. CASE j \in DOMAIN s
        BY <2>0, <2>1, <3>2, <4>1, <4>2 DEF TabInv, InboxInv
      <4>3. CASE j = n
        <5>1. bpc = "push change" /\ inbox'[t][j].version = version
          BY <1>m, <2>1, <3>2, <4>3
        <5>2. inbox[t][i].version < version
          BY <2>0, <2>1, <3>2, <4>1, <5>1 DEF TabInv, InboxInv
        <5> QED
          BY <2>1, <4>1, <5>1, <5>2
      <4> QED
        BY <2>1, <4>2, <4>3
    <3> QED
      BY <1>0, <3>1, <3>2 DEF InboxInv
  <2>7. GreetInv(t)'
    BY <1>0, <2>0 DEF GreetInv, Joining
  <2>8. PageInv(t)'
    BY <1>0, <1>m, <2>0, <2>3, <2>4 DEF TabInv, PageInv, Current, UpToDate
  <2>9. OverlayInv(t)'
    <3>1. OverlayAhead(t)' <=> standing
      BY <1>0, <1>m, <2>1 DEF OverlayAhead, ServerInv
    <3> QED
      BY <1>0, <2>0, <3>1 DEF TabInv, OverlayInv, Current
  <2> QED
    BY <2>5, <2>6, <2>7, <2>8, <2>9 DEF TabInv
<1>4. ASSUME NEW t \in Tab, t \notin sockets PROVE TabInv(t)'
  <2>0. /\ TabInv(t) /\ tpc[t] # "live" /\ inbox'[t] = inbox[t]
        /\ (t \notin missed' => t \notin missed /\ (tpc[t] \in Joining => greeted[t] = version))
    BY <1>0, <1>v, <1>m, <1>i, <1>4 DEF Joining
  <2>1. Doomed(t)' <=> Doomed(t)
    BY <1>0, <2>0 DEF Doomed
  <2>2. OverlayAhead(t)' <=> OverlayAhead(t)
    BY <1>0, <2>0, Types DEF OverlayAhead
  <2>3. KnownInv(t)'
    BY <1>0, <2>0 DEF TabInv, KnownInv
  <2>4. InboxInv(t)'
    BY <1>0, <2>0 DEF TabInv, InboxInv
  <2>5. GreetInv(t)'
    BY <1>0, <2>0, <2>1 DEF TabInv, GreetInv, Current
  <2>6. PageInv(t)'
    BY <1>0, <2>0, <2>1 DEF TabInv, PageInv, GreetInv, Connected, Joining, Current, UpToDate
  <2>7. OverlayInv(t)'
    BY <1>0, <2>0, <2>1, <2>2 DEF TabInv, OverlayInv, Current, Reaches, Joining
  <2> QED
    BY <2>3, <2>4, <2>5, <2>6, <2>7 DEF TabInv
<1> QED
  BY <1>1, <1>2, <1>3, <1>4 DEF PreviewInv

-----------------------------------------------------------------------------
(* Steps of one tab *)

(* What is left to show when only the tab t moves. *)
LEMMA TabStep ==
  ASSUME PreviewInv, NEW t \in Tab, TypeOK', TabInv(t)',
         /\ disk' = disk /\ due' = due /\ version' = version /\ session' = session
         /\ standing' = standing /\ bpc' = bpc /\ todo' = todo /\ changed' = changed /\ here' = here,
         \A u \in Tab : u # t =>
            /\ tpc'[u] = tpc[u] /\ script'[u] = script[u] /\ known'[u] = known[u]
            /\ shown'[u] = shown[u] /\ overlay'[u] = overlay[u] /\ inbox'[u] = inbox[u]
            /\ greeted'[u] = greeted[u] /\ (u \in missed' <=> u \in missed)
  PROVE  PreviewInv'
<1>1. ServerInv'
  BY DEF PreviewInv, ServerInv
<1>2. ASSUME NEW u \in Tab, u # t PROVE TabInv(u)'
  BY <1>2, TabFrame DEF PreviewInv
<1> QED
  BY <1>1, <1>2 DEF PreviewInv

(* A page request takes the version and the session for its script. *)
LEMMA PreviewFetchScript == ASSUME PreviewInv, NEW t \in Tab, FetchScript(t) PROVE PreviewInv'
<1>0. TypeOK /\ TabInv(t) /\ tpc[t] = "load"
  BY DEF FetchScript, PreviewInv
<1>a. /\ script' = [script EXCEPT ![t] = <<version, session>>] /\ tpc' = [tpc EXCEPT ![t] = "read"]
      /\ disk' = disk /\ due' = due /\ version' = version /\ session' = session
      /\ standing' = standing /\ bpc' = bpc /\ todo' = todo /\ changed' = changed /\ outcome' = outcome
      /\ sockets' = sockets /\ here' = here /\ known' = known /\ shown' = shown /\ overlay' = overlay
      /\ inbox' = inbox /\ greeted' = greeted /\ missed' = missed
      /\ builds' = builds /\ drops' = drops /\ restarts' = restarts
  BY DEF FetchScript
<1>b. tpc \in [Tab -> {"load", "read", "connect", "greeted", "told", "live"}]
      /\ script \in [Tab -> Nat \X Nat] /\ <<version, session>> \in Nat \X Nat
      /\ sockets = {u \in Tab : tpc[u] = "live"}
  BY <1>0 DEF TypeOK
<1>c. /\ script'[t] = <<version, session>> /\ tpc'[t] = "read"
      /\ \A u \in Tab : u # t => tpc'[u] = tpc[u] /\ script'[u] = script[u]
  BY <1>a, <1>b
<1>1. TypeOK'
  <2>1. script' \in [Tab -> Nat \X Nat] /\ sockets' = {u \in Tab : tpc'[u] = "live"}
    BY <1>0, <1>a, <1>b, <1>c
  <2>2. tpc' \in [Tab -> {"load", "read", "connect", "greeted", "told", "live"}]
    BY <1>a, <1>b
  <2> QED
    BY <1>0, <1>a, <2>1, <2>2 DEF TypeOK
<1>2. TabInv(t)'
  <2>0. version <= version
    BY <1>0, Types
  <2>1. KnownInv(t)'
    BY <1>0, <1>a, <1>c, <2>0 DEF TabInv, KnownInv
  <2>2. InboxInv(t)'
    BY <1>0, <1>a DEF TabInv, InboxInv
  <2>3. GreetInv(t)' /\ PageInv(t)' /\ OverlayInv(t)'
    BY <1>c DEF GreetInv, Joining, PageInv, OverlayInv, Connected
  <2> QED
    BY <2>1, <2>2, <2>3 DEF TabInv
<1> QED
  BY <1>a, <1>c, <1>1, <1>2, TabStep

(* The page is read after its script was made, so it is at least as new. *)
LEMMA PreviewServe == ASSUME PreviewInv, NEW t \in Tab, Serve(t) PROVE PreviewInv'
<1>0. TypeOK /\ ServerInv /\ TabInv(t) /\ tpc[t] = "read"
  BY DEF Serve, PreviewInv
<1>a. /\ script' = [script EXCEPT ![t] = <<0, 0>>] /\ tpc' = [tpc EXCEPT ![t] = "connect"]
      /\ known' = [known EXCEPT ![t] = script[t]] /\ shown' = [shown EXCEPT ![t] = disk[here[t]]]
      /\ overlay' = [overlay EXCEPT ![t] = FALSE] /\ missed' = missed \ {t}
      /\ disk' = disk /\ due' = due /\ version' = version /\ session' = session
      /\ standing' = standing /\ bpc' = bpc /\ todo' = todo /\ changed' = changed /\ outcome' = outcome
      /\ sockets' = sockets /\ here' = here /\ inbox' = inbox /\ greeted' = greeted
      /\ builds' = builds /\ drops' = drops /\ restarts' = restarts
  BY DEF Serve
<1>b. /\ tpc \in [Tab -> {"load", "read", "connect", "greeted", "told", "live"}]
      /\ script \in [Tab -> Nat \X Nat] /\ known \in [Tab -> Nat \X Nat]
      /\ shown \in [Tab -> Nat] /\ overlay \in [Tab -> BOOLEAN]
      /\ here \in [Tab -> Path] /\ disk \in [Path -> Nat] /\ missed \in SUBSET Tab
      /\ sockets = {u \in Tab : tpc[u] = "live"}
  BY <1>0 DEF TypeOK
<1>c. /\ tpc'[t] = "connect" /\ known'[t] = script[t] /\ shown'[t] = disk[here[t]]
      /\ overlay'[t] = FALSE /\ script[t] \in Nat \X Nat /\ <<0, 0>> \in Nat \X Nat
      /\ \A u \in Tab : u # t => /\ tpc'[u] = tpc[u] /\ script'[u] = script[u] /\ known'[u] = known[u]
                                 /\ shown'[u] = shown[u] /\ overlay'[u] = overlay[u]
                                 /\ (u \in missed' <=> u \in missed)
  BY <1>a, <1>b
<1>1. TypeOK'
  <2>1. script' \in [Tab -> Nat \X Nat] /\ known' \in [Tab -> Nat \X Nat]
    BY <1>a, <1>b, <1>c
  <2>2. tpc' \in [Tab -> {"load", "read", "connect", "greeted", "told", "live"}]
        /\ shown' \in [Tab -> Nat] /\ overlay' \in [Tab -> BOOLEAN] /\ missed' \in SUBSET Tab
    BY <1>a, <1>b
  <2>3. sockets' = {u \in Tab : tpc'[u] = "live"}
    BY <1>0, <1>a, <1>b, <1>c
  <2> QED
    BY <1>0, <1>a, <2>1, <2>2, <2>3 DEF TypeOK
<1>2. TabInv(t)'
  <2>1. KnownInv(t)'
    BY <1>0, <1>a, <1>c DEF TabInv, KnownInv
  <2>2. InboxInv(t)'
    BY <1>0, <1>a DEF TabInv, InboxInv
  <2>3. GreetInv(t)'
    BY <1>c DEF GreetInv, Joining
  <2>4. UpToDate(t)'
    <3>1. here[t] \in Path /\ disk[here[t]] \in Nat /\ due[here[t]] \in Nat /\ due[here[t]] <= disk[here[t]]
      BY <1>0 DEF TypeOK, ServerInv
    <3> QED
      BY <1>a, <1>c, <3>1 DEF UpToDate
  <2>5. PageInv(t)' /\ OverlayInv(t)'
    BY <1>c, <2>4 DEF PageInv, OverlayInv, Connected
  <2> QED
    BY <2>1, <2>2, <2>3, <2>5 DEF TabInv
<1> QED
  BY <1>a, <1>c, <1>1, <1>2, TabStep

(* The hello tells the tab whether its page is of this version. *)
LEMMA PreviewGreet == ASSUME PreviewInv, NEW t \in Tab, Greet(t) PROVE PreviewInv'
<1> DEFINE m == Hello(version, session)
<1>0. TypeOK /\ TabInv(t) /\ tpc[t] = "connect"
  BY DEF Greet, PreviewInv
<1>a. /\ inbox' = [inbox EXCEPT ![t] = <<m>>] /\ tpc' = [tpc EXCEPT ![t] = "greeted"]
      /\ greeted' = [greeted EXCEPT ![t] = version]
      /\ disk' = disk /\ due' = due /\ version' = version /\ session' = session
      /\ standing' = standing /\ bpc' = bpc /\ todo' = todo /\ changed' = changed /\ outcome' = outcome
      /\ sockets' = sockets /\ here' = here /\ script' = script /\ known' = known /\ shown' = shown
      /\ overlay' = overlay /\ missed' = missed
      /\ builds' = builds /\ drops' = drops /\ restarts' = restarts
  BY DEF Greet
<1>b. /\ tpc \in [Tab -> {"load", "read", "connect", "greeted", "told", "live"}]
      /\ inbox \in [Tab -> Seq(Message)] /\ greeted \in [Tab -> Nat]
      /\ version \in Nat /\ session \in Nat /\ sockets = {u \in Tab : tpc[u] = "live"}
  BY <1>0 DEF TypeOK
<1>m. /\ m \in Message /\ m.type = "hello" /\ m.version = version /\ m.session = session
      /\ m.paths = {}
  BY <1>b DEF Hello, Message
<1>n. <<m>> \in Seq(Message) /\ DOMAIN <<m>> = {1} /\ <<m>>[1] = m /\ <<m>> # <<>>
  BY <1>m
<1>c. /\ tpc'[t] = "greeted" /\ inbox'[t] = <<m>> /\ greeted'[t] = version
      /\ \A u \in Tab : u # t => tpc'[u] = tpc[u] /\ inbox'[u] = inbox[u] /\ greeted'[u] = greeted[u]
  BY <1>a, <1>b
<1>1. TypeOK'
  <2>1. inbox' \in [Tab -> Seq(Message)]
    BY <1>a, <1>b, <1>n
  <2>2. tpc' \in [Tab -> {"load", "read", "connect", "greeted", "told", "live"}]
        /\ greeted' \in [Tab -> Nat]
    BY <1>a, <1>b
  <2>3. sockets' = {u \in Tab : tpc'[u] = "live"}
    BY <1>0, <1>a, <1>b, <1>c
  <2> QED
    BY <1>0, <1>a, <2>1, <2>2, <2>3 DEF TypeOK
<1>2. TabInv(t)'
  <2>0. version <= version /\ version >= version
    BY <1>0, Types
  <2>1. KnownInv(t)'
    BY <1>0, <1>a, <1>c DEF TabInv, KnownInv
  <2>2. InboxInv(t)'
    <3>1. version' = version /\ DOMAIN inbox'[t] = {1}
      BY <1>a, <1>c, <1>n
    <3>2. inbox'[t][1].type = "hello" /\ inbox'[t][1].version = version
      BY <1>c, <1>m, <1>n
    <3> QED
      BY <2>0, <3>1, <3>2 DEF InboxInv
  <2>3. ~Doomed(t)' => Current(t) /\ Current(t)'
    BY <1>a, <1>c, <1>m, <1>n DEF Doomed, Current
  <2>4. GreetInv(t)'
    <3>1. \A i \in DOMAIN inbox'[t] : inbox'[t][i].type = "hello" /\ inbox'[t][i].version >= greeted'[t]
      BY <1>c, <1>m, <1>n, <2>0
    <3>2. greeted'[t] <= version' /\ greeted'[t] = version'
      BY <1>a, <1>c, <2>0
    <3> QED
      BY <2>3, <3>1, <3>2 DEF GreetInv
  <2>5. PageInv(t)'
    BY <1>0, <1>a, <1>c, <2>3 DEF TabInv, PageInv, Connected, Current, UpToDate
  <2>6. OverlayInv(t)'
    BY <1>0, <1>a, <1>c DEF TabInv, OverlayInv, Connected, Current
  <2> QED
    BY <2>1, <2>2, <2>4, <2>5, <2>6 DEF TabInv
<1> QED
  BY <1>a, <1>c, <1>1, <1>2, TabStep

(* A standing failure is sent after the hello; without one, an overlay left  *)
(* from before the connection was lost is gone or about to be.               *)
LEMMA PreviewTellStanding == ASSUME PreviewInv, NEW t \in Tab, TellStanding(t) PROVE PreviewInv'
<1> DEFINE s == inbox[t]
<1>0. TypeOK /\ ServerInv /\ TabInv(t) /\ tpc[t] = "greeted"
  BY DEF TellStanding, PreviewInv
<1>b. /\ tpc \in [Tab -> {"load", "read", "connect", "greeted", "told", "live"}]
      /\ inbox \in [Tab -> Seq(Message)] /\ s \in Seq(Message)
      /\ version \in Nat /\ sockets = {u \in Tab : tpc[u] = "live"}
  BY <1>0 DEF TypeOK
<1>m. PICK m \in Message : m = Failure(version) /\ m.type = "failure" /\ m.version = version
  <2>1. Failure(version) \in Message
    BY <1>b DEF Failure, Message
  <2> QED
    BY <2>1 DEF Failure
<1>a. /\ inbox' = [inbox EXCEPT ![t] = IF standing THEN Append(@, m) ELSE @]
      /\ tpc' = [tpc EXCEPT ![t] = "told"]
      /\ disk' = disk /\ due' = due /\ version' = version /\ session' = session
      /\ standing' = standing /\ bpc' = bpc /\ todo' = todo /\ changed' = changed /\ outcome' = outcome
      /\ sockets' = sockets /\ here' = here /\ script' = script /\ known' = known /\ shown' = shown
      /\ overlay' = overlay /\ greeted' = greeted /\ missed' = missed
      /\ builds' = builds /\ drops' = drops /\ restarts' = restarts
  BY <1>m DEF TellStanding
<1>n. Append(s, m) \in Seq(Message)
  BY <1>b, <1>m, AppendTo
<1>c. /\ tpc'[t] = "told" /\ inbox'[t] = (IF standing THEN Append(s, m) ELSE s)
      /\ \A u \in Tab : u # t => tpc'[u] = tpc[u] /\ inbox'[u] = inbox[u]
  BY <1>a, <1>b
<1>1. TypeOK'
  <2>1. inbox' \in [Tab -> Seq(Message)]
    BY <1>a, <1>b, <1>n
  <2>2. tpc' \in [Tab -> {"load", "read", "connect", "greeted", "told", "live"}]
    BY <1>a, <1>b
  <2>3. sockets' = {u \in Tab : tpc'[u] = "live"}
    BY <1>0, <1>a, <1>b, <1>c
  <2> QED
    BY <1>0, <1>a, <2>1, <2>2, <2>3 DEF TypeOK
<1>h. \A i \in DOMAIN s : s[i].type = "hello"
  BY <1>0 DEF TabInv, GreetInv
<1>2. ASSUME standing PROVE TabInv(t)'
  <2> DEFINE n == Len(s) + 1
  <2>0. inbox'[t] = Append(s, m) /\ bpc \notin {"bump", "push change"}
    BY <1>0, <1>c, <1>2 DEF ServerInv
  <2>9. greeted[t] <= version /\ version <= version
    <3>1. greeted[t] <= version
      BY <1>0 DEF TabInv, GreetInv, Joining
    <3>2. version <= version
      BY <1>0, Types
    <3> QED
      BY <3>1, <3>2
  <2>1. /\ \A i \in DOMAIN s : i \in DOMAIN inbox'[t] /\ inbox'[t][i] = s[i]
        /\ inbox'[t][n] = m /\ n \in DOMAIN inbox'[t] /\ Len(inbox'[t]) = n /\ inbox'[t] # <<>>
        /\ \A i \in DOMAIN inbox'[t] : i \in DOMAIN s \/ i = n
    <3>1. s \in Seq(Message) /\ inbox'[t] = Append(s, m)
      BY <1>b, <2>0
    <3> QED
      BY <3>1, AppendTo
  <2>a. s # <<>> => 1 \in DOMAIN s
    BY <1>b
  <2>2. KnownInv(t)'
    BY <1>0, <1>a, <1>c DEF TabInv, KnownInv
  <2>3. InboxInv(t)'
    <3>1. ASSUME NEW i \in DOMAIN inbox'[t]
          PROVE  /\ inbox'[t][i].version <= version /\ inbox'[t][i].type # "change"
                 /\ inbox'[t][i].type = "hello" => i = 1
      <4>1. CASE i \in DOMAIN s
        BY <1>0, <1>h, <2>1, <4>1 DEF TabInv, InboxInv
      <4>2. CASE i = n
        BY <1>m, <2>9, <2>1, <4>2
      <4> QED
        BY <2>1, <4>1, <4>2
    <3> QED
      BY <1>2, <1>a, <2>0, <3>1 DEF InboxInv
  <2>4. Doomed(t) => Doomed(t)'
    BY <1>a, <2>1, <2>a DEF Doomed
  <2>5. GreetInv(t)'
    <3>1. ASSUME NEW i \in DOMAIN inbox'[t] PROVE inbox'[t][i].version >= greeted[t]
      <4>1. CASE i \in DOMAIN s
        BY <1>0, <2>1, <4>1 DEF TabInv, GreetInv, Joining
      <4>2. CASE i = n
        <5>1. version >= greeted[t]
          BY <1>0, <2>9, Types
        <5> QED
          BY <1>m, <2>1, <4>2, <5>1
      <4> QED
        BY <2>1, <4>1, <4>2
    <3> QED
      BY <1>0, <1>a, <1>c, <2>0, <2>4, <2>9, <3>1 DEF TabInv, GreetInv, Joining, Current
  <2>6. PageInv(t)'
    BY <1>0, <1>a, <1>c, <2>4 DEF TabInv, PageInv, Connected, Current, UpToDate
  <2>7. OverlayAhead(t)'
    BY <1>m, <2>1 DEF OverlayAhead
  <2>8. OverlayInv(t)'
    BY <1>0, <1>2, <1>a, <1>c, <2>7 DEF TabInv, OverlayInv, Connected, Current
  <2> QED
    BY <2>2, <2>3, <2>5, <2>6, <2>8 DEF TabInv
<1>3. ASSUME ~standing PROVE TabInv(t)'
  <2>0. inbox'[t] = inbox[t]
    BY <1>c, <1>3
  <2>1. Doomed(t)' <=> Doomed(t)
    BY <1>a, <2>0 DEF Doomed
  <2>2. KnownInv(t)'
    BY <1>0, <1>a, <1>c DEF TabInv, KnownInv
  <2>3. InboxInv(t)'
    <3>1. InboxInv(t) /\ version' = version /\ bpc' = bpc /\ standing' = standing
      BY <1>0, <1>a DEF TabInv
    <3> QED
      BY <2>0, <3>1 DEF InboxInv
  <2>4. GreetInv(t)'
    BY <1>0, <1>a, <1>c, <2>0, <2>1 DEF TabInv, GreetInv, Joining, Current
  <2>5. PageInv(t)'
    BY <1>0, <1>a, <1>c, <2>1 DEF TabInv, PageInv, Connected, Current, UpToDate
  <2>6. OverlayAhead(t)' <=> overlay[t]
    <3>1. s # <<>> => Len(s) \in DOMAIN s
      BY <1>b
    <3> QED
      BY <1>a, <1>h, <2>0, <3>1 DEF OverlayAhead
  <2>7. OverlayInv(t)'
    <3>1. t \notin missed /\ Current(t) => (overlay[t] => bpc = "bump")
      BY <1>0, <1>3 DEF TabInv, OverlayInv, Connected
    <3>2. t \notin missed /\ ~Doomed(t) /\ greeted[t] # version =>
             bpc \in {"push change", "push failure"} /\ Reaches(t)'
      BY <1>0, <1>a DEF TabInv, GreetInv, Joining, Reaches
    <3>3. ~Doomed(t) /\ greeted[t] = version => Current(t)
      BY <1>0 DEF TabInv, GreetInv, Joining
    <3>4. (Current(t)' <=> Current(t)) /\ (t \in missed' <=> t \in missed)
      BY <1>a DEF Current
    <3>5. ASSUME t \notin missed, ~Doomed(t)
          PROVE  \/ OverlayAhead(t)' <=> standing
                 \/ OverlayAhead(t)' /\ bpc = "bump"
                 \/ bpc \in {"push change", "push failure"} /\ Reaches(t)'
      BY <1>3, <2>6, <3>1, <3>2, <3>3, <3>5
    <3>6. \A b \in {"push change"} : bpc = b /\ ~OverlayAhead(t)' => (OverlayAhead(t)' <=> standing)
      BY <1>3
    <3> QED
      BY <1>3, <1>a, <1>c, <2>1, <3>1, <3>4, <3>5, <3>6 DEF OverlayInv
  <2> QED
    BY <2>2, <2>3, <2>4, <2>5, <2>7 DEF TabInv
<1> QED
  BY <1>a, <1>c, <1>1, <1>2, <1>3, TabStep

(* The socket joins the list: a push under way may still reach it. *)
LEMMA PreviewRegister == ASSUME PreviewInv, NEW t \in Tab, Register(t) PROVE PreviewInv'
<1>0. TypeOK /\ TabInv(t) /\ tpc[t] = "told"
  BY DEF Register, PreviewInv
<1>a. /\ sockets' = sockets \cup {t} /\ tpc' = [tpc EXCEPT ![t] = "live"]
      /\ greeted' = [greeted EXCEPT ![t] = 0]
      /\ disk' = disk /\ due' = due /\ version' = version /\ session' = session
      /\ standing' = standing /\ bpc' = bpc /\ todo' = todo /\ changed' = changed /\ outcome' = outcome
      /\ here' = here /\ script' = script /\ known' = known /\ shown' = shown
      /\ overlay' = overlay /\ inbox' = inbox /\ missed' = missed
      /\ builds' = builds /\ drops' = drops /\ restarts' = restarts
  BY DEF Register
<1>b. /\ tpc \in [Tab -> {"load", "read", "connect", "greeted", "told", "live"}]
      /\ greeted \in [Tab -> Nat] /\ sockets = {u \in Tab : tpc[u] = "live"}
  BY <1>0 DEF TypeOK
<1>c. /\ tpc'[t] = "live"
      /\ \A u \in Tab : u # t => tpc'[u] = tpc[u] /\ greeted'[u] = greeted[u]
  BY <1>a, <1>b
<1>1. TypeOK'
  <2>1. tpc' \in [Tab -> {"load", "read", "connect", "greeted", "told", "live"}]
        /\ greeted' \in [Tab -> Nat]
    BY <1>a, <1>b
  <2>2. sockets' = {u \in Tab : tpc'[u] = "live"}
    BY <1>a, <1>b, <1>c
  <2> QED
    BY <1>0, <1>a, <2>1, <2>2 DEF TypeOK
<1>2. TabInv(t)'
  <2>0. (Doomed(t)' <=> Doomed(t)) /\ (OverlayAhead(t)' <=> OverlayAhead(t))
    BY <1>0, <1>a, SameTab
  <2>1. KnownInv(t)'
    BY <1>0, <1>a, <1>c DEF TabInv, KnownInv
  <2>2. InboxInv(t)'
    BY <1>0, <1>a DEF TabInv, InboxInv
  <2>3. GreetInv(t)'
    BY <1>c DEF GreetInv, Joining
  <2>4. PageInv(t)'
    BY <1>0, <1>a, <1>c, <2>0 DEF TabInv, PageInv, Connected, Current, UpToDate
  <2>5. OverlayInv(t)'
    BY <1>0, <1>a, <1>c, <2>0 DEF TabInv, OverlayInv, Connected, Current, Reaches
  <2> QED
    BY <2>1, <2>2, <2>3, <2>4, <2>5 DEF TabInv
<1> QED
  BY <1>a, <1>c, <1>1, <1>2, TabStep

(* The connection is lost, and the page will ask again. *)
LEMMA PreviewDrop == ASSUME PreviewInv, NEW t \in Tab, Drop(t) PROVE PreviewInv'
<1>0. TypeOK /\ TabInv(t) /\ tpc[t] \in Connected
  BY DEF Drop, PreviewInv
<1>a. /\ sockets' = sockets \ {t} /\ tpc' = [tpc EXCEPT ![t] = "connect"]
      /\ inbox' = [inbox EXCEPT ![t] = <<>>] /\ drops' = drops + 1
      /\ disk' = disk /\ due' = due /\ version' = version /\ session' = session
      /\ standing' = standing /\ bpc' = bpc /\ todo' = todo /\ changed' = changed /\ outcome' = outcome
      /\ here' = here /\ script' = script /\ known' = known /\ shown' = shown
      /\ overlay' = overlay /\ greeted' = greeted /\ missed' = missed
      /\ builds' = builds /\ restarts' = restarts
  BY DEF Drop
<1>b. /\ tpc \in [Tab -> {"load", "read", "connect", "greeted", "told", "live"}]
      /\ inbox \in [Tab -> Seq(Message)] /\ sockets = {u \in Tab : tpc[u] = "live"}
      /\ drops \in Nat
  BY <1>0 DEF TypeOK
<1>e. <<>> \in Seq(Message)
  OBVIOUS
<1>c. /\ tpc'[t] = "connect" /\ inbox'[t] = <<>>
      /\ \A u \in Tab : u # t => tpc'[u] = tpc[u] /\ inbox'[u] = inbox[u]
  BY <1>a, <1>b
<1>1. TypeOK'
  <2>1. tpc' \in [Tab -> {"load", "read", "connect", "greeted", "told", "live"}]
        /\ inbox' \in [Tab -> Seq(Message)]
    BY <1>a, <1>b, <1>e
  <2>2. sockets' = {u \in Tab : tpc'[u] = "live"}
    BY <1>a, <1>b, <1>c
  <2>3. drops' \in Nat
    BY <1>a, <1>b
  <2> QED
    BY <1>0, <1>a, <2>1, <2>2, <2>3 DEF TypeOK
<1>2. TabInv(t)'
  <2>1. KnownInv(t)'
    BY <1>0, <1>a, <1>c DEF TabInv, KnownInv
  <2>2. InboxInv(t)' /\ GreetInv(t)'
    BY <1>c DEF InboxInv, GreetInv, Joining
  <2>3. PageInv(t)'
    BY <1>0, <1>a, <1>c DEF TabInv, PageInv, Connected, Current, UpToDate
  <2>4. OverlayInv(t)'
    BY <1>0, <1>a, <1>c DEF TabInv, OverlayInv, Connected, Current
  <2> QED
    BY <2>1, <2>2, <2>3, <2>4 DEF TabInv
<1> QED
  BY <1>a, <1>c, <1>1, <1>2, TabStep

-----------------------------------------------------------------------------
(* The script in the page *)

(* A tab that leaves its page starts again. *)
LEMMA ReloadTab ==
  ASSUME NEW t \in Tab, tpc'[t] = "load", inbox'[t] = <<>>, KnownInv(t)'
  PROVE  TabInv(t)'
<1>1. InboxInv(t)'
  BY DEF InboxInv
<1>2. GreetInv(t)' /\ PageInv(t)' /\ OverlayInv(t)'
  BY DEF GreetInv, PageInv, OverlayInv, Joining, Connected
<1> QED
  BY <1>1, <1>2 DEF TabInv

(* What is known of a tab that takes its first message: which message it may *)
(* be, and what is ahead of the tab after it.                                *)
LEMMA TakeFirst ==
  ASSUME TypeOK, NEW t \in Tab, TabInv(t), inbox[t] # <<>>, inbox'[t] = Tail(inbox[t]),
         version' = version /\ bpc' = bpc /\ standing' = standing /\ here' = here
  PROVE  /\ InboxInv(t)'
         /\ \A i \in DOMAIN inbox'[t] : i + 1 \in DOMAIN inbox[t] /\ inbox'[t][i] = inbox[t][i + 1]
         /\ (inbox[t][1].type = "hello" => <<inbox[t][1].version, inbox[t][1].session>> = known[t])
            /\ (inbox[t][1].type = "change" => here[t] \notin inbox[t][1].paths)
               => (Doomed(t) => Doomed(t)')
         /\ inbox'[t] # <<>> => (OverlayAhead(t)' <=> OverlayAhead(t))
         /\ inbox'[t] = <<>> => /\ OverlayAhead(t)' <=> overlay'[t]
                                /\ OverlayAhead(t) <=> IF inbox[t][1].type # "hello"
                                                       THEN inbox[t][1].type = "failure" ELSE overlay[t]
<1> DEFINE s == inbox[t]
<1>0. s \in Seq(Message) /\ overlay[t] \in BOOLEAN
  BY Types
<1>1. /\ inbox'[t] \in Seq(Message) /\ 1 \in DOMAIN s
      /\ Len(inbox'[t]) = Len(s) - 1 /\ Len(s) \in Nat /\ Len(s) >= 1
      /\ \A i \in DOMAIN inbox'[t] : i \in Nat /\ i >= 1 /\ i + 1 \in DOMAIN s /\ inbox'[t][i] = s[i + 1]
      /\ \A i \in DOMAIN s : i # 1 => i - 1 \in DOMAIN inbox'[t] /\ inbox'[t][i - 1] = s[i]
      /\ inbox'[t] = <<>> <=> Len(s) = 1
  BY <1>0, TailOf
<1>2. \A i \in DOMAIN s : s[i].type = "hello" => i = 1
  BY DEF TabInv, InboxInv
<1>3. \A i \in DOMAIN inbox'[t] : inbox'[t][i].type # "hello"
  <2>1. \A i \in DOMAIN inbox'[t] : i + 1 # 1
    BY <1>1
  <2> QED
    BY <1>1, <1>2, <2>1
<1>4. InboxInv(t)'
  <2>1. ASSUME NEW i \in DOMAIN inbox'[t]
        PROVE  /\ inbox'[t][i].version <= version
               /\ inbox'[t][i].type # "hello" /\ bpc = "push change" => inbox'[t][i].version < version
               /\ inbox'[t][i].type = "failure" /\ inbox'[t][i].version = version => standing \/ bpc = "bump"
    <3>1. i + 1 \in DOMAIN s /\ inbox'[t][i] = s[i + 1]
      BY <1>1
    <3> QED
      BY <3>1 DEF TabInv, InboxInv
  <2>2. ASSUME NEW i \in DOMAIN inbox'[t], NEW j \in DOMAIN inbox'[t], i < j,
               inbox'[t][i].type # "hello", inbox'[t][j].type = "change"
        PROVE  inbox'[t][i].version < inbox'[t][j].version
    <3>1. i + 1 \in DOMAIN s /\ inbox'[t][i] = s[i + 1] /\ j + 1 \in DOMAIN s /\ inbox'[t][j] = s[j + 1]
      BY <1>1
    <3>2. i + 1 < j + 1
      BY <1>1, <2>2
    <3>3. s[i + 1].version < s[j + 1].version
      BY <2>2, <3>1, <3>2 DEF TabInv, InboxInv
    <3> QED
      BY <3>1, <3>3
  <2> QED
    BY <1>3, <2>1, <2>2 DEF InboxInv
<1>5. ASSUME s[1].type = "hello" => <<s[1].version, s[1].session>> = known[t],
             s[1].type = "change" => here[t] \notin s[1].paths, Doomed(t)
      PROVE  Doomed(t)'
  <2>1. PICK i \in DOMAIN s : s[i].type = "change" /\ here[t] \in s[i].paths
    BY <1>5 DEF Doomed
  <2>2. i # 1
    BY <1>5, <2>1
  <2>3. i - 1 \in DOMAIN inbox'[t] /\ inbox'[t][i - 1] = s[i]
    BY <1>1, <2>2
  <2> QED
    BY <2>1, <2>3 DEF Doomed
<1>6. inbox'[t] # <<>> => (OverlayAhead(t)' <=> OverlayAhead(t))
  <2> SUFFICES ASSUME inbox'[t] # <<>> PROVE OverlayAhead(t)' <=> OverlayAhead(t)
    OBVIOUS
  <2>1. Len(s) \in DOMAIN s /\ Len(s) # 1 /\ Len(inbox'[t]) = Len(s) - 1
    BY <1>0, <1>1
  <2>2. inbox'[t][Len(inbox'[t])] = s[Len(s)] /\ Len(inbox'[t]) \in DOMAIN inbox'[t]
    BY <1>1, <2>1
  <2>3. s[Len(s)].type # "hello"
    BY <1>2, <2>1
  <2> QED
    BY <2>2, <2>3 DEF OverlayAhead
<1>7. ASSUME inbox'[t] = <<>>
      PROVE  /\ OverlayAhead(t)' <=> overlay'[t]
             /\ OverlayAhead(t) <=> IF s[1].type # "hello" THEN s[1].type = "failure" ELSE overlay[t]
  <2>1. Len(s) = 1
    BY <1>1, <1>7
  <2> QED
    BY <1>7, <2>1 DEF OverlayAhead
<1>8. \A i \in DOMAIN inbox'[t] : i + 1 \in DOMAIN s /\ inbox'[t][i] = s[i + 1]
  BY <1>1
<1> QED
  BY <1>4, <1>5, <1>6, <1>7, <1>8

(* location.reload takes the tab off the push list. *)
LEMMA ReloadTypes ==
  ASSUME TypeOK, NEW t \in Tab, Reload(t)
  PROVE  /\ tpc' \in [Tab -> {"load", "read", "connect", "greeted", "told", "live"}]
         /\ inbox' \in [Tab -> Seq(Message)] /\ sockets' = {u \in Tab : tpc'[u] = "live"}
         /\ tpc'[t] = "load" /\ inbox'[t] = <<>>
         /\ \A u \in Tab : u # t => tpc'[u] = tpc[u] /\ inbox'[u] = inbox[u]
<1>a. /\ tpc \in [Tab -> {"load", "read", "connect", "greeted", "told", "live"}]
      /\ inbox \in [Tab -> Seq(Message)] /\ sockets = {u \in Tab : tpc[u] = "live"}
  BY DEF TypeOK
<1>b. <<>> \in Seq(Message)
  OBVIOUS
<1>1. /\ tpc' \in [Tab -> {"load", "read", "connect", "greeted", "told", "live"}]
      /\ inbox' \in [Tab -> Seq(Message)]
  BY <1>a, <1>b DEF Reload
<1>2. /\ tpc'[t] = "load" /\ inbox'[t] = <<>>
      /\ \A u \in Tab : u # t => tpc'[u] = tpc[u] /\ inbox'[u] = inbox[u]
  BY <1>a DEF Reload
<1>3. sockets' = {u \in Tab : tpc'[u] = "live"}
  BY <1>a, <1>2 DEF Reload
<1> QED
  BY <1>1, <1>2, <1>3

(* A message that leaves the tab on its page. *)
LEMMA StayTypes ==
  ASSUME TypeOK, NEW t \in Tab, inbox[t] # <<>>, inbox' = [inbox EXCEPT ![t] = Tail(@)]
  PROVE  /\ inbox' \in [Tab -> Seq(Message)] /\ inbox'[t] = Tail(inbox[t])
         /\ \A u \in Tab : u # t => inbox'[u] = inbox[u]
<1>1. inbox \in [Tab -> Seq(Message)] /\ inbox[t] \in Seq(Message)
  BY DEF TypeOK
<1>2. Tail(inbox[t]) \in Seq(Message)
  BY <1>1, TailOf
<1> QED
  BY <1>1, <1>2

(* The first message is one of the inbox. *)
LEMMA FirstMessage ==
  ASSUME TypeOK, NEW t \in Tab, TabInv(t), inbox[t] # <<>>
  PROVE  /\ Head(inbox[t]) = inbox[t][1] /\ 1 \in DOMAIN inbox[t]
         /\ inbox[t][1].version \in Nat /\ inbox[t][1].version <= version
<1>1. inbox[t] \in Seq(Message) /\ \A i \in DOMAIN inbox[t] : inbox[t][i].version \in Nat
  BY Types
<1>2. Head(inbox[t]) = inbox[t][1] /\ 1 \in DOMAIN inbox[t]
  BY <1>1, TailOf
<1>3. inbox[t][1].version <= version
  BY <1>2 DEF TabInv, InboxInv
<1> QED
  BY <1>1, <1>2, <1>3

(* A hello that is not about this page reloads it; one that is leaves what   *)
(* was known of the tab.                                                     *)
LEMMA PreviewOnHello == ASSUME PreviewInv, NEW t \in Tab, OnHello(t) PROVE PreviewInv'
<1>0. TypeOK /\ TabInv(t) /\ tpc[t] \in Connected /\ inbox[t] # <<>>
  BY DEF OnHello, PreviewInv
<1>h. Head(inbox[t]) = inbox[t][1] /\ 1 \in DOMAIN inbox[t] /\ inbox[t][1].type = "hello"
  BY <1>0, FirstMessage DEF OnHello
<1>a. /\ disk' = disk /\ due' = due /\ version' = version /\ session' = session
      /\ standing' = standing /\ bpc' = bpc /\ todo' = todo /\ changed' = changed /\ outcome' = outcome
      /\ here' = here /\ script' = script /\ known' = known /\ shown' = shown
      /\ overlay' = overlay /\ greeted' = greeted /\ missed' = missed
      /\ builds' = builds /\ drops' = drops /\ restarts' = restarts
  BY DEF OnHello
<1>1. CASE Reload(t)
  <2>1. /\ tpc' \in [Tab -> {"load", "read", "connect", "greeted", "told", "live"}]
        /\ inbox' \in [Tab -> Seq(Message)] /\ sockets' = {u \in Tab : tpc'[u] = "live"}
        /\ tpc'[t] = "load" /\ inbox'[t] = <<>>
        /\ \A u \in Tab : u # t => tpc'[u] = tpc[u] /\ inbox'[u] = inbox[u]
    BY <1>0, <1>1, ReloadTypes
  <2>2. TypeOK'
    BY <1>0, <1>a, <2>1 DEF TypeOK
  <2>3. KnownInv(t)'
    BY <1>0, <1>a, <2>1 DEF TabInv, KnownInv
  <2>4. TabInv(t)'
    BY <2>1, <2>3, ReloadTab
  <2> QED
    BY <1>a, <2>1, <2>2, <2>4, TabStep
<1>2. CASE /\ <<inbox[t][1].version, inbox[t][1].session>> = known[t]
           /\ inbox' = [inbox EXCEPT ![t] = Tail(@)] /\ tpc' = tpc /\ sockets' = sockets
  <2>1. /\ inbox' \in [Tab -> Seq(Message)] /\ inbox'[t] = Tail(inbox[t])
        /\ \A u \in Tab : u # t => inbox'[u] = inbox[u]
    BY <1>0, <1>2, StayTypes
  <2>2. TypeOK'
    BY <1>0, <1>2, <1>a, <2>1 DEF TypeOK
  <2>3. /\ InboxInv(t)'
        /\ \A i \in DOMAIN inbox'[t] : i + 1 \in DOMAIN inbox[t] /\ inbox'[t][i] = inbox[t][i + 1]
        /\ Doomed(t) => Doomed(t)'
        /\ OverlayAhead(t)' <=> OverlayAhead(t)
    BY <1>0, <1>2, <1>a, <1>h, <2>1, TakeFirst
  <2>4. KnownInv(t)'
    BY <1>0, <1>2, <1>a DEF TabInv, KnownInv
  <2>5. GreetInv(t)'
    BY <1>0, <1>2, <1>a, <2>3 DEF TabInv, GreetInv, Current
  <2>6. PageInv(t)'
    BY <1>0, <1>2, <1>a, <2>3 DEF TabInv, PageInv, Current, UpToDate
  <2>7. OverlayInv(t)'
    BY <1>0, <1>2, <1>a, <2>3 DEF TabInv, OverlayInv, Current, Reaches
  <2>8. TabInv(t)'
    BY <2>3, <2>4, <2>5, <2>6, <2>7 DEF TabInv
  <2> QED
    BY <1>2, <1>a, <2>1, <2>2, <2>8, TabStep
<1> QED
  BY <1>1, <1>2, <1>h DEF OnHello

(* A tab takes a pushed message, m, and stays on its page: if m is of the    *)
(* newest version nothing after it is, so the page is as new as m.           *)
LEMMA TakePushed ==
  ASSUME TypeOK, ServerInv, NEW t \in Tab, TabInv(t), inbox[t] # <<>>, tpc[t] \in Connected,
         inbox[t][1].type \in {"change", "failure"},
         inbox[t][1].type = "change" => here[t] \notin inbox[t][1].paths,
         /\ disk' = disk /\ due' = due /\ version' = version /\ session' = session
         /\ standing' = standing /\ bpc' = bpc /\ changed' = changed /\ here' = here
         /\ tpc' = tpc /\ script' = script /\ shown' = shown /\ greeted' = greeted /\ missed' = missed,
         inbox'[t] = Tail(inbox[t]),
         known'[t] = <<inbox[t][1].version, known[t][2]>>,
         overlay'[t] = (inbox[t][1].type = "failure")
  PROVE  TabInv(t)'
<1> DEFINE s == inbox[t]
           v == inbox[t][1].version
<1>0. /\ version \in Nat /\ session \in Nat /\ known[t][2] \in Nat /\ v \in Nat /\ greeted[t] \in Nat
      /\ \A i \in DOMAIN s : s[i].version \in Nat
  BY Types, FirstMessage
<1>1. 1 \in DOMAIN s /\ v <= version
  BY FirstMessage
<1>k. known'[t][1] = v /\ known'[t][2] = known[t][2]
  OBVIOUS
<1>2. /\ InboxInv(t)'
      /\ \A i \in DOMAIN inbox'[t] : i + 1 \in DOMAIN s /\ inbox'[t][i] = s[i + 1]
      /\ Doomed(t) => Doomed(t)'
      /\ OverlayAhead(t)' <=> OverlayAhead(t)
  BY TakeFirst
<1>3. KnownInv(t)'
  BY <1>1, <1>k DEF TabInv, KnownInv
<1>4. Current(t)' => v = version /\ known[t][2] = session
  BY <1>k DEF Current
<1>5. v = version => ~Doomed(t) /\ bpc # "push change"
  <2>1. ASSUME NEW i \in DOMAIN s, v = version, s[i].type = "change", here[t] \in s[i].paths PROVE FALSE
    <3>1. i # 1
      BY <2>1
    <3>2. 1 < i
      <4>1. s \in Seq(Message)
        BY Types
      <4> HIDE DEF s
      <4> QED
        BY <3>1, <4>1
    <3>3. v < s[i].version /\ s[i].version <= version
      BY <1>1, <2>1, <3>2 DEF TabInv, InboxInv
    <3> QED
      BY <1>0, <2>1, <3>3
  <2>2. v = version => bpc # "push change"
    <3>1. bpc = "push change" => v < version
      BY <1>1 DEF TabInv, InboxInv
    <3>2. v < version => v # version
      BY <1>0
    <3> QED
      BY <3>1, <3>2
  <2> QED
    BY <2>1, <2>2 DEF Doomed
<1>6. GreetInv(t)'
  <2>1. \A i \in DOMAIN inbox'[t] : tpc[t] \in Joining => inbox'[t][i].version >= greeted[t]
    BY <1>2 DEF TabInv, GreetInv
  <2>2. tpc[t] # "greeted"
    BY <1>1 DEF TabInv, GreetInv
  <2>3. tpc[t] \in Joining /\ greeted[t] = version => v = version
    <3>1. tpc[t] \in Joining => v >= greeted[t]
      BY <1>1 DEF TabInv, GreetInv
    <3> QED
      BY <1>0, <1>1, <3>1
  <2>4. tpc[t] \in Joining /\ ~Doomed(t)' /\ greeted[t] = version => Current(t)'
    <3>1. tpc[t] \in Joining /\ ~Doomed(t)' /\ greeted[t] = version => known[t] = <<version, session>>
      BY <1>2 DEF TabInv, GreetInv, Current
    <3> QED
      BY <2>3, <3>1 DEF Current
  <2> QED
    BY <2>1, <2>2, <2>4 DEF TabInv, GreetInv
<1>7. PageInv(t)'
  BY <1>2, <1>4, <1>5 DEF TabInv, PageInv, UpToDate, Connected
<1>8. OverlayInv(t)'
  <2>1. s[1].type = "failure" /\ v = version => standing \/ bpc = "bump"
    BY <1>1 DEF TabInv, InboxInv
  <2> QED
    BY <1>2, <1>4, <2>1 DEF TabInv, OverlayInv, Reaches
<1> QED
  BY <1>2, <1>3, <1>6, <1>7, <1>8 DEF TabInv

(* A failure raises the overlay and moves the tab to its version. *)
LEMMA PreviewOnFailure == ASSUME PreviewInv, NEW t \in Tab, OnFailure(t) PROVE PreviewInv'
<1>0. TypeOK /\ ServerInv /\ TabInv(t) /\ tpc[t] \in Connected /\ inbox[t] # <<>>
  BY DEF OnFailure, PreviewInv
<1>h. Head(inbox[t]) = inbox[t][1] /\ inbox[t][1].type = "failure" /\ inbox[t][1].version \in Nat
  BY <1>0, FirstMessage DEF OnFailure
<1>a. /\ disk' = disk /\ due' = due /\ version' = version /\ session' = session
      /\ standing' = standing /\ bpc' = bpc /\ todo' = todo /\ changed' = changed /\ outcome' = outcome
      /\ sockets' = sockets /\ here' = here /\ tpc' = tpc /\ script' = script /\ shown' = shown
      /\ greeted' = greeted /\ missed' = missed
      /\ builds' = builds /\ drops' = drops /\ restarts' = restarts
      /\ inbox' = [inbox EXCEPT ![t] = Tail(@)] /\ overlay' = [overlay EXCEPT ![t] = TRUE]
  BY DEF OnFailure
<1>k. known' = [known EXCEPT ![t] = <<inbox[t][1].version, @[2]>>]
  BY <1>h DEF OnFailure
<1>1. /\ inbox' \in [Tab -> Seq(Message)] /\ inbox'[t] = Tail(inbox[t])
      /\ \A u \in Tab : u # t => inbox'[u] = inbox[u]
  BY <1>0, <1>a, StayTypes
<1>2. /\ known' \in [Tab -> Nat \X Nat] /\ known'[t] = <<inbox[t][1].version, known[t][2]>>
      /\ \A u \in Tab : u # t => known'[u] = known[u]
  <2>1. known \in [Tab -> Nat \X Nat] /\ <<inbox[t][1].version, known[t][2]>> \in Nat \X Nat
    <3>1. known \in [Tab -> Nat \X Nat]
      BY <1>0 DEF TypeOK
    <3> QED
      BY <1>0, <1>h, <3>1, Types
  <2> QED
    BY <1>k, <2>1
<1>3. /\ overlay' \in [Tab -> BOOLEAN] /\ overlay'[t] = TRUE
      /\ \A u \in Tab : u # t => overlay'[u] = overlay[u]
  BY <1>0, <1>a DEF TypeOK
<1>4. TypeOK'
  BY <1>0, <1>a, <1>1, <1>2, <1>3 DEF TypeOK
<1>5. TabInv(t)'
  <2>1. overlay'[t] = (inbox[t][1].type = "failure")
    BY <1>h, <1>3
  <2> QED
    BY <1>0, <1>a, <1>h, <1>1, <1>2, <2>1, TakePushed
<1> QED
  BY <1>a, <1>1, <1>2, <1>3, <1>4, <1>5, TabStep

(* A change of this page reloads it; any other change only takes the overlay *)
(* down and moves the tab to its version.                                    *)
LEMMA PreviewOnChange == ASSUME PreviewInv, NEW t \in Tab, OnChange(t) PROVE PreviewInv'
<1>0. TypeOK /\ ServerInv /\ TabInv(t) /\ tpc[t] \in Connected /\ inbox[t] # <<>>
  BY DEF OnChange, PreviewInv
<1>h. /\ Head(inbox[t]) = inbox[t][1] /\ inbox[t][1].type = "change"
      /\ inbox[t][1].version \in Nat /\ inbox[t][1].version <= version
  BY <1>0, FirstMessage DEF OnChange
<1>a. /\ disk' = disk /\ due' = due /\ version' = version /\ session' = session
      /\ standing' = standing /\ bpc' = bpc /\ todo' = todo /\ changed' = changed /\ outcome' = outcome
      /\ here' = here /\ script' = script /\ shown' = shown /\ greeted' = greeted /\ missed' = missed
      /\ builds' = builds /\ drops' = drops /\ restarts' = restarts
      /\ overlay' = [overlay EXCEPT ![t] = FALSE]
  BY DEF OnChange
<1>k. known' = [known EXCEPT ![t] = <<inbox[t][1].version, @[2]>>]
  BY <1>h DEF OnChange
<1>2. /\ known' \in [Tab -> Nat \X Nat] /\ known'[t] = <<inbox[t][1].version, known[t][2]>>
      /\ \A u \in Tab : u # t => known'[u] = known[u]
  <2>1. known \in [Tab -> Nat \X Nat] /\ <<inbox[t][1].version, known[t][2]>> \in Nat \X Nat
    <3>1. known \in [Tab -> Nat \X Nat]
      BY <1>0 DEF TypeOK
    <3> QED
      BY <1>0, <1>h, <3>1, Types
  <2> QED
    BY <1>k, <2>1
<1>3. /\ overlay' \in [Tab -> BOOLEAN] /\ overlay'[t] = FALSE
      /\ \A u \in Tab : u # t => overlay'[u] = overlay[u]
  BY <1>0, <1>a DEF TypeOK
<1>4. CASE Reload(t)
  <2>1. /\ tpc' \in [Tab -> {"load", "read", "connect", "greeted", "told", "live"}]
        /\ inbox' \in [Tab -> Seq(Message)] /\ sockets' = {u \in Tab : tpc'[u] = "live"}
        /\ tpc'[t] = "load" /\ inbox'[t] = <<>>
        /\ \A u \in Tab : u # t => tpc'[u] = tpc[u] /\ inbox'[u] = inbox[u]
    BY <1>0, <1>4, ReloadTypes
  <2>2. TypeOK'
    BY <1>0, <1>a, <1>2, <1>3, <2>1 DEF TypeOK
  <2>3. KnownInv(t)'
    <3>1. known'[t][1] = inbox[t][1].version /\ known'[t][2] = known[t][2]
      BY <1>2
    <3> QED
      BY <1>0, <1>a, <1>h, <2>1, <3>1 DEF TabInv, KnownInv
  <2>4. TabInv(t)'
    BY <2>1, <2>3, ReloadTab
  <2> QED
    BY <1>a, <1>2, <1>3, <2>1, <2>2, <2>4, TabStep
<1>5. CASE /\ here[t] \notin inbox[t][1].paths
           /\ inbox' = [inbox EXCEPT ![t] = Tail(@)] /\ tpc' = tpc /\ sockets' = sockets
  <2>1. /\ inbox' \in [Tab -> Seq(Message)] /\ inbox'[t] = Tail(inbox[t])
        /\ \A u \in Tab : u # t => inbox'[u] = inbox[u]
    BY <1>0, <1>5, StayTypes
  <2>2. TypeOK'
    BY <1>0, <1>a, <1>2, <1>3, <1>5, <2>1 DEF TypeOK
  <2>3. overlay'[t] = (inbox[t][1].type = "failure")
    BY <1>h, <1>3
  <2>4. TabInv(t)'
    BY <1>0, <1>a, <1>h, <1>2, <1>5, <2>1, <2>3, TakePushed
  <2> QED
    BY <1>a, <1>2, <1>3, <1>5, <2>1, <2>2, <2>4, TabStep
<1> QED
  BY <1>4, <1>5, <1>h DEF OnChange

-----------------------------------------------------------------------------
(* The server is stopped and started *)

(* A new session is one no page has, so every page that comes back reloads. *)
LEMMA PreviewRestart ==
  ASSUME PreviewInv, NEW ps \in SUBSET Path, NEW r \in {"ok", "error"}, Restart(ps, r)
  PROVE  PreviewInv'
<1>0. TypeOK /\ ServerInv /\ bpc = "wait" /\ \A t \in Tab : TabInv(t)
  BY DEF Restart, PreviewInv
<1>a. /\ bpc' = bpc /\ todo' = todo /\ changed' = changed /\ outcome' = outcome /\ here' = here
      /\ script' = script /\ known' = known /\ shown' = shown /\ overlay' = overlay
      /\ greeted' = greeted /\ missed' = missed /\ builds' = builds /\ drops' = drops
      /\ standing' = (r = "error") /\ due' = disk'
      /\ sockets' = {} /\ inbox' = [t \in Tab |-> <<>>]
      /\ tpc' = [t \in Tab |-> IF tpc[t] = "read" THEN "load"
                               ELSE IF tpc[t] \in Connected THEN "connect" ELSE tpc[t]]
  BY DEF Restart
<1>b. /\ session' = session + 1 /\ restarts' = restarts + 1 /\ version' \in {0, 1}
      /\ disk' = [p \in Path |-> IF p \in ps THEN disk[p] + 1 ELSE disk[p]]
  BY DEF Restart
<1>c. session \in Nat /\ restarts \in Nat /\ disk \in [Path -> Nat]
  BY <1>0 DEF TypeOK
<1>d. session' \in Nat /\ restarts' \in Nat /\ version' \in Nat /\ disk' \in [Path -> Nat]
  BY <1>b, <1>c
<1>e. tpc \in [Tab -> {"load", "read", "connect", "greeted", "told", "live"}]
  BY <1>0 DEF TypeOK
<1>f. \A t \in Tab : tpc'[t] \in {"load", "connect"} /\ inbox'[t] = <<>>
  BY <1>a, <1>e DEF Connected
<1>1. TypeOK'
  <2>1. <<>> \in Seq(Message)
    OBVIOUS
  <2>2. inbox' \in [Tab -> Seq(Message)]
    BY <1>a, <2>1
  <2>3. tpc' \in [Tab -> {"load", "read", "connect", "greeted", "told", "live"}]
    BY <1>a, <1>e
  <2>4. sockets' = {t \in Tab : tpc'[t] = "live"}
    BY <1>a, <1>f
  <2>5. due' \in [Path -> Nat] /\ standing' \in BOOLEAN
    BY <1>a, <1>d
  <2> QED
    BY <1>0, <1>a, <1>d, <2>2, <2>3, <2>4, <2>5 DEF TypeOK
<1>2. ServerInv'
  BY <1>0, <1>a, <1>d DEF ServerInv
<1>3. ASSUME NEW t \in Tab PROVE TabInv(t)'
  <2>1. known[t][2] < session'
    <3>1. known[t][2] \in Nat /\ session \in Nat
      BY <1>0, Types
    <3>2. known[t][2] < session \/ known[t][2] = session
      BY <1>0 DEF TabInv, KnownInv
    <3> QED
      BY <1>b, <3>1, <3>2
  <2>2. ~Current(t)'
    <3>1. known[t][2] \in Nat
      BY <1>0, Types
    <3>2. known[t][2] # session'
      BY <1>d, <2>1, <3>1
    <3> QED
      BY <1>a, <3>2 DEF Current
  <2>3. KnownInv(t)'
    BY <1>a, <1>f, <2>1 DEF KnownInv
  <2>4. InboxInv(t)'
    <3>1. inbox'[t] = <<>>
      BY <1>f
    <3> QED
      BY <3>1 DEF InboxInv
  <2>5. GreetInv(t)' /\ PageInv(t)' /\ OverlayInv(t)'
    BY <1>f, <2>2 DEF GreetInv, PageInv, OverlayInv, Joining, Connected
  <2> QED
    BY <2>3, <2>4, <2>5 DEF TabInv
<1> QED
  BY <1>1, <1>2, <1>3 DEF PreviewInv

-----------------------------------------------------------------------------
(* The theorems *)

(* The invariant holds in every reachable state. *)
THEOREM PreviewInvariant == Spec => []PreviewInv
<1>1. PreviewInv /\ [Next]_vars => PreviewInv'
  <2> SUFFICES ASSUME PreviewInv, [Next]_vars PROVE PreviewInv'
    OBVIOUS
  <2>1. CASE UNCHANGED vars
    <3>1. /\ TypeOK' /\ ServerInv'
      BY <2>1 DEF vars, PreviewInv, TypeOK, ServerInv
    <3>2. ASSUME NEW t \in Tab PROVE TabInv(t)'
      BY <2>1, TabFrame DEF vars, PreviewInv
    <3> QED
      BY <3>1, <3>2 DEF PreviewInv
  <2>2. CASE BuildStep
    BY <2>2, PreviewBuildWrite, PreviewBuildOk, PreviewBuildError, PreviewFail, PreviewClearFailure,
       PreviewBump, PreviewPush DEF BuildStep
  <2>3. CASE Environment
    BY <2>3, PreviewBuildStart, PreviewRestart, PreviewDrop DEF Environment
  <2>4. ASSUME NEW t \in Tab, ServeStep(t) PROVE PreviewInv'
    BY <2>4, PreviewFetchScript, PreviewServe, PreviewGreet, PreviewTellStanding, PreviewRegister
       DEF ServeStep
  <2>5. ASSUME NEW t \in Tab, ClientStep(t) PROVE PreviewInv'
    BY <2>5, PreviewOnHello, PreviewOnFailure, PreviewOnChange DEF ClientStep
  <2> QED
    BY <2>1, <2>2, <2>3, <2>4, <2>5 DEF Next
<1> QED
  BY PreviewInit, <1>1, PTL DEF Spec

(* For any number of tabs, pages, rebuilds, lost connections and restarts:   *)
(* whenever things are quiet, a tab no push has passed over shows its page   *)
(* as the last good build to write it left it, or newer, and the overlay     *)
(* exactly when the last build failed.                                       *)
THEOREM PreviewReached == Spec => []ReachedTabsAreCurrent
<1>1. PreviewInv => ReachedTabsAreCurrent
  <2> SUFFICES ASSUME PreviewInv, NEW t \in Tab \ missed, Settled(t)
               PROVE  UpToDate(t) /\ overlay[t] = standing
    BY DEF ReachedTabsAreCurrent
  <2>1. TabInv(t) /\ bpc = "wait" /\ tpc[t] = "live" /\ inbox[t] = <<>>
    BY DEF PreviewInv, Settled
  <2>2. ~Doomed(t)
    BY <2>1 DEF Doomed
  <2>3. UpToDate(t)
    BY <2>1, <2>2 DEF TabInv, PageInv, Connected
  <2>4. OverlayAhead(t) <=> overlay[t]
    BY <2>1 DEF OverlayAhead
  <2>5. overlay[t] <=> standing
    BY <2>1, <2>2, <2>4 DEF TabInv, OverlayInv
  <2>6. overlay[t] \in BOOLEAN /\ standing \in BOOLEAN
    BY Types DEF PreviewInv
  <2> QED
    BY <2>3, <2>5, <2>6
<1> QED
  BY <1>1, PreviewInvariant, PTL

=============================================================================
