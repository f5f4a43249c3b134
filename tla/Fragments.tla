------------------------------ MODULE Fragments -----------------------------
(***************************************************************************)
(* One cache-fragment of a layout, rendered for page after page by several *)
(* threads that share the FragmentCache.  The cache locks for each of its  *)
(* operations and for nothing longer, so every one is a step:              *)
(*   Ask       the names the site reads, their values on this page, and    *)
(*             the fragment stored under them,                             *)
(*   Body      render the block while its reads are recorded,              *)
(*   Remember  the names, unless the recording cannot be replayed,         *)
(*   FindAgain under the key of what was read,                             *)
(*   Keep      the fragment, unless another thread was first.              *)
(* The names of a site are never replaced, so Ask takes them and the       *)
(* fragment in one step.  Fragments inside the block are rendered with it. *)
(***************************************************************************)
EXTENDS Layouts

CONSTANTS Threads,
          Partials,   (* what the partial "p" may say: sequences of lines *)
          Common,     (* what the partial "q" says, at the root and in the section "s" *)
          OwnCommon,
          Calls,      (* the cache-fragment calls: sequences of tokens *)
          Views,      (* the values and the section of a page *)
          Outer       (* the locals around the call *)

VARIABLES choice,     (* the partial and the call of this site *)
          cache, thread

fragmentVars == <<choice, cache, thread>>

Compiled == [lines \in Partials \cup {Common, OwnCommon} |-> Compile(lines).node]
Call == [tokens \in Calls |-> Parse(tokens).tree]

(* The lines of each template, by its path. *)
Sources == (<<<<>>, "p">> :> choice.partial) @@ (<<<<>>, "q">> :> Common) @@ (<<<<"s">>, "q">> :> OwnCommon)

PageOf(view, caching) ==
  [values |-> view.values, section |-> view.section, body |-> view.body, caching |-> caching,
   templates |-> [path \in DOMAIN Sources |-> Compiled[Sources[path]]]]

TheCall == Call[choice.call]
Site == <<<<<<>>, "layout">>, <<1>>>>

Around(stored, locals) == [Rendering(stored) EXCEPT !.locals = locals]

Idle == [pc |-> "idle"]
Nowhere == {"idle", "done", "failed"}

FragmentInit ==
  /\ choice \in [partial : Partials, call : Calls]
  /\ cache = EmptyCache
  /\ thread = [t \in Threads |-> Idle]

Finish(t, entry) ==
  thread' = [thread EXCEPT ![t] = [pc |-> "done", view |-> @.view, locals |-> @.locals, entry |-> entry]]

(* Where a thread goes with what the cache had for it. *)
Asked(view, locals, entry) ==
  IF entry = <<>> THEN [pc |-> "body", view |-> view, locals |-> locals]
  ELSE [pc |-> "done", view |-> view, locals |-> locals, entry |-> entry[1]]

Ask(t) ==
  /\ thread[t].pc \in Nowhere
  /\ \E view \in Views, locals \in Outer :
       thread' = [thread EXCEPT ![t] =
                    Asked(view, locals, Replayed(Around(cache, locals), PageOf(view, TRUE), Site).entry)]
  /\ UNCHANGED <<choice, cache>>

(* And where it goes with the body it rendered. *)
Rendered(me, done) ==
  IF ~done.ok THEN [pc |-> "failed", view |-> me.view, locals |-> me.locals]
  ELSE [pc |-> "remember", view |-> me.view, locals |-> me.locals,
        rec |-> [Last(done.recs) EXCEPT !.bound = {}], entry |-> EntryOf(done)]

Body(t) ==
  /\ thread[t].pc = "body"
  /\ \E done \in {RecordedBody(Around(cache, thread[t].locals), PageOf(thread[t].view, TRUE), TheCall, Site)} :
       /\ cache' = done.cache
       /\ thread' = [thread EXCEPT ![t] = Rendered(@, done)]
  /\ UNCHANGED choice

Remember(t) ==
  /\ thread[t].pc = "remember"
  /\ cache' = RememberReads(cache, Site, thread[t].rec)
  /\ thread' = [thread EXCEPT ![t].pc = "find"]
  /\ UNCHANGED choice

FindAgain(t) ==
  /\ thread[t].pc = "find"
  /\ LET found == FindFragment(cache, <<Site, thread[t].rec.reads>>)
     IN  IF found = <<>> THEN thread' = [thread EXCEPT ![t].pc = "keep"] ELSE Finish(t, found[1])
  /\ UNCHANGED <<choice, cache>>

Keep(t) ==
  /\ thread[t].pc = "keep"
  /\ cache' = Store(cache, <<Site, thread[t].rec.reads>>, thread[t].entry)
  /\ Finish(t, thread[t].entry)
  /\ UNCHANGED choice

FragmentNext == \E t \in Threads : Ask(t) \/ Body(t) \/ Remember(t) \/ FindAgain(t) \/ Keep(t)

-----------------------------------------------------------------------------

(* What a page renders itself, without the cache, and in a cache of its own. *)
PlainBody(me) ==
  FragmentBody(Around(EmptyCache, me.locals), PageOf(me.view, FALSE), BodyOf(TheCall), <<1>>)
AloneBody(me) == RecordedBody(Around(EmptyCache, me.locals), PageOf(me.view, TRUE), TheCall, Site)

(* A local around the call has the name of a value of the page. *)
Shadowed(me) == DOMAIN me.locals \cap DOMAIN me.view.values # {}

Fresh(me, plain, alone) ==
  /\ me.pc = "failed" => ~plain.ok
  /\ me.pc = "done" => \/ Shadowed(me) \/ me.entry.unsure \/ EntryOf(alone).unsure
                       \/ plain.ok /\ me.entry.out = plain.out

(* A fragment that was reused, whichever page and thread it was rendered for, is
   what this page would have rendered: the names a fragment was found to read,
   with the values they have here, tell everything it depends on.  Set aside are
   fragments whose key does not tell: those that read one name with two values,
   print the body of the page, or use a partial that a section has of its own,
   and calls where a local hides a value of the page, which is replayed in the
   scope of the call and read in the scope of the partial. *)
FragmentsAreFresh ==
  \A t \in Threads :
    thread[t].pc \in {"done", "failed"} => Fresh(thread[t], PlainBody(thread[t]), AloneBody(thread[t]))

=============================================================================
