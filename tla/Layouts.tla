------------------------------- MODULE Layouts ------------------------------
(***************************************************************************)
(* Rendering a layout: class Renderer of haml_render.cpp, the locals and   *)
(* the recordings of ViewContext, TemplateStore::find and the cache of     *)
(* fragments.                                                              *)
(*                                                                         *)
(* A page is the values of its view, its section (a path), the body that   *)
(* "yield" prints, and the templates by their path.  A rendering is what   *)
(* was printed so far, the locals, the open recordings (one per fragment   *)
(* being rendered), the cache and whether it failed.  The cache holds the  *)
(* fragments by site and key, and the names that a site was found to read. *)
(***************************************************************************)
EXTENDS Haml

CONSTANT MaxPartials  (* max_depth of the renderer *)

EmptyFn == [x \in {} |-> Null]
Put(f, x, v) == [y \in DOMAIN f \cup {x} |-> IF y = x THEN v ELSE f[y]]
EmptyCache == [entries |-> EmptyFn, reads |-> EmptyFn]

(* unsure is a ghost: a fragment depended on something that its key does not
   tell, a name with two values, the body of the page, or a partial that
   sections have of their own. *)
Rendering(cache) ==
  [out |-> <<>>, locals |-> EmptyFn, recs |-> <<>>, cache |-> cache, ok |-> TRUE,
   depth |-> 0, at |-> <<<<>>, "layout">>, unsure |-> FALSE]

-----------------------------------------------------------------------------
(* What fragments read. *)

NewRecording == [reads |-> <<>>, bound |-> {}, replayable |-> TRUE]

NamesRead(reads) == {reads[i][1] : i \in DOMAIN reads}
ReadAs(reads, name) == reads[Min({i \in DOMAIN reads : reads[i][1] = name})][2]

(* One read: not of a name the fragment bound itself; a second value of a name
   is not recorded, and the recording is no longer replayable. *)
Record(rec, read) ==
  CASE read[1] \in rec.bound -> rec
    [] read[1] \notin rec.bound /\ read[1] \notin NamesRead(rec.reads) ->
         [rec EXCEPT !.reads = Append(@, read)]
    [] OTHER -> [rec EXCEPT !.replayable = @ /\ ReadAs(rec.reads, read[1]) = read[2]]

(* Mutant: a read is noted in the innermost recording alone. *)
RecordedInnermost(r, reads) ==
  [r EXCEPT !.recs = [i \in DOMAIN @ |-> IF i < Len(@) THEN @[i] ELSE FoldLeft(Record, @[i], reads)]]

(* A fragment inside another reads on behalf of both. *)
Recorded(r, reads) ==
  [r EXCEPT !.recs = [i \in DOMAIN @ |-> FoldLeft(Record, @[i], reads)]]

SetLocal(r, name, value) ==
  [r EXCEPT !.locals = Put(@, name, value),
            !.recs = [i \in DOMAIN @ |-> [@[i] EXCEPT !.bound = @ \cup {name}]]]

(* Names that a fragment bound and that are gone count as reads again. *)
SetLocals(r, locals) ==
  [r EXCEPT !.locals = locals,
            !.recs = [i \in DOMAIN @ |-> [@[i] EXCEPT !.bound = @ \cap DOMAIN locals]]]

Context(r, page) == [values |-> page.values, locals |-> r.locals, functions |-> {"f"}]

-----------------------------------------------------------------------------

Fail(r) == [r EXCEPT !.ok = FALSE]
Printed(r, tokens) == [r EXCEPT !.out = @ \o tokens]

(* Evaluate in a rendering: the value, and the rendering that recorded it. *)
Noted(r, e) == [value |-> e.value, r |-> [Recorded(r, e.reads) EXCEPT !.ok = @ /\ ~Failed(e)]]
Valued(r, page, tree) == Noted(r, Evaluate(tree, Context(r, page)))

Ended(r, tokens) == IF r.ok THEN Printed(r, tokens) ELSE r
Shows(e) == Printed(e.r, ToText(e.value))

RECURSIVE Interpolate(_, _, _)
Interpolate(r, page, segments) ==
  IF segments = <<>> \/ ~r.ok THEN r
  ELSE Interpolate(IF Head(segments).hole = NoTree THEN Printed(r, <<ToString(Head(segments).at)>>)
                   ELSE Shows(Valued(r, page, Head(segments).hole)),
                   page, Tail(segments))

(* The path of a template: in the section's own directory, then in each one
   above it, then at the root. *)
RECURSIVE FindTemplate(_, _, _)
FindTemplate(page, name, section) ==
  CASE <<section, name>> \in DOMAIN page.templates -> <<section, name>>
    [] <<section, name>> \notin DOMAIN page.templates /\ section = <<>> -> <<>>
    [] OTHER -> FindTemplate(page, name, Front(section))

OwnPartials(page, name) == Cardinality({p \in DOMAIN page.templates : p[2] = name}) > 1

NamedArgument(call, label) ==
  LET at == {i \in DOMAIN call.kids : call.kids[i].kind = "named" /\ call.kids[i].op \in label}
  IN  IF at = {} THEN NoTree ELSE call.kids[Min(at)].kids[1]

IsCall(tree, name) == tree.kind = "call" /\ tree.kids[1].kind = "name" /\ tree.kids[1].op = name

(* The arguments of render, in the order the code evaluates them: each is a
   value, or none. *)
Argued(done, e) == [r |-> e.r, values |-> Append(done.values, e.value)]

ValuedAll(r, page, trees) ==
  FoldLeft(LAMBDA done, tree :
             IF ~done.r.ok THEN done
             ELSE Argued(done, IF tree = NoTree THEN [value |-> Error, r |-> done.r] ELSE Valued(done.r, page, tree)),
           [r |-> r, values |-> <<>>], trees)

AsName(x) == IF x.t = "str" /\ x.v # <<>> THEN x.v[1] ELSE ""

BindAll(r, pairs) == FoldLeft(LAMBDA s, p : SetLocal(s, p[1], p[2]), r, pairs)

-----------------------------------------------------------------------------

RECURSIVE RenderChildren(_, _, _, _), RenderConditional(_, _, _, _, _)
RECURSIVE RenderLoop(_, _, _, _, _), RenderPartials(_, _, _, _), EngineCall(_, _, _, _)

(* An element, whose attribute has been evaluated. *)
PrintElement(attr, page, node) ==
  LET attrs == CASE attr.value.t \in {"null", "error"} -> <<>>
                 [] attr.value.t = "bool" -> IF Truthy(attr.value) THEN <<"attr">> ELSE <<>>
                 [] OTHER -> <<"attr">> \o ToText(attr.value)
  IN  CASE ~attr.r.ok -> attr.r
        [] attr.r.ok /\ node.kind = "br" -> Printed(attr.r, <<"<br>">> \o attrs)
        [] OTHER -> Ended(RenderChildren(Printed(attr.r, <<"<p>">> \o attrs), page, node.kids, 1), <<"</p>">>)

RenderElement(r, page, node) ==
  PrintElement(IF node.tree = NoTree THEN [value |-> Null, r |-> r] ELSE Valued(r, page, node.tree), page, node)

(* A call the engine answers itself, then yield, then any other expression. *)
RenderOutput(r, page, node) ==
  CASE IsCall(node.tree, "render") \/ IsCall(node.tree, "cache") ->
         EngineCall(r, page, node.tree, <<node.at>>)
    [] node.tree.kind = "name" /\ node.tree.op = "yield" ->
         [Printed(r, <<page.body>>) EXCEPT !.unsure = @ \/ r.recs # <<>>]
    [] OTHER -> Shows(Valued(r, page, node.tree))

FilterText(r, page, node) == IF node.kids = <<>> THEN r ELSE Interpolate(r, page, node.kids[1].text)

(* A filter that is not known fails once its text was read. *)
RenderFilter(r, page, node) ==
  [FilterText(r, page, node) EXCEPT !.ok = @ /\ node.kind = ":plain"]

(* Each item is rendered with the locals of the loop and its own. *)
RenderLoop(r, page, node, items, saved) ==
  IF items = <<>> \/ ~r.ok THEN SetLocals(r, saved)
  ELSE RenderLoop(RenderChildren(SetLocal(SetLocals(r, saved), "k", Head(items)), page, node.kids, 1),
                  page, node, Tail(items), saved)

LoopOver(e, page, node, saved) ==
  IF e.value.t # "list" THEN Fail(e.r)
  ELSE RenderLoop(SetLocals(e.r, EmptyFn), page, node, e.value.v, saved)

RenderFor(r, page, node) == LoopOver(Valued(r, page, node.tree), page, node, r.locals)

(* A node under text, output, a comment or a doctype is never reached. *)
RenderNode(r, page, node) ==
  CASE node.kind = "text"        -> Interpolate(r, page, node.text)
    [] node.kind = "="           -> RenderOutput(r, page, node)
    [] node.kind = "comment"     -> r
    [] node.kind = "doctype"     -> Printed(r, <<"doctype">>)
    [] node.kind \in Filters     -> RenderFilter(r, page, node)
    [] node.kind = "for"         -> RenderFor(r, page, node)
    [] node.kind \in Tails       -> Fail(r)
    [] OTHER                     -> RenderElement(r, page, node)

RenderChildren(r, page, kids, i) ==
  CASE i > Len(kids) \/ ~r.ok -> r
    [] i <= Len(kids) /\ r.ok /\ kids[i].kind \in Heads -> RenderConditional(r, page, kids, i, FALSE)
    [] OTHER -> RenderChildren(RenderNode(r, page, kids[i]), page, kids, i + 1)

(* What a condition decides; after a branch was taken none is asked. *)
Decision(kind, e) == [r |-> e.r, enters |-> e.r.ok /\ Truthy(e.value) # (kind = "unless")]

Decide(r, page, branch, taken) ==
  CASE taken -> [r |-> r, enters |-> FALSE]
    [] ~taken /\ branch.kind = "else" -> [r |-> r, enters |-> TRUE]
    [] OTHER -> Decision(branch.kind, Valued(r, page, branch.tree))

AfterBranch(r, page, kids, i, taken) ==
  CASE ~r.ok -> r
    [] r.ok /\ i < Len(kids) /\ kids[i + 1].kind \in Tails -> RenderConditional(r, page, kids, i + 1, taken)
    [] OTHER -> RenderChildren(r, page, kids, i + 1)

RenderBranch(d, page, kids, i, taken) ==
  AfterBranch(IF d.enters THEN RenderChildren(d.r, page, kids[i].kids, 1) ELSE d.r,
              page, kids, i, taken \/ d.enters)

(* A chain is one decision: its branches are walked together, and it runs until
   a sibling that is not one of its branches. *)
RenderConditional(r, page, kids, i, taken) ==
  RenderBranch(Decide(r, page, kids[i], taken), page, kids, i, taken)

-----------------------------------------------------------------------------

(* A partial, once for each of the bindings of locals it is rendered with. *)
RenderPartials(r, page, template, bindings) ==
  IF bindings = <<>> \/ ~r.ok THEN r
  ELSE RenderPartials(RenderChildren(BindAll(r, Head(bindings)), page, template.kids, 1),
                      page, template, Tail(bindings))

(* The locals come back whatever happens in a partial. *)
LeavePartial(done, r) == [SetLocals(done, r.locals) EXCEPT !.depth = r.depth, !.at = r.at]

(* Once, or once for every item of a collection; args are the locals, the
   collection and the name of an item. *)
InPartial(r, page, found, args, once) ==
  LET locals == IF args.values[1].t = "map" THEN args.values[1].v ELSE <<>>
      items == IF args.values[2].t = "list" THEN args.values[2].v ELSE <<>>
      as == IF args.values[3].t = "error" THEN "item" ELSE AsName(args.values[3])
  IN  IF ~args.r.ok THEN args.r
      ELSE LeavePartial(RenderPartials([BindAll(SetLocals(args.r, EmptyFn), locals) EXCEPT !.at = found],
                                       page, page.templates[found],
                                       IF once THEN <<<<>>>> ELSE [i \in DOMAIN items |-> <<<<as, items[i]>>>>]),
                        r)

(* Arguments are evaluated against the locals in scope before those are cleared
   for the partial. *)
FindPartial(r, page, call, which) ==
  LET name == AsName(which.value)
      found == FindTemplate(page, name, page.section)
      collection == NamedArgument(call, {":collection"})
  IN  IF ~which.r.ok \/ found = <<>> \/ which.r.depth + 1 > MaxPartials THEN Fail(which.r)
      ELSE InPartial(r, page, found,
                     ValuedAll([which.r EXCEPT !.depth = @ + 1,
                                               !.unsure = @ \/ (r.recs # <<>> /\ OwnPartials(page, name))],
                               page, <<NamedArgument(call, {":locals"}), collection,
                                       NamedArgument(call, {":as", ":as<k>"})>>),
                     collection = NoTree)

RenderPartial(r, page, call) ==
  LET partial == NamedArgument(call, {":partial", ":partial<p>", ":partial<q>"})
  IN  IF partial = NoTree THEN Fail(r) ELSE FindPartial(r, page, call, Valued(r, page, partial))

(* The block of a fragment: a call of the engine, or an expression. *)
FragmentBody(r, page, body, line) ==
  IF IsCall(body, "render") \/ IsCall(body, "cache") THEN EngineCall(r, page, body, Append(line, 1))
  ELSE Shows(Valued(r, page, body))

BodyOf(call) == LET last == call.kids[Len(call.kids)]
                IN  IF last.kind = "block" THEN last.kids[1] ELSE last

-----------------------------------------------------------------------------
(* The cache.  An entry or the names of a site, once there, is never replaced. *)

FindFragment(cache, key) == IF key \in DOMAIN cache.entries THEN <<cache.entries[key]>> ELSE <<>>

Store(cache, key, entry) ==
  IF key \in DOMAIN cache.entries THEN cache ELSE [cache EXCEPT !.entries = Put(@, key, entry)]

RememberReads(cache, site, rec) ==
  IF ~rec.replayable \/ site \in DOMAIN cache.reads THEN cache
  ELSE [cache EXCEPT !.reads = Put(@, site, [i \in DOMAIN rec.reads |-> rec.reads[i][1]])]

(* What the names that the site was found to read say against this page: the
   entry stored under their values.  Replaying reads, and a read lands in every
   open recording, up to the first name that is not in scope. *)
Replayed(r, page, site) ==
  IF site \notin DOMAIN r.cache.reads THEN [r |-> r, entry |-> <<>>]
  ELSE LET names == r.cache.reads[site]
           found == [i \in DOMAIN names |-> Lookup(Context(r, page), names[i])]
           lost == {i \in DOMAIN found : Failed(found[i])}
           reads == [i \in 1..(IF lost = {} THEN Len(found) ELSE Min(lost) - 1) |-> found[i].reads[1]]
       IN  [r |-> Recorded(r, reads),
            entry |-> IF lost = {} THEN FindFragment(r.cache, <<site, reads>>) ELSE <<>>]

(* The body on its own, with a recording that is the last one. *)
RecordedBody(r, page, call, site) ==
  FragmentBody([r EXCEPT !.out = <<>>, !.recs = Append(@, NewRecording), !.unsure = FALSE],
               page, BodyOf(call), site[2])

KeyOfBody(done, site) == <<site, Last(done.recs).reads>>
EntryOf(done) == [out |-> done.out, unsure |-> done.unsure \/ ~Last(done.recs).replayable]

Reused(r, entry) == [Printed(r, entry.out) EXCEPT !.unsure = @ \/ entry.unsure]

(* What was read is remembered and the fragment stored, unless it failed. *)
KeepFragment(r, site, done) ==
  LET key == KeyOfBody(done, site)
      kept == Store(RememberReads(done.cache, site, Last(done.recs)), key, EntryOf(done))
      back == [done EXCEPT !.recs = Front(@), !.out = r.out]
  IN  IF ~done.ok THEN back
      ELSE Reused([back EXCEPT !.unsure = @ \/ r.unsure, !.cache = kept], kept.entries[key])

AnswerFragment(r, page, call, site, asked) ==
  IF asked.entry # <<>> THEN Reused(asked.r, asked.entry[1])
  ELSE KeepFragment(r, site, RecordedBody(asked.r, page, call, site))

(* Ask, render, remember what was read, and store it, all at once. *)
RenderFragment(r, page, call, site) ==
  CASE Len(call.kids) < 3 -> Fail(r)
    [] Len(call.kids) >= 3 /\ ~page.caching -> FragmentBody(r, page, BodyOf(call), site[2])
    [] OTHER -> AnswerFragment(r, page, call, site, Replayed(r, page, site))

EngineCall(r, page, call, line) ==
  IF IsCall(call, "render") THEN RenderPartial(r, page, call)
  ELSE RenderFragment(r, page, call, <<r.at, line>>)

Render(page, root, cache) == RenderChildren(Rendering(cache), page, root.kids, 1)

-----------------------------------------------------------------------------
(* What a layout without partials and fragments means, said of its lines: who a
   line is under, which branch of a chain is taken, what is shown. *)

FailedOutput == <<"failed">>
Joined(outputs) == IF FailedOutput \in Range(outputs) THEN FailedOutput ELSE FlattenSeq(outputs)

(* The line whose block takes this one as text. *)
RECURSIVE Captor(_, _)
Captor(lines, j) ==
  LET takes(i) == /\ Captor(lines, i) = 0
                  /\ \/ lines[i].kind = "<pre>" /\ \A m \in (i + 1)..(j - 1) : lines[m].kind # "</pre>"
                     \/ lines[i].kind \in Filters \cup {"pre"} /\ \A m \in (i + 1)..j :
                          lines[m].kind = "blank" \/ lines[m].ind > lines[i].ind
  IN  Min({i \in 1..(j - 1) : takes(i)} \cup {j + 1}) % (j + 1)

Visible(lines) == {j \in DOMAIN lines : lines[j].kind # "blank" /\ Captor(lines, j) = 0}

(* The nearest line above that is indented less; preserved markup ends with its
   closing tag and has nothing under it. *)
Above(lines, j) ==
  Max({0} \cup {i \in Visible(lines) : i < j /\ lines[i].ind < lines[j].ind /\ lines[i].kind # "<pre>"})
Beneath(lines, i) == SetToSortSeq({j \in Visible(lines) : Above(lines, j) = i}, <)

(* The branches of the chain that a branch belongs to, up to itself; none when
   no if or unless heads it. *)
ChainTo(lines, j) ==
  LET sibs == {i \in Visible(lines) : i <= j /\ Above(lines, i) = Above(lines, j)}
      heads == {h \in sibs : lines[h].kind \in Heads /\ \A m \in sibs : m > h => lines[m].kind \in Tails}
  IN  IF heads = {} THEN {} ELSE {m \in sibs : m >= Max(heads)}

(* What the expression of a line is worth; an else always holds. *)
Worth(line, c) ==
  CASE line.kind = "else" -> Bool(TRUE)
    [] line.kind # "else" /\ line.e = <<>> -> Null
    [] OTHER -> Evaluate(Parse(line.e).tree, c).value

Verdict(kind, v) ==
  CASE v.t = "error" -> "fails"
    [] v.t # "error" /\ Truthy(v) # (kind = "unless") -> "holds"
    [] OTHER -> "passes"

Asks(lines, j, c) == Verdict(lines[j].kind, Worth(lines[j], c))

TextOf(line, j, v) ==
  CASE line.e = <<>> \/ line.kind \notin Texts -> <<ToString(j)>>
    [] line.e # <<>> /\ line.kind \in Texts /\ v.t = "error" -> FailedOutput
    [] OTHER -> <<ToString(j)>> \o ToText(v)

TakenBy(lines, j) ==
  SetToSortSeq({m \in DOMAIN lines : m > j /\ Captor(lines, m) = j /\ lines[m].kind # "blank"}, <)

(* The captured lines; in a filter they are no templates. *)
BlockShown(lines, j, at, c) ==
  Joined([n \in DOMAIN at |-> IF lines[j].kind \in Filters THEN <<ToString(at[n])>>
                              ELSE TextOf(lines[at[n]], at[n], Worth(lines[at[n]], c))])

(* A branch shows what is under it when the ones before it in its chain pass. *)
BranchShown(before, asks, under) ==
  CASE before \ {"passes"} # {} -> <<>>
    [] before \subseteq {"passes"} /\ asks = "fails" -> FailedOutput
    [] OTHER -> IF asks = "holds" THEN under ELSE <<>>

RECURSIVE Shown(_, _, _)
ShownUnder(lines, i, c) ==
  LET js == Beneath(lines, i) IN Joined([n \in DOMAIN js |-> Shown(lines, js[n], c)])

(* A line, given what its expression is worth, the lines it takes as text, the
   chain it is in, and what is under it when a local has each of some values. *)
LineShown(lines, j, c, v, block, chain, under) ==
  LET line == lines[j]
      attrs == CASE v.t = "null" \/ (v.t = "bool" /\ ~Truthy(v)) -> <<>>
                 [] v.t = "bool" /\ Truthy(v) -> <<"attr">>
                 [] OTHER -> <<"attr">> \o ToText(v)
  IN  CASE line.kind \in Texts -> Joined(<<TextOf(line, j, v), block>>)
        [] line.kind = "comment" -> <<>>
        [] line.kind = "doctype" -> <<"doctype">>
        [] line.kind = ":plain" -> block
        [] line.kind \in Heads \cup Tails ->
             IF chain = {} THEN FailedOutput
             ELSE BranchShown({Asks(lines, m, c) : m \in chain \ {j}}, Verdict(line.kind, v), Joined(under))
        [] line.kind = ":other" \/ v.t = "error" \/ (line.kind = "for" /\ v.t # "list") -> FailedOutput
        [] line.kind = "for" /\ v.t = "list" -> Joined(under)
        [] line.kind = "=" /\ v.t # "error" -> ToText(v)
        [] line.kind = "p=" /\ v.t # "error" -> Joined(<<<<"<p>">>, ToText(v), Joined(under), <<"</p>">>>>)
        [] line.kind = "br" /\ v.t # "error" -> <<"<br>">> \o attrs
        [] OTHER -> Joined(<<<<"<p>">>, attrs, block, Joined(under), <<"</p>">>>>)

(* The scopes of what is under a line: one for each item of a loop. *)
Scopes(line, c, v) ==
  IF line.kind = "for" /\ v.t = "list" THEN [n \in DOMAIN v.v |-> [c EXCEPT !.locals = Put(@, "k", v.v[n])]]
  ELSE <<c>>

ShownIn(lines, j, c, v, scopes) ==
  LineShown(lines, j, c, v, BlockShown(lines, j, TakenBy(lines, j), c), ChainTo(lines, j),
            [n \in DOMAIN scopes |-> ShownUnder(lines, j, scopes[n])])

ShownOf(lines, j, c, v) == ShownIn(lines, j, c, v, Scopes(lines[j], c, v))

Shown(lines, j, c) == ShownOf(lines, j, c, Worth(lines[j], c))

Agrees(r, out) == IF r.ok THEN r.out = out ELSE out = FailedOutput
PrintsAs(t, page, out) == t.ok => Agrees(Render(page, t.node, EmptyCache), out)

(* A layout prints what its lines say: every line is under the nearest line
   above that is indented less, exactly the first branch of a chain whose
   condition holds is shown, a loop shows its block once for every item with its
   own local, text that is captured is not read as a template, and a page fails
   exactly when something that is reached fails. *)
PrintsItsLines(lines, page) ==
  PrintsAs(Compile(lines), page,
           ShownUnder(lines, 0, [values |-> page.values, locals |-> EmptyFn, functions |-> {"f"}]))

=============================================================================
