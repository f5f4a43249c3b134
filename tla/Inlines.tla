------------------------------ MODULE Inlines -------------------------------
(***************************************************************************)
(* The inline structure of a paragraph: class InlineParser of              *)
(* markdown_inline.cpp.  The text is a sequence of tokens.  What a grammar *)
(* of its own accepts is one token: "<t>" an autolink or a raw tag, "(u)"  *)
(* a destination with its title, "{.c}" an attribute block, "[^n]" a       *)
(* reference to a footnote, "esc" an escaped character or an entity.       *)
(*                                                                         *)
(* A scan is the position, the text not yet made a node, the nodes, and    *)
(* the stacks of delimiter runs and of brackets, which point into nodes.   *)
(***************************************************************************)
EXTENDS Integers, Sequences, SequencesExt, FiniteSets

CONSTANT References  (* labels that the document defines *)

Delims == {"*", "_", "~"}
Blank == {" ", "nl"}
Word == {"a", "b"}
Plain(t) == t \notin Blank /\ t \notin Word   (* punctuation *)

Piece(kind, lit, kids) == [kind |-> kind, lit |-> lit, kids |-> kids]
Hole == Piece("hole", <<>>, <<>>)
IsNode(n) == n # Hole

Fresh == [pos |-> 1, pending |-> <<>>, nodes |-> <<>>, delims |-> <<>>, brackets |-> <<>>]

-----------------------------------------------------------------------------

FlushText(s) ==
  IF s.pending = <<>> THEN s
  ELSE [s EXCEPT !.nodes = Append(@, Piece("text", s.pending, <<>>)), !.pending = <<>>]

Emit(s, node) == LET f == FlushText(s) IN [f EXCEPT !.nodes = Append(@, node)]

AddPending(s, lit) == [s EXCEPT !.pending = @ \o lit, !.pos = @ + Len(lit)]

(* The run of one token that starts at i. *)
RunLength(in, i) ==
  LET same == {k \in 1..(Len(in) - i + 1) : \A j \in i..(i + k - 1) : in[j] = in[i]}
  IN  CHOOSE k \in same : \A j \in same : j <= k


(* Code ends at the next run of backticks as long as the first. *)
HandleCodeSpan(in, s) ==
  LET k == RunLength(in, s.pos)
      ends == {j \in (s.pos + k)..Len(in) :
                 in[j] = "tick" /\ in[j - 1] # "tick" /\ RunLength(in, j) = k}
      j == Min(ends)
  IN  IF ends = {} THEN AddPending(s, SubSeq(in, s.pos, s.pos + k - 1))
      ELSE [Emit(s, Piece("code_span", SubSeq(in, s.pos, j + k - 1), <<>>)) EXCEPT !.pos = j + k]

(* Spaces at the end of a line become a break, those at the start are dropped. *)
HandleNewline(in, s) ==
  LET p == s.pending
      kept == {k \in 0..Len(p) : \A i \in (k + 1)..Len(p) : p[i] = " "}
      kind == IF Len(p) - Min(kept) >= 2 THEN "line_break" ELSE "soft_break"
      next == {i \in (s.pos + 1)..(Len(in) + 1) : i > Len(in) \/ in[i] # " "}
  IN  [Emit([s EXCEPT !.pending = SubSeq(p, 1, Min(kept))], Piece(kind, <<"nl">>, <<>>))
         EXCEPT !.pos = Min(next)]

(* A dollar before a space is a dollar, and so is one that nothing closes. *)
HandleDollar(in, s) ==
  LET ends == {j \in (s.pos + 1)..Len(in) : in[j] = "$"}
      j == Min(ends)
      math == /\ ends # {} /\ j > s.pos + 1
              /\ in[s.pos + 1] \notin Blank /\ in[j - 1] \notin Blank
  IN  IF math THEN [Emit(s, Piece("math", SubSeq(in, s.pos, j), <<>>)) EXCEPT !.pos = j + 1]
      ELSE AddPending(s, <<"$">>)

-----------------------------------------------------------------------------
(* Delimiter runs. *)

HandleDelimiterRun(in, s) ==
  LET c == in[s.pos]
      k == RunLength(in, s.pos)
      before == IF s.pos > 1 THEN in[s.pos - 1] ELSE "nl"
      after == IF s.pos + k <= Len(in) THEN in[s.pos + k] ELSE "nl"
      left == after \notin Blank /\ (~Plain(after) \/ before \in Blank \/ Plain(before))
      right == before \notin Blank /\ (~Plain(before) \/ after \in Blank \/ Plain(after))
      few == ~(c = "~" /\ k > 2)
      f == Emit(s, Piece("text", SubSeq(in, s.pos, s.pos + k - 1), <<>>))
  IN  [f EXCEPT !.pos = @ + k,
                !.delims = Append(@, [char |-> c, count |-> k, original |-> k, active |-> TRUE,
                   canOpen |-> few /\ left /\ (c = "_" => ~right \/ Plain(before)),
                   canClose |-> few /\ right /\ (c = "_" => ~left \/ Plain(after)),
                   index |-> Len(f.nodes)])]

(* A run that can both open and close matches only when the two lengths do not
   add up to a multiple of three, or both are one. *)
Tricky(o, c) ==
  /\ c.char # "~" /\ (c.canOpen \/ o.canClose)
  /\ (c.original + o.original) % 3 = 0
  /\ c.original % 3 # 0 \/ o.original % 3 # 0

Openers(s, floor, ci) ==
  LET c == s.delims[ci]
      fits(o) == o.active /\ o.canOpen /\ o.char = c.char /\ o.count > 0 /\ ~Tricky(o, c)
  IN  {oi \in (floor + 1)..(ci - 1) : fits(s.delims[oi])}

(* What is left of a run after some of it was used. *)
TrimRun(d) == IF d.count = 0 THEN Hole
              ELSE Piece("text", [i \in 1..d.count |-> d.char], <<>>)

Used(o, c) == IF o.count >= 2 /\ c.count >= 2 THEN 2 ELSE 1

(* Mutant: the wrapper always takes the place of the opener. *)
SlotOfOpener(nodes, o, c) == o.index

(* The slot a wrapper takes: inside the pair, or the place of a run used up. *)
Slot(nodes, o, c) ==
  CASE o.index + 1 < c.index -> o.index + 1
    [] o.index + 1 = c.index /\ nodes[c.index] = Hole -> c.index
    [] OTHER -> o.index

(* Wrap what lies between the opener and the closer.  The wrapper takes a slot
   inside the pair, so that the indices of the other runs stay right. *)
Wrapped(s, oi, ci) ==
  LET used == Used(s.delims[oi], s.delims[ci])
      o == [s.delims[oi] EXCEPT !.count = @ - used]
      c == [s.delims[ci] EXCEPT !.count = @ - used]
      inside == (o.index + 1)..(c.index - 1)
      mark == [i \in 1..used |-> c.char]
      kind == CASE c.char = "~" -> "strikethrough" [] c.char # "~" /\ used = 2 -> "strong"
                [] OTHER -> "emphasis"
      wrapper == Piece(kind, mark, SelectSeq(SubSeq(s.nodes, o.index + 1, c.index - 1), IsNode))
      nodes == [i \in DOMAIN s.nodes |-> CASE i \in inside -> Hole
                                           [] i = o.index -> TrimRun(o)
                                           [] i = c.index -> TrimRun(c)
                                           [] OTHER -> s.nodes[i]]
  IN  [s EXCEPT !.nodes = [nodes EXCEPT ![Slot(nodes, o, c)] = wrapper],
                !.delims = [i \in DOMAIN @ |->
                   CASE i = oi -> [o EXCEPT !.active = @ /\ o.count > 0]
                     [] i = ci -> [c EXCEPT !.active = @ /\ c.count > 0]
                     [] i \in (oi + 1)..(ci - 1) -> [@[i] EXCEPT !.active = FALSE]
                     [] OTHER -> @[i]]]

RECURSIVE Resolve(_, _, _)
Resolve(s, floor, ci) ==
  IF ci > Len(s.delims) THEN s
  ELSE LET c == s.delims[ci]
           os == Openers(s, floor, ci)
       IN  CASE ~c.active \/ ~c.canClose \/ c.count = 0 -> Resolve(s, floor, ci + 1)
             [] c.active /\ c.canClose /\ c.count > 0 /\ os = {} ->
                  Resolve([s EXCEPT !.delims[ci].active = c.canOpen], floor, ci + 1)
             [] OTHER -> Resolve(Wrapped(s, Max(os), ci), floor, ci)

(* The holes are closed, and both stacks, which point at the old places, are
   given up. *)
Compact(s) == [s EXCEPT !.nodes = SelectSeq(@, IsNode), !.delims = <<>>, !.brackets = <<>>]

ProcessEmphasis(s, floor) ==
  IF Len(s.delims) <= floor THEN s ELSE Compact(Resolve(s, floor, floor + 1))

-----------------------------------------------------------------------------
(* Brackets. *)

HandleOpenBracket(in, s) ==
  LET e == Emit(s, Piece("text", <<in[s.pos]>>, <<>>))
  IN  [e EXCEPT !.pos = @ + 1,
                !.brackets = Append(@, [position |-> Len(e.nodes), floor |-> Len(s.delims),
                                        image |-> in[s.pos] = "![", active |-> TRUE])]

CollectText(s, from) ==
  LET lits == [i \in DOMAIN s.nodes |->
                 IF i >= from /\ s.nodes[i].kind \in {"text", "code_span"} THEN s.nodes[i].lit ELSE <<>>]
  IN  FlattenSeq(lits) \o s.pending

(* What follows the bracket and makes it a link: how many tokens, or -1. *)
Target(in, s, from) ==
  LET next == s.pos + 1
      ends == IF next <= Len(in) /\ in[next] = "[" THEN {j \in next..Len(in) : in[j] = "]"} ELSE {}
      label == IF ends = {} THEN <<>> ELSE SubSeq(in, next + 1, Min(ends) - 1)
      own == IF label = <<>> THEN CollectText(s, from) ELSE label
  IN  CASE next <= Len(in) /\ in[next] = "(u)" -> 1
        [] ~(next <= Len(in) /\ in[next] = "(u)") /\ own \in References ->
             IF ends = {} THEN 0 ELSE Min(ends) - s.pos
        [] OTHER -> -1

(* Mutant: the brackets around a link stay open for another. *)
DeactivatedNone(brackets) == brackets

(* A link cannot nest inside another link. *)
Deactivated(brackets) == [i \in DOMAIN brackets |->
                            [brackets[i] EXCEPT !.active = @ /\ brackets[i].image]]

MakeLink(in, s, b, extra) ==
  LET p == ProcessEmphasis(FlushText(s), b.floor)
      after == s.pos + 1 + extra
      attrs == IF after <= Len(in) /\ in[after] = "{.c}" THEN 1 ELSE 0
      link == Piece(IF b.image THEN "image" ELSE "link",
                    SubSeq(in, s.pos, s.pos + extra + attrs),
                    SubSeq(p.nodes, b.position + 1, Len(p.nodes)))
  IN  [p EXCEPT !.pos = after + attrs,
                !.nodes = Append(SubSeq(@, 1, b.position - 1), link),
                !.brackets = IF b.image THEN @ ELSE Deactivated(@)]

HandleCloseBracket(in, s) ==
  IF s.brackets = <<>> THEN AddPending(s, <<"]">>)
  ELSE LET b == s.brackets[Len(s.brackets)]
           popped == [s EXCEPT !.brackets = Front(@)]
           extra == Target(in, popped, b.position + 1)
       IN  IF ~b.active \/ extra < 0 THEN AddPending(popped, <<"]">>)
           ELSE MakeLink(in, popped, b, extra)

-----------------------------------------------------------------------------

Step(in, s) ==
  LET t == in[s.pos]
      one(kind) == [Emit(s, Piece(kind, <<t>>, <<>>)) EXCEPT !.pos = @ + 1]
  IN  CASE t = "tick"        -> HandleCodeSpan(in, s)
        [] t = "<t>"         -> one("html_inline")
        [] t = "[^n]"        -> one("footnote_ref")
        [] t = "$"           -> HandleDollar(in, s)
        [] t \in {"[", "!["} -> HandleOpenBracket(in, s)
        [] t = "]"           -> HandleCloseBracket(in, s)
        [] t \in Delims      -> HandleDelimiterRun(in, s)
        [] t = "nl"          -> HandleNewline(in, s)
        [] OTHER             -> AddPending(s, <<t>>)

RECURSIVE Scan(_, _)
Scan(in, s) == IF s.pos > Len(in) THEN s ELSE Scan(in, Step(in, s))

ParseInto(in) == ProcessEmphasis(FlushText(Scan(in, Fresh)), 0).nodes

-----------------------------------------------------------------------------

(* The text a tree was made from. *)
RECURSIVE Unparsed(_)
Unparsed(nodes) ==
  LET one(n) == CASE n.kind \in {"emphasis", "strong", "strikethrough"} ->
                       n.lit \o Unparsed(n.kids) \o n.lit
                  [] n.kind = "link" -> <<"[">> \o Unparsed(n.kids) \o n.lit
                  [] n.kind = "image" -> <<"![">> \o Unparsed(n.kids) \o n.lit
                  [] OTHER -> n.lit
  IN  FlattenSeq([i \in DOMAIN nodes |-> one(nodes[i])])

(* Every token of the paragraph is in the tree once and in its place (spaces
   around line breaks aside): pairing runs through slots, holes and indices
   neither loses nor repeats nor moves text. *)
KeepsText(in) ==
  LET solid(t) == t # " "
  IN  SelectSeq(Unparsed(ParseInto(in)), solid) = SelectSeq(in, solid)

RECURSIVE LinkFree(_)
LinkFree(nodes) == \A i \in DOMAIN nodes : nodes[i].kind # "link" /\ LinkFree(nodes[i].kids)

(* No link is inside a link, however brackets, images and emphasis nest. *)
RECURSIVE NoNestedLink(_)
NoNestedLink(nodes) ==
  \A i \in DOMAIN nodes : IF nodes[i].kind = "link" THEN LinkFree(nodes[i].kids)
                          ELSE NoNestedLink(nodes[i].kids)

=============================================================================
