------------------------------- MODULE Blocks -------------------------------
(***************************************************************************)
(* The block structure of a Markdown document: class BlockParser of        *)
(* markdown.cpp, which is fed one line at a time.                          *)
(*                                                                         *)
(* A line is a sequence of atoms, each a token and the columns of blank    *)
(* space in front of it (tabs are counted as columns; a blank line is the  *)
(* empty sequence).  What is left of a line while it is scanned is a       *)
(* suffix of it, so the code's Scanner is the suffix itself.  A parser is  *)
(* a record of the nodes in the order they were made, each with the number *)
(* of its parent (0 when detached), and of the tip.                        *)
(***************************************************************************)
EXTENDS Integers, Sequences, SequencesExt, FiniteSets

CONSTANT MaxNesting  (* containers one line may open *)

Doc == 1

(* What a token can be the start of. *)
Bullets == {"-", "*"}
Numbers == {"1.", "2."}
Fences == {"fence", "tildes"}
Rules == {"***", "---"}
Underlines == {"===", "---", "-"}
Pipes == {"a|b", "-|-"}
HtmlType(tok) == CASE tok = "<!--"  -> 2
                   [] tok = "<div>" -> 6
                   [] tok = "<b>"   -> 7
                   [] OTHER         -> 0

Tok(r) == IF r = <<>> THEN "" ELSE r[1].tok
Ind(r) == IF r = <<>> THEN 0 ELSE r[1].ind
Has(r, S) == \E i \in DOMAIN r : r[i].tok \in S

-----------------------------------------------------------------------------
(* Reading a line. *)

(* Give up at most limit columns of the space in front. *)
Skip(r, limit) ==
  IF r = <<>> THEN r
  ELSE [r EXCEPT ![1].ind = IF @ > limit THEN @ - limit ELSE 0]

Trim(r) == Skip(r, Ind(r))

(* Pass a marker, which the space in front of it belongs to. *)
Pass(r) == Tail(r)

(* Mutant: the space after the marker of a quote is left in. *)
PassQuoteKeepsSpace(r) == Pass(r)

(* Past the marker of a quote and the one space that belongs to it. *)
PassQuote(r) == Skip(Pass(r), 1)

IsRule(r) == \/ Len(r) = 1 /\ Tok(r) \in Rules
             \/ \E b \in Bullets : Len(r) >= 3 /\ \A i \in DOMAIN r : r[i].tok = b

IsUnderline(r) == Len(r) = 1 /\ Tok(r) \in Underlines

(* A marker counts when nothing or blank space follows it. *)
IsListMarker(r) == /\ Tok(r) \in Bullets \cup Numbers
                   /\ Len(r) = 1 \/ r[2].ind >= 1

IsDefinition(r) == Tok(r) = ": d"

ClosesFence(r, fence) == Len(r) = 1 /\ Ind(r) <= 3 /\ Tok(r) = fence

(* What opens an HTML block; the last kind never interrupts a paragraph. *)
HtmlStart(r, inParagraph) ==
  LET t == HtmlType(Tok(r))
  IN  IF t = 7 /\ (inParagraph \/ Len(r) > 1) THEN 0 ELSE t

HtmlEnds(type, r) == type = 2 /\ Has(r, {"-->"})

DelimiterRow(r) == Len(r) = 1 /\ Tok(r) = "-|-"
Cells(body) == IF body # <<>> /\ Has(body[1], Pipes) THEN 2 ELSE 1

(* A line that starts no block can continue a paragraph whose containers did
   not match. *)
StartsNoBlock(r) ==
  \/ Ind(r) >= 4
  \/ /\ r # <<>> /\ Tok(r) # ">" /\ Tok(r) # "#"
     /\ ~IsRule(r) /\ Tok(r) \notin Fences
     /\ HtmlStart(r, TRUE) = 0
     /\ ~IsListMarker(r)

-----------------------------------------------------------------------------
(* The tree. *)

Node(kind, parent, mark, pad, body) ==
  [kind |-> kind, parent |-> parent, mark |-> mark, pad |-> pad, body |-> body,
   open |-> TRUE, blank |-> FALSE, loose |-> FALSE, task |-> FALSE]

Start == [nodes |-> <<Node("document", 0, "", 0, <<>>)>>, tip |-> Doc, moved |-> FALSE]

Children(p, n) == {c \in DOMAIN p.nodes : p.nodes[c].parent = n}
LastChild(p, n) == LET cs == Children(p, n)
                   IN  IF cs = {} THEN 0 ELSE Max(cs)
OpenChild(p, n) == LET c == LastChild(p, n)
                   IN  IF c # 0 /\ p.nodes[c].open THEN c ELSE 0

Containers == {"document", "block_quote", "list", "item", "definition_list"}
TakesLines == {"paragraph", "code_block", "html_block", "table"}

Kind(p) == p.nodes[p.tip].kind
InParagraph(p) == Kind(p) = "paragraph"
TipBody(p) == p.nodes[p.tip].body

(* The tip goes to the parent, or to the document when there is none: a node
   that was detached has none. *)
TipAbove(p, n) == [p EXCEPT !.tip = IF p.nodes[n].parent # 0 THEN p.nodes[n].parent ELSE Doc]

(* The ghost moved remembers that a paragraph inside a container was taken out
   of it before the tip was moved. *)
Detach(p, n) == [p EXCEPT !.nodes[n].parent = 0,
                          !.moved = @ \/ p.nodes[n].parent # Doc]

(* Link references and footnotes in front of a paragraph are not content. *)
Undefined(body) ==
  LET defs == {k \in 0..Len(body) : \A i \in 1..k : Tok(body[i]) = "[r]:"}
  IN  SubSeq(body, Max(defs) + 1, Len(body))

FinalizeParagraph(p, n) ==
  LET rest == Undefined(p.nodes[n].body)
  IN  IF rest = <<>> THEN Detach(p, n) ELSE [p EXCEPT !.nodes[n].body = rest]

(* Trailing blank lines of indented code are not content. *)
FinalizeCode(p, n) ==
  LET body == p.nodes[n].body
      kept == {0} \cup {k \in 1..Len(body) : body[k] # <<>>}
  IN  IF p.nodes[n].mark # "" THEN p
      ELSE [p EXCEPT !.nodes[n].body = SubSeq(body, 1, Max(kept))]

(* A list is loose when a blank line separates content inside it. *)
FinalizeList(p, n) ==
  LET last(m) == LastChild(p, p.nodes[m].parent) = m
      split == \E i \in Children(p, n) :
                 \/ p.nodes[i].blank /\ ~last(i)
                 \/ \E c \in Children(p, i) : p.nodes[c].blank /\ ~(last(c) /\ last(i))
  IN  [p EXCEPT !.nodes[n].loose = @ \/ split]

Finalize(p, n) ==
  CASE p.nodes[n].kind = "paragraph"  -> FinalizeParagraph(p, n)
    [] p.nodes[n].kind = "code_block" -> FinalizeCode(p, n)
    [] p.nodes[n].kind = "list"       -> FinalizeList(p, n)
    [] OTHER                          -> p

Close(p, n) ==
  IF ~p.nodes[n].open THEN p
  ELSE TipAbove(Finalize([p EXCEPT !.nodes[n].open = FALSE], n), n)

CloseParagraph(p) == IF InParagraph(p) THEN Close(p, p.tip) ELSE p

RECURSIVE CloseUpTo(_, _)
CloseUpTo(p, n) == IF p.tip \in {n, Doc} THEN p ELSE CloseUpTo(Close(p, p.tip), n)

RECURSIVE CloseLeaves(_)
CloseLeaves(p) == IF Kind(p) \in Containers THEN p ELSE CloseLeaves(Close(p, p.tip))

(* Only items go under a list. *)
ContainerFor(p, kind) == IF kind # "item" /\ Kind(p) = "list" THEN Close(p, p.tip) ELSE p

(* A blank line between the new node and the one before it makes a list loose. *)
Loosen(p, kind) ==
  LET t == p.tip
      inItem == Kind(p) = "item" /\ p.nodes[t].blank /\ Children(p, t) # {}
      between == /\ kind = "item" /\ Kind(p) = "list" /\ Children(p, t) # {}
                 /\ p.nodes[LastChild(p, t)].blank
  IN  IF inItem \/ between THEN [p EXCEPT !.nodes[IF inItem THEN p.nodes[t].parent ELSE t].loose = TRUE] ELSE p

AttachAtTip(p, kind, mark, pad, body) ==
  [p EXCEPT !.nodes = Append(@, Node(kind, p.tip, mark, pad, body)), !.tip = Len(p.nodes) + 1]

(* A new node goes under the nearest container. *)
AddChild(p, kind, mark, pad, body) ==
  AttachAtTip(Loosen(ContainerFor(CloseLeaves(p), kind), kind), kind, mark, pad, body)

CloseTip(p) == Close(p, p.tip)

AddClosed(p, kind, mark, body) == CloseTip(AddChild(p, kind, mark, 0, body))

(* Terms and definitions are put under the list without being opened. *)
AddBeneath(p, list, kind, body) ==
  [p EXCEPT !.nodes = Append(@, [Node(kind, list, "", 0, body) EXCEPT !.open = FALSE]),
            !.tip = list]

AddText(p, n, r) ==
  LET node == p.nodes[n]
      q == [p EXCEPT !.nodes[n].body =
              Append(@, IF node.kind \in {"code_block", "html_block"} THEN r ELSE Trim(r))]
  IN  IF node.kind = "html_block" /\ HtmlEnds(node.pad, r) THEN Close(q, n) ELSE q

RECURSIVE Ancestors(_, _)
Ancestors(p, n) == IF n = 0 THEN {} ELSE {n} \cup Ancestors(p, p.nodes[n].parent)

MarkTip(p) ==
  LET up == Ancestors(p, p.tip)
  IN  [p EXCEPT !.nodes = [n \in DOMAIN @ |-> IF n \in up THEN [@[n] EXCEPT !.blank = TRUE] ELSE @[n]]]

MarkBlank(p) == MarkTip(CloseParagraph(p))

-----------------------------------------------------------------------------
(* Which open blocks a line continues. *)

(* The outcome of asking one block: whether the line continues it, what is left
   of the line, and whether the line was used up. *)
Verdict(p, ok, rest, consumed) == [p |-> p, ok |-> ok, rest |-> rest, consumed |-> consumed]

CodeContinues(p, n, r) ==
  LET node == p.nodes[n]
  IN  CASE node.mark # "" /\ ClosesFence(r, node.mark) -> Verdict(Close(p, n), FALSE, r, TRUE)
        [] node.mark # "" /\ ~ClosesFence(r, node.mark) -> Verdict(p, TRUE, Skip(r, node.pad), FALSE)
        [] OTHER -> Verdict(p, r = <<>> \/ Ind(r) >= 4, Skip(r, 4), FALSE)

Continues(p, n, r) ==
  LET node == p.nodes[n]
      says(ok, rest) == Verdict(p, ok, rest, FALSE)
  IN  CASE node.kind = "block_quote" ->
             IF Tok(r) = ">" /\ Ind(r) <= 3 THEN says(TRUE, PassQuote(r)) ELSE says(FALSE, r)
        [] node.kind = "item" ->
             IF r = <<>> THEN says(Children(p, n) # {}, r)
             ELSE says(Ind(r) >= node.pad, Skip(r, node.pad))
        [] node.kind = "code_block" -> CodeContinues(p, n, r)
        [] node.kind = "html_block" ->
             IF node.pad >= 6 /\ r = <<>> THEN Verdict(Close(p, n), FALSE, r, FALSE) ELSE says(TRUE, r)
        [] node.kind \in {"definition_list", "paragraph"} -> says(r # <<>>, r)
        [] node.kind = "table" -> says(Has(r, Pipes), r)
        [] OTHER -> says(TRUE, r)

(* Down the open blocks from n until one does not continue. *)
RECURSIVE Descend(_, _, _)
Further(v, c, n, r) ==
  IF v.ok THEN Descend(v.p, c, v.rest)
  ELSE [p |-> v.p, at |-> n, rest |-> r, all |-> FALSE, consumed |-> v.consumed]

Descend(p, n, r) ==
  LET c == OpenChild(p, n)
  IN  IF c = 0 THEN [p |-> p, at |-> n, rest |-> r, all |-> TRUE, consumed |-> FALSE]
      ELSE Further(Continues(p, c, r), c, n, r)

-----------------------------------------------------------------------------
(* Which blocks the rest of a line opens. *)

(* The paragraph at the tip becomes the head of a table, or the term of a
   definition list. *)
TakeParagraph(p) == TipAbove(Detach(p, p.tip), p.tip)

StartTable(p) == AddChild(TakeParagraph(p), "table", "", 0, TipBody(p))

DefinitionList(p) ==
  IF Kind(p) = "definition_list" THEN p ELSE AddChild(p, "definition_list", "", 0, <<>>)

AddUnderTip(p, kind, body) == AddBeneath(p, p.tip, kind, body)

(* Mutant: the term is read after its paragraph was taken down. *)
StartDefinitionsWithoutTerm(p) == AddUnderTip(DefinitionList(TakeParagraph(p)), "term", <<>>)

StartDefinitions(p) == AddUnderTip(DefinitionList(TakeParagraph(p)), "term", TipBody(p))

StartHtml(p, r) ==
  LET type == HtmlStart(r, InParagraph(p))
      ended(q) == IF HtmlEnds(type, r) THEN CloseTip(q) ELSE q
  IN  ended(AddChild(CloseParagraph(p), "html_block", Tok(r), type, <<r>>))

MakeHeading(p) ==
  Close([p EXCEPT !.nodes[p.tip].kind = "heading", !.nodes[p.tip].mark = "setext"], p.tip)

(* An item's content starts where its text does, unless that is five columns or
   more after the marker. *)
Width(tok) == IF tok \in Numbers THEN 2 ELSE 1
Padding(r) == IF Len(r) > 1 /\ r[2].ind \in 1..4 THEN r[2].ind ELSE 1
ListType(tok) == IF tok \in Numbers THEN "." ELSE tok

ListFor(p, type) ==
  IF Kind(p) = "list" /\ p.nodes[p.tip].mark = type THEN p ELSE AddChild(p, "list", type, 0, <<>>)

StartItem(p, r, indent) ==
  AddChild(ListFor(CloseParagraph(p), ListType(Tok(r))), "item", "", indent + Width(Tok(r)) + Padding(r), <<>>)

(* What is left over is text. *)
AddRest(p, r) ==
  LET task == Kind(p) = "item" /\ Children(p, p.tip) = {} /\ Tok(r) = "[ ]"
      q == [p EXCEPT !.nodes[p.tip].task = @ \/ task]
      body == IF task THEN Trim(Tail(r)) ELSE Trim(r)
  IN  CASE r = <<>> -> MarkBlank(p)
        [] r # <<>> /\ Kind(p) = "definition_list" ->
             AddBeneath(p, p.tip, IF IsDefinition(r) THEN "detail" ELSE "term", <<Trim(r)>>)
        [] InParagraph(p) /\ r # <<>> -> AddText(p, p.tip, r)
        [] OTHER -> AddChild(q, "paragraph", "", 0, IF body = <<>> THEN <<>> ELSE <<body>>)

(* A block that ends with its line, or that the lines after it go into. *)
OpenLeaf(p, r, indent) ==
  CASE Tok(r) = "shortcode" -> AddClosed(p, "shortcode", "", <<r>>)
    [] Tok(r) = "#" -> AddClosed(p, "heading", "#", <<Tail(r)>>)
    [] Tok(r) \in Fences -> AddChild(p, "code_block", Tok(r), indent, <<>>)
    [] OTHER -> AddClosed(p, "thematic_break", "", <<>>)

RECURSIVE OpenNew(_, _, _)
OpenNew(p, line, depth) ==
  LET r == Trim(line)
      t == Tok(r)
      text == InParagraph(p) /\ TipBody(p) # <<>>
      table == /\ InParagraph(p) /\ DelimiterRow(r) /\ Len(TipBody(p)) < 2 /\ Cells(TipBody(p)) = 2
      item == IsListMarker(r) /\ ~(InParagraph(p) /\ (Len(r) = 1 \/ t = "2."))
      rest == depth = MaxNesting \/ r = <<>> \/ (Ind(line) >= 4 /\ InParagraph(p))
  IN  CASE rest -> AddRest(p, line)
        [] ~rest /\ Ind(line) >= 4 -> AddChild(p, "code_block", "", 0, <<Skip(line, 4)>>)
        [] ~rest /\ Ind(line) < 4 ->
             CASE t = ">" ->
                    OpenNew(AddChild(CloseParagraph(p), "block_quote", "", 0, <<>>), PassQuote(r), depth + 1)
               [] text /\ IsDefinition(r) -> AddUnderTip(StartDefinitions(p), "detail", <<r>>)
               [] table -> StartTable(p)
               [] text /\ IsUnderline(r) -> MakeHeading(p)
               [] t \in Fences \cup {"shortcode", "#"} \/ (IsRule(r) /\ ~(text /\ IsUnderline(r))) ->
                    OpenLeaf(CloseParagraph(p), r, Ind(line))
               [] HtmlStart(r, InParagraph(p)) > 0 -> StartHtml(p, r)
               [] item /\ ~IsRule(r) /\ ~(text /\ IsUnderline(r)) ->
                    OpenNew(StartItem(p, r, Ind(line)), Skip(Pass(r), Padding(r)), depth + 1)
               [] OTHER -> AddRest(p, line)

(* What a line does where it got to in the open blocks. *)
AddLine(d) ==
  LET lazy == ~d.all /\ InParagraph(d.p) /\ d.rest # <<>> /\ StartsNoBlock(d.rest)
      takes == d.all /\ d.p.nodes[d.at].kind \in TakesLines \ {"paragraph"}
      there == [d.p EXCEPT !.tip = d.at]
  IN  CASE d.consumed -> d.p
        [] ~d.consumed /\ lazy -> AddText(d.p, d.p.tip, d.rest)
        [] ~d.consumed /\ takes -> AddText(there, d.at, d.rest)
        [] OTHER -> OpenNew(IF d.all THEN there ELSE CloseUpTo(d.p, d.at), d.rest, 0)

HandleLine(p, line) == AddLine(Descend(p, Doc, line))

(* The end of the document closes what is open, deepest first. *)
RECURSIVE CloseRemaining(_, _)
CloseRemaining(p, n) ==
  LET q == FoldLeft(LAMBDA a, c : CloseRemaining(a, c), p, SetToSortSeq(Children(p, n), <))
  IN  IF n = Doc THEN q ELSE Close(q, n)

Finish(p) == CloseRemaining(CloseUpTo(p, Doc), Doc)

(* What the renderer sees of a tree. *)
RECURSIVE Tree(_, _)
Tree(p, n) ==
  LET node == p.nodes[n]
      cs == SetToSortSeq(Children(p, n), <)
  IN  [kind |-> node.kind, mark |-> node.mark, loose |-> node.loose, task |-> node.task,
       body |-> node.body, children |-> [i \in DOMAIN cs |-> Tree(p, cs[i])]]

Blocks(p) == Tree(Finish(p), Doc).children

-----------------------------------------------------------------------------

(* The words of a line, and those of a list of blocks in reading order. *)
IsWord(atom) == atom.tok \in {"x", "y", "a|b", ": d"}
Words(line) == LET ws == SelectSeq(line, IsWord) IN [i \in DOMAIN ws |-> ws[i].tok]

RECURSIVE WordsOf(_)
WordsOf(blocks) ==
  FlattenSeq([i \in DOMAIN blocks |->
    FlattenSeq([j \in DOMAIN blocks[i].body |-> Words(blocks[i].body[j])]) \o WordsOf(blocks[i].children)])

(* The words of a document are all in its tree, once and in their order, whatever
   opens, closes, interrupts, or takes over a paragraph on the way. *)
KeepsWords(p, lines) ==
  WordsOf(Blocks(p)) = FlattenSeq([i \in DOMAIN lines |-> Words(lines[i])])

(* The same lines behind a marker: in a quote, and in the first item of a list. *)
Marked(marker, line) ==
  <<[ind |-> 0, tok |-> marker]>> \o (IF line = <<>> THEN line ELSE [line EXCEPT ![1].ind = @ + 1])
Indented(line) == IF line = <<>> THEN line ELSE [line EXCEPT ![1].ind = @ + 3]

(* A line that only carries on a paragraph may leave the marker of its quote out,
   unless it has a list marker, which ends the quote even where the number is
   not one that interrupts a paragraph. *)
CarriesOn(p, line) ==
  InParagraph(p) /\ ~IsListMarker(line) /\ HandleLine(p, line) = AddText(p, p.tip, line)

(* A document behind markers is one container with the blocks of the document. *)
Holds(outer, inner) == Len(outer) = 1 /\ outer[1].children = inner
ItemOf(lists) == IF Len(lists) = 1 THEN lists[1].children ELSE <<>>

QuoteHolds(quoted, p) == Holds(Blocks(quoted), Blocks(p))
ItemHolds(listed, p) == Holds(ItemOf(Blocks(listed)), Blocks(p))

=============================================================================
