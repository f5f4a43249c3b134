-------------------------------- MODULE Haml --------------------------------
(***************************************************************************)
(* The templates: class Parser of haml.cpp, which reads the lines of a     *)
(* layout into a tree by their indentation.                                *)
(*                                                                         *)
(* A line is its indentation, its kind and the tokens of its expression:   *)
(* "text" (with a hole when it has an expression), "<pre>" and "</pre>"    *)
(* (text that opens and closes preserved markup), "p" and "br" (a tag and  *)
(* a void one, with an attribute when there is an expression), "p=" (a tag *)
(* with an output on its own line), "pre" (a tag that keeps its            *)
(* whitespace), "=" (output), the control lines, "for" (over $k),          *)
(* "comment", "doctype", ":plain" and ":other" (filters), and "blank".     *)
(* What a line says is its number.                                         *)
(***************************************************************************)
EXTENDS Expressions

Tails == {"elsif", "else"}
Heads == {"if", "unless"}
Control == Heads \cup Tails \cup {"for"}
Filters == {":plain", ":other"}
Elements == {"p", "br", "p=", "pre"}
Texts == {"text", "<pre>", "</pre>"}

(* A segment of text: what the template says, or a hole with its expression. *)
Literal(at) == [at |-> at, hole |-> NoTree]
HoleSegment(tree) == [at |-> 0, hole |-> tree]

HamlNode(kind, at, tree, text, kids) ==
  [kind |-> kind, at |-> at, tree |-> tree, text |-> text, kids |-> kids]

Got(node, next) == [ok |-> TRUE, node |-> node, next |-> next]

-----------------------------------------------------------------------------

(* The tree of a line's expression; a line without one is fine. *)
Expression(line) == Parse(line.e)
NeedsExpression(line) == line.kind \in {"=", "p=", "if", "unless", "elsif", "for"} \/ line.e # <<>>
Compiles(line) == NeedsExpression(line) => Expression(line).ok

ParseInterpolated(lines, i) ==
  <<Literal(i)>> \o IF lines[i].e = <<>> \/ lines[i].kind \notin Texts THEN <<>>
                    ELSE <<HoleSegment(Expression(lines[i]).tree)>>

(* The node of one line, without what is indented under it. *)
BuildNode(lines, i) ==
  LET line == lines[i]
      tree == IF line.e = <<>> THEN NoTree ELSE Expression(line).tree
      node(kind) == HamlNode(kind, i, tree, <<>>, <<>>)
  IN  CASE line.kind \in Texts -> HamlNode("text", i, NoTree, ParseInterpolated(lines, i), <<>>)
        [] line.kind = "p=" -> HamlNode("p", i, NoTree, <<>>, <<node("=")>>)
        [] OTHER -> node(line.kind)

NextContent(lines, i) ==
  Min({j \in i..Len(lines) : lines[j].kind # "blank"} \cup {Len(lines) + 1})

(* Mutant: a line with the same indentation is in the block. *)
BlockEndTakesSiblings(lines, i, indent) ==
  LET deep(j) == lines[j].kind = "blank" \/ lines[j].ind >= indent
      inside == {j \in i..Len(lines) : \A m \in i..j : deep(m)}
  IN  1 + Max({i - 1} \cup {j \in inside : lines[j].kind # "blank"})

(* Where the block under a line ends: blank lines inside it belong to it, and
   blank lines that trail it do not. *)
BlockEnd(lines, i, indent) ==
  LET deep(j) == lines[j].kind = "blank" \/ lines[j].ind > indent
      inside == {j \in i..Len(lines) : \A m \in i..j : deep(m)}
  IN  1 + Max({i - 1} \cup {j \in inside : lines[j].kind # "blank"})

(* Where preserved markup ends: past the line that closes it, or at the end. *)
MarkupEnd(lines, i) ==
  1 + Min({j \in i..Len(lines) : lines[j].kind = "</pre>"} \cup {Len(lines)})

Captured(lines, i, end) == {j \in i..(end - 1) : lines[j].kind # "blank"}

(* The captured lines join the text of the line that opened the block. *)
JoinText(node, text, end) ==
  IF node.kind = "text" THEN Got([node EXCEPT !.text = @ \o text], end)
  ELSE Got([node EXCEPT !.kids = Append(@, HamlNode("text", node.at, NoTree, text, <<>>))], end)

AttachBlock(lines, node, i, end) ==
  LET at == SetToSortSeq(Captured(lines, i, end), <)
  IN  CASE end <= i -> Got(node, i)
        [] end > i /\ \E j \in Range(at) : lines[j].kind \in Texts /\ ~Compiles(lines[j]) -> Refused
        [] OTHER -> JoinText(node, FlattenSeq([j \in DOMAIN at |-> ParseInterpolated(lines, at[j])]), end)

(* Nothing in a filter's body is read as a template. *)
AttachFilterBlock(lines, node, i, end) ==
  LET at == SetToSortSeq(Captured(lines, i, end), <)
      child == HamlNode("text", i, NoTree, [j \in DOMAIN at |-> Literal(at[j])], <<>>)
  IN  IF end <= i THEN Got(node, i) ELSE Got([node EXCEPT !.kids = <<child>>], end)

RECURSIVE ParseKids(_, _, _, _)

(* A node and everything that belongs to it. *)
ParseBlock(lines, i, node, end) ==
  CASE lines[i].kind \in {"<pre>", "pre"} ->
         AttachBlock(lines, node, i + 1, IF lines[i].kind = "pre" THEN end ELSE MarkupEnd(lines, i + 1))
    [] lines[i].kind \in Filters -> AttachFilterBlock(lines, node, i + 1, end)
    [] OTHER -> ParseKids(lines, i + 1, lines[i].ind, node)

ParseNode(lines, i) ==
  IF Compiles(lines[i]) THEN ParseBlock(lines, i, BuildNode(lines, i), BlockEnd(lines, i + 1, lines[i].ind))
  ELSE Refused

(* The next child, when the parser has read it, and those after it. *)
WithChild(lines, child, indent, node) ==
  IF child.ok THEN ParseKids(lines, child.next, indent, [node EXCEPT !.kids = Append(@, child.node)])
  ELSE Refused

(* Everything indented past a line belongs to it. *)
ParseKids(lines, i, indent, node) ==
  LET next == NextContent(lines, i)
  IN  IF next > Len(lines) \/ lines[next].ind <= indent THEN Got(node, i)
      ELSE WithChild(lines, ParseNode(lines, next), indent, node)

Root == HamlNode("root", 0, NoTree, <<>>, <<>>)

Compile(lines) == ParseKids(lines, 1, -1, Root)

=============================================================================
