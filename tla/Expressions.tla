---------------------------- MODULE Expressions -----------------------------
(***************************************************************************)
(* The expressions of layouts: class Parser and evaluate of                *)
(* expression.cpp.  The text is a sequence of tokens; a name, a number, a  *)
(* string, ".k" or "<k>" (a member), ":as" (the name of an argument),      *)
(* ":partial<p>" (one with its text) and "k:" (the key of a map) are one   *)
(* token each.  A parse is a tree and the position after it, or Refused.   *)
(* A value is its type and a sequence: the number, the words of a string,  *)
(* the items of a list, the pairs of a map.                                *)
(***************************************************************************)
EXTENDS Integers, Sequences, SequencesExt, FiniteSets, TLC

CONSTANT MaxDepth  (* max_depth of the parser *)

(* The operators from the loosest to the tightest, all left-associative. *)
Ops == <<{"||"}, {"&&"}, {"==", "<"}, {"+", "-", "cat"}>>
Members == {".k", "<k>", ".size"}
MemberOf(token) == IF token = ".size" THEN "size" ELSE "k"
Keys == {"k:", "b:"}
KeyOf(token) == IF token = "k:" THEN "k" ELSE "b"
Names == {"a", "b", "k", "f", "render", "cache", "yield"}
Locals == {"$k"}
Literals == {"1", "str", "true", "null"}
Labels == {":partial", ":locals", ":collection", ":as"}
Quoted == {":partial<p>", ":partial<q>", ":as<k>"}

Height(node) == node.height
Tree(kind, op, kids) ==
  [kind |-> kind, op |-> op, kids |-> kids,
   height |-> 1 + Max({0} \cup {Height(kids[i]) : i \in DOMAIN kids})]

Parsed(tree, pos) == [ok |-> TRUE, tree |-> tree, pos |-> pos]
Refused == [ok |-> FALSE]

(* A node that holds others is measured when it is made. *)
(* Mutant: the height of a tree is not looked at. *)
BuiltAnyHeight(tree, pos) == Parsed(tree, pos)

Built(tree, pos) == IF tree.height > MaxDepth THEN Refused ELSE Parsed(tree, pos)

At(in, i) == IF i <= Len(in) THEN in[i] ELSE "end"

-----------------------------------------------------------------------------
(* The parser.  d is the number of trips down that are under way. *)

(* A node over what was read last, when it was, with what came before it in front. *)
Over(kind, op, front, r) == IF r.ok THEN Built(Tree(kind, op, Append(front, r.tree)), r.pos) ELSE Refused

(* The same over a list of trees. *)
OverAll(kind, front, r) == IF r.ok THEN Built(Tree(kind, "", front \o r.tree), r.pos) ELSE Refused

(* What was read must be followed by this token, which is passed. *)
Closed(in, closer, r) == IF r.ok /\ At(in, r.pos) = closer THEN [r EXCEPT !.pos = @ + 1] ELSE Refused

RECURSIVE ParseOr(_, _, _), ParseLevel(_, _, _, _), Chain(_, _, _, _)
RECURSIVE ParseUnary(_, _, _), Postfix(_, _, _), ParsePrimary(_, _, _)
RECURSIVE ParseItems(_, _, _, _, _)

ParseOr(in, i, d) == IF d + 1 > MaxDepth THEN Refused ELSE ParseLevel(in, i, d + 1, 1)

ParseLevel(in, i, d, level) ==
  IF level > Len(Ops) THEN ParseUnary(in, i, d)
  ELSE Chain(in, ParseLevel(in, i, d, level + 1), d, level)

Chain(in, left, d, level) ==
  IF ~left.ok \/ At(in, left.pos) \notin Ops[level] THEN left
  ELSE Chain(in, Over("binary", in[left.pos], <<left.tree>>, ParseLevel(in, left.pos + 1, d, level + 1)),
             d, level)

ParseUnary(in, i, d) ==
  CASE d + 1 > MaxDepth -> Refused
    [] d + 1 <= MaxDepth /\ At(in, i) = "!" -> Over("not", "!", <<>>, ParseUnary(in, i + 1, d + 1))
    [] OTHER -> Postfix(in, ParsePrimary(in, i, d + 1), d + 1)

Postfix(in, target, d) ==
  CASE ~target.ok -> target
    [] target.ok /\ At(in, target.pos) \in Members ->
         Postfix(in, Built(Tree("member", MemberOf(in[target.pos]), <<target.tree>>), target.pos + 1), d)
    [] target.ok /\ At(in, target.pos) = "(" ->
         Postfix(in, OverAll("call", <<target.tree>>, ParseItems(in, target.pos + 1, d, ")", <<>>)), d)
    [] OTHER -> target

(* One argument: an expression, :name(expression), :name<text>, or a bare :name,
   which is its own text. *)
ParseArgument(in, i, d) ==
  CASE At(in, i) \in Labels /\ At(in, i + 1) = "(" ->
         Over("named", in[i], <<>>, Closed(in, ")", ParseOr(in, i + 2, d)))
    [] At(in, i) \in Labels \cup Quoted /\ ~(At(in, i) \in Labels /\ At(in, i + 1) = "(") ->
         Parsed(Tree("named", in[i], <<Tree("literal", in[i], <<>>)>>), i + 1)
    [] OTHER -> ParseOr(in, i, d)

ParseEntry(in, i, d) ==
  IF At(in, i) \in Keys THEN Over("named", KeyOf(in[i]), <<>>, ParseOr(in, i + 1, d)) ELSE Refused

(* What follows an item. *)
AfterItem(in, item, d, closer, done) ==
  CASE ~item.ok -> Refused
    [] item.ok /\ At(in, item.pos) = "," ->
         ParseItems(in, item.pos + 1, d, closer, Append(done, item.tree))
    [] OTHER -> Closed(in, closer, [item EXCEPT !.tree = Append(done, @)])

(* Arguments up to ")", or the entries of a map up to "}", where a comma may
   come last. *)
ParseItems(in, i, d, closer, done) ==
  IF At(in, i) = closer /\ (done = <<>> \/ closer = "}") THEN Parsed(done, i + 1)
  ELSE AfterItem(in, IF closer = ")" THEN ParseArgument(in, i, d) ELSE ParseEntry(in, i, d),
                 d, closer, done)

(* A brace opens a map when a key follows or it is empty, and a block if not. *)
ParsePrimary(in, i, d) ==
  LET t == At(in, i)
  IN  CASE t = "{" /\ At(in, i + 1) \in Keys \cup {"}"} ->
             OverAll("map", <<>>, ParseItems(in, i + 1, d, "}", <<>>))
        [] t = "(" -> Closed(in, ")", ParseOr(in, i + 1, d))
        [] t = "{" /\ At(in, i + 1) \notin Keys \cup {"}"} ->
             Over("block", "", <<>>, Closed(in, "}", ParseOr(in, i + 1, d)))
        [] t \in Names -> Parsed(Tree("name", t, <<>>), i + 1)
        [] t \in Locals -> Parsed(Tree("variable", "k", <<>>), i + 1)
        [] t \in Literals -> Parsed(Tree("literal", t, <<>>), i + 1)
        [] OTHER -> Refused

(* A text is an expression when all of it is. *)
Whole(in, r) == IF r.ok /\ r.pos <= Len(in) THEN Refused ELSE r

Parse(in) == Whole(in, ParseOr(in, 1, 0))

-----------------------------------------------------------------------------
(* Values. *)

Value(type, v) == [t |-> type, v |-> v]
Null == Value("null", <<>>)
Error == Value("error", <<>>)
Bool(b) == Value("bool", <<IF b THEN 1 ELSE 0>>)
Num(n) == Value("int", <<n>>)
Str(words) == Value("str", words)

Truthy(x) == CASE x.t \in {"bool", "int"} -> x.v # <<0>>
               [] OTHER -> x.v # <<>>

ToText(x) == CASE x.t = "bool" -> IF Truthy(x) THEN <<"true">> ELSE <<"false">>
               [] x.t = "int"  -> <<ToString(x.v[1])>>
               [] x.t = "str"  -> x.v
               [] OTHER        -> <<>>

(* What is not a number counts as zero. *)
AsNumber(x) == IF x.t = "int" THEN x.v[1] ELSE 0

Exact == {"str", "null", "bool"}
SameValue(x, y) == IF {x.t, y.t} \cap Exact # {} THEN x.t = y.t /\ x.v = y.v
                   ELSE AsNumber(x) = AsNumber(y)

(* Strings compare word by word, in the order of this list. *)
Order == <<"", "1", "2", "p", "q", "s", "x", "y">>
Rank(w) == CHOOSE i \in DOMAIN Order : Order[i] = w
Before(s, w) == \E i \in 1..Len(w) : /\ i > Len(s) \/ Rank(s[i]) < Rank(w[i])
                                     /\ i - 1 <= Len(s) /\ \A j \in 1..(i - 1) : s[j] = w[j]

Less(x, y) == CASE x.t = "str" /\ y.t = "str" -> Bool(Before(x.v, y.v))
                [] x.t = "int" /\ y.t = "int" -> Bool(x.v[1] < y.v[1])
                [] OTHER -> Error

ListMember(x, name) == CASE name = "size"  -> Num(Len(x.v))
                         [] name = "first" -> IF x.v = <<>> THEN Null ELSE x.v[1]
                         [] OTHER          -> Error

(* A missing key reads as null. *)
Member(x, name) ==
  CASE x.t = "list" -> ListMember(x, name)
    [] x.t = "map" -> LET at == {i \in DOMAIN x.v : x.v[i][1] = name}
                      IN  IF at = {} THEN Null ELSE x.v[Min(at)][2]
    [] OTHER -> Error

Arithmetic(op, x, y) ==
  CASE op = "==" -> Bool(SameValue(x, y))
    [] op = "<" -> Less(x, y)
    [] op = "cat" \/ (op = "+" /\ "str" \in {x.t, y.t}) -> Str(ToText(x) \o ToText(y))
    [] op = "-" -> Num(AsNumber(x) - AsNumber(y))
    [] OTHER -> Num(AsNumber(x) + AsNumber(y))

(* Setting a key again replaces its value where it stands. *)
SetKey(x, key, value) ==
  LET at == {i \in DOMAIN x.v : x.v[i][1] = key}
  IN  IF at = {} THEN Value("map", Append(x.v, <<key, value>>))
      ELSE Value("map", [x.v EXCEPT ![Min(at)] = <<key, value>>])

-----------------------------------------------------------------------------
(* Evaluation.  A context gives names their values, shadowed by its locals, and
   has the functions of the view, whose result depends on their arguments
   alone.  The outcome is a value and the reads that led to it, in order. *)

Outcome(value, reads) == [value |-> value, reads |-> reads]
Failed(e) == e.value.t = "error"
LiteralValue(token) == CASE token = "1" -> Num(1) [] token = "true" -> Bool(TRUE)
                         [] token = "null" -> Null [] token = "str" -> Str(<<"s">>)
                         [] token = ":partial<p>" -> Str(<<"p">>)
                         [] token = ":partial<q>" -> Str(<<"q">>)
                         [] token = ":as<k>" -> Str(<<"k">>) [] OTHER -> Str(<<token>>)

Read(name, value) == Outcome(value, <<<<name, value>>>>)
LookupLocal(c, name) == IF name \in DOMAIN c.locals THEN Read(name, c.locals[name]) ELSE Outcome(Error, <<>>)
Lookup(c, name) == CASE name \in DOMAIN c.locals -> LookupLocal(c, name)
                     [] name \in DOMAIN c.values /\ name \notin DOMAIN c.locals -> Read(name, c.values[name])
                     [] OTHER -> Outcome(Error, <<>>)

Apply(name, args) == Str(<<"f">> \o FlattenSeq([i \in DOMAIN args |-> ToText(args[i])]))

RECURSIVE Evaluate(_, _), EvaluateAll(_, _, _), EvaluateMap(_, _, _)

(* A list with one more item, and a map with one more entry; a failure ends it. *)
Listed(done, e) ==
  Outcome(IF Failed(e) THEN Error ELSE Value("list", Append(done.value.v, e.value)), done.reads \o e.reads)
Entered(done, key, e) ==
  Outcome(IF Failed(e) THEN Error ELSE SetKey(done.value, key, e.value), done.reads \o e.reads)

(* The values of several trees; the first failure ends it. *)
EvaluateAll(trees, c, done) ==
  IF trees = <<>> \/ Failed(done) THEN done
  ELSE EvaluateAll(Tail(trees), c,
                   Listed(done, Evaluate(IF Head(trees).kind = "block" THEN Head(trees).kids[1] ELSE Head(trees), c)))

EvaluateMap(entries, c, done) ==
  IF entries = <<>> \/ Failed(done) THEN done
  ELSE EvaluateMap(Tail(entries), c, Entered(done, Head(entries).op, Evaluate(Head(entries).kids[1], c)))

(* Both logical operators stop early. *)
Combined(op, l, r) ==
  CASE Failed(l) \/ (op = "&&" /\ ~Truthy(l.value)) \/ (op = "||" /\ Truthy(l.value)) -> l
    [] OTHER -> Outcome(IF Failed(r) \/ op \in {"&&", "||"} THEN r.value ELSE Arithmetic(op, l.value, r.value),
                        l.reads \o r.reads)

EvaluateBinary(tree, c) == Combined(tree.op, Evaluate(tree.kids[1], c), Evaluate(tree.kids[2], c))

(* A function of the view is called with the values of its arguments. *)
Called(name, args) == IF Failed(args) THEN args ELSE Outcome(Apply(name, args.value.v), args.reads)

(* A member that is called with nothing is read, and so is a value. *)
EvaluateCall(tree, c) ==
  LET target == tree.kids[1]
      bare == Len(tree.kids) = 1
  IN  CASE target.kind \notin {"name", "member"} -> Outcome(Error, <<>>)
        [] target.kind = "member" /\ bare -> Evaluate(target, c)
        [] target.kind = "name" /\ bare /\ target.op \notin c.functions -> Lookup(c, target.op)
        [] target.kind \in {"name", "member"} /\ ~bare /\ target.op \notin c.functions -> Outcome(Error, <<>>)
        [] OTHER -> Called(target.op, EvaluateAll(Tail(tree.kids), c, Outcome(Value("list", <<>>), <<>>)))

EvaluateName(tree, c) ==
  LET e == Lookup(c, tree.op)
  IN  IF Failed(e) /\ tree.op \in c.functions THEN Outcome(Apply(tree.op, <<>>), <<>>) ELSE e

MemberRead(e, name) == IF Failed(e) THEN e ELSE Outcome(Member(e.value, name), e.reads)
Negated(e) == IF Failed(e) THEN e ELSE Outcome(Bool(~Truthy(e.value)), e.reads)

Evaluate(tree, c) ==
  CASE tree.kind = "literal"  -> Outcome(LiteralValue(tree.op), <<>>)
    [] tree.kind = "variable" -> LookupLocal(c, tree.op)
    [] tree.kind = "name"     -> EvaluateName(tree, c)
    [] tree.kind = "member"   -> MemberRead(Evaluate(tree.kids[1], c), tree.op)
    [] tree.kind = "named"    -> Evaluate(tree.kids[1], c)
    [] tree.kind = "block"    -> Outcome(Error, <<>>)
    [] tree.kind = "map"      -> EvaluateMap(tree.kids, c, Outcome(Value("map", <<>>), <<>>))
    [] tree.kind = "not"      -> Negated(Evaluate(tree.kids[1], c))
    [] tree.kind = "binary"   -> EvaluateBinary(tree, c)
    [] OTHER                  -> EvaluateCall(tree, c)

-----------------------------------------------------------------------------
(* The grammar, said from the outside in: an operator of a level splits the
   text where it occurs last outside brackets. *)

NoTree == [kind |-> "none"]
Opens == {"(", "{"}
Closes == {")", "}"}
Count(in, S, i, j) == Cardinality({k \in i..j : in[k] \in S})
Outside(in, k) == Count(in, Opens, 1, k) = Count(in, Closes, 1, k)
(* The bracket that the last one closes. *)
Partner(in) == Max({0} \cup {k \in DOMAIN in : in[k] \in Opens /\ Outside(in, k - 1)})

(* The pieces between the commas of a bracket; the last one of a map may be
   empty. *)
Pieces(in) ==
  LET commas == {0, Len(in) + 1} \cup {j \in DOMAIN in : in[j] = "," /\ Outside(in, j)}
      cuts == SetToSortSeq(commas, <)
  IN  [j \in 1..(Len(cuts) - 1) |-> SubSeq(in, cuts[j] + 1, cuts[j + 1] - 1)]

RECURSIVE Means(_, _)

MeansArgument(s) ==
  LET n == Len(s)
      whole == n > 2 /\ s[1] \in Labels /\ s[2] = "(" /\ s[n] = ")" /\ Partner(s) = 2
      inner == Means(SubSeq(s, 3, n - 1), 1)
  IN  CASE n = 1 /\ s[1] \in Labels \cup Quoted -> Tree("named", s[1], <<Tree("literal", s[1], <<>>)>>)
        [] whole -> IF inner = NoTree THEN inner ELSE Tree("named", s[1], <<inner>>)
        [] OTHER -> Means(s, 1)

MeansEntry(s) ==
  LET value == Means(Tail(s), 1)
  IN  IF s = <<>> \/ Head(s) \notin Keys \/ value = NoTree THEN NoTree ELSE Tree("named", KeyOf(Head(s)), <<value>>)

(* A bracketed text at the end: a group, a call, a map or a block. *)
MeansBracket(in) ==
  LET n == Len(in)
      p == Partner(in)
      inside == SubSeq(in, p + 1, n - 1)
      base == Means(SubSeq(in, 1, p - 1), 6)
      whole == Means(inside, 1)
      pieces == Pieces(inside)
      items == IF pieces[Len(pieces)] = <<>> THEN Front(pieces) ELSE pieces
      args == [j \in DOMAIN pieces |-> MeansArgument(pieces[j])]
      entries == [j \in DOMAIN items |-> MeansEntry(items[j])]
      isMap == inside = <<>> \/ inside[1] \in Keys
  IN  CASE in[p] = "(" /\ in[n] = ")" /\ p = 1 -> whole
        [] in[p] = "(" /\ in[n] = ")" /\ p > 1 ->
             IF base = NoTree \/ (inside # <<>> /\ NoTree \in Range(args)) THEN NoTree
             ELSE Tree("call", "", <<base>> \o (IF inside = <<>> THEN <<>> ELSE args))
        [] in[p] = "{" /\ in[n] = "}" /\ p = 1 /\ isMap ->
             IF NoTree \in Range(entries) THEN NoTree ELSE Tree("map", "", entries)
        [] in[p] = "{" /\ in[n] = "}" /\ p = 1 /\ ~isMap ->
             IF whole = NoTree THEN NoTree ELSE Tree("block", "", <<whole>>)
        [] OTHER -> NoTree

Means(in, level) ==
  LET n == Len(in)
      splits == {k \in 2..(n - 1) : in[k] \in Ops[level] /\ Outside(in, k)}
      k == Max(splits)
      l == Means(SubSeq(in, 1, k - 1), level)
      r == Means(SubSeq(in, k + 1, n), level + 1)
      rest == Means(Tail(in), 5)
      front == Means(Front(in), 6)
  IN  CASE n = 0 -> NoTree
        [] n > 0 /\ level <= 4 -> CASE splits = {} -> Means(in, level + 1)
                                    [] splits # {} /\ NoTree \in {l, r} -> NoTree
                                    [] OTHER -> Tree("binary", in[k], <<l, r>>)
        [] n > 0 /\ level = 5 -> CASE in[1] # "!" -> Means(in, 6)
                                   [] in[1] = "!" /\ rest = NoTree -> NoTree
                                   [] OTHER -> Tree("not", "!", <<rest>>)
        [] n = 1 /\ level = 6 -> CASE in[1] \in Names -> Tree("name", in[1], <<>>)
                                   [] in[1] \in Locals -> Tree("variable", "k", <<>>)
                                   [] in[1] \in Literals -> Tree("literal", in[1], <<>>)
                                   [] OTHER -> NoTree
        [] n > 1 /\ level = 6 /\ in[n] \in Members ->
             IF front = NoTree THEN NoTree ELSE Tree("member", MemberOf(in[n]), <<front>>)
        [] n > 1 /\ level = 6 /\ in[n] \in Closes /\ Partner(in) > 0 -> MeansBracket(in)
        [] OTHER -> NoTree

(* The most trips down the parser can have under way in a text. *)
Trips(in) == 2 * (1 + Max({0} \cup {Count(in, Opens, 1, k) - Count(in, Closes, 1, k) : k \in DOMAIN in}))
             + Count(in, {"!"}, 1, Len(in))

(* The parser of expressions builds the tree that the grammar gives the text: the
   operators bind by level and to the left, and a call, a member, a map and a
   block bind to what is in front of them.  A tree is never taller than the
   limit that protects the evaluator, and a text within the limit is refused
   only when it means nothing. *)
FollowsGrammar(in) ==
  LET r == Parse(in)
      m == Means(in, 1)
  IN  IF r.ok THEN r.tree = m /\ r.tree.height <= MaxDepth
      ELSE m = NoTree \/ Trips(in) > MaxDepth \/ m.height > MaxDepth

=============================================================================
