---------------------------- MODULE MCDocuments -----------------------------
(***************************************************************************)
(* The documents, layouts and sites that TLC writes.                       *)
(***************************************************************************)
EXTENDS Documents

(* Markdown lines *)
Atom(n, t) == [ind |-> n, tok |-> t]
OnlyAtom(t) == <<Atom(0, t)>>
WordAfter(t) == <<Atom(0, t), Atom(1, "x")>>

CoreLines == {<<>>, OnlyAtom("x"), <<Atom(4, "x")>>, WordAfter(">"), WordAfter("-"), WordAfter("1."),
              OnlyAtom("-"), OnlyAtom("fence"), OnlyAtom("==="), OnlyAtom("<!--"), OnlyAtom("-->")}
WideLines == CoreLines \cup
    {OnlyAtom("y"), <<Atom(2, "x")>>, WordAfter("*"), <<Atom(2, "-"), Atom(1, "x")>>, WordAfter("#"),
     OnlyAtom("---"), OnlyAtom("<div>"), OnlyAtom("a|b"), OnlyAtom("-|-"), OnlyAtom(": d"),
     OnlyAtom("[r]:"), OnlyAtom("shortcode"), OnlyAtom("tildes"), OnlyAtom("***"), WordAfter("2."),
     <<Atom(0, "-"), Atom(1, "[ ]"), Atom(1, "x")>>, OnlyAtom("<b>")}

(* Layout lines *)
LayoutLine(i, k, e) == [ind |-> i, kind |-> k, e |-> e]
LayoutForms ==
    {<<"text", <<>>>>, <<"text", <<"k">>>>, <<"p", <<>>>>, <<"br", <<"a">>>>, <<"p=", <<"k">>>>,
     <<"if", <<"a">>>>, <<"unless", <<"k">>>>, <<"elsif", <<"k">>>>, <<"else", <<>>>>,
     <<"for", <<"b">>>>, <<"comment", <<>>>>, <<":plain", <<>>>>, <<"pre", <<>>>>,
     <<"<pre>", <<>>>>, <<"</pre>", <<>>>>, <<"blank", <<>>>>}
LayoutLines == {LayoutLine(i, f[1], f[2]) : i \in 0..2, f \in LayoutForms}
MidLayoutLines == {l \in LayoutLines : l.ind < 2 \/ l.kind \in {"text", "p", "for", "blank"}}
CoreLayoutLines == {LayoutLine(i, f[1], f[2]) : i \in 0..1,
    f \in {<<"text", <<"k">>>>, <<"if", <<"a">>>>, <<"elsif", <<"k">>>>, <<"else", <<>>>>, <<"for", <<"b">>>>}}

Items == Value("list", <<Num(0), Num(2)>>)
LayoutPage(values) ==
    [values |-> values, section |-> <<>>, body |-> "body", templates |-> EmptyFn, caching |-> TRUE]
TheLayoutPages == {LayoutPage([k |-> Num(1), a |-> Bool(TRUE), b |-> Items]), LayoutPage([a |-> Null, b |-> Items])}

(* Lines of requests *)
FirstLine(method, path, version) == [method |-> method, path |-> path, version |-> version]
TheRequestLine ==
    [get |-> FirstLine("GET", "/a", "HTTP/1.1"), head |-> FirstLine("HEAD", "/a", "HTTP/1.1"),
     empty |-> FirstLine("GET", "/e", "HTTP/1.1"), none |-> FirstLine("HEAD", "/no", "HTTP/1.1"),
     post |-> FirstLine("POST", "/a", "HTTP/1.1"), get10 |-> FirstLine("GET", "/a", "HTTP/1.0"),
     socket |-> FirstLine("GET", "/socket", "HTTP/1.1")]
ANamed(name, value) == [name |-> name, value |-> value]
TheHeaderLine ==
    [close |-> ANamed("connection", {"close"}), alive |-> ANamed("connection", {"keep-alive"}),
     connection |-> ANamed("connection", {"upgrade", "keep-alive"}), websocket |-> ANamed("upgrade", {"websocket"}),
     host |-> ANamed("host", {})]
TheBodySize == ("/a" :> 2) @@ ("/e" :> 0)

Core(items, long) == [items |-> items, long |-> long]
TheAlphabet ==
    [blocks      |-> [wide |-> WideLines, short |-> 3, cores |-> {Core(CoreLines, 4)}],
     inlines     |-> [wide |-> {"a", " ", "*", "_", "[", "]", "(u)", "![", "tick", "~", "nl", "$", "<t>",
                                "[^n]", "{.c}"}, short |-> 4,
                      cores |-> {Core({"a", "*", "_", " "}, 7), Core({"a", "[", "]", "(u)", "![", "*"}, 6),
                                 Core({"a", "[", "]", "(u)", "!["}, 7)}],
     expressions |-> [wide |-> {"a", "||", "==", "+", "!", "(", ")", ".k", ",", "{", "}", "k:", ":as"},
                      short |-> 5,
                      cores |-> {Core({"a", "+"}, 22), Core({"a", "!"}, 11), Core({"a", "(", ")"}, 11),
                                 Core({"a", "==", "+", "!", "(", ")", ".k"}, 7)}],
     layouts     |-> [wide |-> LayoutLines, short |-> 2, cores |-> {Core(CoreLayoutLines, 4), Core(MidLayoutLines, 3)}],
     sites       |-> [wide |-> {}, short |-> 4, cores |-> {}],
     requests    |-> [wide |-> DOMAIN TheRequestLine \cup DOMAIN TheHeaderLine \cup {"blank", "word"}, short |-> 3,
                      cores |-> {Core({"blank", "get", "head", "post"}, 6), Core({"blank", "get", "close", "alive"}, 6),
                                 Core({"blank", "get", "word"}, 6),
                                 Core({"blank", "get10", "alive", "close", "head"}, 5),
                                 Core({"blank", "socket", "connection", "websocket", "close"}, 5)}]]

TheReferences == {<<"a">>}

(* Fragments *)
Cached(e) == <<"cache", "(", "str", ",", "{">> \o e \o <<"}", ")">>
AsList(items) == Value("list", items)
Nested(e) == <<LayoutLine(0, "for", <<"a">>), LayoutLine(1, e[1], e[2])>>
ThePartials ==
    {<<LayoutLine(0, "text", <<"k">>)>>, <<LayoutLine(0, "text", <<"f">>)>>,
     <<LayoutLine(0, "text", <<"k">>), LayoutLine(0, "=", <<"yield">>)>>,
     Nested(<<"text", <<"k">>>>), Nested(<<"text", <<"b">>>>), Nested(<<"=", <<"render", "(", ":partial<q>", ")">>>>),
     <<LayoutLine(0, "text", <<"k">>), LayoutLine(0, "=", Cached(<<"a", ".size">>))>>}
TheCommon == <<LayoutLine(0, "text", <<"a", ".size">>)>>
TheOwnCommon == <<LayoutLine(0, "text", <<>>)>>
TheCalls ==
    {Cached(<<"render", "(", ":partial<p>", ",", ":locals", "(", "{", "b:", "k", "}", ")", ")">>),
     Cached(<<"render", "(", ":partial<p>", ",", ":collection", "(", "a", ")", ",", ":as<k>", ")">>),
     Cached(<<"k", "==", "1", "||", "a", ".size">>)}
View(values, section, body) == [values |-> values, section |-> section, body |-> body]
TheViews == {View([k |-> Num(1), a |-> AsList(<<Num(1)>>)], <<>>, "b1"),
             View([k |-> Num(2), a |-> AsList(<<Num(1)>>)], <<>>, "b2"),
             View([k |-> Num(1), a |-> AsList(<<Num(1), Num(2)>>)], <<"s">>, "b3")}
TheOuter == {EmptyFn, [b |-> Num(2)]}
Symmetric == Permutations(Threads)

(* Sites *)
TheDictionary == <<"a", "b", "blog", "index", "old", "tags">>
TheSlugs == [Go |-> "go", go |-> "go", C |-> "c"]
PostFrom(lang, section, file, stem, slug, order, date, tags, flags, aliases) ==
    [lang |-> lang, section |-> section, file |-> file, stem |-> stem, slug |-> slug, order |-> order,
     date |-> date, terms |-> [tags |-> tags], draft |-> "draft" \in flags, noindex |-> "noindex" \in flags,
     aliases |-> aliases]

SingleSite == <<
    PostFrom("", <<>>, "index", "index", "blog", 9, 1, {}, {}, <<>>),
    PostFrom("", <<>>, "one", "one", "a", 9, 1, {"Go"}, {}, <<<<"blog">>>>),
    PostFrom("", <<>>, "two", "two", "blog", 9, 0, {}, {}, <<>>),
    PostFrom("", <<"blog">>, "1", "1", "a", 9, 1, {"Go"}, {}, <<<<"old">>, <<"a">>>>),
    PostFrom("", <<"blog">>, "2", "2", "b", 9, 2, {"go", "C"}, {"noindex"}, <<<<"old">>>>),
    PostFrom("", <<"blog">>, "3", "3", "index", 1, 1, {"C"}, {}, <<>>),
    PostFrom("", <<"blog">>, "4", "4", "a", 9, 3, {"C"}, {}, <<>>),
    PostFrom("", <<"blog">>, "5", "5", "old", 9, 9, {}, {}, <<>>),
    PostFrom("", <<"blog", "v1.0">>, "1", "1", "a", 9, 1, {"C"}, {}, <<>>),
    PostFrom("", <<"x", "y">>, "1", "1", "b", 9, 1, {"Go", "C"}, {}, <<>>)>>

TwoLanguages == <<
    PostFrom("en", <<>>, "index", "index", "a", 9, 1, {}, {}, <<>>),
    PostFrom("en", <<"blog">>, "1", "1", "a", 9, 1, {"Go"}, {}, <<<<"old">>>>),
    PostFrom("en", <<"blog">>, "2", "2", "b", 9, 2, {"C"}, {"noindex"}, <<>>),
    PostFrom("fr", <<>>, "index", "index", "b", 9, 1, {}, {}, <<>>),
    PostFrom("fr", <<"blog">>, "1", "1", "old", 9, 1, {"Go"}, {}, <<>>),
    PostFrom("fr", <<"blog">>, "1b", "1", "b", 9, 2, {"Go"}, {"draft"}, <<>>),
    PostFrom("fr", <<"blog">>, "2", "2", "b", 9, 9, {}, {}, <<>>),
    PostFrom("fr", <<"x">>, "1", "1", "b", 9, 1, {"Go", "C"}, {}, <<>>)>>

TheContents == (<<>> :> SingleSite) @@ (<<"en", "fr">> :> TwoLanguages)

(* What is shipped by hand, and whether the site has a layout for its 404 page. *)
ShippedAnd404 ==
    {[shipped |-> {}, layout404 |-> TRUE], [shipped |-> {<<"feed.xml">>}, layout404 |-> FALSE],
     [shipped |-> {<<"blog", "feed.xml">>, <<"404.html">>}, layout404 |-> TRUE]}

TheConfigurations ==
    {[clean |-> clean, drafts |-> FALSE, future |-> FALSE, languages |-> languages, home |-> home,
      size |-> size, sizes |-> (<<"x", "y">> :> 0), taxonomies |-> {"tags"}, hidden |-> {<<"x">>},
      related |-> 1, feeds |-> {"feed.xml"}, robots |-> TRUE, search |-> TRUE] @@ files
        : clean \in BOOLEAN, languages \in {<<>>, <<"en", "fr">>}, home \in {<<>>, <<"blog">>},
          size \in {1, 2}, files \in ShippedAnd404}
==============================================================================
