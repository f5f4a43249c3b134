-------------------------------- MODULE Site --------------------------------
(***************************************************************************)
(* Which files a build writes and which urls it prints in them: the posts  *)
(* and the pages either side of them, the listings and their pagination,   *)
(* the taxonomies, the menu, the language switcher, the feeds, the         *)
(* sitemap, the search index and the redirects of site.cpp, nav.cpp and    *)
(* view.cpp, together with what the preview server (http.cpp) serves for a *)
(* url.  Urls and files are named in four places of the code; this module  *)
(* asks whether the four agree.                                            *)
(*                                                                         *)
(* A path is a sequence of names.  A url is a path and whether it ends in  *)
(* a slash.  A post is a record of what its front matter says.  A file of  *)
(* the output is a record: what page it is, the urls printed on it with    *)
(* the page each one is meant to lead to, and the posts it lists.          *)
(***************************************************************************)
EXTENDS Naturals, Sequences, FiniteSets, SequencesExt, FiniteSetsExt

CONSTANTS
    Dictionary,   \* the slugs, in the order of their bytes
    Dotted,       \* the names that hold a dot
    Slugs,        \* what slugify makes of a term
    Today         \* the day of the build

------------------------------------------------------------------------------
(* Urls and files *)

join_url(prefix, path, clean) ==
    [path |-> prefix \o path, slash |-> path = <<>> \/ ~clean]

Html(path) == [path EXCEPT ![Len(path)] = @ \o ".html"]

Index(path) == Append(path, "index.html")

(* Where a page at path of an output tree is written. *)
url_to_file(output, path, clean) ==
    IF clean /\ path # <<>> THEN output \o Html(path) ELSE output \o Index(path)

Numbered(base, number) == IF number = 1 THEN base ELSE base \o <<"page", ToString(number)>>

listing_file(output, base, number, clean) == url_to_file(output, Numbered(base, number), clean)

listing_url(prefix, base, number, clean) == join_url(prefix, Numbered(base, number), clean)

(* The file the preview server answers a url with, if any. *)
resolve_file(url, files) ==
    LET tries == IF url.slash THEN <<Index(url.path)>>
                 ELSE IF \E name \in Range(url.path) : name \in Dotted THEN <<url.path>>
                 ELSE <<url.path, Html(url.path), Index(url.path)>>
    IN SelectSeq(tries, LAMBDA file : file \in files)

------------------------------------------------------------------------------
(* Posts *)

Held(post, c) == (post.draft /\ ~c.drafts) \/ (post.date > Today /\ ~c.future)

IsRootIndex(post) == post.section = <<>> /\ post.file = "index"

(* The identity of a page, whatever its url is. *)
Page(what, of, number) == [what |-> what, of |-> of, number |-> number]

PostPage(post) == Page("post", <<post.lang>> \o post.section \o <<post.file>>, 0)

Listing(lang, section, number) == Page("listing", <<lang>> \o section, number)

Home(lang, number) == Page("home", <<lang>>, number)

Term(lang, taxonomy, term, number) == Page("term", <<lang, taxonomy, term>>, number)

(* The page at the root of a site in several languages. *)
FrontPage == Page("front", <<>>, 0)

(* A url on a page and the page it stands for. *)
Link(url, page) == [url |-> url, to |-> page]

PathOf(post) == IF IsRootIndex(post) THEN <<>> ELSE Append(post.section, post.slug)

UrlOf(post, o) == join_url(o.prefix, PathOf(post), o.c.clean)

OutputOf(post, o) == url_to_file(o.prefix, PathOf(post), o.c.clean)

LinkTo(post, o) == Link(UrlOf(post, o), PostPage(post))

Published(posts, c) == SelectSeq(posts, LAMBDA post : ~Held(post, c))

(* Two posts that write one page stop the build. *)
PostsClash(o) ==
    \E i, j \in DOMAIN o.published :
        i # j /\ OutputOf(o.published[i], o) = OutputOf(o.published[j], o)

newer_first(left, right) ==
    LET rank(post) == CHOOSE i \in DOMAIN Dictionary : Dictionary[i] = post.slug
    IN \/ left.order < right.order
       \/ /\ left.order = right.order
          /\ \/ right.date < left.date
             \/ right.date = left.date /\ rank(left) < rank(right)

(* A stable sort: the largest key first and, of equal keys, the newest post. *)
SortedBy(posts, keys) ==
    LET before(i, j) == keys[i] > keys[j] \/ (keys[i] = keys[j] /\ newer_first(posts[i], posts[j]))
        place(i) == Cardinality({j \in DOMAIN posts : before(j, i) \/ (j < i /\ ~before(i, j))}) + 1
    IN [n \in DOMAIN posts |-> posts[CHOOSE i \in DOMAIN posts : place(i) = n]]

Newest(posts) == SortedBy(posts, [i \in DOMAIN posts |-> 0])

InSection(posts, section) == SelectSeq(posts, LAMBDA post : post.section = section)

Sections(posts) == {post.section : post \in Range(posts)} \ {<<>>}

PostLinks(posts, o) == {LinkTo(post, o) : post \in Range(posts)}

(* The page at the root of a language, if it has one: index.md, or the first *)
(* page of its home listing.                                                 *)
HomePage(code, published) ==
    IF \E post \in Range(published) : IsRootIndex(post)
    THEN PostPage(CHOOSE post \in Range(published) : IsRootIndex(post))
    ELSE Home(code, 1)

(* The posts before and after this one in its section. *)
Beside(post, members, o) ==
    LET at == CHOOSE i \in DOMAIN members : members[i] = post
    IN {LinkTo(members[i], o) : i \in {at - 1, at + 1} \cap DOMAIN members}

Neighbours(post, o) == Beside(post, Newest(InSection(o.published, post.section)), o)

TermsOf(post, c) == UNION {{<<t, term>> : term \in post.terms[t]} : t \in c.taxonomies}

(* The posts sharing most terms with this one, the newest of equals first. *)
assign_related(post, o) ==
    LET shared(other) == Cardinality(TermsOf(post, o.c) \cap TermsOf(other, o.c))
        candidates == SelectSeq(o.published, LAMBDA p : p # post /\ shared(p) > 0)
        scores == [i \in DOMAIN candidates |-> shared(candidates[i])]
    IN {LinkTo(p, o) : p \in Range(SubSeq(SortedBy(candidates, scores), 1, Min({o.c.related, Len(candidates)})))}

TagLinks(post, o) ==
    {Link(join_url(<<>>, <<"tags", Slugs[term]>>, o.c.clean), Term(o.lang, "tags", term, 1))
        : term \in post.terms["tags"]}

------------------------------------------------------------------------------
(* The menu, the switchers and the feeds every page advertises *)

(* A link to each directory of the content tree that is not kept out of the *)
(* menu, posts in it or not.                                                *)
build_tree(o) ==
    LET directories == UNION {{SubSeq(post.section, 1, n) : n \in 1..Len(post.section)}
                                 : post \in Range(o.posts)}
        hidden(path) == \E n \in 1..Len(path) : SubSeq(path, 1, n) \in o.c.hidden
    IN {Link(join_url(o.prefix, path, o.c.clean), Listing(o.lang, path, 1))
           : path \in {d \in directories : ~hidden(d)}}

(* Mutant: the scan does not leave drafts and later posts out. *)
translation_paths_of_all(posts, c) ==
    LET key(i) == Append(posts[i].section, posts[i].stem)
    IN {[key |-> key(i), path |-> Append(posts[i].section, posts[i].slug), page |-> PostPage(posts[i])]
           : i \in {j \in DOMAIN posts : \A h \in 1..(j - 1) : key(h) # key(j)}}

(* Where each post of a language is, by its place in the content tree: read *)
(* before any language is built, and by a scan of its own.                  *)
translation_paths(posts, c) ==
    LET kept   == Published(posts, c)
        key(i) == Append(kept[i].section, kept[i].stem)
    IN {[key |-> key(i), path |-> Append(kept[i].section, kept[i].slug), page |-> PostPage(kept[i])]
           : i \in {j \in DOMAIN kept : \A h \in 1..(j - 1) : key(h) # key(j)}}

HomeLink(code, o) == Link(join_url(<<code>>, <<>>, TRUE), o.homes[code])

(* The same post in each language, or the home of a language without it. *)
language_switcher(post, o) ==
    LET found(code) == {t \in o.translations[code] : t.key = Append(post.section, post.stem)}
        codes == DOMAIN o.translations
    IN [there |-> UNION {{Link(join_url(<<code>>, t.path, o.c.clean), t.page) : t \in found(code)}
                            : code \in codes},
        home  |-> {HomeLink(code, o) : code \in {k \in codes : found(k) = {}}}]

section_switcher(section, o) ==
    {IF section = <<>> THEN HomeLink(code, o)
     ELSE Link(join_url(<<code>>, section, o.c.clean), Listing(code, section, 1))
        : code \in DOMAIN o.translations}

FeedPage(lang, section, format) == Page("feed", <<lang>> \o section \o <<format>>, 0)

FeedLink(section, format, o) ==
    Link([path |-> o.prefix \o section \o <<format>>, slash |-> FALSE],
         FeedPage(o.lang, section, format))

feed_links(o) ==
    IF o.published = <<>> THEN {} ELSE {FeedLink(<<>>, format, o) : format \in o.c.feeds}

------------------------------------------------------------------------------
(* What is written *)

(* self is the page and its own url.  links lead to pages the build has    *)
(* written, and so do those of switch, to translations; a menu is built    *)
(* from directories, languages and the root of the site, and may name a    *)
(* page that does not exist.                                               *)
File(file, self, noindex, links, menu, entries, next) ==
    [file |-> file, page |-> self.to, url |-> self.url, noindex |-> noindex,
     links |-> links \cup {self}, menu |-> menu, switch |-> {}, entries |-> entries, next |-> next]

AtRoot(name, o) == [path |-> Append(o.prefix, name), slash |-> FALSE]

Plain(self, links, menu) == File(self.url.path, self, TRUE, links, menu, <<>>, {})

PostFile(post, o) ==
    [File(OutputOf(post, o), LinkTo(post, o), post.noindex,
          Neighbours(post, o) \cup assign_related(post, o) \cup TagLinks(post, o) \cup feed_links(o),
          build_tree(o) \cup language_switcher(post, o).home, <<>>, {})
        EXCEPT !.switch = language_switcher(post, o).there]

pagination_window(current, total) == {page \in 1..total : page >= current - 3 /\ page <= current + 3}

(* The pages linked from one page of a listing: the first and the previous, *)
(* the ones around it, the next and the last.                              *)
pagination_html(current, total) ==
    IF total <= 1 THEN {}
    ELSE (pagination_window(current, total) \ {current})
             \cup (IF current > 1 THEN {1, current - 1} ELSE {})
             \cup (IF current < total THEN {current + 1, total} ELSE {})

PageSize(section, c) == Max({1, IF section \in DOMAIN c.sizes THEN c.sizes[section] ELSE c.size})

(* One page of a listing. *)
ListingFile(section, base, first, o, n, total, shown) ==
    LET at(k) == Link(listing_url(o.prefix, base, k, o.c.clean), [first EXCEPT !.number = k])
    IN File(listing_file(o.prefix, base, n, o.c.clean), at(n), n > 1,
            PostLinks(shown, o) \cup {at(k) : k \in pagination_html(n, total)} \cup feed_links(o),
            build_tree(o) \cup section_switcher(section, o),
            [i \in DOMAIN shown |-> PostPage(shown[i])],
            {at(k) : k \in {n + 1} \cap 1..total})

Paginated(section, base, first, o, sorted, size) ==
    LET total == Max({1, (Len(sorted) + size - 1) \div size})
    IN {ListingFile(section, base, first, o, n, total,
                    SubSeq(sorted, (n - 1) * size + 1, Min({Len(sorted), n * size}))) : n \in 1..total}

(* The pages of one listing, the first of which is given.  base is its path. *)
write_listing(section, base, posts, first, o) ==
    Paginated(section, base, first, o, Newest(posts), PageSize(section, o.c))

Listings(o) ==
    UNION {write_listing(section, section, InSection(o.published, section), Listing(o.lang, section, 1), o)
              : section \in Sections(o.published)}

HomeListing(o) ==
    IF o.c.home \in Sections(o.published)
    THEN write_listing(o.c.home, <<>>, InSection(o.published, o.c.home), Home(o.lang, 1), o)
    ELSE {}

(* A page for each term of a taxonomy, and one that lists the terms. *)
Taxonomy(taxonomy, o) ==
    LET terms == UNION {post.terms[taxonomy] : post \in Range(o.published)}
        path(term) == <<taxonomy, Slugs[term]>>
        having(term) == SelectSeq(o.published, LAMBDA post : term \in post.terms[taxonomy])
        index == Link(join_url(<<>>, <<taxonomy>>, o.c.clean), Page("terms", <<o.lang, taxonomy>>, 0))
    IN IF terms = {} THEN {}
       ELSE {File(url_to_file(o.prefix, <<taxonomy>>, o.c.clean), index, FALSE,
                  feed_links(o) \cup
                      {Link(join_url(<<>>, path(term), o.c.clean), Term(o.lang, taxonomy, term, 1))
                          : term \in terms},
                  build_tree(o) \cup section_switcher(<<taxonomy>>, o), <<>>, {})}
            \cup UNION {write_listing(path(term), path(term), having(term), Term(o.lang, taxonomy, term, 1), o)
                           : term \in terms}

Pages(o) ==
    {PostFile(post, o) : post \in Range(o.published)}
        \cup Listings(o) \cup HomeListing(o)
        \cup UNION {Taxonomy(taxonomy, o) : taxonomy \in o.c.taxonomies}

(* The feed of the site and the feed of each section. *)
Feeds(o) ==
    UNION {{Plain(FeedLink(<<>>, format, o), PostLinks(o.published, o),
                  {Link(join_url(o.prefix, <<>>, o.c.clean), o.homes[o.lang])})}
           \cup {Plain(FeedLink(section, format, o),
                       PostLinks(InSection(o.published, section), o),
                       {Link([path |-> o.prefix \o section, slash |-> FALSE], Listing(o.lang, section, 1))})
                    : section \in Sections(o.published)}
           : format \in o.c.feeds}

SitemapLink(url, o) == Link(url, Page("sitemap", <<o.lang>>, 0))

(* Posts that may be indexed, the first page of every listing, and the term *)
(* indexes.                                                                 *)
Sitemap(pages, o) ==
    Plain(SitemapLink(AtRoot("sitemap.xml", o), o),
          {Link(f.url, f.page) : f \in {g \in pages : ~g.noindex}}, {})

Robots(o) ==
    Plain(Link(AtRoot("robots.txt", o), Page("robots", <<o.lang>>, 0)),
          {SitemapLink([path |-> <<"sitemap.xml">>, slash |-> FALSE], o)}, {})

SearchIndex(o) ==
    Plain(Link(AtRoot("search-index.json", o), Page("search", <<o.lang>>, 0)),
          PostLinks(o.published, o), {})

(* A redirect from each alias that no post's page and no earlier alias has. *)
Aliases(o) ==
    LET kept    == o.published
        to(a)   == url_to_file(o.prefix, a, o.c.clean)
        seen    == {OutputOf(post, o) : post \in Range(kept)}
        claimed(i) == UNION {Range(kept[h].aliases) : h \in 1..(i - 1)}
    IN UNION {{File(to(a), Link(join_url(o.prefix, a, o.c.clean), Page("redirect", <<o.lang>> \o a, 0)),
                    TRUE, {LinkTo(kept[i], o)}, {}, <<>>, {})
                  : a \in {b \in Range(kept[i].aliases) \ claimed(i) : to(b) \notin seen}}
                 : i \in DOMAIN kept}

(* With a layout of its own a page like any other; without one, a plain page *)
(* that links to the root of the site, whether anything is there or not.     *)
NotFound(o) ==
    LET self == Link(AtRoot("404", o), Page("missing", <<o.lang>>, 0))
        root == Link(join_url(<<>>, <<>>, o.c.clean), IF o.prefix = <<>> THEN o.homes[o.lang] ELSE FrontPage)
        file == Append(o.prefix, "404.html")
    IN IF o.c.layout404
       THEN File(file, self, TRUE, feed_links(o), build_tree(o) \cup section_switcher(<<>>, o), <<>>, {})
       ELSE File(file, self, TRUE, {}, {root}, <<>>, {})

(* What is made beside the pages, each unless a file is shipped in its place. *)
Made(pages, o) ==
    IF o.published = <<>> THEN {NotFound(o)}
    ELSE Feeds(o) \cup {Sitemap(pages, o), NotFound(o)} \cup (IF o.c.robots THEN {Robots(o)} ELSE {})

(* The shipped files, copied into the output of the language.  One in the    *)
(* place of a file the build would make stands for it.                       *)
Shipped(made, o) ==
    LET at(path) == o.prefix \o path
        stands(path) == {f.page : f \in {g \in made : g.file = at(path)}}
        page(path) == IF stands(path) = {} THEN Page("static", at(path), 0)
                      ELSE CHOOSE p \in stands(path) : TRUE
    IN {Plain(Link([path |-> at(path), slash |-> FALSE], page(path)), {}, {}) : path \in o.c.shipped}

Beyond(pages, o) ==
    LET made == Made(pages, o)
        copied == Shipped(made, o)
    IN pages \cup {f \in made : \A g \in copied : g.file # f.file} \cup copied \cup Aliases(o)
           \cup (IF o.c.search /\ o.published # <<>> THEN {SearchIndex(o)} ELSE {})

build(o) == Beyond(Pages(o), o)

------------------------------------------------------------------------------
(* The site *)

(* The build of one language.  posts are those in its tree. *)
Options(code, posts, translations, homes, prefix, c) ==
    [lang |-> code, posts |-> posts, published |-> Published(posts, c), prefix |-> prefix,
     translations |-> translations, homes |-> homes, c |-> c]

InLanguage(posts, code) == SelectSeq(posts, LAMBDA post : post.lang = code)

(* One build, or one for each language with its own tree.                   *)
Builds(posts, c) ==
    LET codes        == IF c.languages = <<>> THEN {""} ELSE Range(c.languages)
        translations == [code \in Range(c.languages) |-> translation_paths(InLanguage(posts, code), c)]
        homes        == [code \in codes |-> HomePage(code, Published(InLanguage(posts, code), c))]
    IN {Options(code, InLanguage(posts, code), translations, homes, IF code = "" THEN <<>> ELSE <<code>>, c)
           : code \in codes}

(* Several languages have a root page that leads to the first of them.      *)
build_site(builds, c) ==
    UNION {build(o) : o \in builds}
        \cup (IF c.languages = <<>> THEN {}
              ELSE {File(<<"index.html">>, Link(join_url(<<>>, <<>>, c.clean), FrontPage), TRUE,
                         {}, {HomeLink(c.languages[1], o) : o \in builds}, <<>>, {})})

Fails(builds) == \E o \in builds : PostsClash(o)

(* A second page on a path already written: the writer reports it. *)
Collides(written) == \E f, g \in written : f # g /\ f.file = g.file

------------------------------------------------------------------------------
(* Properties *)

(* A url that is known not to reach its page:                               *)
(*  - the preview server does not try the page of a path with a dot in it;  *)
(*  - taxonomies, the tags of a post and robots.txt are linked without the  *)
(*    prefix of the language.                                               *)
KnownLost(l, c) ==
    \/ ~l.url.slash /\ l.to.what \in {"post", "listing", "term", "redirect"}
           /\ \E name \in Range(l.url.path) : name \in Dotted
    \/ c.languages # <<>> /\ l.to.what \in {"term", "terms", "sitemap"}
           /\ Head(l.url.path) \notin Range(c.languages)

(* The switcher takes an index.md at the root for a page named by its slug. *)
ToRootIndex(l) == Len(l.to.of) = 2 /\ l.to.of[2] = "index"

(* The page the server answers a url with. *)
Answer(written, files, url) ==
    LET found == resolve_file(url, files)
    IN {f \in written : found # <<>> /\ f.file = Head(found)}

RECURSIVE Walk(_, _, _, _)
(* The posts met from the pages of a listing on, of which there is one or   *)
(* none, following the link to the next through what the server answers.    *)
Walk(written, files, pages, left) ==
    IF pages = {} \/ left = 0 THEN <<>>
    ELSE LET f == CHOOSE g \in pages : TRUE
         IN f.entries \o Walk(written, files, UNION {Answer(written, files, l.url) : l \in f.next}, left - 1)

(* Following a listing meets every member once, the newest first. *)
MetInOrder(met, members) ==
    LET post(i) == CHOOSE p \in members : PostPage(p) = met[i]
    IN /\ Range(met) = {PostPage(p) : p \in members}
       /\ \A i, j \in DOMAIN met : i < j => met[i] # met[j] /\ ~newer_first(post(j), post(i))

ListingsLead(o, written, files) ==
    \A section \in Sections(o.published) :
        \/ Range(section) \cap Dotted # {}
        \/ MetInOrder(Walk(written, files, {f \in written : f.page = Listing(o.lang, section, 1)}, Len(o.posts) + 1),
                      Range(InSection(o.published, section)))

Leads(l, written, files) ==
    LET found == resolve_file(l.url, files)
    IN found # <<>> /\ \A f \in written : f.file = Head(found) => f.page = l.to

(* The links of a page, those of its menu to pages that exist, and those of *)
(* its switcher.                                                            *)
Due(written) ==
    LET pages == {f.page : f \in written}
    IN UNION {f.links \cup {l \in f.menu : l.to \in pages} \cup {l \in f.switch : ~ToRootIndex(l)}
                 : f \in written}

WrittenLeads(builds, written, files, c) ==
    ~Collides(written) =>
        /\ \A l \in Due(written) : KnownLost(l, c) \/ Leads(l, written, files)
        /\ \A o \in builds : ListingsLead(o, written, files)

BuildLeads(builds, written, c) == WrittenLeads(builds, written, {f.file : f \in written}, c)

Resolves(builds, c) == ~Fails(builds) => BuildLeads(builds, build_site(builds, c), c)

(* Every url on every page of a build that reports no collision is answered *)
(* by the server with the page it is there for: the posts either side, the  *)
(* related posts, the entries of listings, feeds, sitemap and search index, *)
(* the pagination, the terms, the redirects, and the menu and the language  *)
(* switcher wherever the page they name is published.  Following a listing  *)
(* from its first page meets every published post of the section once, the  *)
(* newest first.                                                            *)
LinksResolve(posts, c) == Resolves(Builds(posts, c), c)
==============================================================================
