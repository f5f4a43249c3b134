------------------------------ MODULE MCBuild -------------------------------
(* Small sites for model checking Build. *)
EXTENDS BuildHistory, TLC

Titled(ts, xs, ds, gs) == [title : ts, text : xs, draft : ds, tag : gs]

(* Two titles, one of them with two texts, under one of which the two share  *)
(* a tag.                                                                    *)
FewPosts == Titled({"a", "b"}, {1}, {FALSE}, {1}) \cup Titled({"a"}, {2}, {FALSE}, {2})
(* One title, one text, perhaps a draft. *)
OnePost == Titled({"a"}, {1}, BOOLEAN, {1})

SmallKey == Titles \cup {"index", "404"} \cup Static

(* One state of the layouts, or one section tree, is as good as another. *)
Symmetry == Permutations(Layout) \cup Permutations(Nav)

=============================================================================
