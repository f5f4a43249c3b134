----------------------------- MODULE Documents ------------------------------
(***************************************************************************)
(* Everything between what an author writes and the page a reader sees,    *)
(* over every document of a bounded size.  A behaviour takes one subject:  *)
(*   blocks       a Markdown document, line after line                     *)
(*   inlines      the text of one paragraph, token after token             *)
(*   expressions  an expression of a layout, token after token             *)
(*   layouts      a layout, line after line                                *)
(*   fragments    a cached fragment that threads render page after page    *)
(*   sites        a content tree, post after post, under a configuration   *)
(*   requests     what a browser sends for the pages, read in any pieces   *)
(* The first five are read in steps that an author can stop after, so      *)
(* every prefix of a text is a text.                                       *)
(***************************************************************************)
EXTENDS Fragments

CONSTANTS MaxNesting,      (* of Blocks *)
          References,      (* of Inlines *)
          Dictionary, Dotted, Slugs, Today,   (* of Site *)
          RequestLine, HeaderLine, BodySize, MissingSize, MaxRequest,   (* of Requests *)
          Alphabet,        (* for a subject, the items its texts are made of: all of them in
                              texts of up to short, those of one core in longer texts *)
          LayoutPages,     (* the pages a layout is rendered for *)
          Contents,        (* for the languages of a site, the files it may hold, in order *)
          Configurations   (* of a site *)

VARIABLES subject, text,
          state            (* what has been made of the text so far *)

B == INSTANCE Blocks
I == INSTANCE Inlines
S == INSTANCE Site
R == INSTANCE Requests

ASSUME DocumentsConstants ==
    /\ {MaxNesting, MaxDepth, MaxPartials, Today, MaxRequest} \subseteq Nat
    /\ \A s \in DOMAIN Alphabet : \A core \in Alphabet[s].cores : core.items \subseteq Alphabet[s].wide
    /\ \A call \in Calls : Parse(call).ok

------------------------------------------------------------------------------

NoFragments ==
    /\ choice = <<>>
    /\ cache = EmptyCache
    /\ thread = [t \in Threads |-> Idle]

(* A document as it is, in a quote, and in an item of a list. *)
Unread == [plain |-> B!Start, quoted |-> B!Start, listed |-> B!Start]

Init ==
    /\ text = <<>>
    /\ \/ subject = "fragments" /\ state = <<>> /\ FragmentInit
       \/ subject = "blocks" /\ state = Unread /\ NoFragments
       \/ subject \in {"inlines", "expressions", "layouts"} /\ state = <<>> /\ NoFragments
       \/ subject = "sites" /\ state \in Configurations /\ NoFragments
       \/ subject = "requests" /\ state = [unread |-> <<>>, thread |-> R!Accepted] /\ NoFragments

Extend(item, letters) ==
    /\ \/ Len(text) < letters.short
       \/ \E core \in letters.cores :
            Len(text) < core.long /\ Range(Append(text, item)) \subseteq core.items
    /\ text' = Append(text, item)

(* The same line for the three parsers.  The quote may go without its marker where *)
(* the line only carries a paragraph on.                                           *)
WriteLine ==
    /\ subject = "blocks"
    /\ \E line \in Alphabet[subject].wide :
         /\ Extend(line, Alphabet[subject])
         /\ \E quoted \in {B!Marked(">", line)} \cup (IF B!CarriesOn(state.plain, line) THEN {line} ELSE {}) :
              state' = [plain  |-> B!HandleLine(state.plain, line),
                        quoted |-> B!HandleLine(state.quoted, quoted),
                        listed |-> B!HandleLine(state.listed, IF text = <<>> THEN B!Marked("1.", line)
                                                               ELSE B!Indented(line))]
    /\ UNCHANGED <<subject, fragmentVars>>

WriteText ==
    /\ subject \in {"inlines", "layouts"}
    /\ \E item \in Alphabet[subject].wide : Extend(item, Alphabet[subject])
    /\ UNCHANGED <<subject, state, fragmentVars>>

(* Texts with two adjacent tokens that no expression has are not carried on. *)
Follows(t, u) ==
    u \in CASE t \in {"a", ")", "}", ".k"} -> {"||", "==", "+", "(", ")", ".k", ",", "}"}
            [] t = ":as" -> {"(", ")", ","}
            [] OTHER -> {"a", "!", "(", "{", ")", "}", "k:", ":as"}

WriteExpression ==
    /\ subject = "expressions"
    /\ \A i \in 1..(Len(text) - 1) : Follows(text[i], text[i + 1])
    /\ \E token \in Alphabet[subject].wide : Extend(token, Alphabet[subject])
    /\ UNCHANGED <<subject, state, fragmentVars>>

(* The files of a content tree are read in the order of their names. *)
AddPost ==
    /\ subject = "sites"
    /\ LET files == Contents[state.languages]
           last  == Max({0} \cup {i \in DOMAIN files : files[i] \in Range(text)})
       IN \E i \in (last + 1)..Len(files) : Extend(files[i], Alphabet[subject])
    /\ UNCHANGED <<subject, state, fragmentVars>>

RenderFragments ==
    /\ subject = "fragments"
    /\ FragmentNext
    /\ UNCHANGED <<subject, text, state>>

(* All is sent before any of it is received: a thread that has received a part of it *)
(* cannot tell.  Nothing is added to what the thread will not read.                  *)
SendLine ==
    /\ subject = "requests" /\ state.thread = R!Accepted
    /\ \A r \in Range(R!Requests(text)) : R!Stays(r)
    /\ \E line \in Alphabet[subject].wide :
         /\ Extend(line, Alphabet[subject])
         /\ state' = [state EXCEPT !.unread = @ \o R!Units(line)]
    /\ UNCHANGED <<subject, fragmentVars>>

ReceiveSome ==
    /\ subject = "requests" /\ R!Reads(state.thread)
    /\ \E n \in DOMAIN state.unread :
         state' = [unread |-> SubSeq(state.unread, n + 1, Len(state.unread)),
                   thread |-> R!Receive(state.thread, SubSeq(state.unread, 1, n))]
    /\ UNCHANGED <<subject, text, fragmentVars>>

AnswerOne ==
    /\ subject = "requests" /\ state.thread.open /\ ~R!Reads(state.thread)
    /\ state' = [state EXCEPT !.thread = R!Turn(@)]
    /\ UNCHANGED <<subject, text, fragmentVars>>

Next ==
    \/ WriteLine \/ WriteText \/ WriteExpression \/ AddPost \/ RenderFragments
    \/ SendLine \/ ReceiveSome \/ AnswerOne

vars == <<subject, text, state, choice, cache, thread>>

Spec == Init /\ [][Next]_vars

------------------------------------------------------------------------------

(* BlockParser::parse: the words of a document are all in its tree, once and in *)
(* their order, whatever opens, closes, interrupts or takes over a paragraph on *)
(* the way; and so they are when the document stands in a quote or in an item.  *)
BlocksKeepWords ==
    subject = "blocks" =>
        \A p \in {state.plain, state.quoted, state.listed} : B!KeepsWords(p, text)

(* BlockParser::continues and open_new_blocks: a document behind the markers of a *)
(* quote, or indented under the marker of an item, has the blocks it has on its   *)
(* own, lazy lines included.  Set aside are documents of which a block leaves its *)
(* container when detach empties the paragraph before it.                         *)
ContainersAreTransparent ==
    subject = "blocks" /\ text # <<>> =>
        /\ state.quoted.moved \/ B!QuoteHolds(state.quoted, state.plain)
        /\ \/ state.listed.moved \/ text[1] = <<>>
           \/ text[1] # <<>> /\ text[1][1].ind > 0
           \/ B!ItemHolds(state.listed, state.plain)

(* InlineParser::parse_into: every token of a paragraph is in its tree once and in *)
(* its place; pairing delimiter runs and brackets loses, repeats and moves nothing. *)
InlinesKeepText == subject = "inlines" => I!KeepsText(text)

(* InlineParser::handle_close_bracket: no link is inside a link, however brackets, *)
(* images and emphasis nest.                                                       *)
NoLinkInLink == subject = "inlines" => I!NoNestedLink(I!ParseInto(text))

(* The parser of expressions builds the tree the grammar gives the text, refuses *)
(* only what has none, and never builds one taller than its limit.               *)
ExpressionsFollowGrammar == subject = "expressions" => FollowsGrammar(text)

(* A layout prints what its lines say: the nesting of lines, the chains of       *)
(* conditions, the loops, and the failures, of the parser and the renderer of    *)
(* Haml together.                                                                *)
LayoutsPrintTheirLines ==
    subject = "layouts" => \A page \in LayoutPages : PrintsItsLines(text, page)

(* Every url a build prints is answered by the server with the page it is there *)
(* for, and following a listing meets every post of its section once, the newest *)
(* first.                                                                        *)
LinksLead == subject = "sites" => S!LinksResolve(text, state)

(* The loop of a connection's thread: however reads cut what a browser sends, every  *)
(* request that is in is answered before the thread waits for more, in order and by  *)
(* a response of the length it announces; one that does not stay open says so; and a *)
(* request is refused for its size only if it is over the limit.                     *)
RequestsAreAnswered ==
    subject = "requests" =>
        LET received == Len(R!Stream(text)) - Len(state.unread)
        IN R!AnswersWhatItGot(state.thread, R!LinesWithin(text, received), received)
==============================================================================
