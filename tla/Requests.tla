------------------------------ MODULE Requests ------------------------------
(***************************************************************************)
(* One connection of the preview server, as its thread reads it: requests  *)
(* are cut out of a buffer that grows by whatever a recv returns (the loop *)
(* of Server::run in server.cpp; parse_request and serialize of http.cpp). *)
(*                                                                         *)
(* A line is named by what it says and takes one unit, its end takes two,  *)
(* "CR" and "LF": a read can end anywhere.  Whether a send fails is        *)
(* Connections' matter; what a page holds and what an upgraded socket is   *)
(* told are Preview's.  "/socket" stands for reload::socket_path.          *)
(***************************************************************************)
EXTENDS Integers, SequencesExt

CONSTANTS
    RequestLine,    \* for the lines that fall into three: method, path and version
    HeaderLine,     \* for the lines with a colon: name and value
    BodySize,       \* for the paths resolve_file answers: the units of the body
    MaxRequest,     \* maximum_request_size, in units
    MissingSize     \* the units of the page that stands for a missing one

Blank == "blank"
EndOfLine == <<"CR", "LF">>

(* The units of a line and of lines. *)
Units(line) == IF line = Blank THEN EndOfLine ELSE <<line>> \o EndOfLine
Stream(lines) == FlattenSeq([i \in DOMAIN lines |-> Units(lines[i])])

------------------------------------------------------------------------------
(* http.cpp *)

(* The places where the headers may end. *)
HeaderEnds(buffer) ==
    {i \in 1..(Len(buffer) - 3) : SubSeq(buffer, i, i + 3) = EndOfLine \o EndOfLine}

(* What the lines of a head say.  emplace keeps the first of two headers of one name. *)
Header(lines, name) ==
    LET of == SelectSeq(lines, LAMBDA l : HeaderLine[l].name = name)
    IN IF of = <<>> THEN {} ELSE HeaderLine[of[1]].value

wants_keep_alive(request) ==
    /\ "close" \notin Header(request.headers, "connection")
    /\ \/ "keep-alive" \in Header(request.headers, "connection")
       \/ request.version = "HTTP/1.1"

Malformed == [state |-> "malformed"]
Incomplete == [state |-> "incomplete"]

ParseHead(head, length) ==
    LET lines == SelectSeq(head, LAMBDA u : u \notin {"CR", "LF"})
    IN IF /\ head # <<>> /\ head[1] \in DOMAIN RequestLine
          /\ Range(Tail(lines)) \subseteq DOMAIN HeaderLine
       THEN RequestLine[head[1]] @@ [state |-> "ready", headers |-> Tail(lines), length |-> length]
       ELSE Malformed

parse_request(buffer) ==
    IF HeaderEnds(buffer) # {}
    THEN LET end == Min(HeaderEnds(buffer)) IN ParseHead(SubSeq(buffer, 1, end - 1), end + 3)
    ELSE IF Len(buffer) > MaxRequest THEN Malformed ELSE Incomplete

(* What goes out: a head, and as many units of body as the response has. *)
ResponseHead(status, length, keep) == <<"head", status, length, keep>>
Body(length) == [i \in 1..length |-> <<"body">>]

serialize(response) ==
    IF response.status = 101 THEN <<ResponseHead(101, 0, FALSE)>>
    ELSE <<ResponseHead(response.status, response.size, response.keep_alive)>> \o Body(response.size)

------------------------------------------------------------------------------
(* The thread of a connection. *)

Response(status, size, keep) == [status |-> status, size |-> size, keep_alive |-> keep]

Accepted == [buffer |-> <<>>, sent |-> <<>>, open |-> TRUE]

is_upgrade(request) ==
    /\ "upgrade" \in Header(request.headers, "connection")
    /\ "websocket" \in Header(request.headers, "upgrade")

Send(c, out, goesOn) == [c EXCEPT !.sent = @ \o out, !.open = goesOn]

(* A page, or the page that says there is none. *)
Found(request) ==
    IF request.path \in DOMAIN BodySize
    THEN Response(200, BodySize[request.path], wants_keep_alive(request))
    ELSE Response(404, MissingSize, wants_keep_alive(request))

(* A HEAD is answered with an empty body, and the length of the real one put in for it. *)
AnswerHead(c, response) ==
    LET plain == serialize([response EXCEPT !.size = 0])
    IN Send(c, [plain EXCEPT ![1][3] = response.size], response.keep_alive)

Answer(c, request) ==
    CASE request.path = "/socket" /\ is_upgrade(request) -> Send(c, serialize(Response(101, 0, FALSE)), FALSE)
      [] OTHER ->
         IF request.method \notin {"GET", "HEAD"} THEN Send(c, serialize(Response(405, 1, TRUE)), TRUE)
         ELSE IF request.method = "HEAD" THEN AnswerHead(c, Found(request))
         ELSE Send(c, serialize(Found(request)), Found(request).keep_alive)

(* Mutant: everything in hand is dropped with the request. *)
ErasedAll(buffer, length) == <<>>

Erased(buffer, length) == SubSeq(buffer, length + 1, Len(buffer))

Handle(c, parsed) ==
    IF parsed.state = "malformed" THEN Send(c, serialize(Response(400, 1, FALSE)), FALSE)
    ELSE Answer([c EXCEPT !.buffer = Erased(@, parsed.length)], parsed)

(* One turn of the loop; what a recv returns is only looked at when nothing is in hand. *)
Reads(c) == c.open /\ parse_request(c.buffer) = Incomplete
Turn(c) == Handle(c, parse_request(c.buffer))
Receive(c, units) == [c EXCEPT !.buffer = @ \o units]

------------------------------------------------------------------------------
(* What a browser may count on, from the lines it sent and nothing of the buffer. *)

(* A blank line ends a request unless it is the first line of one. *)
Ends(lines) ==
    LET ends[i \in 0..Len(lines)] == i > 1 /\ lines[i] = Blank /\ ~ends[i - 1]
    IN {i \in DOMAIN lines : ends[i]}

(* The requests among the lines, each with its blank line. *)
Requests(lines) ==
    LET ends == SetToSortSeq(Ends(lines), <)
    IN [k \in DOMAIN ends |-> SubSeq(lines, IF k = 1 THEN 1 ELSE ends[k - 1] + 1, ends[k])]

Size(lines) == Len(Stream(lines))

(* One request: how it is answered, and whether it is the last one answered. *)
Well(r) ==
    /\ r[1] \in DOMAIN RequestLine
    /\ \A i \in 2..(Len(r) - 1) : r[i] \in DOMAIN HeaderLine
Says(r, name, value) ==
    \E i \in 2..(Len(r) - 1) :
        /\ HeaderLine[r[i]].name = name /\ value \in HeaderLine[r[i]].value
        /\ \A j \in 2..(i - 1) : HeaderLine[r[j]].name # name
Upgrades(r) ==
    /\ RequestLine[r[1]].path = "/socket"
    /\ Says(r, "connection", "upgrade") /\ Says(r, "upgrade", "websocket")
Stays(r) ==
    /\ Well(r) /\ ~Upgrades(r)
    /\ \/ RequestLine[r[1]].method \notin {"GET", "HEAD"}
       \/ Says(r, "connection", "keep-alive") /\ ~Says(r, "connection", "close")
       \/ RequestLine[r[1]].version = "HTTP/1.1" /\ ~Says(r, "connection", "close")
Status(r) ==
    CASE ~Well(r) -> 400
      [] Well(r) /\ Upgrades(r) -> 101
      [] Well(r) /\ ~Upgrades(r) ->
         IF RequestLine[r[1]].method \notin {"GET", "HEAD"} THEN 405
         ELSE IF RequestLine[r[1]].path \in DOMAIN BodySize THEN 200 ELSE 404
Length(r) ==
    CASE Status(r) = 200 -> BodySize[RequestLine[r[1]].path]
      [] Status(r) = 404 -> MissingSize
      [] Status(r) = 101 -> 0
      [] OTHER -> 1

(* The announced length is that of the body, which a HEAD goes without; the head says *)
(* of the connection what becomes of it.                                              *)
Deserved(r) ==
    <<ResponseHead(Status(r), Length(r), Stays(r))>> \o
    (IF Well(r) /\ RequestLine[r[1]].method = "HEAD" THEN <<>> ELSE Body(Length(r)))

Refusal == <<ResponseHead(400, 1, FALSE), <<"body">>>>

(* The first n requests answered in their order; a last one that is over the limit may *)
(* be refused instead, for the thread may have met it when part of it was in.          *)
AnsweredInOrder(requests, n, c, tail) ==
    LET upTo(k) == FlattenSeq([i \in 1..k |-> Deserved(requests[i])])
    IN \/ c.sent = upTo(n) /\ (c.open <=> \A i \in 1..n : Stays(requests[i]))
       \/ /\ n < Len(requests) => Size(requests[n + 1]) > MaxRequest
          /\ n = Len(requests) => tail > MaxRequest
          /\ ~c.open /\ c.sent = upTo(n) \o Refusal

(* The lines that are whole within the first units of a stream. *)
LinesWithin(lines, units) ==
    SubSeq(lines, 1, Max({n \in 0..Len(lines) : Size(SubSeq(lines, 1, n)) <= units}))

(* What c has sent for the units it has received, which hold the lines and a little more. *)
AnswersWhatItGot(c, lines, received) ==
    LET requests == Requests(lines)
        tail     == received - Size(SubSeq(lines, 1, Max({0} \cup Ends(lines))))
    IN \E n \in 0..Len(requests) :
         /\ \A i \in 1..(n - 1) : Stays(requests[i])
         /\ AnsweredInOrder(requests, n, c, tail)
         /\ Reads(c) => n = Len(requests) /\ tail <= MaxRequest
==============================================================================
