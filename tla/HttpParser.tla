------------------------------- MODULE HttpParser -------------------------------
(***************************************************************************)
(* The HTTP parser libcocao is built with (http/http-parser/http_parser.c, *)
(* HTTP_PARSER_STRICT): http_parser_execute() goes through a chunk byte by *)
(* byte, keeps everything but its marks in the parser, and calls back with *)
(* what lies between a mark and the byte it is at.                         *)
(*                                                                         *)
(* Two parsers read the same stream: "cut" in chunks that end anywhere,    *)
(* its callbacks pausing now and then, "whole" in one chunk.  A symbol is  *)
(* a byte, or bytes that are only told apart together: the rest of a name. *)
(* A mark is its distance from the current byte.  Which error it is, and   *)
(* nread, the bytes counted against max_header_size, are left out.         *)
(***************************************************************************)
EXTENDS Integers, Sequences, SequencesExt

CONSTANTS
  Types,      \* the types a parser is initialised with
  Decimal,    \* the base of a Content-Length
  Hex,        \* the base of a chunk's size
  Max64,      \* ULLONG_MAX
  MaxMark,    \* bound: how far a mark lies back
  MaxFlags    \* bound: flags of a message with which one more header comes

ASSUME ParserAssumption ==
  /\ Types \subseteq {"both", "request", "response"}
  /\ Decimal \in Nat \ {0, 1} /\ Hex \in Nat \ {0, 1}
  /\ Max64 \in Nat /\ Decimal <= Max64 /\ Hex <= Max64
  /\ MaxMark \in Nat /\ MaxFlags \in Nat

VARIABLES
  cut, whole,   \* the two parsers
  agree         \* they have told the same of the last byte and all before it

parserVars == <<cut, whole, agree>>

Kinds == {"url", "status", "field", "value", "body"}
None == -1

\* The digits told apart: "9" is the greatest there is in a base.
Digital == {"0", "1", "9"}
Digit(b, base) == IF b = "0" THEN 0 ELSE IF b = "1" THEN 1 ELSE base - 1

Letters == {"c", "k", "t", "u", "x", "H"}
\* The rest of HTTP/1.x, CONNECT, HEAD, connection, content-length, ...
Words == {"TTP/1.1", "TTP/1.0", "ONNECT", "EAD", "onnection", "ontent-length",
          "ransfer-encoding", "pgrade", "hunked", "lose", "eep-alive"}
Codes == {"101", "200"}    \* without a body, and with one

Token == Letters \cup Words \cup Digital \cup {"#"}
UrlChar == Letters \cup Digital \cup {"/", ":", "@", ","}
UserInfo == Letters \cup Digital \cup {":", ","}

Before == {"s_req_spaces_before_url", "s_req_schema", "s_req_schema_slash",
           "s_req_schema_slash_slash", "s_req_server_start"}
UrlEnds == {"s_req_server", "s_req_server_with_at", "s_req_path", "s_req_query_string_start",
            "s_req_query_string", "s_req_fragment_start", "s_req_fragment"}
Url == (Before \ {"s_req_spaces_before_url"}) \cup UrlEnds

\* http_parser_init()
NewParser(type) ==
  [type |-> type, errno |-> "HPE_OK", over |-> FALSE, flags |-> {}, length |-> 0,
   state |-> IF type = "both" THEN "s_start_req_or_res"
             ELSE IF type = "request" THEN "s_start_req" ELSE "s_start_res",
   header |-> "h_general", method |-> "DELETE", index |-> 0, status |-> "0",
   modern |-> FALSE, upgrade |-> FALSE, marks |-> [k \in Kinds |-> None],
   told |-> <<>>, phase |-> "between", again |-> FALSE, called |-> FALSE]

-----------------------------------------------------------------------------
(***************************************************************************)
(* What every state does: errors, steps, marks and callbacks               *)
(***************************************************************************)

Error(p) == [p EXCEPT !.errno = "error", !.again = FALSE]
Go(p, s) == [p EXCEPT !.state = s]
Reexecute(p) == [p EXCEPT !.again = TRUE]
Expect(ok, p, next) == IF ok THEN next ELSE Error(p)

\* MARK(): non-destructive.
Mark(p, k) == [p EXCEPT !.marks[k] = IF @ = None THEN 0 ELSE @]

\* Where a message is, as its callbacks tell it.
Follows(phase, what) ==
  CASE what = "message_begin" /\ phase = "between" -> "head"
    [] what \in {"url", "status"} /\ phase = "head" -> "head"
    [] what \in {"field", "value"} /\ phase \in {"head", "chunk"} -> phase
    [] what = "headers_complete" /\ phase = "head" -> "body"
    [] what = "body" /\ phase \in {"body", "chunk"} -> phase
    [] what = "chunk_header" /\ phase = "body" -> "chunk"
    [] what = "chunk_complete" /\ phase = "chunk" -> "body"
    [] what = "message_complete" /\ phase = "body" -> "between"
    [] OTHER -> "broken"

\* CALLBACK_NOTIFY()
Notify(p, what) ==
  [p EXCEPT !.told = Append(@, <<what, 0>>), !.phase = Follows(@, what), !.called = TRUE]

\* Broken on purpose: the mark stays.
DataKeeps(p, k, more) ==
  IF p.marks[k] = None THEN p
  ELSE [p EXCEPT !.told = @ \o [i \in 1..(p.marks[k] + more) |-> <<k, i - 1 - p.marks[k]>>],
                 !.phase = Follows(@, k), !.called = TRUE]

\* CALLBACK_DATA(): from the mark up to the current byte, or over "more" of it.
Data(p, k, more) ==
  IF p.marks[k] = None THEN p
  ELSE [p EXCEPT !.told = p.told \o [i \in 1..(p.marks[k] + more) |-> <<k, i - 1 - p.marks[k]>>],
                 !.phase = Follows(p.phase, k), !.called = TRUE,
                 !.marks = [p.marks EXCEPT ![k] = None]]

\* Broken on purpose: no mark in a URL's fragment.
StartsNoFragment(s) ==
  IF s \in Url \ {"s_req_fragment"} THEN {"url"}
  ELSE IF s = "s_res_status" THEN {"status"}
  ELSE IF s = "s_header_field" THEN {"field"}
  ELSE IF s = "s_header_value" THEN {"value"} ELSE {}

\* The marks of an execute() that starts in the midst of something.
Starts(s) ==
  IF s \in Url THEN {"url"}
  ELSE IF s = "s_res_status" THEN {"status"}
  ELSE IF s = "s_header_field" THEN {"field"}
  ELSE IF s = "s_header_value" THEN {"value"} ELSE {}

Restart(p) == [p EXCEPT !.marks = [k \in Kinds |-> IF k \in Starts(p.state) THEN 0 ELSE None]]

\* http_message_needs_eof()
NeedsEof(p) ==
  /\ p.type # "request" /\ p.status # "101"
  /\ p.flags \cap {"skip", "chunked"} = {} /\ p.length = Max64

\* http_should_keep_alive()
KeepsAlive(p) ==
  /\ IF p.modern THEN "close" \notin p.flags ELSE "keep-alive" \in p.flags
  /\ ~NeedsEof(p)

NewMessage(p) ==
  Go(p, IF ~KeepsAlive(p) THEN "s_dead" ELSE IF p.type = "request" THEN "s_start_req" ELSE "s_start_res")

Complete(p) == Notify(NewMessage(p), "message_complete")

\* RETURN: the rest is in a different protocol.
Leaves(p) == [p EXCEPT !.over = p.upgrade]

-----------------------------------------------------------------------------
(***************************************************************************)
(* The first line                                                          *)
(***************************************************************************)

Cleared(p) == [p EXCEPT !.flags = {}, !.length = Max64]

StartStep(p, b) ==
  LET n == Cleared(p) IN
  IF b \in {"CR", "LF"} THEN p
  ELSE CASE p.state = "s_dead" -> Error(p)
         [] p.state = "s_start_req_or_res" /\ b # "H" ->
              Reexecute(Go([n EXCEPT !.type = "request"], "s_start_req"))
         [] p.state = "s_start_req_or_res" /\ b = "H" ->
              Notify(Go(n, "s_res_or_resp_H"), "message_begin")
         [] p.state = "s_start_res" ->
              Expect(b = "H", n, Notify(Go(n, "s_res_H"), "message_begin"))
         [] p.state = "s_start_req" ->
              Expect(b \in {"H", "c"}, n,
                Notify(Go([n EXCEPT !.method = IF b = "H" THEN "HEAD" ELSE "CONNECT", !.index = 1],
                          "s_req_method"), "message_begin"))

Modern(b) == b = "TTP/1.1"
Version == {"TTP/1.1", "TTP/1.0"}

ResponseStep(p, b) ==
  LET http == Go([p EXCEPT !.type = "response", !.modern = Modern(b)], "s_res_http_end")
      line == Mark(Go(p, "s_res_status"), "status")
      ends == b \in {"CR", "LF"} IN
  CASE p.state = "s_res_or_resp_H" ->
         IF b = "EAD"
         THEN Go([p EXCEPT !.type = "request", !.method = "HEAD", !.index = 2], "s_req_method")
         ELSE Expect(b \in Version, p, http)
    [] p.state = "s_res_H" -> Expect(b \in Version, p, http)
    [] p.state = "s_res_http_end" -> Expect(b = "SP", p, Go(p, "s_res_first_status_code"))
    [] p.state = "s_res_first_status_code" ->
         IF b = "SP" THEN p ELSE Expect(b \in Codes, p, Go([p EXCEPT !.status = b], "s_res_status_code"))
    [] p.state = "s_res_status_code" ->
         IF ends THEN Reexecute(Go(p, "s_res_status_start"))
         ELSE Expect(b = "SP", p, Go(p, "s_res_status_start"))
    [] p.state = "s_res_status_start" -> IF ends THEN Reexecute(line) ELSE line
    [] p.state = "s_res_status" ->
         IF ends THEN Data(Go(p, IF b = "CR" THEN "s_res_line_almost_done" ELSE "s_header_field_start"),
                           "status", 0)
         ELSE p
    [] p.state = "s_res_line_almost_done" -> Expect(b = "LF", p, Go(p, "s_header_field_start"))

\* parse_url_char(), of a byte that may be in a URL.
ParseUrl(s, b) ==
  CASE s = "s_req_spaces_before_url" /\ b = "/" -> "s_req_path"
    [] s \in {"s_req_spaces_before_url", "s_req_schema"} /\ b \in Letters -> "s_req_schema"
    [] s = "s_req_schema" /\ b = ":" -> "s_req_schema_slash"
    [] s = "s_req_schema_slash" /\ b = "/" -> "s_req_schema_slash_slash"
    [] s = "s_req_schema_slash_slash" /\ b = "/" -> "s_req_server_start"
    [] s \in {"s_req_server_with_at", "s_req_server_start", "s_req_server"} ->
         CASE b = "/" -> "s_req_path"
           [] b = "?" -> "s_req_query_string_start"
           [] b = "@" -> IF s = "s_req_server_with_at" THEN "s_dead" ELSE "s_req_server_with_at"
           [] b \in UserInfo -> "s_req_server"
           [] OTHER -> "s_dead"
    [] s = "s_req_path" /\ b \in UrlChar -> s
    [] s = "s_req_path" /\ b = "?" -> "s_req_query_string_start"
    [] s \in {"s_req_query_string_start", "s_req_query_string"} /\ b \in UrlChar \cup {"?"} ->
         "s_req_query_string"
    [] s \in {"s_req_path", "s_req_query_string_start", "s_req_query_string"} /\ b = "#" ->
         "s_req_fragment_start"
    [] s \in {"s_req_fragment_start", "s_req_fragment"} /\ b \in UrlChar \cup {"?", "#"} ->
         IF b = "#" THEN s ELSE "s_req_fragment"
    [] OTHER -> "s_dead"

Rest == [m \in {"HEAD", "CONNECT", "DELETE"} |-> IF m = "HEAD" THEN "EAD" ELSE "ONNECT"]

RequestStep(p, b) ==
  LET ends == b \in {"CR", "LF"}
      from == IF p.state = "s_req_spaces_before_url" /\ p.method = "CONNECT"
              THEN "s_req_server_start" ELSE p.state
      marked == IF p.state = "s_req_spaces_before_url" THEN Mark(p, "url") ELSE p
      next == ParseUrl(from, b)
      line == IF b = "CR" THEN "s_req_line_almost_done" ELSE "s_header_field_start" IN
  CASE p.state = "s_req_method" ->
         IF b = "SP" /\ p.index = 2 THEN Go(p, "s_req_spaces_before_url")
         ELSE Expect(b = Rest[p.method] /\ p.index = 1, p, [p EXCEPT !.index = 2])
    [] p.state = "s_req_spaces_before_url" /\ b = "SP" -> p
    [] p.state \in UrlEnds /\ b = "SP" -> Data(Go(p, "s_req_http_start"), "url", 0)
    [] p.state \in UrlEnds /\ ends -> Data(Go([p EXCEPT !.modern = FALSE], line), "url", 0)
    [] p.state \in Before /\ (ends \/ (b = "SP" /\ p.state # "s_req_spaces_before_url")) -> Error(p)
    [] p.state \in Before \cup UrlEnds /\ ~ends /\ b # "SP" ->
         Expect(next # "s_dead", p, Go(marked, next))
    [] p.state = "s_req_http_start" ->
         IF b = "SP" THEN p ELSE Expect(b = "H", p, Go(p, "s_req_http_H"))
    [] p.state = "s_req_http_H" ->
         Expect(b \in Version, p, Go([p EXCEPT !.modern = Modern(b)], "s_req_http_end"))
    [] p.state = "s_req_http_end" -> Expect(ends, p, Go(p, line))
    [] p.state = "s_req_line_almost_done" -> Expect(b = "LF", p, Go(p, "s_header_field_start"))

-----------------------------------------------------------------------------
(***************************************************************************)
(* Headers                                                                 *)
(***************************************************************************)

\* header_state at the first letter of a name, and after more of it.
NameBegun(b) ==
  CASE b = "c" -> "h_C" [] b = "t" -> "h_matching_transfer_encoding"
    [] b = "u" -> "h_matching_upgrade" [] OTHER -> "h_general"
NameGoesOn(h, b) ==
  CASE h = "h_C" /\ b = "onnection" -> "h_connection"
    [] h = "h_C" /\ b = "ontent-length" -> "h_content_length"
    [] h = "h_matching_transfer_encoding" /\ b = "ransfer-encoding" -> "h_transfer_encoding"
    [] h = "h_matching_upgrade" /\ b = "pgrade" -> "h_upgrade"
    [] OTHER -> "h_general"

FieldStep(p, b) ==
  IF p.state = "s_header_field_start"
  THEN CASE b = "CR" -> Go(p, "s_headers_almost_done")
         [] b = "LF" -> Reexecute(Go(p, "s_headers_almost_done"))
         [] OTHER -> Expect(b \in Token, p,
                       Mark(Go([p EXCEPT !.header = NameBegun(b)], "s_header_field"), "field"))
  ELSE IF b \in Token THEN [p EXCEPT !.header = NameGoesOn(@, b)]
  ELSE Expect(b = ":", p, Data(Go(p, "s_header_value_discard_ws"), "field", 0))

\* The first letter of one of the values of "Connection".
ConnectionBegun(b, other) ==
  CASE b = "k" -> "h_matching_connection_keep_alive" [] b = "c" -> "h_matching_connection_close"
    [] b = "u" -> "h_matching_connection_upgrade" [] OTHER -> other

\* s_header_value_start
ValueStart(p, b) ==
  LET h == p.header
      q == Mark(Go(p, "s_header_value"), "value")
      to(next) == [q EXCEPT !.header = next] IN
  CASE h = "h_upgrade" -> [to("h_general") EXCEPT !.flags = @ \cup {"upgrade"}]
    [] h = "h_transfer_encoding" ->
         to(IF b = "c" THEN "h_matching_transfer_encoding_chunked" ELSE "h_general")
    [] h = "h_content_length" ->
         Expect(b \in Digital /\ "content-length" \notin p.flags, q,
           [to("h_content_length_num") EXCEPT !.flags = @ \cup {"content-length"}, !.length = Digit(b, Decimal)])
    [] h \in {"h_content_length_ws", "h_matching_connection_token_start"} -> q
    [] h = "h_connection" -> to(ConnectionBegun(b, "h_matching_connection_token"))
    [] OTHER -> to("h_general")

Flag == [h \in {"h_connection_keep_alive", "h_connection_close", "h_connection_upgrade",
                "h_transfer_encoding_chunked"} |->
           CASE h = "h_connection_keep_alive" -> "keep-alive" [] h = "h_connection_close" -> "close"
             [] h = "h_connection_upgrade" -> "connection-upgrade" [] OTHER -> "chunked"]
Flagged(p) ==
  IF p.header \in DOMAIN Flag THEN [p EXCEPT !.flags = @ \cup {Flag[p.header]}] ELSE p

\* Broken on purpose: no limit.
NumberUnchecked(p, b, base) == [p EXCEPT !.length = @ * base + Digit(b, base)]

\* A number read digit by digit; the conservative limit comes first.
Number(p, b, base) ==
  Expect((Max64 - base) \div base >= p.length, p, [p EXCEPT !.length = @ * base + Digit(b, base)])

\* s_header_value, of a byte in a value.
ValueGoesOn(p, b) ==
  LET h == p.header
      to(next) == [p EXCEPT !.header = next]
      token == "h_matching_connection_token" IN
  CASE h = "h_content_length_num" ->
         IF b = "SP" THEN to("h_content_length_ws") ELSE Expect(b \in Digital, p, Number(p, b, Decimal))
    [] h = "h_content_length_ws" -> Expect(b = "SP", p, p)
    [] h = "h_matching_transfer_encoding_chunked" ->
         to(IF b = "hunked" THEN "h_transfer_encoding_chunked" ELSE "h_general")
    [] h = "h_matching_connection_token_start" ->
         IF b = "SP" THEN p ELSE to(ConnectionBegun(b, IF b \in Token THEN token ELSE "h_general"))
    [] h = "h_matching_connection_keep_alive" ->
         to(IF b = "eep-alive" THEN "h_connection_keep_alive" ELSE token)
    [] h = "h_matching_connection_close" -> to(IF b = "lose" THEN "h_connection_close" ELSE token)
    [] h = "h_matching_connection_upgrade" ->
         to(IF b = "pgrade" THEN "h_connection_upgrade" ELSE token)
    [] h = token -> IF b = "," THEN to("h_matching_connection_token_start") ELSE p
    [] h = "h_transfer_encoding_chunked" -> IF b = "SP" THEN p ELSE to("h_general")
    [] h \in DOMAIN Flag \ {"h_transfer_encoding_chunked"} ->
         IF b = "," THEN [Flagged(p) EXCEPT !.header = "h_matching_connection_token_start"]
         ELSE IF b = "SP" THEN p ELSE to(token)
    [] OTHER -> p

ValueStep(p, b) ==
  LET done == Data(Go(p, "s_header_almost_done"), "value", 0)
      empty == Data(Mark(Go(Flagged(p), "s_header_field_start"), "value"), "value", 0)
      folded == IF p.header = "h_content_length_num"
                THEN [p EXCEPT !.header = "h_content_length_ws"] ELSE p IN
  CASE p.state = "s_header_value_discard_ws" ->
         CASE b = "SP" -> p
           [] b = "CR" -> Go(p, "s_header_value_discard_ws_almost_done")
           [] b = "LF" -> Go(p, "s_header_value_discard_lws")
           [] OTHER -> ValueStart(p, b)
    [] p.state = "s_header_value_start" -> ValueStart(p, b)
    [] p.state = "s_header_value" ->
         CASE b = "CR" -> done
           [] b = "LF" -> Reexecute(done)
           [] OTHER -> Expect(b # "control", p, ValueGoesOn(p, b))
    [] p.state = "s_header_almost_done" -> Expect(b = "LF", p, Go(p, "s_header_value_lws"))
    [] p.state = "s_header_value_lws" ->
         Reexecute(IF b = "SP" THEN Go(folded, "s_header_value_start")
                   ELSE Go(Flagged(p), "s_header_field_start"))
    [] p.state = "s_header_value_discard_ws_almost_done" ->
         Expect(b = "LF", p, Go(p, "s_header_value_discard_lws"))
    [] p.state = "s_header_value_discard_lws" ->
         IF b = "SP" THEN Go(p, "s_header_value_discard_ws")
         ELSE Expect(p.header # "h_content_length", p, Reexecute(empty))

\* The end of the headers; answer is what on_headers_complete() returns.
HeadersStep(p, b, answer) ==
  LET upgrade == IF {"upgrade", "connection-upgrade"} \subseteq p.flags
                 THEN p.type = "request" \/ p.status = "101" ELSE p.method = "CONNECT"
      told == Notify(Go(p, "s_headers_done"), "headers_complete")
      skips == IF answer = 0 THEN p.flags ELSE p.flags \cup {"skip"} IN
  IF b # "LF" THEN Error(p)
  ELSE IF "trailing" \in p.flags THEN Reexecute(Notify(Go(p, "s_message_done"), "chunk_complete"))
  ELSE Expect(~{"chunked", "content-length"} \subseteq p.flags, p,
         Reexecute([told EXCEPT !.upgrade = upgrade \/ answer = 2, !.flags = skips]))

-----------------------------------------------------------------------------
(***************************************************************************)
(* Bodies                                                                  *)
(***************************************************************************)

HasBody(p) == "chunked" \in p.flags \/ p.length \notin {0, Max64}

HeadersDone(p, b) ==
  IF b # "LF" THEN Error(p)
  ELSE IF p.upgrade /\ (p.method = "CONNECT" \/ "skip" \in p.flags \/ ~HasBody(p)) THEN Leaves(Complete(p))
  ELSE IF "skip" \in p.flags \/ ("chunked" \notin p.flags /\ p.length = 0) THEN Complete(p)
  ELSE IF "chunked" \in p.flags THEN Go(p, "s_chunk_size_start")
  ELSE IF p.length # Max64 THEN Go(p, "s_body_identity")
  ELSE IF NeedsEof(p) THEN Go(p, "s_body_identity_eof") ELSE Complete(p)

BodyStep(p, b) ==
  LET q == [Mark(p, "body") EXCEPT !.length = @ - 1] IN
  CASE p.state = "s_headers_done" -> HeadersDone(p, b)
    [] p.state = "s_body_identity" ->
         IF q.length = 0 THEN Reexecute(Data(Go(q, "s_message_done"), "body", 1)) ELSE q
    [] p.state = "s_body_identity_eof" -> Mark(p, "body")
    [] p.state = "s_message_done" -> Leaves(Complete(p))

ChunkStep(p, b) ==
  LET q == [Mark(p, "body") EXCEPT !.length = @ - 1]
      first == IF p.length = 0 THEN Go([p EXCEPT !.flags = @ \cup {"trailing"}], "s_header_field_start")
               ELSE Go(p, "s_chunk_data") IN
  CASE p.state = "s_chunk_size_start" ->
         Expect(b \in Digital, p, Go([p EXCEPT !.length = Digit(b, Hex)], "s_chunk_size"))
    [] p.state = "s_chunk_size" ->
         IF b = "CR" THEN Go(p, "s_chunk_size_almost_done")
         ELSE IF b = "SP" THEN Go(p, "s_chunk_parameters")
         ELSE Expect(b \in Digital, p, Number(p, b, Hex))
    [] p.state = "s_chunk_parameters" -> IF b = "CR" THEN Go(p, "s_chunk_size_almost_done") ELSE p
    [] p.state = "s_chunk_size_almost_done" -> Expect(b = "LF", p, Notify(first, "chunk_header"))
    [] p.state = "s_chunk_data" -> IF q.length = 0 THEN Go(q, "s_chunk_data_almost_done") ELSE q
    [] p.state = "s_chunk_data_almost_done" ->
         Expect(b = "CR", p, Data(Go(p, "s_chunk_data_done"), "body", 0))
    [] p.state = "s_chunk_data_done" ->
         Expect(b = "LF", p, Notify(Go(p, "s_chunk_size_start"), "chunk_complete"))

-----------------------------------------------------------------------------
(***************************************************************************)
(* http_parser_execute()                                                   *)
(***************************************************************************)

Starting == {"s_dead", "s_start_req_or_res", "s_start_res", "s_start_req"}
Responding == {"s_res_or_resp_H", "s_res_H", "s_res_http_end", "s_res_first_status_code",
               "s_res_status_code", "s_res_status_start", "s_res_status", "s_res_line_almost_done"}
Fields == {"s_header_field_start", "s_header_field"}
Values == {"s_header_value_discard_ws", "s_header_value_start", "s_header_value",
           "s_header_almost_done", "s_header_value_lws", "s_header_value_discard_ws_almost_done",
           "s_header_value_discard_lws"}
Bodies == {"s_headers_done", "s_body_identity", "s_body_identity_eof", "s_message_done"}
Chunks64 == {"s_chunk_size_start", "s_chunk_size", "s_chunk_parameters", "s_chunk_size_almost_done",
             "s_chunk_data", "s_chunk_data_almost_done", "s_chunk_data_done"}
BodyOnly == (Bodies \ {"s_headers_done"}) \cup {"s_chunk_data", "s_chunk_data_almost_done", "s_chunk_data_done"}

\* One pass through the switch.
Switch(p, b, answer) ==
  CASE p.state \in Starting -> StartStep(p, b)
    [] p.state \in Responding -> ResponseStep(p, b)
    [] p.state \in Fields -> FieldStep(p, b)
    [] p.state \in Values -> ValueStep(p, b)
    [] p.state = "s_headers_almost_done" -> HeadersStep(p, b, answer)
    [] p.state \in Bodies -> BodyStep(p, b)
    [] p.state \in Chunks64 -> ChunkStep(p, b)
    [] OTHER -> RequestStep(p, b)

\* A callback returns an error, or pauses the parser, which goes on with another execute().
Replied(p, how) ==
  CASE p.called /\ how = "fail" -> [p EXCEPT !.errno = "callback", !.again = FALSE]
    [] p.called /\ how = "pause" -> Restart(p)
    [] OTHER -> p

\* All passes for one byte: reexecute goes on with the same one, three times more at most.
Pass(p, b, answer, how) ==
  Replied(Switch([p EXCEPT !.again = FALSE, !.called = FALSE], b, answer), how)
Executed(p, b, answer, how) ==
  LET more(q) == IF q.again THEN Pass(q, b, answer, how) ELSE q
      first == Pass(p, b, answer, how)
      second == more(first)
      third == more(second) IN
  more(third)

Advanced(p) == [p EXCEPT !.marks = [k \in Kinds |-> IF @[k] = None THEN None ELSE @[k] + 1],
                         !.called = FALSE]

\* The end of a chunk: a callback for the mark that is left, over "more" bytes.
Flushed(p, more) ==
  Data(Data(Data(Data(Data(p, "field", more), "value", more), "url", more), "body", more), "status", more)

\* A byte, and what comes of it: the chunk goes on, or ends; callbacks pause, or fail.
Ended(p, b, answer, how) ==
  LET q == Executed(p, b, answer, how)
      f == Replied(Flushed([q EXCEPT !.called = FALSE], 1), how) IN
  CASE q.errno # "HPE_OK" -> q
    [] q.errno = "HPE_OK" /\ q.called /\ how = "pause" -> Restart(Advanced(q))
    [] q.errno = "HPE_OK" /\ how \in {"end", "fail"} ->
         IF f.errno = "HPE_OK" THEN Restart(Advanced(f)) ELSE f
    [] OTHER -> Advanced(q)

\* The bytes marked and not told yet, up to the byte read last.
Pending(p) ==
  LET ks == {k \in Kinds : p.marks[k] > 0} IN
  IF ks = {} THEN <<>>
  ELSE LET k == CHOOSE k \in ks : TRUE IN [i \in 1..p.marks[k] |-> <<k, i - p.marks[k]>>]

Members(p) ==
  <<p.type, p.errno, p.over, p.flags, p.length, p.state, p.header, p.method, p.index, p.status,
    p.modern, p.upgrade, p.phase>>

\* Once compared, what was told is forgotten, and the whole parser need not tell again
\* what the cut one has told.  Of parsers that are done with nothing is asked any more.
Compared(c, w) ==
  /\ agree' = /\ Members(c) = Members(w)
              /\ c.errno = "HPE_OK" => c.told \o Pending(c) = w.told \o Pending(w)
  /\ IF c.errno = "HPE_OK" /\ ~c.over
     THEN /\ cut' = [c EXCEPT !.told = <<>>, !.called = FALSE]
          /\ whole' = [w EXCEPT !.told = <<>>, !.called = FALSE,
                          !.marks = [k \in Kinds |-> IF @[k] = None THEN None
                                     ELSE IF c.marks[k] = None THEN 0 ELSE c.marks[k]]]
     ELSE LET done == [NewParser("both") EXCEPT !.errno = c.errno, !.over = TRUE, !.phase = c.phase] IN
          cut' = done /\ whole' = done

-----------------------------------------------------------------------------
(***************************************************************************)
(* The stream                                                              *)
(***************************************************************************)

\* The symbols a state tells apart; "x" stands for the others.
Offered(s) ==
  {"CR", "LF", "SP", "x"} \cup
  CASE s \in Url \cup Before -> {"/", ":", "?", "#", "@", "0"}
    [] s \in Fields -> {"c", "t", "u", ":", "onnection", "ontent-length", "ransfer-encoding", "pgrade"}
    [] s \in Values ->
         {"c", "k", "u", ",", "control", "hunked", "lose", "eep-alive", "pgrade"} \cup Digital
    [] s \in Chunks64 -> Digital
    [] s \in Starting \cup {"s_req_http_start"} -> {"H", "c"}
    [] s = "s_req_method" -> {"EAD", "ONNECT"}
    [] s \in {"s_res_or_resp_H", "s_res_H", "s_req_http_H"} -> {"EAD"} \cup Version
    [] s = "s_res_first_status_code" -> Codes
    [] OTHER -> {}

\* What on_headers_complete() may return, where it may be called.
Answers(s, b) ==
  IF b = "LF" /\ s \in {"s_header_field_start", "s_header_value_lws", "s_header_value_discard_lws",
                        "s_headers_almost_done"} THEN 0..2 ELSE {0}

\* A chunk may end anywhere; callbacks pause or fail where there are some.
Ways(s, b) ==
  {"go", "end"} \cup
  IF b \in {"CR", "LF", "SP", ":"} \/ s \in Starting \cup Bodies THEN {"pause", "fail"} ELSE {}

Reads == cut.errno = "HPE_OK" /\ ~cut.over

HttpParserInit == \E type \in Types : cut = NewParser(type) /\ whole = NewParser(type) /\ agree = TRUE

Execute(b, answer, how) ==
  /\ Reads
  /\ cut.state = "s_header_field_start" /\ Cardinality(cut.flags) >= MaxFlags => b \in {"CR", "LF"}
  /\ LET w == Executed(whole, b, answer, "go") IN
     Compared(Ended(cut, b, answer, how), IF w.errno = "HPE_OK" THEN Advanced(w) ELSE w)
  /\ \A k \in Kinds : cut'.marks[k] <= MaxMark

\* The headers are longer than max_header_size.
HeaderOverflow ==
  /\ Reads /\ cut.state \notin BodyOnly
  /\ Compared(Error(cut), Error(whole))

\* An execute() of nothing: the end of the stream.
AtEof(p) ==
  LET q == Flushed(p, 0) IN
  CASE p.state = "s_body_identity_eof" -> [Notify(q, "message_complete") EXCEPT !.over = TRUE, !.called = FALSE]
    [] p.state \in Starting -> [q EXCEPT !.over = TRUE]
    [] OTHER -> Error(q)
Eof == Reads /\ Compared(AtEof(cut), AtEof(whole))

HttpParserNext ==
  \/ \E b \in Offered(cut.state) : \E answer \in Answers(cut.state, b), how \in Ways(cut.state, b) :
       Execute(b, answer, how)
  \/ HeaderOverflow \/ Eof

HttpParserSpec == HttpParserInit /\ [][HttpParserNext]_parserVars

-----------------------------------------------------------------------------
(***************************************************************************)
(* Properties                                                              *)
(***************************************************************************)

\* Wherever the chunks end and whenever a callback pauses, the parser comes to the same
\* state, fails at the same byte, and its callbacks are told the same bytes in the same
\* order, none twice and none left out.
SpansAgree == cut.errno # "callback" => agree

\* The assertions of execute(), and the callbacks of a message in their order: a begin,
\* a head, a body in or outside chunks, and one completion before the next begin.
ParserAsserts ==
  \A p \in {cut, whole} :
    /\ Cardinality({k \in Kinds : p.marks[k] # None}) <= 1
    /\ p.state \in Chunks64 => "chunked" \in p.flags
    /\ p.errno = "HPE_OK" /\ p.state \in {"s_body_identity", "s_chunk_data"} => p.length \notin {0, Max64}
    /\ p.state = "s_chunk_data_almost_done" => p.length = 0
    /\ p.phase # "broken"

HttpParserTypeOK ==
  \A p \in {cut, whole} :
    /\ p.type \in {"both", "request", "response"} /\ p.errno \in {"HPE_OK", "error", "callback"}
    /\ p.flags \subseteq {"chunked", "keep-alive", "close", "connection-upgrade", "trailing",
                          "upgrade", "skip", "content-length"}
    /\ p.length \in 0..Max64 /\ p.marks \in [Kinds -> None..(MaxMark + 1)]
    /\ ~p.again /\ ~p.called /\ p.told = <<>>

=============================================================================
