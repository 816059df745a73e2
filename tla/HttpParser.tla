----------------------------- MODULE HttpParser ----------------------------
(***************************************************************************)
(* How an HttpConn reads one request that TCP delivers in pieces:          *)
(* read_once() and the loop of process_read() over parse_line() and the    *)
(* three parsers of src/src/http, with the indices they leave behind       *)
(* between two calls.                                                      *)
(*                                                                         *)
(* The bytes are abstracted to units: the text of a line, which is one of  *)
(* the kinds the parsers tell apart, CR, LF, and a byte of the body. A     *)
(* piece may end between any two units. What parse_request_line accepts is *)
(* "request", whatever else the first line may hold is "invalid".          *)
(***************************************************************************)
EXTENDS Integers, Sequences, FiniteSets

CONSTANTS MaxBody,           \* bound of Content-length
          MaxHeaders,        \* bound of the number of header lines
          READ_BUFFER_SIZE,  \* in units
          SplitsBody         \* whether a piece may end inside the body

ASSUME ParserAssumption ==
    /\ MaxBody \in Nat /\ MaxHeaders \in Nat /\ READ_BUFFER_SIZE \in Nat \ {0}
    /\ SplitsBody \in BOOLEAN

VARIABLES stream,            \* what the client sends
          length,            \* the Content-length it declares
          m_TRIGMode,        \* of the connected socket: "LT" or "ET"
          m_read_idx, m_checked_idx, m_start_line,
          m_check_state,
          m_content_length,
          line_status,       \* the local of process_read
          pc,                \* "read", "parse", "answered" or "closed"
          answer             \* "BAD_REQUEST", or "GET_REQUEST" when do_request ran

request == <<stream, length, m_TRIGMode>>
vars == <<request, m_read_idx, m_checked_idx, m_start_line, m_check_state,
          m_content_length, line_status, pc, answer>>

CR == "\r"
LF == "\n"
Texts == {"request", "invalid", "length", "other"}

\* A line as it is sent; "broken" is a text that ends with LF only.
Line(kind) ==
    CASE kind = "blank" -> <<CR, LF>>
      [] kind = "broken" -> <<"other", LF>>
      [] OTHER -> <<kind, CR, LF>>

Body(n) == [i \in 1..n |-> "byte"]

\* Header sections with up to one line more than those of H.
Longer(H) == H \cup UNION {{h \o Line(k) : h \in H} : k \in {"length", "other", "broken"}}

Headers ==
    LET f[n \in 0..MaxHeaders] == IF n = 0 THEN {<<>>} ELSE Longer(f[n - 1])
    IN  f[MaxHeaders]

Has(s, unit) == \E i \in DOMAIN s : s[i] = unit

\* A client that declares a body sends it, and only then.
Init ==
    /\ \E first \in {"request", "invalid", "blank"}, h \in Headers, n \in 0..MaxBody :
        /\ n > 0 => Has(h, "length")
        /\ stream = Line(first) \o h \o Line("blank") \o Body(n)
        /\ length = n
    /\ m_TRIGMode \in {"LT", "ET"}
    /\ m_read_idx = 0 /\ m_checked_idx = 0 /\ m_start_line = 0
    /\ m_check_state = "CHECK_STATE_REQUESTLINE"
    /\ m_content_length = 0
    /\ line_status = "LINE_OK"
    /\ pc = "read"
    /\ answer = "none"

\* m_read_buf[i], counted from 0.
m_read_buf(i) == stream[i + 1]

BodyStart == Len(stream) - length

(***************************************************************************)
(* read_once() gets a piece of n units, and process() calls process_read.  *)
(***************************************************************************)
Receives(n) ==
    /\ pc = "read"
    /\ n <= READ_BUFFER_SIZE - m_read_idx
    /\ m_read_idx + n <= Len(stream)
    /\ SplitsBody \/ m_read_idx + n \notin BodyStart + 1..Len(stream) - 1
    /\ m_read_idx' = m_read_idx + n

ReadOnce(n) ==
    /\ Receives(n)
    /\ line_status' = "LINE_OK"
    /\ pc' = "parse"
    /\ UNCHANGED <<request, m_checked_idx, m_start_line, m_check_state, m_content_length, answer>>

\* Edge triggered, recv() is called until it finds nothing more. With no room left
\* it may return 0, which is taken for the peer having closed, or fail with EAGAIN
\* when nothing more is queued: then it is ReadOnce, as with room left.
ReadFills(n) ==
    /\ m_TRIGMode = "ET"
    /\ Receives(n)
    /\ m_read_idx + n = READ_BUFFER_SIZE
    /\ pc' = "closed"
    /\ UNCHANGED <<request, m_checked_idx, m_start_line, m_check_state, m_content_length,
                   line_status, answer>>

\* The buffer is full: the connection is closed.
BufferFull ==
    /\ pc = "read"
    /\ m_read_idx >= READ_BUFFER_SIZE
    /\ m_read_idx < Len(stream)
    /\ pc' = "closed"
    /\ UNCHANGED <<request, m_read_idx, m_checked_idx, m_start_line, m_check_state,
                   m_content_length, line_status, answer>>

(***************************************************************************)
(* parse_line(): the status it returns and where it leaves m_checked_idx.  *)
(***************************************************************************)
Ends == {i \in m_checked_idx..m_read_idx - 1 : m_read_buf(i) \in {CR, LF}}

\* Mutant: a CR is taken for the end of the line.
AssumesLF ==
    IF Ends = {} THEN <<"LINE_OPEN", m_read_idx>>
    ELSE LET e == CHOOSE i \in Ends : \A j \in Ends : i <= j
         IN  IF m_read_buf(e) = CR THEN <<"LINE_OK", e + 2>> ELSE <<"LINE_BAD", e>>

\* Mutant: the search for the end of the line starts again behind a last CR.
SkipsCR ==
    IF Ends = {} THEN <<"LINE_OPEN", m_read_idx>>
    ELSE LET e == CHOOSE i \in Ends : \A j \in Ends : i <= j
         IN  IF m_read_buf(e) = LF THEN <<"LINE_BAD", e>>
             ELSE IF e + 1 = m_read_idx THEN <<"LINE_OPEN", e + 1>>
             ELSE IF m_read_buf(e + 1) = LF THEN <<"LINE_OK", e + 2>>
             ELSE <<"LINE_BAD", e>>

parse_line ==
    IF Ends = {} THEN <<"LINE_OPEN", m_read_idx>>
    ELSE LET e == CHOOSE i \in Ends : \A j \in Ends : i <= j
         IN  IF m_read_buf(e) = LF
             THEN IF e > 1 /\ m_read_buf(e - 1) = CR
                  THEN <<"LINE_OK", e + 1>> ELSE <<"LINE_BAD", e>>
             ELSE IF e + 1 = m_read_idx THEN <<"LINE_OPEN", e>>
             ELSE IF m_read_buf(e + 1) = LF THEN <<"LINE_OK", e + 2>>
             ELSE <<"LINE_BAD", e>>

Answers(code) == pc' = "answered" /\ answer' = code
Continues == UNCHANGED <<pc, answer>>

(***************************************************************************)
(* One iteration of the loop of process_read. A line that ends moves       *)
(* m_start_line to m_checked_idx before it is parsed.                      *)
(***************************************************************************)
InContent == m_check_state = "CHECK_STATE_CONTENT" /\ line_status = "LINE_OK"

\* LINE_OPEN or LINE_BAD: process_read returns NO_REQUEST.
NoLine ==
    /\ pc = "parse" /\ ~InContent
    /\ parse_line[1] # "LINE_OK"
    /\ line_status' = parse_line[1]
    /\ m_checked_idx' = parse_line[2]
    /\ pc' = "read"
    /\ UNCHANGED <<request, m_read_idx, m_start_line, m_check_state, m_content_length, answer>>

NextLine ==
    /\ pc = "parse" /\ ~InContent
    /\ parse_line[1] = "LINE_OK"
    /\ line_status' = "LINE_OK"
    /\ m_checked_idx' = parse_line[2]
    /\ m_start_line' = parse_line[2]
    /\ UNCHANGED <<request, m_read_idx>>

\* The first unit of the line; CR when it is empty.
text == m_read_buf(m_start_line)

RequestLine ==
    /\ m_check_state = "CHECK_STATE_REQUESTLINE"
    /\ NextLine
    /\ \/ /\ text = "request"
          /\ m_check_state' = "CHECK_STATE_HEADER"
          /\ Continues
       \/ /\ text # "request"
          /\ Answers("BAD_REQUEST")
          /\ UNCHANGED m_check_state
    /\ UNCHANGED m_content_length

\* Mutant: the request ends with its headers whatever their length says.
HeadersOnly ==
    /\ m_check_state = "CHECK_STATE_HEADER"
    /\ NextLine
    /\ \/ text = CR /\ Answers("GET_REQUEST") /\ UNCHANGED m_content_length
       \/ text = "length" /\ m_content_length' = length /\ Continues
       \/ text \notin {CR, "length"} /\ Continues /\ UNCHANGED m_content_length
    /\ UNCHANGED m_check_state

Header ==
    /\ m_check_state = "CHECK_STATE_HEADER"
    /\ NextLine
    /\ \/ /\ text = CR /\ m_content_length # 0
          /\ m_check_state' = "CHECK_STATE_CONTENT"
          /\ Continues
          /\ UNCHANGED m_content_length
       \/ /\ text = CR /\ m_content_length = 0
          /\ Answers("GET_REQUEST")
          /\ UNCHANGED <<m_check_state, m_content_length>>
       \/ /\ text = "length"
          /\ m_content_length' = length
          /\ Continues
          /\ UNCHANGED m_check_state
       \/ /\ text \notin {CR, "length"}
          /\ Continues
          /\ UNCHANGED <<m_check_state, m_content_length>>

\* parse_content, and line_status = LINE_OPEN when the body is not complete.
Content ==
    /\ pc = "parse" /\ InContent
    /\ m_start_line' = m_checked_idx
    /\ \/ /\ m_read_idx >= m_content_length + m_checked_idx
          /\ Answers("GET_REQUEST")
          /\ UNCHANGED line_status
       \/ /\ m_read_idx < m_content_length + m_checked_idx
          /\ line_status' = "LINE_OPEN"
          /\ Continues
    /\ UNCHANGED <<request, m_read_idx, m_checked_idx, m_check_state, m_content_length>>

Next ==
    \/ \E n \in 1..Len(stream) : ReadOnce(n) \/ ReadFills(n)
    \/ BufferFull
    \/ NoLine \/ RequestLine \/ Header \/ Content

Spec == Init /\ [][Next]_vars

-----------------------------------------------------------------------------

\* Types; the indices stay in order and inside the buffer.
TypeOK ==
    /\ stream \in Seq(Texts \cup {CR, LF, "byte"})
    /\ length \in 0..MaxBody /\ m_TRIGMode \in {"LT", "ET"}
    /\ {m_read_idx, m_checked_idx, m_start_line} \subseteq 0..Len(stream)
    /\ m_start_line <= m_checked_idx /\ m_checked_idx <= m_read_idx
    /\ m_read_idx <= READ_BUFFER_SIZE
    /\ m_check_state \in {"CHECK_STATE_REQUESTLINE", "CHECK_STATE_HEADER", "CHECK_STATE_CONTENT"}
    /\ m_content_length \in 0..MaxBody
    /\ line_status \in {"LINE_OK", "LINE_BAD", "LINE_OPEN"}
    /\ pc \in {"read", "parse", "answered", "closed"}
    /\ answer \in {"none", "BAD_REQUEST", "GET_REQUEST"}

(***************************************************************************)
(* The reference: the answer to the whole stream, and after how many units *)
(* it is due, however they are cut in pieces. A line that does not end     *)
(* with CR LF is never answered.                                           *)
(***************************************************************************)
FirstBad == stream[1] # "request"
Broken == \E i \in 2..Len(stream) : stream[i] = LF /\ stream[i - 1] # CR

DueAnswer == IF FirstBad THEN "BAD_REQUEST" ELSE "GET_REQUEST"

Due(n) ==
    IF FirstBad THEN \E i \in 1..n : stream[i] = LF
    ELSE ~Broken /\ n = Len(stream)

\* A request is never answered before it is complete, nor otherwise than if it
\* had come in one piece.
NeverEarly == pc = "answered" => Due(m_read_idx) /\ answer = DueAnswer

(***************************************************************************)
(* parse_content "decides whether the http request has been read           *)
(* completely": a request that is complete is answered at once.            *)
(***************************************************************************)
CompleteIsAnswered == pc = "read" => ~Due(m_read_idx)
=============================================================================
