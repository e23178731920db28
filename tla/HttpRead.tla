------------------------------- MODULE HttpRead -------------------------------
(***************************************************************************)
(* The reading half of http_conn: the read buffer and the two state        *)
(* machines that take a request out of it, parse_line for the next line    *)
(* and process_read for what the line means.  Both stop where the bytes    *)
(* stop and go on in the next process_read.  One action is one turn of     *)
(* process_read's loop.                                                    *)
(***************************************************************************)
EXTENDS HttpText

CONSTANTS
    READ_BUFFER_SIZE,
    BYTE_VALUES        (* the values a byte can have, 256                  *)

(* The low byte of READ_BUFFER_SIZE is zero. *)
ASSUME HttpReadAssumption ==
    /\ READ_BUFFER_SIZE \in Nat \ {0}
    /\ BYTE_VALUES \in Nat \ {0}
    /\ READ_BUFFER_SIZE % BYTE_VALUES = 0

VARIABLES
    m_read_buf,        (* the m_read_idx bytes read since init()           *)
    m_checked_idx,     (* bytes parse_line is done with                    *)
    m_start_line,      (* where the next line starts, counted from 0       *)
    m_check_state,     (* what the next line is                            *)
    lineStatus,        (* local of process_read                            *)
    m_method,
    m_url,
    m_linger,          (* keep-alive was asked for                         *)
    m_content_length,
    m_string           (* where the body starts, counted from 0            *)

readVars == <<m_read_buf, m_checked_idx, m_start_line, m_check_state, lineStatus,
              m_method, m_url, m_linger, m_content_length, m_string>>

m_read_idx == Len(m_read_buf)

ReadTypeOK ==
    /\ m_read_buf \in Seq(Nat)
    /\ m_read_idx <= READ_BUFFER_SIZE
    /\ m_checked_idx \in 0 .. m_read_idx
    /\ m_start_line \in 0 .. m_read_idx
    /\ m_check_state \in {"REQUESTLINE", "HEADER", "CONTENT"}
    /\ lineStatus \in {"LINE_OK", "LINE_BAD", "LINE_OPEN"}
    /\ m_method \in {GET, POST}
    /\ m_url \in Seq(Nat)
    /\ m_linger \in BOOLEAN
    /\ m_content_length \in Nat
    /\ m_string \in Nat

(* m_string is the one pointer no init() sets; 0 stands for what it holds. *)
ReadInit ==
    /\ m_read_buf = <<>>
    /\ m_checked_idx = 0
    /\ m_start_line = 0
    /\ m_check_state = "REQUESTLINE"
    /\ lineStatus = "LINE_OK"
    /\ m_method = GET
    /\ m_url = <<>>
    /\ m_linger = FALSE
    /\ m_content_length = 0
    /\ m_string = 0

(* init(): the half of it that is about reading. *)
ReadReset ==
    /\ m_read_buf' = <<>>
    /\ m_checked_idx' = 0
    /\ m_start_line' = 0
    /\ m_check_state' = "REQUESTLINE"
    /\ m_method' = GET
    /\ m_url' = <<>>
    /\ m_linger' = FALSE
    /\ m_content_length' = 0
    /\ lineStatus' = "LINE_OK"
    /\ UNCHANGED m_string
-----------------------------------------------------------------------------
(* parse_line: looks for the end of the line from m_checked_idx on.        *)

LineEnd == FirstOf(m_read_buf, m_checked_idx + 1, {CR, LF})

LineStatus ==
    LET end == LineEnd IN
    IF end = 0 THEN "LINE_OPEN"
    ELSE IF m_read_buf[end] = LF
    THEN IF end - 1 > 1 /\ m_read_buf[end - 1] = CR THEN "LINE_OK" ELSE "LINE_BAD"
    ELSE IF end = m_read_idx THEN "LINE_OPEN"
    ELSE IF m_read_buf[end + 1] = LF THEN "LINE_OK" ELSE "LINE_BAD"

(* The buffer and m_checked_idx once parse_line has returned: a CR that is *)
(* the last byte stays unchecked until the next one is there.              *)
LineNotOver ==
    /\ LineStatus # "LINE_OK"
    /\ lineStatus' = LineStatus
    /\ m_checked_idx' = IF LineEnd = 0 THEN m_read_idx ELSE LineEnd - 1

CarriageReturn == IF m_read_buf[LineEnd] = CR THEN LineEnd ELSE LineEnd - 1

(* The line is over: its CR LF become NULs.  The loop then takes the text  *)
(* from m_start_line on and moves that to m_checked_idx.                   *)
LineOver ==
    /\ lineStatus' = "LINE_OK"
    /\ m_checked_idx' = CarriageReturn + 1
    /\ m_start_line' = CarriageReturn + 1
    /\ m_read_buf' = [m_read_buf EXCEPT ![CarriageReturn] = NUL,
                                        ![CarriageReturn + 1] = NUL]

(* get_line(): the text of the line that is over, when one is. *)
Line ==
    IF LineStatus = "LINE_OK"
    THEN {SubSeq(m_read_buf, m_start_line + 1, CarriageReturn - 1)} ELSE {}
-----------------------------------------------------------------------------
(* parse_request_line, on the text of the line. *)

Url(text) ==
    LET url == SkipSpaces(text, FirstOf(text, 1, {SP}) + 1)
        end == FirstOf(text, url, {SP})
    IN SubSeq(text, url, end - 1)

GoodRequestLine(text) ==
    LET method == FirstOf(text, 1, {SP})
        url == SkipSpaces(text, method + 1)
        version == FirstOf(text, url, {SP})
    IN /\ method # 0
       /\ SubSeq(text, 1, method - 1) \in {<<GET>>, <<POST>>}
       /\ version # 0
       /\ From(text, SkipSpaces(text, version + 1)) = <<HTTP11>>
       /\ url < version
       /\ text[url] = SLASH

(* A request line that is taken, "/" standing for the home page. *)
RequestLineTaken(text) ==
    /\ GoodRequestLine(text)
    /\ m_method' = text[1]
    /\ m_url' = IF Url(text) = <<SLASH>> THEN <<SLASH, INDEX>> ELSE Url(text)
    /\ m_check_state' = "HEADER"
-----------------------------------------------------------------------------
(* parse_headers: the value of the header if it is the one asked for.      *)

Value(text) == From(text, SkipSpaces(text, 2))

HeaderTaken(text) ==
    /\ m_linger' = (m_linger \/ (text[1] = CONNECTION /\ Value(text) = <<KEEP_ALIVE>>))
    /\ m_content_length' = IF text[1] = CONTENT_LENGTH THEN atol(Value(text))
                           ELSE m_content_length
-----------------------------------------------------------------------------
(* One turn of process_read's loop, by the state it is in.                 *)

(* A request line that parse_request_line accepts. *)
RequestLine ==
    /\ m_check_state = "REQUESTLINE"
    /\ \E text \in Line : RequestLineTaken(text)
    /\ LineOver
    /\ UNCHANGED <<m_linger, m_content_length, m_string>>

(* One it does not: BAD_REQUEST.  What it stores on the way is not read    *)
(* before the next init().                                                 *)
BadRequestLine ==
    /\ m_check_state = "REQUESTLINE"
    /\ \E text \in Line : ~GoodRequestLine(text)
    /\ LineOver
    /\ UNCHANGED <<m_check_state, m_method, m_url, m_linger, m_content_length,
                   m_string>>

Header ==
    /\ m_check_state = "HEADER"
    /\ \E text \in Line \ {<<>>} : HeaderTaken(text)
    /\ LineOver
    /\ UNCHANGED <<m_check_state, m_method, m_url, m_string>>

(* The empty line of a request with a body ... *)
BlankLine ==
    /\ m_check_state = "HEADER"
    /\ <<>> \in Line
    /\ LineOver
    /\ m_content_length # 0
    /\ m_check_state' = "CONTENT"
    /\ UNCHANGED <<m_method, m_url, m_linger, m_content_length, m_string>>

(* ... and of one without: GET_REQUEST. *)
LastLine ==
    /\ m_check_state = "HEADER"
    /\ <<>> \in Line
    /\ LineOver
    /\ m_content_length = 0
    /\ UNCHANGED <<m_check_state, m_method, m_url, m_linger, m_content_length,
                   m_string>>

(* The loop enters parse_content without looking for a line as long as     *)
(* lineStatus is LINE_OK.                                                  *)
InContent == m_check_state = "CONTENT" /\ lineStatus = "LINE_OK"

BodyIsLongerThanSaid == m_read_idx > m_content_length + m_checked_idx

BodyIsThere == m_read_idx >= m_content_length + m_checked_idx

Terminator_next == m_start_line + m_content_length + 2

(* Where text[m_content_length] = '\0' stores.  A body that ends with the  *)
(* buffer has it one place past m_read_buf, in the low byte of m_read_idx, *)
(* the member that follows; inside the buffer, what is behind m_read_idx   *)
(* has been NUL since init().                                              *)
Terminator == m_start_line + m_content_length + 1

IndexLeft ==
    IF Terminator <= READ_BUFFER_SIZE THEN m_read_idx
    ELSE m_read_idx - (m_read_idx % BYTE_VALUES)

(* parse_content finds the body complete: GET_REQUEST. *)
Content ==
    /\ InContent
    /\ BodyIsThere
    /\ m_string' = m_start_line
    /\ m_start_line' = m_checked_idx
    /\ m_read_buf' = [i \in 1 .. IndexLeft |->
                         IF i = Terminator THEN NUL ELSE m_read_buf[i]]
    /\ UNCHANGED <<m_checked_idx, m_check_state, lineStatus, m_method, m_url,
                   m_linger, m_content_length>>

(* It does not: lineStatus becomes LINE_OPEN, so that the loop's condition *)
(* calls parse_line on what there is of the body.  A form holds no CR and  *)
(* no LF, so that this ends the loop.                                      *)
BodyNotThere ==
    /\ InContent
    /\ ~BodyIsThere
    /\ m_start_line' = m_checked_idx
    /\ LineNotOver
    /\ UNCHANGED <<m_read_buf, m_check_state, m_method, m_url, m_linger,
                   m_content_length, m_string>>

(* No line to go on with: NO_REQUEST. *)
NoLine ==
    /\ ~InContent
    /\ LineNotOver
    /\ UNCHANGED <<m_read_buf, m_start_line, m_check_state, m_method, m_url,
                   m_linger, m_content_length, m_string>>
=============================================================================
