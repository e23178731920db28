----------------------------- MODULE HttpExchange -----------------------------
(***************************************************************************)
(* One http_conn and the clients whose connections it serves, one after    *)
(* the other: request bytes arrive in pieces of any size, the worker reads *)
(* and parses them (HttpRead), answers (do_request, HttpWrite) and sends   *)
(* as much as the socket takes.  The object is reused, by a client that    *)
(* keeps its connection alive and by the next client that is given the     *)
(* same descriptor.                                                        *)
(*                                                                         *)
(* Between two epoll events one thread at a time works on an http_conn     *)
(* (WebServer, SingleOwner), so that its steps are those of one process here. *)
(***************************************************************************)
EXTENDS HttpRead, HttpWrite, FiniteSets

CONSTANTS
    Requests,          (* the requests a client may have in mind           *)
    DocRoot,           (* the files: their paths' [mode, size]             *)
    Users,             (* the passwords of the user table, by name         *)
    NAME_LEN,          (* the size of do_request's name and password       *)
    TrigModes,         (* the values of m_trig_mode looked at              *)
    MaxRequests,       (* bound: requests begun, over all clients          *)
    MaxConns,          (* bound: clients served                            *)
    MaxSplits          (* bound: pieces sent that are not the last of a    *)
                       (* request, and calls of writev that take not all   *)

NoRequest == [method |-> 0]

(* The requests with their bytes. *)
Wire == {[request |-> r, bytes |-> Bytes(r)] : r \in Requests}

ASSUME HttpExchangeAssumption ==
    /\ \A r \in Requests : IsRequest(r)
    /\ \A path \in DOMAIN DocRoot :
          /\ path \in Seq(Nat) \ {NULL, MAP_FAILED}
          /\ DocRoot[path].size \in Nat
          /\ DocRoot[path].mode \in {"file", "private", "directory"}
    /\ TrigModes \subseteq {0, 1}
    /\ NAME_LEN \in Nat \ {0}
    /\ MaxRequests \in Nat
    /\ MaxConns \in Nat
    /\ MaxSplits \in Nat

VARIABLES
    m_trig_mode,  (* 0 level triggered, 1 edge triggered                   *)
    pc,           (* what happens next to the connection                   *)
    ret,          (* the HTTP_CODE of the request                          *)
    wire,         (* bytes the client sent and nobody read                 *)
    room,         (* the socket takes more bytes                           *)
    present,      (* the client has not hung up                            *)
    waiting,      (* the last request the client began, until it has an    *)
                  (* answer                                                *)
    todo,         (* the bytes of it that are not sent yet                 *)
    begun,        (* requests begun so far                                 *)
    conns,        (* clients so far                                        *)
    splits,       (* pieces sent and written so far that were not all      *)
    got,          (* history: the bytes read since init()                  *)
    torn,         (* history: process_read has seen a part of a body       *)
    abandoned,    (* history: a client hung up before its answer was sent  *)
    lost          (* history: mappings nothing points to any more          *)

clientVars  == <<present, waiting, todo, begun, conns, splits>>
historyVars == <<got, torn, abandoned, lost>>
vars == <<readVars, writeVars, m_trig_mode, pc, ret, wire, room, clientVars,
          historyVars>>

Codes == {"NO_REQUEST", "GET_REQUEST", "FILE_REQUEST", "JSON_REQUEST"} \cup ErrorCodes

TypeOK ==
    /\ ReadTypeOK
    /\ WriteTypeOK
    /\ m_trig_mode \in {0, 1}
    /\ pc \in {"in", "parse", "request", "respond", "out", "write", "closed", "aborted"}
    /\ ret \in Codes
    /\ wire \in Seq(Nat)
    /\ room \in BOOLEAN
    /\ present \in BOOLEAN
    /\ waiting \in Requests \cup {NoRequest}
    /\ todo \in Seq(Nat)
    /\ begun \in 0 .. MaxRequests
    /\ conns \in 0 .. MaxConns
    /\ splits \in 0 .. MaxSplits
    /\ got \in Seq(Nat)
    /\ torn \in BOOLEAN
    /\ abandoned \in BOOLEAN
    /\ lost \in Nat

Init ==
    /\ ReadInit
    /\ WriteInit
    /\ m_trig_mode \in TrigModes
    /\ pc = "closed"
    /\ ret = "NO_REQUEST"
    /\ wire = <<>>
    /\ room = TRUE
    /\ present = FALSE
    /\ waiting = NoRequest
    /\ todo = <<>>
    /\ begun = 0
    /\ conns = 0
    /\ splits = 0
    /\ got = <<>>
    /\ torn = FALSE
    /\ abandoned = FALSE
    /\ lost = 0
-----------------------------------------------------------------------------
(* The client.  What it does while the server is busy with itself shows    *)
(* only when that looks at the socket again, and is done then.             *)

(* It begins a request, once it has the answer to the one before. *)
Begin(w) ==
    /\ present /\ pc = "in"
    /\ begun < MaxRequests
    /\ waiting = NoRequest
    /\ begun' = begun + 1
    /\ waiting' = w.request
    /\ todo' = w.bytes
    /\ UNCHANGED <<readVars, writeVars, m_trig_mode, pc, ret, wire, room, present,
                   conns, splits, historyVars>>

SendBytes(n) ==
    /\ present /\ pc = "in"
    /\ wire' = wire \o SubSeq(todo, 1, n)
    /\ todo' = From(todo, n + 1)
    /\ splits' = IF n < Len(todo) THEN splits + 1 ELSE splits
    /\ splits' <= MaxSplits
    /\ UNCHANGED <<readVars, writeVars, m_trig_mode, pc, ret, room, present, waiting,
                   begun, conns, historyVars>>

(* It reads what has arrived of the answer. *)
Drain ==
    /\ present /\ pc \in {"out", "write"} /\ ~room
    /\ room' = TRUE
    /\ UNCHANGED <<readVars, writeVars, m_trig_mode, pc, ret, wire, clientVars,
                   historyVars>>

HangUp ==
    /\ present /\ pc \in {"in", "out", "write"}
    /\ present' = FALSE
    /\ waiting' = NoRequest /\ todo' = <<>>
    /\ UNCHANGED <<readVars, writeVars, m_trig_mode, pc, ret, wire, room, begun, conns,
                   splits, historyVars>>

ClientStep ==
    \/ \E w \in Wire : Begin(w)
    \/ \E n \in 1 .. Len(todo) : SendBytes(n)
    \/ Drain
    \/ HangUp
-----------------------------------------------------------------------------
(* The server: reading. *)

(* init() for a client that was just accepted. *)
Accept ==
    /\ pc = "closed"
    /\ conns < MaxConns
    /\ conns' = conns + 1
    /\ pc' = "in"
    /\ ReadReset
    /\ WriteReset
    /\ wire' = <<>> /\ todo' = <<>> /\ got' = <<>>
    /\ room' = TRUE /\ present' = TRUE
    /\ waiting' = NoRequest
    /\ torn' = FALSE
    /\ UNCHANGED <<m_json, m_file_stat, m_file_address, m_iv, m_iv_count, m_trig_mode, ret, begun, splits, abandoned, lost>>

(* read_once(): all there is, as far as it fits.  When edge triggered the  *)
(* loop goes on until recv() has nothing to give, and a full buffer makes  *)
(* that a failure; the event loop then closes the connection.              *)
ReadOnce ==
    LET space == READ_BUFFER_SIZE - m_read_idx
        n == IF Len(wire) < space THEN Len(wire) ELSE space
        ok == space > 0 /\ (m_trig_mode = 1 => n < space)
    IN /\ pc = "in" /\ present /\ wire # <<>>
       /\ m_read_buf' = m_read_buf \o SubSeq(wire, 1, n)
       /\ got' = got \o SubSeq(wire, 1, n)
       /\ wire' = From(wire, n + 1)
       /\ lineStatus' = "LINE_OK"
       /\ pc' = IF ok THEN "parse" ELSE "closed"
       /\ UNCHANGED <<m_checked_idx, m_start_line, m_check_state, m_method, m_url,
                      m_linger, m_content_length, m_string, writeVars, m_trig_mode,
                      ret, room, clientVars, torn, abandoned, lost>>

(* EPOLLRDHUP: the event loop closes the connection and does not touch the *)
(* http_conn.                                                              *)
CloseHup ==
    /\ pc \in {"in", "out"} /\ ~present
    /\ pc' = "closed"
    /\ abandoned' = (abandoned \/ bytes_to_send > 0)
    /\ UNCHANGED <<readVars, writeVars, m_trig_mode, ret, wire, room, clientVars, got,
                   torn, lost>>
-----------------------------------------------------------------------------
(* The server: process().                                                  *)

(* A turn of process_read's loop that goes on. *)
ParseOn ==
    /\ pc = "parse"
    /\ RequestLine \/ Header \/ BlankLine
    /\ UNCHANGED <<writeVars, m_trig_mode, pc, ret, wire, room, clientVars, historyVars>>

ParseBad ==
    /\ pc = "parse"
    /\ BadRequestLine
    /\ ret' = "BAD_REQUEST"
    /\ pc' = "respond"
    /\ UNCHANGED <<writeVars, m_trig_mode, wire, room, clientVars, historyVars>>

ParseDone ==
    /\ pc = "parse"
    /\ LastLine \/ Content
    /\ ret' = "GET_REQUEST"
    /\ pc' = "request"
    /\ UNCHANGED <<writeVars, m_trig_mode, wire, room, clientVars, historyVars>>

PartOfBody == m_read_idx - m_checked_idx \in 1 .. m_content_length - 1

(* NO_REQUEST: the descriptor is armed for more bytes. *)
ParseWaits ==
    /\ pc = "parse"
    /\ \/ NoLine /\ UNCHANGED torn
       \/ BodyNotThere /\ torn' = (torn \/ PartOfBody)
    /\ ret' = "NO_REQUEST"
    /\ pc' = "in"
    /\ UNCHANGED <<writeVars, m_trig_mode, wire, room, clientVars, got, abandoned, lost>>

(* What do_request copies out of the body, by its place: the name after    *)
(* "user=", up to "&"; the password ten bytes behind the "&", as many as   *)
(* there are in "&password=", whatever the field is called.                *)
NameText ==
    LET body == CString(m_read_buf, m_string + 1)
    IN SubSeq(body, 2, FirstOf(body, 1, {AMPERSAND}) - 1)

PasswordText ==
    LET body == CString(m_read_buf, m_string + 1)
        and == FirstOf(body, 1, {AMPERSAND})
    IN From(body, and + 11 - Width(body[and + 1]))

(* One of them, with its NUL, does not fit the array it is copied to. *)
Overrun == Len(NameText) >= NAME_LEN \/ Len(PasswordText) >= NAME_LEN

Name == acl_url_decode(NameText)

Password == acl_url_decode(PasswordText)

LoggedIn == Name \in DOMAIN Users /\ Users[Name] = Password

LoginText(success) == Text1(IF success THEN 1 ELSE 2)

SIGN_IN == <<SLASH, 1010>>

(* do_request() of a POST: a sign_in, or nothing it knows. *)
SignIn ==
    /\ pc = "request"
    /\ m_method = POST
    /\ m_url = SIGN_IN => ~Overrun
    /\ IF m_url = SIGN_IN
       THEN ret' = "JSON_REQUEST" /\ m_json' = LoginText(LoggedIn)
       ELSE ret' = "BAD_REQUEST" /\ UNCHANGED m_json
    /\ pc' = "respond"
    /\ UNCHANGED <<readVars, m_write_buf, m_file_stat, m_file_address, m_iv, m_iv_count,
                   bytes_to_send, bytes_have_send, out, headCuts, m_trig_mode, wire,
                   room, clientVars, historyVars>>

(* The copy runs past its array, on the stack, and what comes of it is     *)
(* undefined: the process is killed, or goes on with either answer.        *)
SignInOverruns ==
    /\ pc = "request"
    /\ m_method = POST
    /\ m_url = SIGN_IN
    /\ Overrun
    /\ \/ pc' = "aborted" /\ UNCHANGED <<ret, m_json>>
       \/ /\ pc' = "respond"
          /\ ret' = "JSON_REQUEST"
          /\ \E success \in BOOLEAN : m_json' = LoginText(success)
    /\ UNCHANGED <<readVars, m_write_buf, m_file_stat, m_file_address, m_iv, m_iv_count,
                   bytes_to_send, bytes_have_send, out, headCuts, m_trig_mode, wire,
                   room, clientVars, historyVars>>

(* do_request() of a GET.  The file's name is the url, with index.html     *)
(* after a "/".  mmap() of an empty file fails.                            *)
RealFile == IF m_url[Len(m_url)] = SLASH THEN Append(m_url, INDEX) ELSE m_url

GetFile ==
    /\ pc = "request"
    /\ m_method = GET
    /\ pc' = "respond"
    /\ IF RealFile \in DOMAIN DocRoot
       THEN /\ m_file_stat' = DocRoot[RealFile].size
            /\ ret' = CASE DocRoot[RealFile].mode = "private"   -> "FORBIDDEN_REQUEST"
                        [] DocRoot[RealFile].mode = "directory" -> "BAD_REQUEST"
                        [] OTHER                                -> "FILE_REQUEST"
       ELSE ret' = "NO_RESOURCE" /\ UNCHANGED m_file_stat
    /\ IF ret' = "FILE_REQUEST"
       THEN /\ m_file_address' = IF m_file_stat' = 0 THEN MAP_FAILED ELSE RealFile
            /\ lost' = IF m_file_address \in {NULL, MAP_FAILED} THEN lost ELSE lost + 1
       ELSE UNCHANGED <<m_file_address, lost>>
    /\ UNCHANGED <<readVars, m_write_buf, m_json, m_iv, m_iv_count, bytes_to_send,
                   bytes_have_send, out, headCuts, m_trig_mode, wire, room, clientVars,
                   got, torn, abandoned>>

(* process_write() and the modfd() for EPOLLOUT.  The code ret is a local  *)
(* of process() and ends with it.                                          *)
Respond ==
    /\ pc = "respond"
    /\ ProcessWrite(ret, m_linger)
    /\ ret' = "NO_REQUEST"
    /\ pc' = "out"
    /\ UNCHANGED <<readVars, m_trig_mode, wire, room, clientVars, historyVars>>
-----------------------------------------------------------------------------
(* The server: write().                                                    *)

(* EPOLLOUT: the socket has room. *)
WriteReady ==
    /\ pc = "out" /\ present /\ room
    /\ pc' = "write"
    /\ UNCHANGED <<readVars, writeVars, m_trig_mode, ret, wire, room, clientVars,
                   historyVars>>

(* writev() takes t bytes, all of them or what there is room for.  With a  *)
(* Vector of no bytes it returns 0 and the loop calls it again, for ever.  *)
Writev(t) ==
    /\ pc = "write" /\ present /\ room
    /\ bytes_to_send > 0
    /\ Advance(t)
    /\ room' = (t = Vector)
    /\ splits' = IF t = Vector THEN splits ELSE splits + 1
    /\ splits' <= MaxSplits
    /\ UNCHANGED <<readVars, m_write_buf, m_json, m_file_stat, m_file_address,
                   m_iv_count, m_trig_mode, pc, ret, wire, present, waiting, todo,
                   begun, conns, historyVars>>

WriteAgainReads ==
    /\ pc = "write" /\ present /\ ~room
    /\ bytes_to_send > 0
    /\ pc' = "in"
    /\ UNCHANGED <<readVars, writeVars, m_trig_mode, ret, wire, room, clientVars,
                   historyVars>>

(* EAGAIN: the descriptor is armed for EPOLLOUT. *)
WriteAgain ==
    /\ pc = "write" /\ present /\ ~room
    /\ bytes_to_send > 0
    /\ pc' = "out"
    /\ UNCHANGED <<readVars, writeVars, m_trig_mode, ret, wire, room, clientVars,
                   historyVars>>

WriteErrorKeepsMap ==
    /\ pc = "write"
    /\ bytes_to_send > 0
    /\ ~present \/ (m_iv_count = 2 /\ m_iv[1].iov_base < 0)
    /\ pc' = "closed"
    /\ UNCHANGED <<readVars, writeVars, m_trig_mode, ret, wire, room, clientVars,
                   historyVars>>

(* The client is gone, or an iovec points before the file: EPIPE, EFAULT.  *)
WriteError ==
    /\ pc = "write"
    /\ bytes_to_send > 0
    /\ ~present \/ (m_iv_count = 2 /\ m_iv[1].iov_base < 0)
    /\ Unmap
    /\ pc' = "closed"
    /\ UNCHANGED <<readVars, m_write_buf, m_json, m_file_stat, m_iv, m_iv_count,
                   bytes_to_send, bytes_have_send, out, headCuts, m_trig_mode, ret,
                   wire, room, clientVars, historyVars>>

(* All sent: init() for the next request, or the connection is closed. *)
WriteDone ==
    /\ pc = "write"
    /\ bytes_to_send <= 0
    /\ Unmap
    /\ waiting' = NoRequest
    /\ IF m_linger
       THEN /\ pc' = "in"
            /\ ReadReset
            /\ WriteReset
            /\ got' = <<>>
            /\ torn' = FALSE
       ELSE /\ pc' = "closed"
            /\ UNCHANGED <<readVars, m_write_buf, bytes_to_send, bytes_have_send, out,
                           headCuts, got, torn>>
    /\ UNCHANGED <<m_json, m_file_stat, m_iv, m_iv_count, m_trig_mode,
                   ret, wire, room, present, todo, begun, conns, splits, abandoned,
                   lost>>

ServerStep ==
    \/ ReadOnce \/ CloseHup
    \/ ParseOn \/ ParseBad \/ ParseDone \/ ParseWaits
    \/ SignIn \/ SignInOverruns \/ GetFile \/ Respond
    \/ WriteReady \/ \E t \in 1 .. Vector : Writev(t)
    \/ WriteAgain \/ WriteError \/ WriteDone

Next == ClientStep \/ Accept \/ ServerStep

(* A worker's steps follow one another; a client that stays goes on        *)
(* reading what it is sent.                                                *)
Fairness == WF_vars(ServerStep) /\ WF_vars(Drain)

Spec == Init /\ [][Next]_vars /\ Fairness
-----------------------------------------------------------------------------
(* The answer r is to get. *)

Found(r) == IF r.path[Len(r.path)] = SLASH THEN Append(r.path, INDEX) ELSE r.path

EmptyFile(r) ==
    /\ r.method = GET
    /\ Found(r) \in DOMAIN DocRoot
    /\ DocRoot[Found(r)].mode = "file" /\ DocRoot[Found(r)].size = 0

IsSignIn(r) == r.method = POST /\ r.path = SIGN_IN

(* Its name or what is copied for its password is too long, as sent, for   *)
(* the array it goes to.                                                   *)
Overruns(r) ==
    IsSignIn(r) /\ \E s \in {r.name, Copied(r)} : Len(Sent(r, s)) >= NAME_LEN

(* The name and the password of a sign_in are right, for the characters    *)
(* that the server keeps of them.                                          *)
Right(r) ==
    LET name == Decoded(r, r.name)
    IN name \in DOMAIN Users /\ Users[name] = Decoded(r, Copied(r))

Error(code, linger) == [text |-> Lines(code, 1, linger, Text1(code)), file |-> NULL]

Answer(r) ==
    IF r.method \notin {GET, POST} THEN Error(400, FALSE)
    ELSE IF r.method = POST
    THEN IF r.path # SIGN_IN THEN Error(400, r.keep)
         ELSE [text |-> Lines(200, 1, r.keep, LoginText(Right(r))), file |-> NULL]
    ELSE IF Found(r) \notin DOMAIN DocRoot THEN Error(404, r.keep)
    ELSE LET file == DocRoot[Found(r)] IN
         CASE file.mode = "private"   -> Error(403, r.keep)
           [] file.mode = "directory" -> Error(400, r.keep)
           [] OTHER -> [text |-> Lines(200, file.size, r.keep, <<>>), file |-> Found(r)]

(* What is being sent. *)
Response == [text |-> m_write_buf, file |-> IF m_iv_count = 2 THEN m_file_address ELSE NULL]

Sending == pc \in {"out", "write"}

(* A request that can be read without filling the read buffer. *)
Fits(r) == \A w \in Wire : w.request = r => Len(w.bytes) < READ_BUFFER_SIZE

Read == {w.request : w \in {x \in Wire : IsPrefix(x.bytes, got)}}

(* A request that was read gets the answer it deserves, however its bytes  *)
(* were cut up and whatever this object was used for before                *)
(* (http_conn.cpp:172-510, 649-714).  Of a name or password that ends,     *)
(* sent as it is, like an escape cut short, the last character does not    *)
(* count (417-422, 433), and of one called "passwd", as the comment at 453 *)
(* has it, the first two do not (462).  Two are not spoken of: an empty    *)
(* file, whose answer is followed by that to a sign_in (649-714), and a    *)
(* name or password too long for its array (454-465).                      *)
AnswersRequest ==
    Sending => \A r \in Read : EmptyFile(r) \/ Overruns(r) \/ Response = Answer(r)

(* m_read_idx counts the bytes that were read, whatever parse_content      *)
(* stores behind the body (http_conn.cpp:332).                             *)
IndexIsTrue == m_read_idx = Len(got)

(* The parser does not wait for bytes of a request it has got all of, but  *)
(* when process_read has seen a part of its body, which parse_line then    *)
(* counted as checked (http_conn.cpp:331, 347-348); a bare LF makes a line *)
(* that is never answered (http_conn.cpp:190, 382).                        *)
NothingWaits ==
    pc = "in" => torn \/ \A r \in Read : ~WellFormed(r)

(* The client has the first bytes of the response, in order and without a  *)
(* gap, and at the end all of them, unless writev stopped twice inside the *)
(* write buffer: then write() has cut its length by too much               *)
(* (http_conn.cpp:542-551).                                                *)
SentInOrder ==
    Sending /\ headCuts < 2 =>
        /\ Len(out) = bytes_have_send
        /\ \A i \in 1 .. Len(out) : out[i] = Expected(i)
        /\ bytes_have_send + bytes_to_send
             = m_write_idx + (IF m_iv_count = 2 THEN m_file_stat ELSE 0)
        /\ Vector = bytes_to_send

(* A file stays mapped only while its response is under way, every mapping *)
(* has a pointer to it and is given back with the length it was made with, *)
(* unless a client hung up before its answer was sent: then nobody unmaps  *)
(* (http_conn.cpp:506, 515-520, webserver.cpp:327-331).                    *)
Mapped == m_file_address \notin {NULL, MAP_FAILED}

MapsBalance ==
    abandoned \/ /\ lost = 0
                 /\ m_file_address # NULL => pc \in {"respond", "out", "write"}
                 /\ Mapped => m_file_stat = DocRoot[m_file_address].size

(* A client that has sent its request and waits gets the whole answer or   *)
(* hangs up, with the exceptions above (http_conn.cpp:720-731).            *)
Answered ==
    (waiting # NoRequest /\ todo = <<>>) ~>
        \/ waiting = NoRequest \/ ~present
        \/ torn \/ headCuts >= 2 \/ ~WellFormed(waiting) \/ ~Fits(waiting)
        \/ Overruns(waiting)
=============================================================================
