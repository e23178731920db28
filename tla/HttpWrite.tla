------------------------------- MODULE HttpWrite -------------------------------
(***************************************************************************)
(* The writing half of http_conn: the response process_write lays out and  *)
(* the writev() calls that send it.  The write buffer holds one element    *)
(* per add_response call, and an element is what writev counts: a byte of  *)
(* the code is an element here.  Every response the code can build is far  *)
(* smaller than WRITE_BUFFER_SIZE, so that add_response does not fail.     *)
(***************************************************************************)
EXTENDS Integers, Sequences

VARIABLES
    m_write_buf,      (* the m_write_idx elements written since init()     *)
    m_json,           (* the text of the last sign_in answer, as elements  *)
    m_file_stat,      (* st_size of the last file stat() found             *)
    m_file_address,   (* the path of the file mapped there, or NULL        *)
    m_iv,             (* the two iovecs                                    *)
    m_iv_count,
    bytes_to_send,
    bytes_have_send,
    out,              (* history: what the client got of the response      *)
    headCuts          (* history: the writev calls that stopped inside the *)
                      (* write buffer                                      *)

writeVars == <<m_write_buf, m_json, m_file_stat, m_file_address, m_iv, m_iv_count,
               bytes_to_send, bytes_have_send, out, headCuts>>

NULL       == <<>>
MAP_FAILED == <<0>>

m_write_idx == Len(m_write_buf)

Element == [field : {"status", "length", "linger", "blank", "body"}, value : Nat]

(* An iovec: an offset into the write buffer or the file, and a length.    *)
Iovec == [iov_base : Int, iov_len : Nat]

(* A byte of the response: where it comes from. *)
Byte == [of : {"buf", "file"}, at : Int]

WriteTypeOK ==
    /\ m_write_buf \in Seq(Element)
    /\ m_json \in Seq(Element)
    /\ m_file_stat \in Nat
    /\ m_file_address \in Seq(Nat)
    /\ m_iv \in [{0, 1} -> Iovec]
    /\ m_iv_count \in {1, 2}
    /\ bytes_to_send \in Int
    /\ bytes_have_send \in Nat
    /\ out \in Seq(Byte)
    /\ headCuts \in Nat

(* The arrays are not initialised and not read before they are written,    *)
(* but for m_json, which starts in fresh pages of the heap.                *)
WriteInit ==
    /\ m_write_buf = <<>>
    /\ m_json = <<>>
    /\ m_file_stat = 0
    /\ m_file_address = NULL
    /\ m_iv = [i \in {0, 1} |-> [iov_base |-> 0, iov_len |-> 0]]
    /\ m_iv_count = 1
    /\ bytes_to_send = 0
    /\ bytes_have_send = 0
    /\ out = <<>>
    /\ headCuts = 0

(* init(): the half of it that is about writing. *)
WriteReset ==
    /\ m_write_buf' = <<>>
    /\ bytes_to_send' = 0
    /\ bytes_have_send' = 0
    /\ out' = <<>> /\ headCuts' = 0
-----------------------------------------------------------------------------
(* process_write.                                                          *)

(* add_status_line, add_headers and add_content, with the length that      *)
(* add_headers announces.                                                  *)
Lines(status, length, linger, content) ==
    <<[field |-> "status", value |-> status], [field |-> "length", value |-> length],
      [field |-> "linger", value |-> IF linger THEN 1 ELSE 0],
      [field |-> "blank", value |-> 0]>> \o content

Text1(id) == <<[field |-> "body", value |-> id]>>

Status(ret) ==
    CASE ret = "BAD_REQUEST"       -> 400
      [] ret = "NO_RESOURCE"       -> 404
      [] ret = "FORBIDDEN_REQUEST" -> 403
      [] OTHER                     -> 200

ErrorCodes == {"BAD_REQUEST", "NO_RESOURCE", "FORBIDDEN_REQUEST"}

(* What process_write appends to the write buffer.  The empty file's case  *)
(* runs on into the next one, the answer to a sign_in.                     *)
Added(ret, linger) ==
    IF ret \in ErrorCodes
    THEN Lines(Status(ret), 1, linger, Text1(Status(ret)))
    ELSE IF ret = "FILE_REQUEST" /\ m_file_stat # 0
    THEN Lines(200, m_file_stat, linger, <<>>)
    ELSE (IF ret = "FILE_REQUEST" THEN Lines(200, 1, linger, Text1(200)) ELSE <<>>)
         \o Lines(200, Len(m_json), linger, m_json)

(* The iovecs are set up for the write buffer and, after it, a file.       *)
ProcessWrite(ret, linger) ==
    LET buf == m_write_buf \o Added(ret, linger)
        file == ret = "FILE_REQUEST" /\ m_file_stat # 0
    IN /\ m_write_buf' = buf
       /\ m_iv' = [i \in {0, 1} |->
                     IF i = 0 THEN [iov_base |-> 0, iov_len |-> Len(buf)]
                     ELSE IF file THEN [iov_base |-> 0, iov_len |-> m_file_stat]
                     ELSE m_iv[1]]
       /\ m_iv_count' = IF file THEN 2 ELSE 1
       /\ bytes_to_send' = IF file THEN Len(buf) + m_file_stat ELSE Len(buf)
       /\ UNCHANGED <<m_json, m_file_stat, m_file_address, bytes_have_send, out,
                      headCuts>>
-----------------------------------------------------------------------------
(* write().                                                                *)

(* What the iovecs describe, as a whole and byte by byte. *)
Vector == m_iv[0].iov_len + (IF m_iv_count = 2 THEN m_iv[1].iov_len ELSE 0)

VectorByte(i) ==
    IF i <= m_iv[0].iov_len
    THEN [of |-> "buf", at |-> m_iv[0].iov_base + i - 1]
    ELSE [of |-> "file", at |-> m_iv[1].iov_base + i - m_iv[0].iov_len - 1]

AdvanceAlwaysCuts(t) ==
    /\ out' = out \o [i \in 1 .. t |-> VectorByte(i)]
    /\ bytes_have_send' = bytes_have_send + t
    /\ bytes_to_send' = bytes_to_send - t
    /\ headCuts' = IF bytes_have_send + t < m_write_idx THEN headCuts + 1 ELSE headCuts
    /\ m_iv' = [m_iv EXCEPT ![0] = [iov_base |-> bytes_have_send + t,
                                    iov_len |-> @.iov_len - (bytes_have_send + t)]]

AdvanceKeepsFile(t) ==
    /\ out' = out \o [i \in 1 .. t |-> VectorByte(i)]
    /\ bytes_have_send' = bytes_have_send + t
    /\ bytes_to_send' = bytes_to_send - t
    /\ headCuts' = IF bytes_have_send + t < m_write_idx THEN headCuts + 1 ELSE headCuts
    /\ m_iv' = IF bytes_have_send + t >= m_iv[0].iov_len
               THEN [m_iv EXCEPT ![0] = [iov_base |-> @.iov_base, iov_len |-> 0],
                                 ![1] = [iov_base |-> @.iov_base,
                                         iov_len |-> bytes_to_send - t]]
               ELSE [m_iv EXCEPT ![0] = [iov_base |-> bytes_have_send + t,
                                         iov_len |-> @.iov_len - (bytes_have_send + t)]]

(* writev() took t bytes.  When some of the write buffer is left its base  *)
(* is set from the beginning, but its length is cut by all that has been   *)
(* sent, not by what this call sent.                                       *)
Advance(t) ==
    /\ out' = out \o [i \in 1 .. t |-> VectorByte(i)]
    /\ bytes_have_send' = bytes_have_send + t
    /\ bytes_to_send' = bytes_to_send - t
    /\ headCuts' = IF bytes_have_send + t < m_write_idx THEN headCuts + 1 ELSE headCuts
    /\ m_iv' = IF bytes_have_send + t >= m_iv[0].iov_len
               THEN [m_iv EXCEPT ![0] = [iov_base |-> @.iov_base, iov_len |-> 0],
                                 ![1] = [iov_base |-> bytes_have_send + t - m_write_idx,
                                         iov_len |-> bytes_to_send - t]]
               ELSE [m_iv EXCEPT ![0] = [iov_base |-> bytes_have_send + t,
                                         iov_len |-> @.iov_len - (bytes_have_send + t)]]

(* unmap(). *)
Unmap == m_file_address' = NULL

(* The i-th byte of the response, whatever the iovecs say of it. *)
Expected(i) ==
    IF i <= m_write_idx THEN [of |-> "buf", at |-> i - 1]
    ELSE [of |-> "file", at |-> i - m_write_idx - 1]
=============================================================================
