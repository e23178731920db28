------------------------------ MODULE HttpProofs ------------------------------
(***************************************************************************)
(* Theorems about HttpExchange, for every set of requests, document root,  *)
(* user table and buffer size.  First the writing half: what write() sends *)
(* and what becomes of the mapped files (IInv).  Then the types (TypeInv)  *)
(* and what the parser and do_request make of the bytes, however they are  *)
(* cut (ReadingInv), from the facts about texts of HttpTextProofs.         *)
(***************************************************************************)
EXTENDS HttpExchange, HttpTextProofs, TLAPS

(* The part of TypeOK the argument needs. *)
Typed ==
    /\ m_write_buf \in Seq(Element)
    /\ m_json \in Seq(Element)
    /\ m_file_stat \in Nat
    /\ m_iv \in [{0, 1} -> [iov_base : Int, iov_len : Int]]
    /\ m_iv_count \in {1, 2}
    /\ bytes_to_send \in Int
    /\ bytes_have_send \in Nat
    /\ out \in Seq(Byte)
    /\ headCuts \in Nat

FileSize == IF m_iv_count = 2 THEN m_file_stat ELSE 0

(* Nothing of a response has been sent before there is one. *)
Fresh ==
    pc \in {"in", "parse", "request", "respond"} =>
        bytes_have_send = 0 /\ out = <<>> /\ headCuts = 0

(* The iovecs as long as write() has not cut the first one twice: either   *)
(* they start where the client's bytes end in the write buffer, or the     *)
(* buffer is sent and the second starts there in the file.                 *)
Cut ==
    Sending /\ headCuts < 2 =>
        /\ bytes_have_send + bytes_to_send = m_write_idx + FileSize
        /\ 0 <= bytes_to_send
        /\ \/ /\ bytes_have_send < m_write_idx
              /\ headCuts = 0 => bytes_have_send = 0
              /\ m_iv[0].iov_base = bytes_have_send
              /\ m_iv[0].iov_len = m_write_idx - bytes_have_send
              /\ m_iv_count = 2 => m_iv[1].iov_base = 0 /\ m_iv[1].iov_len = m_file_stat
           \/ /\ bytes_have_send >= m_write_idx
              /\ m_iv[0].iov_len = 0
              /\ m_iv_count = 2 => /\ m_iv[1].iov_base = bytes_have_send - m_write_idx
                                   /\ m_iv[1].iov_len = bytes_to_send

(* The client has what was sent. *)
Got ==
    Sending /\ headCuts < 2 =>
        /\ Len(out) = bytes_have_send
        /\ \A i \in 1 .. Len(out) : out[i] = Expected(i)

(* An event loop that waits to send has something to send. *)
Pending == pc = "out" => bytes_to_send > 0

IInv == Typed /\ Fresh /\ Cut /\ Got /\ Pending /\ MapsBalance
-----------------------------------------------------------------------------
(* What process_write adds is never nothing.                               *)
LEMMA AddedIs ==
    ASSUME m_json \in Seq(Element), m_file_stat \in Nat, NEW r, NEW l
    PROVE  Added(r, l) \in Seq(Element) /\ Len(Added(r, l)) > 0
<1>1. ASSUME NEW s \in Nat, NEW n \in Nat, NEW c \in Seq(Element)
      PROVE  Lines(s, n, l, c) \in Seq(Element) /\ Len(Lines(s, n, l, c)) > 0
  <2> DEFINE head == <<[field |-> "status", value |-> s], [field |-> "length", value |-> n],
                       [field |-> "linger", value |-> IF l THEN 1 ELSE 0],
                       [field |-> "blank", value |-> 0]>>
  <2>1. head \in Seq(Element) /\ Len(head) = 4
    BY DEF Element
  <2>2. head \o c \in Seq(Element) /\ Len(head \o c) = 4 + Len(c) /\ Len(c) \in Nat
    BY <2>1
  <2>3. Lines(s, n, l, c) = head \o c
    BY DEF Lines
  <2> QED
    BY <2>2, <2>3
<1>2. \A n \in Nat : Text1(n) \in Seq(Element) /\ Len(Text1(n)) = 1
  BY DEF Text1, Element
<1>3. Status(r) \in Nat
  BY DEF Status
<1>4. Len(m_json) \in Nat /\ <<>> \in Seq(Element) /\ Len(<<>>) = 0
  OBVIOUS
<1>5. /\ Lines(Status(r), 1, l, Text1(Status(r))) \in Seq(Element)
      /\ Len(Lines(Status(r), 1, l, Text1(Status(r)))) > 0
  BY <1>1, <1>2, <1>3
<1>6. Lines(200, m_file_stat, l, <<>>) \in Seq(Element) /\ Len(Lines(200, m_file_stat, l, <<>>)) > 0
  BY <1>1, <1>4
<1>7. Lines(200, 1, l, Text1(200)) \in Seq(Element) /\ Len(Lines(200, 1, l, Text1(200))) > 0
  BY <1>1, <1>2
<1>8. /\ Lines(200, Len(m_json), l, m_json) \in Seq(Element)
      /\ Len(Lines(200, Len(m_json), l, m_json)) > 0
  BY <1>1, <1>4
<1> QED
  BY <1>5, <1>6, <1>7, <1>8 DEF Added

LEMMA InitInv == Init => IInv
  BY DEF Init, WriteInit, IInv, Typed, Fresh, Cut, Got, Pending, MapsBalance, Mapped,
         Sending, NULL

(* Reading, parsing and waiting. *)
LEMMA QuietKeeps ==
    ASSUME IInv, UNCHANGED writeVars, UNCHANGED lost,
           \/ pc' = pc
           \/ /\ pc \in {"in", "parse", "request"}
              /\ pc' \in {"in", "parse", "request", "respond", "closed"}
           \/ pc \in {"out", "write"} /\ pc' \in {"out", "write"}
           \/ pc = "out" /\ pc' = "closed" /\ abandoned',
           pc' = "out" => bytes_to_send > 0,
           abandoned => abandoned'
    PROVE  IInv'
<1>1. UNCHANGED <<m_write_buf, m_json, m_file_stat, m_file_address, m_iv, m_iv_count,
                 bytes_to_send, bytes_have_send, out, headCuts>>
  BY DEF writeVars
<1>2. Typed' /\ Fresh' /\ Pending'
  BY <1>1 DEF IInv, Typed, Fresh, Pending
<1>3. Cut' /\ Got'
  BY <1>1 DEF IInv, Cut, Got, Sending, FileSize, m_write_idx, Expected
<1>4. MapsBalance'
  <2>1. SUFFICES ASSUME ~abandoned' PROVE MapsBalance'
    BY DEF MapsBalance
  <2>2. MapsBalance /\ ~abandoned
    BY <2>1 DEF IInv
  <2> QED
    BY <1>1, <2>1, <2>2 DEF MapsBalance, Mapped
<1> QED
  BY <1>2, <1>3, <1>4 DEF IInv

(* process(): the answer is looked for ... *)
LEMMA RequestKeeps ==
    ASSUME IInv, SignIn \/ SignInOverruns \/ GetFile PROVE IInv'
<1>1. /\ pc = "request" /\ pc' \in {"respond", "aborted"}
      /\ pc' = "aborted" => UNCHANGED m_file_address
      /\ UNCHANGED <<m_write_buf, m_iv, m_iv_count, bytes_to_send, bytes_have_send, out,
                     headCuts, abandoned>>
  BY DEF SignIn, SignInOverruns, GetFile, historyVars
<1>2. m_file_stat' \in Nat /\ m_json' \in Seq(Element)
  <2>1. CASE SignIn
    <3>1. LoginText(LoggedIn) \in Seq(Element)
      BY DEF LoginText, Text1, Element
    <3> QED
      BY <2>1, <3>1 DEF SignIn, IInv, Typed
  <2>3. CASE SignInOverruns
    <3>1. \A success \in BOOLEAN : LoginText(success) \in Seq(Element)
      BY DEF LoginText, Text1, Element
    <3> QED
      BY <2>3, <3>1 DEF SignInOverruns, IInv, Typed
  <2>2. CASE GetFile
    BY <2>2, HttpExchangeAssumption DEF GetFile, HttpExchangeAssumption, IInv, Typed
  <2> QED
    BY <2>1, <2>2, <2>3
<1>3. MapsBalance'
  <2>1. SUFFICES ASSUME ~abandoned PROVE MapsBalance'
    BY <1>1 DEF MapsBalance
  <2>2. lost = 0 /\ m_file_address = NULL
    BY <1>1, <2>1 DEF IInv, MapsBalance
  <2>3. CASE SignIn \/ SignInOverruns
    BY <1>1, <2>2, <2>3 DEF SignIn, SignInOverruns, historyVars, MapsBalance, Mapped
  <2>4. CASE GetFile
    <3>1. CASE ret' = "FILE_REQUEST"
      <4>1. /\ RealFile \in DOMAIN DocRoot
            /\ m_file_stat' = DocRoot[RealFile].size
            /\ m_file_address' = IF m_file_stat' = 0 THEN MAP_FAILED ELSE RealFile
            /\ lost' = lost
        BY <2>2, <2>4, <3>1 DEF GetFile
      <4>2. MapsBalance'
        BY <1>1, <2>2, <4>1 DEF MapsBalance, Mapped
      <4> QED
        BY <4>2
    <3>2. CASE ret' # "FILE_REQUEST"
      BY <1>1, <2>2, <2>4, <3>2 DEF GetFile, MapsBalance, Mapped
    <3> QED
      BY <3>1, <3>2
  <2> QED
    BY <2>3, <2>4
<1> QED
  BY <1>1, <1>2, <1>3 DEF IInv, Typed, Fresh, Cut, Got, Pending, Sending

(* ... and laid out. *)
LEMMA RespondKeeps == ASSUME IInv, Respond PROVE IInv'
<1> DEFINE added == Added(ret, m_linger)
           buf == m_write_buf \o added
           file == ret = "FILE_REQUEST" /\ m_file_stat # 0
<1>1. /\ pc = "respond" /\ pc' = "out"
      /\ m_write_buf' = buf
      /\ m_iv' = [i \in {0, 1} |->
                     IF i = 0 THEN [iov_base |-> 0, iov_len |-> Len(buf)]
                     ELSE IF file THEN [iov_base |-> 0, iov_len |-> m_file_stat]
                     ELSE m_iv[1]]
      /\ m_iv_count' = IF file THEN 2 ELSE 1
      /\ bytes_to_send' = IF file THEN Len(buf) + m_file_stat ELSE Len(buf)
      /\ UNCHANGED <<m_json, m_file_stat, m_file_address, bytes_have_send, out, headCuts,
                     lost, abandoned>>
  BY DEF Respond, ProcessWrite, historyVars
<1>2. bytes_have_send = 0 /\ out = <<>> /\ headCuts = 0
  BY <1>1 DEF IInv, Fresh
<1>3. buf \in Seq(Element) /\ Len(buf) \in Nat \ {0}
  <2>1. added \in Seq(Element) /\ Len(added) > 0
    BY AddedIs DEF IInv, Typed
  <2> QED
    BY <2>1 DEF IInv, Typed
<1> HIDE DEF added, buf
<1>4. Typed'
  BY <1>1, <1>3 DEF IInv, Typed
<1>5. Pending' /\ Fresh'
  BY <1>1, <1>3 DEF IInv, Typed, Pending, Fresh
<1>6. Cut'
  <2>1. /\ m_write_idx' = Len(buf)
        /\ FileSize' = IF file THEN m_file_stat ELSE 0
        /\ m_file_stat \in Nat
    BY <1>1 DEF IInv, Typed, FileSize, m_write_idx
  <2>2. /\ m_iv'[0].iov_base = 0 /\ m_iv'[0].iov_len = Len(buf)
        /\ m_iv_count' = 2 => m_iv'[1].iov_base = 0 /\ m_iv'[1].iov_len = m_file_stat
    BY <1>1
  <2>3. /\ bytes_have_send' = 0 /\ 0 < m_write_idx' /\ 0 <= bytes_to_send'
        /\ 0 + bytes_to_send' = m_write_idx' + FileSize'
        /\ m_iv'[0].iov_len = m_write_idx' - 0
    BY <1>1, <1>2, <1>3, <2>1, <2>2
  <2> QED
    BY <1>1, <2>2, <2>3 DEF Cut
<1>7. Got'
  BY <1>1, <1>2 DEF Got
<1>8. MapsBalance'
  BY <1>1 DEF IInv, MapsBalance, Mapped
<1> QED
  BY <1>4, <1>5, <1>6, <1>7, <1>8 DEF IInv

(* init(), and the end of a connection. *)
LEMMA EndKeeps == ASSUME IInv, Accept \/ WriteError \/ WriteDone PROVE IInv'
<1>1. UNCHANGED <<m_json, m_file_stat, m_iv, m_iv_count, abandoned, lost>>
  BY DEF Accept, WriteError, WriteDone, historyVars
<1>2. \/ /\ pc' = "in" /\ WriteReset
      \/ /\ pc' = "closed"
         /\ UNCHANGED <<m_write_buf, bytes_to_send, bytes_have_send, out, headCuts>>
  BY DEF Accept, WriteError, WriteDone
<1>3. m_file_address' = NULL \/ (pc = "closed" /\ m_file_address' = m_file_address)
  BY DEF Accept, WriteError, WriteDone, Unmap
<1>4. Typed'
  <2>1. /\ m_write_buf' \in Seq(Element) /\ out' \in Seq(Byte)
        /\ bytes_to_send' \in Int /\ bytes_have_send' \in Nat /\ headCuts' \in Nat
    <3>1. CASE WriteReset
      BY <3>1 DEF WriteReset
    <3>2. CASE UNCHANGED <<m_write_buf, bytes_to_send, bytes_have_send, out, headCuts>>
      BY <3>2 DEF IInv, Typed
    <3> QED
      BY <1>2, <3>1, <3>2
  <2> QED
    BY <1>1, <2>1 DEF IInv, Typed
<1>7. Fresh'
  BY <1>2 DEF Fresh, WriteReset
<1>5. Cut' /\ Got' /\ Pending'
  BY <1>2 DEF Cut, Got, Pending, Sending
<1>6. MapsBalance'
  BY <1>1, <1>2, <1>3 DEF IInv, MapsBalance, Mapped
<1> QED
  BY <1>4, <1>5, <1>6, <1>7 DEF IInv

(* What is left to send is what the iovecs describe. *)
LEMMA VectorIs ==
    ASSUME Typed, Cut, Sending, headCuts < 2 PROVE Vector = bytes_to_send
<1>1. /\ m_iv[0].iov_len \in Int /\ m_iv[1].iov_len \in Int /\ m_write_idx \in Nat
      /\ m_file_stat \in Nat /\ bytes_have_send \in Nat /\ bytes_to_send \in Int
      /\ m_iv_count \in {1, 2}
  BY DEF Typed, m_write_idx
<1>2. bytes_have_send + bytes_to_send = m_write_idx + FileSize /\ 0 <= bytes_to_send
  BY DEF Cut
<1>3. CASE bytes_have_send < m_write_idx
  <2>1. /\ m_iv[0].iov_len = m_write_idx - bytes_have_send
        /\ m_iv_count = 2 => m_iv[1].iov_len = m_file_stat
    BY <1>1, <1>3 DEF Cut
  <2> QED
    BY <1>1, <1>2, <2>1 DEF Vector, FileSize
<1>4. CASE bytes_have_send >= m_write_idx
  <2>1. m_iv[0].iov_len = 0 /\ (m_iv_count = 2 => m_iv[1].iov_len = bytes_to_send)
    BY <1>1, <1>4 DEF Cut
  <2> QED
    BY <1>1, <1>2, <1>4, <2>1 DEF Vector, FileSize
<1> QED
  BY <1>1, <1>3, <1>4

(* writev(). *)
LEMMA WritevKeeps ==
    ASSUME IInv, NEW t \in 1 .. Vector, Writev(t) PROVE IInv'
<1> DEFINE have == bytes_have_send + t
           send == bytes_to_send - t
           sent == [i \in 1 .. t |-> VectorByte(i)]
<1>1. /\ pc = "write" /\ pc' = "write" /\ bytes_to_send > 0
      /\ out' = out \o sent
      /\ bytes_have_send' = have /\ bytes_to_send' = send
      /\ headCuts' = IF have < m_write_idx THEN headCuts + 1 ELSE headCuts
      /\ UNCHANGED <<m_write_buf, m_json, m_file_stat, m_file_address, m_iv_count, lost,
                     abandoned>>
  BY DEF Writev, Advance, historyVars
<1>2. /\ m_write_idx \in Nat /\ m_file_stat \in Nat /\ m_iv_count \in {1, 2}
      /\ bytes_to_send \in Int /\ bytes_have_send \in Nat /\ headCuts \in Nat
      /\ m_iv[0] \in [iov_base : Int, iov_len : Int]
      /\ m_iv[1] \in [iov_base : Int, iov_len : Int]
      /\ m_iv \in [{0, 1} -> [iov_base : Int, iov_len : Int]]
      /\ out \in Seq(Byte)
  BY DEF IInv, Typed, m_write_idx
<1>3. Vector \in Int /\ t \in Nat \ {0} /\ have \in Nat /\ send \in Int
  BY <1>2 DEF Vector
<1>4. sent \in Seq(Byte) /\ Len(sent) = t /\ \A k \in 1 .. t : sent[k] = VectorByte(k)
  <2>1. \A k \in 1 .. t : VectorByte(k) \in Byte
    BY <1>2, <1>3 DEF VectorByte, Byte
  <2> QED
    BY <1>3, <2>1
<1>5. /\ m_iv'[0] = [iov_base |-> IF have >= m_iv[0].iov_len THEN m_iv[0].iov_base ELSE have,
                     iov_len |-> IF have >= m_iv[0].iov_len THEN 0 ELSE m_iv[0].iov_len - have]
      /\ m_iv'[1] = IF have >= m_iv[0].iov_len
                    THEN [iov_base |-> have - m_write_idx, iov_len |-> send] ELSE m_iv[1]
      /\ m_iv' \in [{0, 1} -> [iov_base : Int, iov_len : Int]]
  <2>1. Advance(t)
    BY DEF Writev
  <2>2. CASE have >= m_iv[0].iov_len
    <3>1. m_iv' = [m_iv EXCEPT ![0] = [iov_base |-> @.iov_base, iov_len |-> 0],
                               ![1] = [iov_base |-> have - m_write_idx, iov_len |-> send]]
      BY <1>2, <1>3, <2>1, <2>2 DEF Advance
    <3> QED
      BY <1>2, <1>3, <2>2, <3>1
  <2>3. CASE ~(have >= m_iv[0].iov_len)
    <3>1. m_iv' = [m_iv EXCEPT ![0] = [iov_base |-> have, iov_len |-> @.iov_len - have]]
      BY <2>1, <2>3 DEF Advance
    <3> QED
      BY <1>2, <1>3, <2>3, <3>1
  <2> QED
    BY <2>2, <2>3
<1>6. Typed'
  BY <1>1, <1>2, <1>3, <1>4, <1>5 DEF IInv, Typed
<1>7. ASSUME headCuts' < 2
      PROVE  /\ headCuts < 2 /\ Sending
             /\ bytes_have_send + bytes_to_send = m_write_idx + FileSize
             /\ Vector = bytes_to_send
  <2>1. headCuts < 2 /\ Sending
    BY <1>1, <1>2, <1>7 DEF Sending
  <2>2. bytes_have_send + bytes_to_send = m_write_idx + FileSize
    BY <2>1 DEF IInv, Cut
  <2> QED
    BY <1>2, <2>1, <2>2, VectorIs DEF IInv
<1>8. Cut'
  <2>1. SUFFICES ASSUME headCuts' < 2
                 PROVE  /\ have + send = m_write_idx + FileSize
                        /\ 0 <= send
                        /\ \/ /\ have < m_write_idx
                              /\ headCuts' = 0 => have = 0
                              /\ m_iv'[0].iov_base = have
                              /\ m_iv'[0].iov_len = m_write_idx - have
                              /\ m_iv_count = 2 => m_iv'[1].iov_base = 0 /\ m_iv'[1].iov_len = m_file_stat
                           \/ /\ have >= m_write_idx
                              /\ m_iv'[0].iov_len = 0
                              /\ m_iv_count = 2 => /\ m_iv'[1].iov_base = have - m_write_idx
                                                   /\ m_iv'[1].iov_len = send
    BY <1>1 DEF Cut, FileSize, m_write_idx
  <2>2. have + send = m_write_idx + FileSize /\ 0 <= send
    BY <1>2, <1>3, <1>7, <2>1 DEF FileSize
  <2>3. CASE bytes_have_send < m_write_idx
    <3>1. /\ headCuts = 0 => bytes_have_send = 0
          /\ m_iv[0].iov_len = m_write_idx - bytes_have_send
          /\ m_iv_count = 2 => m_iv[1].iov_base = 0 /\ m_iv[1].iov_len = m_file_stat
      BY <1>2, <1>7, <2>1, <2>3 DEF IInv, Cut
    <3>2. CASE have >= m_write_idx
      BY <1>2, <1>3, <1>5, <2>2, <3>1, <3>2
    <3>3. CASE have < m_write_idx
      <4>1. headCuts = 0 /\ headCuts' = 1 /\ bytes_have_send = 0
        BY <1>1, <1>2, <2>1, <3>1, <3>3
      <4> QED
        BY <1>2, <1>3, <1>5, <2>2, <3>1, <3>3, <4>1
    <3> QED
      BY <1>2, <1>3, <3>2, <3>3
  <2>4. CASE bytes_have_send >= m_write_idx
    <3>1. m_iv[0].iov_len = 0
      BY <1>2, <1>7, <2>1, <2>4 DEF IInv, Cut
    <3> QED
      BY <1>2, <1>3, <1>5, <2>2, <2>4, <3>1
  <2> QED
    BY <1>2, <2>3, <2>4
<1>9. Got'
  <2>1. SUFFICES ASSUME headCuts' < 2
                 PROVE  /\ Len(out') = have
                        /\ \A k \in 1 .. have : out'[k] = Expected(k)
    BY <1>1 DEF Got, Expected, m_write_idx
  <2>2. /\ Len(out) = bytes_have_send
        /\ \A k \in 1 .. bytes_have_send : out[k] = Expected(k)
    BY <1>7, <2>1 DEF IInv, Got
  <2>3. Len(out') = have
    <3>1. Len(out \o sent) = Len(out) + Len(sent)
      BY <1>2, <1>4
    <3> QED
      BY <1>1, <1>4, <2>2, <3>1
  <2>4. ASSUME NEW k \in 1 .. have PROVE out'[k] = Expected(k)
    <3>1. CASE k <= bytes_have_send
      <4>1. out'[k] = out[k]
        BY <1>1, <1>2, <1>3, <1>4, <2>2, <3>1
      <4> QED
        BY <1>2, <1>3, <2>2, <3>1, <4>1
    <3>2. CASE k > bytes_have_send
      <4> DEFINE p == k - bytes_have_send
      <4>1. p \in 1 .. t /\ out'[k] = VectorByte(p)
        <5>1. p \in 1 .. t
          BY <1>2, <1>3, <3>2
        <5>2. out'[k] = sent[k - Len(out)]
          <6>1. k \in Len(out) + 1 .. Len(out) + Len(sent)
            BY <1>2, <1>3, <1>4, <2>2, <3>2
          <6> QED
            BY <1>1, <1>2, <1>4, <6>1
        <5> QED
          BY <1>4, <2>2, <5>1, <5>2
      <4>2. p <= Vector
        BY <1>3, <4>1
      <4>3. VectorByte(p) = Expected(k)
        <5>1. CASE bytes_have_send < m_write_idx
          <6>1. /\ m_iv[0].iov_base = bytes_have_send
                /\ m_iv[0].iov_len = m_write_idx - bytes_have_send
                /\ m_iv_count = 2 => m_iv[1].iov_base = 0
            BY <1>2, <1>7, <2>1, <5>1 DEF IInv, Cut
          <6>2. CASE k <= m_write_idx
            BY <1>2, <1>3, <4>1, <6>1, <6>2 DEF VectorByte, Expected
          <6>3. CASE k > m_write_idx
            <7>1. m_iv_count = 2
              BY <1>2, <4>1, <4>2, <6>1, <6>3 DEF Vector
            <7>2. p > m_iv[0].iov_len /\ p - m_iv[0].iov_len = k - m_write_idx
              BY <1>2, <1>3, <6>1, <6>3
            <7>3. VectorByte(p) = [of |-> "file", at |-> k - m_write_idx - 1]
              BY <1>2, <1>3, <4>1, <6>1, <7>1, <7>2 DEF VectorByte
            <7> QED
              BY <1>2, <1>3, <6>3, <7>3 DEF Expected
          <6> QED
            BY <1>2, <6>2, <6>3
        <5>2. CASE bytes_have_send >= m_write_idx
          <6>1. /\ m_iv[0].iov_len = 0
                /\ m_iv_count = 2 => m_iv[1].iov_base = bytes_have_send - m_write_idx
            BY <1>2, <1>7, <2>1, <5>2 DEF IInv, Cut
          <6>2. m_iv_count = 2 /\ k > m_write_idx
            BY <1>2, <4>1, <4>2, <5>2, <6>1 DEF Vector
          <6> QED
            BY <1>2, <1>3, <4>1, <6>1, <6>2 DEF VectorByte, Expected
        <5> QED
          BY <1>2, <5>1, <5>2
      <4> QED
        BY <4>1, <4>3
    <3> QED
      BY <1>2, <1>3, <3>1, <3>2
  <2> QED
    BY <2>3, <2>4
<1>10. Fresh' /\ Pending' /\ MapsBalance'
  BY <1>1 DEF IInv, Fresh, Pending, MapsBalance, Mapped
<1> QED
  BY <1>6, <1>8, <1>9, <1>10 DEF IInv

LEMMA NextKeeps == ASSUME IInv, [Next]_vars PROVE IInv'
<1>1. CASE ClientStep
  <2>1. pc' = pc /\ UNCHANGED <<writeVars, lost, abandoned>>
    BY <1>1 DEF ClientStep, Begin, SendBytes, Drain, HangUp, historyVars
  <2> QED
    BY <2>1, QuietKeeps DEF IInv, Pending
<1>2. CASE Accept \/ WriteError \/ WriteDone
  BY <1>2, EndKeeps
<1>3. CASE ReadOnce
  <2>1. pc = "in" /\ pc' \in {"parse", "closed"} /\ UNCHANGED <<writeVars, lost, abandoned>>
    BY <1>3 DEF ReadOnce
  <2> QED
    BY <2>1, QuietKeeps
<1>4. CASE CloseHup
  <2>1. /\ pc \in {"in", "out"} /\ pc' = "closed" /\ UNCHANGED <<writeVars, lost>>
        /\ abandoned => abandoned'
        /\ pc = "out" => abandoned'
    BY <1>4 DEF CloseHup, IInv, Pending
  <2> QED
    BY <2>1, QuietKeeps
<1>5. CASE ParseOn \/ ParseBad \/ ParseDone \/ ParseWaits
  <2>1. /\ pc = "parse" /\ pc' \in {"in", "parse", "request", "respond"}
        /\ UNCHANGED <<writeVars, lost, abandoned>>
    BY <1>5 DEF ParseOn, ParseBad, ParseDone, ParseWaits, historyVars
  <2> QED
    BY <2>1, QuietKeeps
<1>6. CASE SignIn \/ SignInOverruns \/ GetFile
  BY <1>6, RequestKeeps
<1>7. CASE Respond
  BY <1>7, RespondKeeps
<1>8. CASE WriteReady \/ WriteAgain
  <2>1. /\ pc \in {"out", "write"} /\ pc' \in {"out", "write"}
        /\ pc' = "out" => bytes_to_send > 0
        /\ UNCHANGED <<writeVars, lost, abandoned>>
    BY <1>8 DEF WriteReady, WriteAgain, historyVars
  <2> QED
    BY <2>1, QuietKeeps
<1>9. ASSUME NEW t \in 1 .. Vector, Writev(t) PROVE IInv'
  BY <1>9, WritevKeeps
<1>10. CASE UNCHANGED vars
  BY <1>10, QuietKeeps DEF vars, historyVars, IInv, Pending
<1> QED
  BY <1>1, <1>2, <1>3, <1>4, <1>5, <1>6, <1>7, <1>8, <1>9, <1>10 DEF Next, ServerStep
-----------------------------------------------------------------------------
(* The iovecs, the counters and the mapping are tied together as IInv says *)
(* (http_conn.cpp:442-563, 649-714).                                       *)
THEOREM Invariance == Spec => []IInv
<1>1. Init => IInv
  BY InitInv
<1>2. IInv /\ [Next]_vars => IInv'
  BY NextKeeps
<1> QED
  BY <1>1, <1>2, PTL DEF Spec

(* Whatever the response and however the socket takes it, the client gets  *)
(* its bytes in order, unless two calls of writev stop inside the write    *)
(* buffer (http_conn.cpp:525-563).                                         *)
THEOREM InOrder == Spec => []SentInOrder
<1>1. ASSUME IInv PROVE SentInOrder
  <2>1. SUFFICES ASSUME Sending, headCuts < 2
                 PROVE  /\ Len(out) = bytes_have_send
                        /\ \A i \in 1 .. Len(out) : out[i] = Expected(i)
                        /\ bytes_have_send + bytes_to_send
                             = m_write_idx + (IF m_iv_count = 2 THEN m_file_stat ELSE 0)
                        /\ Vector = bytes_to_send
    BY DEF SentInOrder
  <2>2. Vector = bytes_to_send
    BY <1>1, <2>1, VectorIs DEF IInv
  <2> QED
    BY <1>1, <2>1, <2>2 DEF IInv, Cut, Got, FileSize
<1>2. IInv => SentInOrder
  BY <1>1
<1> QED
  BY <1>2, Invariance, PTL

(* Every mapping of a file is given back, as long as no client hangs up    *)
(* before its answer is sent (http_conn.cpp:506, 515-520).                 *)
THEOREM MapsAreBalanced == Spec => []MapsBalance
<1>1. IInv => MapsBalance
  BY DEF IInv
<1> QED
  BY <1>1, Invariance, PTL
-----------------------------------------------------------------------------
(* The types, the room in the read buffer, and iovecs that never describe  *)
(* more than is left to send.                                              *)
TypeInv ==
    /\ TypeOK
    /\ m_start_line <= m_checked_idx
    /\ Sending => Vector <= bytes_to_send

(* The part of it that is about reading. *)
ReadInv == ReadTypeOK /\ m_start_line <= m_checked_idx

LEMMA IndicesAre ==
    ASSUME ReadInv
    PROVE  /\ m_read_idx \in Nat /\ m_checked_idx \in Nat /\ m_start_line \in Nat
           /\ m_start_line <= m_checked_idx /\ m_checked_idx <= m_read_idx
           /\ m_read_buf \in Seq(Nat) /\ Len(m_read_buf) = m_read_idx
           /\ \A i \in 1 .. m_read_idx : m_read_buf[i] \in Nat
           /\ m_read_idx <= READ_BUFFER_SIZE
<1>1. /\ m_read_buf \in Seq(Nat) /\ Len(m_read_buf) = m_read_idx
      /\ m_read_idx <= READ_BUFFER_SIZE
  BY DEF ReadInv, ReadTypeOK, m_read_idx
<1>2. m_read_idx \in Nat /\ \A i \in 1 .. m_read_idx : m_read_buf[i] \in Nat
  BY <1>1, LenProperties, ElementOfSeq
<1> HIDE DEF m_read_idx
<1>3. m_checked_idx \in 0 .. m_read_idx /\ m_start_line \in 0 .. m_read_idx
  BY DEF ReadInv, ReadTypeOK
<1> QED
  BY <1>1, <1>2, <1>3 DEF ReadInv

(* The NUL behind the body is stored in the buffer or, when the body ends  *)
(* with it, over the low byte of m_read_idx, which is zero then            *)
(* (http_conn.cpp:331-335).                                                *)
LEMMA ContentStores ==
    ASSUME ReadInv, Content
    PROVE  m_read_buf' = [i \in 1 .. m_read_idx |->
                             IF i = m_start_line + m_content_length + 1 THEN NUL
                             ELSE m_read_buf[i]]
<1>1. /\ m_read_idx \in Nat /\ m_checked_idx \in Nat /\ m_start_line \in Nat
      /\ m_start_line <= m_checked_idx /\ m_read_idx <= READ_BUFFER_SIZE
  BY IndicesAre
<1>2. m_content_length \in Nat
  BY DEF ReadInv, ReadTypeOK
<1>3. m_read_idx >= m_content_length + m_checked_idx
  BY DEF Content, BodyIsThere
<1>4. READ_BUFFER_SIZE % BYTE_VALUES = 0 /\ READ_BUFFER_SIZE \in Nat
  BY HttpReadAssumption
<1> HIDE DEF m_read_idx
<1>5. IndexLeft = m_read_idx
  <2>1. CASE Terminator <= READ_BUFFER_SIZE
    BY <2>1 DEF IndexLeft
  <2>2. CASE ~(Terminator <= READ_BUFFER_SIZE)
    <3>1. m_read_idx = READ_BUFFER_SIZE
      BY <1>1, <1>2, <1>3, <1>4, <2>2 DEF Terminator
    <3>2. m_read_idx % BYTE_VALUES = 0
      BY <1>4, <3>1
    <3>3. m_read_idx - (m_read_idx % BYTE_VALUES) = m_read_idx
      BY <1>1, <3>2
    <3> QED
      BY <2>2, <3>3 DEF IndexLeft
  <2> QED
    BY <2>1, <2>2
<1>6. Terminator = m_start_line + m_content_length + 1
  BY DEF Terminator
<1> QED
  BY <1>5, <1>6 DEF Content

(* parse_line looks at what is not checked yet, and no further than it has *)
(* been read.                                                              *)
LEMMA LineEndIs ==
    ASSUME ReadInv
    PROVE  \/ /\ LineEnd = 0
              /\ \A j \in m_checked_idx + 1 .. m_read_idx : m_read_buf[j] \notin {CR, LF}
           \/ /\ LineEnd \in m_checked_idx + 1 .. m_read_idx
              /\ m_read_buf[LineEnd] \in {CR, LF}
              /\ \A j \in m_checked_idx + 1 .. LineEnd - 1 : m_read_buf[j] \notin {CR, LF}
<1> DEFINE C == {CR, LF}  i == m_checked_idx + 1
<1>1. i \in Nat /\ Len(m_read_buf) \in Nat /\ Len(m_read_buf) = m_read_idx
  BY IndicesAre
<1>2. LineEnd = FirstOf(m_read_buf, i, C)
  BY DEF LineEnd
<1> HIDE DEF C, i
<1>3. \/ /\ LineEnd = 0
         /\ \A j \in i .. m_read_idx : m_read_buf[j] \notin C
      \/ /\ LineEnd \in i .. m_read_idx
         /\ m_read_buf[LineEnd] \in C
         /\ \A j \in i .. LineEnd - 1 : m_read_buf[j] \notin C
  BY <1>1, <1>2, FirstOfIs, Zenon
<1> QED
  BY <1>3, Zenon DEF C, i

(* A line that is over ends in two bytes that have been read. *)
LEMMA LineOverIs ==
    ASSUME ReadInv, LineStatus = "LINE_OK"
    PROVE  /\ CarriageReturn \in m_checked_idx .. m_read_idx - 1 /\ CarriageReturn > 0
           /\ LineOver => /\ m_read_buf' \in Seq(Nat) /\ m_read_idx' = m_read_idx
                          /\ \A i \in CarriageReturn + 2 .. m_read_idx :
                                m_read_buf'[i] = m_read_buf[i]
                          /\ lineStatus' = "LINE_OK"
                          /\ m_checked_idx' = CarriageReturn + 1
                          /\ m_start_line' = CarriageReturn + 1
           /\ \A text \in Line : text \in Seq(Nat)
<1> DEFINE end == LineEnd  cr == CarriageReturn
<1>1. /\ m_read_idx \in Nat /\ m_checked_idx \in Nat /\ m_start_line \in Nat
      /\ m_checked_idx <= m_read_idx /\ m_start_line <= m_checked_idx
      /\ m_read_buf \in Seq(Nat) /\ Len(m_read_buf) = m_read_idx
  BY IndicesAre
<1>2. /\ end # 0
      /\ IF m_read_buf[end] = LF
         THEN end - 1 > 1 /\ m_read_buf[end - 1] = CR
         ELSE end # m_read_idx /\ m_read_buf[end + 1] = LF
  BY DEF LineStatus
<1>3. end \in m_checked_idx + 1 .. m_read_idx /\ m_read_buf[end] \in {CR, LF}
  BY <1>2, LineEndIs
<1>4. cr = IF m_read_buf[end] = CR THEN end ELSE end - 1
  BY DEF CarriageReturn
<1> HIDE DEF end, cr, m_read_idx
<1>5. cr \in m_checked_idx .. m_read_idx - 1 /\ cr > 0
  <2>1. CR # LF
    BY DEF CR, LF
  <2>2. CASE m_read_buf[end] = LF
    BY <1>1, <1>2, <1>3, <1>4, <2>1, <2>2
  <2>3. CASE m_read_buf[end] = CR
    BY <1>1, <1>2, <1>3, <1>4, <2>1, <2>3
  <2> QED
    BY <1>3, <2>2, <2>3
<1>6. ASSUME LineOver
      PROVE  /\ m_read_buf' \in Seq(Nat) /\ m_read_idx' = m_read_idx
             /\ \A i \in cr + 2 .. m_read_idx : m_read_buf'[i] = m_read_buf[i]
             /\ lineStatus' = "LINE_OK"
             /\ m_checked_idx' = cr + 1 /\ m_start_line' = cr + 1
  <2>1. /\ m_read_buf' = [m_read_buf EXCEPT ![cr] = NUL, ![cr + 1] = NUL]
        /\ lineStatus' = "LINE_OK" /\ m_checked_idx' = cr + 1 /\ m_start_line' = cr + 1
    BY <1>6 DEF LineOver, cr
  <2>2. m_read_buf' \in Seq(Nat) /\ Len(m_read_buf') = Len(m_read_buf)
    <3> DEFINE b == [m_read_buf EXCEPT ![cr] = NUL]
    <3>1. NUL \in Nat /\ cr \in 1 .. Len(m_read_buf) /\ cr + 1 \in 1 .. Len(m_read_buf)
      BY <1>1, <1>5 DEF NUL
    <3>2. b \in Seq(Nat) /\ Len(b) = Len(m_read_buf)
      BY <1>1, <3>1, ExceptSeq
    <3>3. m_read_buf' = [b EXCEPT ![cr + 1] = NUL]
      BY <2>1
    <3> HIDE DEF b
    <3>4. m_read_buf' \in Seq(Nat) /\ Len(m_read_buf') = Len(b)
      BY <3>1, <3>2, <3>3, ExceptSeq
    <3> QED
      BY <3>2, <3>4
  <2>3. m_read_idx' = m_read_idx
    BY <1>1, <2>2 DEF m_read_idx
  <2>4. \A i \in cr + 2 .. m_read_idx : m_read_buf'[i] = m_read_buf[i]
    BY <1>1, <1>5, <2>1
  <2> QED
    BY <2>1, <2>2, <2>3, <2>4
<1>7. ASSUME NEW text \in Line PROVE text \in Seq(Nat)
  <2>1. text = SubSeq(m_read_buf, m_start_line + 1, cr - 1)
    BY <1>7 DEF Line, cr
  <2>2. \A i \in m_start_line + 1 .. cr - 1 : m_read_buf[i] \in Nat
    <3>1. \A i \in 1 .. m_read_idx : m_read_buf[i] \in Nat
      BY IndicesAre
    <3> QED
      BY <1>1, <1>5, <3>1
  <2> QED
    BY <1>1, <1>5, <2>1, <2>2, SubSeqProperties
<1> QED
  BY <1>5, <1>6, <1>7 DEF cr

LEMMA LineNotOverIs ==
    ASSUME ReadInv, LineNotOver
    PROVE  /\ m_checked_idx' \in m_checked_idx .. m_read_idx
           /\ lineStatus' \in {"LINE_BAD", "LINE_OPEN"}
<1>1. m_checked_idx \in Nat /\ m_read_idx \in Nat /\ m_checked_idx <= m_read_idx
  BY IndicesAre
<1>2. LineEnd = 0 \/ LineEnd \in m_checked_idx + 1 .. m_read_idx
  BY LineEndIs
<1>3. LineStatus \in {"LINE_BAD", "LINE_OPEN"}
  BY DEF LineNotOver, LineStatus
<1>4. lineStatus' = LineStatus /\ m_checked_idx' = IF LineEnd = 0 THEN m_read_idx ELSE LineEnd - 1
  BY DEF LineNotOver
<1> HIDE DEF m_read_idx
<1>5. m_checked_idx' \in m_checked_idx .. m_read_idx
  BY <1>1, <1>2, <1>4
<1> QED
  BY <1>3, <1>4, <1>5

(* What the parser takes out of a line. *)
LEMMA RequestLineGives ==
    ASSUME NEW text \in Seq(Nat), GoodRequestLine(text)
    PROVE  text[1] \in {GET, POST} /\ Url(text) \in Seq(Nat)
<1> DEFINE S == {SP}
           method == FirstOf(text, 1, S)
           url == SkipSpaces(text, method + 1)
           version == FirstOf(text, url, S)
<1>1. Len(text) \in Nat /\ \A i \in 1 .. Len(text) : text[i] \in Nat
  BY LenProperties, ElementOfSeq
<1>2. /\ method # 0 /\ SubSeq(text, 1, method - 1) \in {<<GET>>, <<POST>>}
      /\ version # 0
  BY DEF GoodRequestLine
<1>3. Url(text) = SubSeq(text, url, version - 1)
  BY DEF Url
<1> HIDE DEF S
<1>4. method \in 1 .. Len(text)
  BY <1>1, <1>2, FirstOfIs
<1> HIDE DEF method
<1>5. url \in method + 1 .. Len(text) + 1
  <2>1. method + 1 \in 1 .. Len(text) + 1
    BY <1>1, <1>4
  <2> QED
    BY <1>1, <2>1, SkipSpacesIs
<1> HIDE DEF url
<1>6. version \in url .. Len(text)
  <2>1. url \in Nat
    BY <1>1, <1>4, <1>5
  <2> QED
    BY <1>1, <1>2, <2>1, FirstOfIs
<1> HIDE DEF version
<1>7. Url(text) \in Seq(Nat)
  <2>1. /\ url \in Int /\ version - 1 \in Int
        /\ \A i \in url .. version - 1 : text[i] \in Nat
    BY <1>1, <1>4, <1>5, <1>6
  <2> QED
    BY <1>3, <2>1, SubSeqProperties
<1>8. text[1] \in {GET, POST}
  <2> DEFINE word == SubSeq(text, 1, method - 1)
  <2>1. /\ 1 \in Int /\ method - 1 \in Int /\ \A i \in 1 .. method - 1 : text[i] \in Nat
    BY <1>1, <1>4
  <2>2. /\ Len(word) = IF 1 <= method - 1 THEN method - 1 ELSE 0
        /\ \A i \in 1 .. method - 1 : word[i] = text[i]
    <3>1. /\ Len(word) = IF 1 <= method - 1 THEN (method - 1) - 1 + 1 ELSE 0
          /\ \A i \in 1 .. (method - 1) - 1 + 1 : word[i] = text[1 + i - 1]
      BY <2>1, SubSeqProperties
    <3> QED
      BY <1>1, <1>4, <3>1
  <2>3. word = <<GET>> \/ word = <<POST>>
    BY <1>2
  <2> HIDE DEF word
  <2>4. Len(word) = 1 /\ word[1] \in {GET, POST}
    BY <2>3
  <2>5. word[1] = text[1]
    BY <1>4, <2>2, <2>4
  <2> QED
    BY <2>4, <2>5
<1> QED
  BY <1>7, <1>8

LEMMA HeaderGives ==
    ASSUME NEW text \in Seq(Nat), text # <<>>
    PROVE  /\ Value(text) \in Seq(Nat) /\ atol(Value(text)) \in Nat
           /\ SkipSpaces(text, 2) \in 2 .. Len(text) + 1
<1>1. Len(text) \in Nat \ {0} /\ \A i \in 1 .. Len(text) : text[i] \in Nat
  <2>1. Len(text) \in Nat /\ \A i \in 1 .. Len(text) : text[i] \in Nat
    BY LenProperties, ElementOfSeq
  <2>2. Len(text) # 0
    OBVIOUS
  <2> QED
    BY <2>1, <2>2
<1>2. SkipSpaces(text, 2) \in 2 .. Len(text) + 1
  <2>1. 2 \in 1 .. Len(text) + 1
    BY <1>1
  <2> QED
    BY <1>1, <2>1, SkipSpacesIs
<1>3. Value(text) \in Seq(Nat)
  <2> DEFINE i == SkipSpaces(text, 2)
  <2>1. i \in Int /\ Len(text) \in Int /\ \A j \in i .. Len(text) : text[j] \in Nat
    BY <1>1, <1>2
  <2>2. Value(text) = SubSeq(text, i, Len(text))
    BY DEF Value, From
  <2> HIDE DEF i
  <2> QED
    BY <2>1, <2>2, SubSeqProperties
<1>4. ASSUME NEW v \in Seq(Nat) PROVE atol(v) \in Nat
  <2>1. CASE Len(v) = 1 /\ v[1] >= Numeral(0)
    <3>1. v[1] \in Nat
      <4>1. 1 \in 1 .. Len(v)
        BY <2>1
      <4> QED
        BY <4>1, ElementOfSeq
    <3> QED
      BY <2>1, <3>1 DEF atol, Numeral
  <2>2. CASE ~ (Len(v) = 1 /\ v[1] >= Numeral(0))
    <3>1. atol(v) = 0
      BY <2>2, Zenon DEF atol
    <3> QED
      BY <3>1
  <2> QED
    BY <2>1, <2>2
<1> QED
  BY <1>2, <1>3, <1>4

(* What a turn of process_read's loop leaves. *)
LEMMA TurnKeeps ==
    ASSUME ReadInv,
           \/ RequestLine \/ BadRequestLine \/ Header \/ BlankLine \/ LastLine
           \/ Content \/ BodyNotThere \/ NoLine
    PROVE  ReadInv' /\ m_read_idx' = m_read_idx
<1>1. /\ m_read_idx \in Nat /\ m_checked_idx \in Nat /\ m_start_line \in Nat
      /\ m_checked_idx <= m_read_idx /\ m_start_line <= m_checked_idx
      /\ m_read_buf \in Seq(Nat) /\ Len(m_read_buf) = m_read_idx
  BY IndicesAre
<1>2. /\ m_check_state \in {"REQUESTLINE", "HEADER", "CONTENT"} /\ m_method \in {GET, POST}
      /\ m_url \in Seq(Nat) /\ m_linger \in BOOLEAN /\ m_content_length \in Nat
      /\ m_string \in Nat /\ lineStatus \in {"LINE_OK", "LINE_BAD", "LINE_OPEN"}
  BY DEF ReadInv, ReadTypeOK
<1>3. ASSUME m_read_buf' \in Seq(Nat), m_read_idx' = m_read_idx,
             m_checked_idx' \in 0 .. m_read_idx, m_start_line' \in 0 .. m_read_idx,
             m_start_line' <= m_checked_idx',
             lineStatus' \in {"LINE_OK", "LINE_BAD", "LINE_OPEN"},
             m_check_state' \in {"REQUESTLINE", "HEADER", "CONTENT"},
             m_method' \in {GET, POST}, m_url' \in Seq(Nat), m_linger' \in BOOLEAN,
             m_content_length' \in Nat, m_string' \in Nat
      PROVE  ReadInv' /\ m_read_idx' = m_read_idx
  BY <1>3 DEF ReadInv, ReadTypeOK
<1> HIDE DEF m_read_idx
(* The turns that find a line. *)
<1>4. ASSUME LineStatus = "LINE_OK", LineOver
      PROVE  /\ m_read_buf' \in Seq(Nat) /\ m_read_idx' = m_read_idx
             /\ m_checked_idx' \in 0 .. m_read_idx /\ m_start_line' \in 0 .. m_read_idx
             /\ m_start_line' <= m_checked_idx'
             /\ lineStatus' \in {"LINE_OK", "LINE_BAD", "LINE_OPEN"}
  <2>1. /\ CarriageReturn \in m_checked_idx .. m_read_idx - 1
        /\ m_read_buf' \in Seq(Nat) /\ m_read_idx' = m_read_idx
        /\ lineStatus' = "LINE_OK"
        /\ m_checked_idx' = CarriageReturn + 1 /\ m_start_line' = CarriageReturn + 1
    BY <1>4, LineOverIs
  <2> QED
    BY <1>1, <2>1
<1>5. ASSUME NEW text \in Line PROVE LineStatus = "LINE_OK" /\ text \in Seq(Nat)
  <2>1. LineStatus = "LINE_OK"
    BY DEF Line
  <2> QED
    BY <2>1, LineOverIs
<1>6. CASE RequestLine
  <2>1. PICK text \in Line : RequestLineTaken(text)
    BY <1>6 DEF RequestLine
  <2>2. m_method' \in {GET, POST} /\ m_url' \in Seq(Nat) /\ m_check_state' = "HEADER"
    <3>1. text[1] \in {GET, POST} /\ Url(text) \in Seq(Nat)
      BY <1>5, <2>1, RequestLineGives DEF RequestLineTaken
    <3>2. <<SLASH, INDEX>> \in Seq(Nat)
      BY DEF SLASH, INDEX
    <3> QED
      BY <2>1, <3>1, <3>2 DEF RequestLineTaken
  <2>3. LineOver /\ UNCHANGED <<m_linger, m_content_length, m_string>>
    BY <1>6 DEF RequestLine
  <2> QED
    BY <1>2, <1>3, <1>4, <1>5, <2>1, <2>2, <2>3
<1>7. CASE Header
  <2>1. PICK text \in Line \ {<<>>} : HeaderTaken(text)
    BY <1>7 DEF Header
  <2>2. m_linger' \in BOOLEAN /\ m_content_length' \in Nat
    <3>1. atol(Value(text)) \in Nat
      BY <1>5, <2>1, HeaderGives
    <3> QED
      BY <1>2, <2>1, <3>1 DEF HeaderTaken
  <2>3. LineOver /\ UNCHANGED <<m_check_state, m_method, m_url, m_string>>
    BY <1>7 DEF Header
  <2> QED
    BY <1>2, <1>3, <1>4, <1>5, <2>1, <2>2, <2>3
<1>8. CASE BadRequestLine \/ BlankLine \/ LastLine
  <2>1. /\ \E text \in Line : TRUE
        /\ LineOver /\ m_check_state' \in {m_check_state, "CONTENT"}
        /\ UNCHANGED <<m_method, m_url, m_linger, m_content_length, m_string>>
    BY <1>8 DEF BadRequestLine, BlankLine, LastLine
  <2> QED
    BY <1>2, <1>3, <1>4, <1>5, <2>1
<1>9. CASE Content
  <2>1. /\ m_string' = m_start_line /\ m_start_line' = m_checked_idx
        /\ m_read_buf' = [i \in 1 .. m_read_idx |->
                             IF i = m_start_line + m_content_length + 1 THEN NUL
                             ELSE m_read_buf[i]]
        /\ UNCHANGED <<m_checked_idx, m_check_state, lineStatus, m_method, m_url,
                       m_linger, m_content_length>>
    BY <1>9, ContentStores DEF Content
  <2>2. m_read_buf' \in Seq(Nat) /\ Len(m_read_buf') = m_read_idx
    <3>1. \A i \in 1 .. m_read_idx : m_read_buf[i] \in Nat
      BY IndicesAre
    <3> QED
      BY <1>1, <2>1, <3>1 DEF NUL
  <2>3. m_read_idx' = m_read_idx
    BY <2>2 DEF m_read_idx
  <2> QED
    BY <1>1, <1>2, <1>3, <2>1, <2>2, <2>3
<1>10. CASE BodyNotThere \/ NoLine
  <2>1. /\ LineNotOver /\ m_start_line' \in {m_start_line, m_checked_idx}
        /\ UNCHANGED <<m_read_buf, m_check_state, m_method, m_url, m_linger,
                       m_content_length, m_string>>
    BY <1>10 DEF BodyNotThere, NoLine
  <2>2. /\ m_checked_idx' \in m_checked_idx .. m_read_idx
        /\ lineStatus' \in {"LINE_BAD", "LINE_OPEN"}
    BY <2>1, LineNotOverIs
  <2>3. m_read_idx' = m_read_idx
    BY <2>1 DEF m_read_idx
  <2> QED
    BY <1>1, <1>2, <1>3, <2>1, <2>2, <2>3
<1> QED
  BY <1>6, <1>7, <1>8, <1>9, <1>10
-----------------------------------------------------------------------------
(* The constants, one by one. *)
LEMMA ExchangeConstants ==
    /\ READ_BUFFER_SIZE \in Nat \ {0} /\ NAME_LEN \in Nat \ {0} /\ TrigModes \subseteq {0, 1}
    /\ MaxRequests \in Nat /\ MaxConns \in Nat /\ MaxSplits \in Nat
    /\ \A path \in DOMAIN DocRoot :
          /\ path \in Seq(Nat) /\ path # NULL /\ path # MAP_FAILED
          /\ DocRoot[path].size \in Nat
          /\ DocRoot[path].mode \in {"file", "private", "directory"}
    /\ \A r \in Requests : IsRequest(r)
  BY HttpReadAssumption, HttpExchangeAssumption
     DEF HttpReadAssumption, HttpExchangeAssumption

LEMMA WireIs ==
    ASSUME NEW w \in Wire
    PROVE  w.request \in Requests /\ w.bytes = Bytes(w.request) /\ w.bytes \in Seq(Nat)
<1>1. PICK r \in Requests : w = [request |-> r, bytes |-> Bytes(r)]
  BY DEF Wire
<1>2. Bytes(r) \in Seq(Nat)
  BY ExchangeConstants, BytesAre
<1> QED
  BY <1>1, <1>2

(* A text in two pieces. *)
LEMMA Pieces ==
    ASSUME NEW s \in Seq(Nat), NEW n \in 0 .. Len(s)
    PROVE  /\ SubSeq(s, 1, n) \in Seq(Nat) /\ Len(SubSeq(s, 1, n)) = n
           /\ From(s, n + 1) \in Seq(Nat) /\ Len(From(s, n + 1)) = Len(s) - n
           /\ SubSeq(s, 1, n) \o From(s, n + 1) = s
<1> DEFINE a == SubSeq(s, 1, n)  b == From(s, n + 1)
<1>1. Len(s) \in Nat /\ n \in Nat /\ n <= Len(s) /\ \A i \in 1 .. Len(s) : s[i] \in Nat
  BY LenProperties, ElementOfSeq
<1>2. a \in Seq(Nat) /\ Len(a) = n /\ \A i \in 1 .. n : a[i] = s[i]
  <2>1. 1 \in Int /\ n \in Int /\ \A i \in 1 .. n : s[i] \in Nat
    BY <1>1
  <2>2. /\ a \in Seq(Nat) /\ Len(a) = IF 1 <= n THEN n - 1 + 1 ELSE 0
        /\ \A i \in 1 .. n - 1 + 1 : a[i] = s[1 + i - 1]
    BY <2>1, SubSeqProperties
  <2> QED
    BY <1>1, <2>2
<1>3. b \in Seq(Nat) /\ Len(b) = Len(s) - n /\ \A i \in 1 .. Len(s) - n : b[i] = s[n + i]
  <2>1. n + 1 \in Int /\ Len(s) \in Int /\ \A i \in n + 1 .. Len(s) : s[i] \in Nat
    BY <1>1
  <2>2. b = SubSeq(s, n + 1, Len(s))
    BY DEF From
  <2> HIDE DEF b
  <2>3. /\ b \in Seq(Nat) /\ Len(b) = IF n + 1 <= Len(s) THEN Len(s) - (n + 1) + 1 ELSE 0
        /\ \A i \in 1 .. Len(s) - (n + 1) + 1 : b[i] = s[n + 1 + i - 1]
    BY <2>1, <2>2, SubSeqProperties
  <2> QED
    BY <1>1, <2>3
<1> HIDE DEF a, b
<1>4. a \o b = s
  <2>1. /\ a \o b \in Seq(Nat) /\ Len(a \o b) = Len(a) + Len(b)
        /\ \A j \in 1 .. Len(a) : (a \o b)[j] = a[j]
        /\ \A j \in 1 .. Len(b) : (a \o b)[Len(a) + j] = b[j]
    BY <1>2, <1>3, Joined
  <2>2. Len(a \o b) = Len(s)
    BY <1>1, <1>2, <1>3, <2>1
  <2>3. ASSUME NEW i \in 1 .. Len(a \o b) PROVE (a \o b)[i] = s[i]
    <3>1. CASE i <= n
      BY <1>1, <1>2, <2>1, <2>2, <3>1
    <3>2. CASE i > n
      <4>1. i - n \in 1 .. Len(b) /\ n + (i - n) = i
        BY <1>1, <1>3, <2>2, <3>2
      <4>2. (a \o b)[n + (i - n)] = b[i - n] /\ b[i - n] = s[n + (i - n)]
        BY <1>2, <1>3, <2>1, <4>1
      <4> QED
        BY <4>1, <4>2
    <3> QED
      BY <1>1, <2>2, <3>1, <3>2
  <2> QED
    BY <2>1, <2>2, <2>3, SeqEqual
<1> QED
  BY <1>2, <1>3, <1>4 DEF a, b

(* What is not about reading or writing. *)
RestTypeOK ==
    /\ m_trig_mode \in {0, 1}
    /\ pc \in {"in", "parse", "request", "respond", "out", "write", "closed", "aborted"}
    /\ ret \in Codes
    /\ wire \in Seq(Nat)
    /\ room \in BOOLEAN
    /\ present \in BOOLEAN
    /\ waiting \in Requests \cup {NoRequest}
    /\ todo \in Seq(Nat)
    /\ begun \in 0 .. MaxRequests
    /\ conns \in 0 .. MaxConns
    /\ splits \in 0 .. MaxSplits
    /\ got \in Seq(Nat)
    /\ torn \in BOOLEAN
    /\ abandoned \in BOOLEAN
    /\ lost \in Nat

Room == m_read_idx <= READ_BUFFER_SIZE
WriteInv == WriteTypeOK /\ (Sending => Vector <= bytes_to_send)

LEMMA TypeInvIs ==
    /\ TypeInv <=> ReadInv /\ WriteInv /\ RestTypeOK /\ Room
    /\ TypeInv' <=> ReadInv' /\ WriteInv' /\ RestTypeOK' /\ Room'
  BY DEF TypeInv, TypeOK, ReadInv, ReadTypeOK, WriteInv, RestTypeOK, Room

LEMMA ReadTypeStays ==
    ASSUME ReadInv /\ Room, UNCHANGED readVars PROVE ReadInv' /\ Room'
  BY DEF ReadInv, Room, ReadTypeOK, readVars, m_read_idx

LEMMA WriteTypeStays ==
    ASSUME WriteInv, UNCHANGED writeVars, Sending' => Sending PROVE WriteInv'
<1>1. UNCHANGED <<m_write_buf, m_json, m_file_stat, m_file_address, m_iv, m_iv_count,
                 bytes_to_send, bytes_have_send, out, headCuts>>
  BY DEF writeVars
<1>2. WriteTypeOK'
  BY <1>1 DEF WriteInv, WriteTypeOK
<1>3. (Sending => Vector <= bytes_to_send)'
  <2>1. Vector' = Vector
    BY <1>1, Zenon DEF Vector
  <2> QED
    BY <1>1, <2>1 DEF WriteInv
<1> QED
  BY <1>2, <1>3 DEF WriteInv

LEMMA ClientTypes == ASSUME TypeInv, ClientStep PROVE TypeInv'
<1>0. ReadInv /\ WriteInv /\ RestTypeOK /\ Room
  BY TypeInvIs
<1>1. UNCHANGED <<readVars, writeVars, m_trig_mode, pc, ret, conns, historyVars>>
  BY DEF ClientStep, Begin, SendBytes, Drain, HangUp, clientVars
<1>2. ReadInv' /\ WriteInv' /\ Room'
  BY <1>0, <1>1, ReadTypeStays, WriteTypeStays DEF Sending
<1>3. RestTypeOK'
  <2>1. CASE \E w \in Wire : Begin(w)
    <3>1. PICK w \in Wire : Begin(w)
      BY <2>1
    <3>2. /\ waiting' \in Requests /\ todo' \in Seq(Nat) /\ begun' \in 0 .. MaxRequests
      BY <1>0, <3>1, WireIs, ExchangeConstants DEF Begin, RestTypeOK
    <3> QED
      BY <1>0, <3>1, <3>2 DEF Begin, RestTypeOK, historyVars
  <2>2. CASE \E n \in 1 .. Len(todo) : SendBytes(n)
    <3>1. PICK n \in 1 .. Len(todo) : SendBytes(n)
      BY <2>2
    <3>2. n \in 0 .. Len(todo) /\ todo \in Seq(Nat) /\ wire \in Seq(Nat) /\ splits \in 0 .. MaxSplits
      BY <1>0 DEF RestTypeOK
    <3>3. /\ wire' = wire \o SubSeq(todo, 1, n) /\ todo' = From(todo, n + 1)
          /\ splits' = IF n < Len(todo) THEN splits + 1 ELSE splits
          /\ splits' <= MaxSplits
          /\ UNCHANGED <<m_trig_mode, pc, ret, room, present, waiting, begun, conns, historyVars>>
      BY <3>1 DEF SendBytes
    <3>4. SubSeq(todo, 1, n) \in Seq(Nat) /\ todo' \in Seq(Nat)
      BY <3>2, <3>3, Pieces
    <3>5. wire' \in Seq(Nat)
      BY <3>2, <3>3, <3>4, Joined
    <3>6. splits' \in 0 .. MaxSplits
      BY <3>2, <3>3, ExchangeConstants
    <3> QED
      BY <1>0, <3>3, <3>4, <3>5, <3>6 DEF RestTypeOK, historyVars
  <2>3. CASE Drain \/ HangUp
    <3>1. /\ room' \in BOOLEAN /\ present' \in BOOLEAN
          /\ waiting' \in {waiting, NoRequest} /\ todo' \in {todo, <<>>}
          /\ UNCHANGED <<m_trig_mode, pc, ret, wire, begun, conns, splits, historyVars>>
      BY <1>0, <2>3 DEF Drain, HangUp, RestTypeOK, clientVars
    <3>2. <<>> \in Seq(Nat)
      OBVIOUS
    <3> QED
      BY <1>0, <3>1, <3>2 DEF RestTypeOK, historyVars
  <2> QED
    BY <2>1, <2>2, <2>3 DEF ClientStep
<1> QED
  BY <1>2, <1>3, TypeInvIs

(* read_once() never reads more than fits. *)
LEMMA ReadOnceGives ==
    ASSUME TypeInv, ReadOnce
    PROVE  \E n \in 1 .. Len(wire) \cup {0} :
              LET piece == SubSeq(wire, 1, n) IN
              /\ piece \in Seq(Nat) /\ Len(piece) = n
              /\ m_read_buf' = m_read_buf \o piece /\ got' = got \o piece
              /\ wire' = From(wire, n + 1) /\ wire' \in Seq(Nat) /\ piece \o wire' = wire
              /\ m_read_buf' \in Seq(Nat) /\ got' \in Seq(Nat)
              /\ m_read_idx' = m_read_idx + n /\ m_read_idx + n <= READ_BUFFER_SIZE
              /\ \A i \in 1 .. m_read_idx : m_read_buf'[i] = m_read_buf[i]
              /\ \A i \in 1 .. n : m_read_buf'[m_read_idx + i] = piece[i]
<1> DEFINE space == READ_BUFFER_SIZE - m_read_idx
           n == IF Len(wire) < space THEN Len(wire) ELSE space
           piece == SubSeq(wire, 1, n)
<1>1. ReadInv /\ RestTypeOK /\ Room
  BY TypeInvIs
<1>2. /\ wire \in Seq(Nat) /\ got \in Seq(Nat) /\ m_read_buf \in Seq(Nat) /\ Len(wire) \in Nat
      /\ m_read_idx \in Nat /\ m_read_idx <= READ_BUFFER_SIZE /\ READ_BUFFER_SIZE \in Nat
      /\ Len(m_read_buf) = m_read_idx
  BY <1>1, IndicesAre, ExchangeConstants, LenProperties DEF RestTypeOK, Room
<1>3. /\ m_read_buf' = m_read_buf \o piece /\ got' = got \o piece
      /\ wire' = From(wire, n + 1)
  BY DEF ReadOnce
<1>4. /\ n \in 0 .. Len(wire) /\ n \in 1 .. Len(wire) \cup {0}
      /\ m_read_idx + n <= READ_BUFFER_SIZE /\ n \in Nat
  BY <1>2
<1> HIDE DEF n
<1>5. /\ piece \in Seq(Nat) /\ Len(piece) = n
      /\ wire' \in Seq(Nat) /\ piece \o wire' = wire
  BY <1>2, <1>3, <1>4, Pieces
<1> HIDE DEF piece
<1>6. /\ m_read_buf' \in Seq(Nat) /\ Len(m_read_buf') = m_read_idx + n
      /\ \A i \in 1 .. m_read_idx : m_read_buf'[i] = m_read_buf[i]
      /\ \A i \in 1 .. n : m_read_buf'[m_read_idx + i] = piece[i]
  <2> DEFINE b == m_read_buf  k == m_read_idx
  <2>1. b \in Seq(Nat) /\ Len(b) = k /\ m_read_buf' = b \o piece
    BY <1>2, <1>3
  <2> HIDE DEF b, k
  <2>2. /\ b \o piece \in Seq(Nat) /\ Len(b \o piece) = Len(b) + Len(piece)
        /\ \A j \in 1 .. Len(b) : (b \o piece)[j] = b[j]
        /\ \A j \in 1 .. Len(piece) : (b \o piece)[Len(b) + j] = piece[j]
    BY <1>5, <2>1, Joined
  <2>3. /\ m_read_buf' \in Seq(Nat) /\ Len(m_read_buf') = k + n
        /\ \A i \in 1 .. k : m_read_buf'[i] = b[i]
        /\ \A i \in 1 .. n : m_read_buf'[k + i] = piece[i]
    BY <1>5, <2>1, <2>2, Zenon
  <2> QED
    BY <2>3, Zenon DEF b, k
<1>7. got' \in Seq(Nat)
  BY <1>2, <1>3, <1>5, Joined
<1>8. m_read_idx' = m_read_idx + n
  BY <1>6 DEF m_read_idx
<1> QED
  BY <1>3, <1>4, <1>5, <1>6, <1>7, <1>8, Zenon DEF piece

LEMMA ReadOnceTypes == ASSUME TypeInv, ReadOnce PROVE TypeInv'
<1>0. ReadInv /\ WriteInv /\ RestTypeOK /\ Room
  BY TypeInvIs
<1>1. PICK n \in 1 .. Len(wire) \cup {0} :
          /\ wire' \in Seq(Nat) /\ m_read_buf' \in Seq(Nat) /\ got' \in Seq(Nat)
          /\ m_read_idx' = m_read_idx + n /\ m_read_idx + n <= READ_BUFFER_SIZE
  BY ReadOnceGives
<1>2. /\ lineStatus' = "LINE_OK" /\ pc' \in {"parse", "closed"}
      /\ UNCHANGED <<m_checked_idx, m_start_line, m_check_state, m_method, m_url,
                     m_linger, m_content_length, m_string, writeVars, m_trig_mode,
                     ret, room, clientVars, torn, abandoned, lost>>
  BY DEF ReadOnce
<1>3. n \in Nat /\ m_read_idx \in Nat
  <2>1. Len(wire) \in Nat
    BY <1>0, LenProperties DEF RestTypeOK
  <2> QED
    BY <1>0, <2>1, IndicesAre
<1>4. ReadInv'
  <2>1. m_checked_idx' \in 0 .. m_read_idx' /\ m_start_line' \in 0 .. m_read_idx'
    <3>1. m_checked_idx \in 0 .. m_read_idx /\ m_start_line \in 0 .. m_read_idx
      BY <1>0 DEF ReadInv, ReadTypeOK
    <3> HIDE DEF m_read_idx
    <3> QED
      BY <1>1, <1>2, <1>3, <3>1
  <2> QED
    BY <1>0, <1>1, <1>2, <2>1 DEF ReadInv, ReadTypeOK
<1>5. WriteInv'
  <2>1. ~ Sending'
    BY <1>2 DEF Sending
  <2> QED
    BY <1>0, <1>2, <2>1, WriteTypeStays
<1>6. RestTypeOK'
  BY <1>0, <1>1, <1>2 DEF RestTypeOK, clientVars
<1>7. Room'
  BY <1>1, Zenon DEF Room
<1> QED
  BY <1>4, <1>5, <1>6, <1>7, TypeInvIs

LEMMA ParseTypes ==
    ASSUME TypeInv, ParseOn \/ ParseBad \/ ParseDone \/ ParseWaits PROVE TypeInv'
<1>0. ReadInv /\ WriteInv /\ RestTypeOK /\ Room
  BY TypeInvIs
<1>1. /\ pc' \in {"in", "parse", "request", "respond"} /\ torn' \in BOOLEAN /\ ret' \in Codes
      /\ UNCHANGED <<writeVars, m_trig_mode, wire, room, clientVars, got, abandoned, lost>>
  <2>1. CASE ParseOn
    BY <1>0, <2>1 DEF ParseOn, RestTypeOK, historyVars
  <2>2. CASE ParseBad \/ ParseDone
    BY <1>0, <2>2 DEF ParseBad, ParseDone, RestTypeOK, historyVars, Codes, ErrorCodes
  <2>3. CASE ParseWaits
    <3>1. torn' \in BOOLEAN
      BY <1>0, <2>3, Zenon DEF ParseWaits, RestTypeOK
    <3> QED
      BY <2>3, <3>1 DEF ParseWaits, Codes
  <2> QED
    BY <2>1, <2>2, <2>3
<1>2. ReadInv' /\ m_read_idx' = m_read_idx
  <2>1. \/ RequestLine \/ BadRequestLine \/ Header \/ BlankLine \/ LastLine
        \/ Content \/ BodyNotThere \/ NoLine
    BY DEF ParseOn, ParseBad, ParseDone, ParseWaits
  <2> QED
    BY <1>0, <2>1, TurnKeeps
<1>3. WriteInv'
  <2>1. ~ Sending'
    BY <1>1 DEF Sending
  <2> QED
    BY <1>0, <1>1, <2>1, WriteTypeStays
<1>4. RestTypeOK'
  BY <1>0, <1>1 DEF RestTypeOK, clientVars
<1>5. Room'
  BY <1>0, <1>2, Zenon DEF Room
<1> QED
  BY <1>2, <1>3, <1>4, <1>5, TypeInvIs

LEMMA RequestTypes ==
    ASSUME TypeInv, SignIn \/ SignInOverruns \/ GetFile PROVE TypeInv'
<1>0. ReadInv /\ WriteInv /\ RestTypeOK /\ Room
  BY TypeInvIs
<1>1. /\ pc' \in {"respond", "aborted"}
      /\ UNCHANGED <<readVars, m_write_buf, m_iv, m_iv_count, bytes_to_send,
                     bytes_have_send, out, headCuts, m_trig_mode, wire, room, clientVars,
                     got, torn, abandoned>>
  BY DEF SignIn, SignInOverruns, GetFile, historyVars
<1>2. ReadInv' /\ Room'
  BY <1>0, <1>1, ReadTypeStays
<1>3. /\ m_json' \in Seq(Element) /\ m_file_stat' \in Nat /\ m_file_address' \in Seq(Nat)
      /\ ret' \in Codes /\ lost' \in Nat
  <2>1. /\ m_json \in Seq(Element) /\ m_file_stat \in Nat /\ m_file_address \in Seq(Nat)
        /\ lost \in Nat
    BY <1>0 DEF WriteInv, WriteTypeOK, RestTypeOK
  <2>2. CASE SignIn
    <3>1. LoginText(LoggedIn) \in Seq(Element)
      BY DEF LoginText, Text1, Element
    <3> QED
      BY <2>1, <2>2, <3>1 DEF SignIn, historyVars, Codes, ErrorCodes
  <2>4. CASE SignInOverruns
    <3>1. \A success \in BOOLEAN : LoginText(success) \in Seq(Element)
      BY DEF LoginText, Text1, Element
    <3>2. m_json' \in Seq(Element) /\ UNCHANGED <<m_file_stat, m_file_address, lost>>
      BY <2>1, <2>4, <3>1 DEF SignInOverruns, historyVars
    <3>3. ret' \in Codes
      BY <1>0, <2>4 DEF SignInOverruns, RestTypeOK, Codes
    <3> QED
      BY <2>1, <3>2, <3>3
  <2>3. CASE GetFile
    <3>1. /\ m_json' = m_json
          /\ ret' \in Codes /\ m_file_stat' \in Nat
      BY <2>1, <2>3, ExchangeConstants DEF GetFile, Codes, ErrorCodes
    <3>2. lost' \in Nat
      BY <2>1, <2>3 DEF GetFile
    <3>3. m_file_address' \in Seq(Nat)
      <4>1. MAP_FAILED \in Seq(Nat)
        BY DEF MAP_FAILED
      <4>2. CASE ret' = "FILE_REQUEST"
        <5>1. RealFile \in DOMAIN DocRoot
          BY <2>3, <4>2 DEF GetFile
        <5>2. RealFile \in Seq(Nat)
          BY <5>1, ExchangeConstants
        <5> QED
          BY <2>3, <4>1, <4>2, <5>2 DEF GetFile
      <4>3. CASE ret' # "FILE_REQUEST"
        BY <2>1, <2>3, <4>3 DEF GetFile
      <4> QED
        BY <4>2, <4>3
    <3> QED
      BY <2>1, <3>1, <3>2, <3>3
  <2> QED
    BY <2>2, <2>3, <2>4
<1>4. WriteInv'
  BY <1>0, <1>1, <1>3 DEF WriteInv, WriteTypeOK, Sending
<1>5. RestTypeOK'
  BY <1>0, <1>1, <1>3 DEF RestTypeOK, clientVars
<1> QED
  BY <1>2, <1>4, <1>5, TypeInvIs

LEMMA RespondTypes == ASSUME TypeInv, Respond PROVE TypeInv'
<1> DEFINE added == Added(ret, m_linger)
           buf == m_write_buf \o added
           file == ret = "FILE_REQUEST" /\ m_file_stat # 0
<1>0. ReadInv /\ WriteInv /\ RestTypeOK /\ Room
  BY TypeInvIs
<1>1. /\ pc' = "out" /\ ret' = "NO_REQUEST"
      /\ m_write_buf' = buf
      /\ m_iv' = [i \in {0, 1} |->
                     IF i = 0 THEN [iov_base |-> 0, iov_len |-> Len(buf)]
                     ELSE IF file THEN [iov_base |-> 0, iov_len |-> m_file_stat]
                     ELSE m_iv[1]]
      /\ m_iv_count' = IF file THEN 2 ELSE 1
      /\ bytes_to_send' = IF file THEN Len(buf) + m_file_stat ELSE Len(buf)
      /\ UNCHANGED <<m_json, m_file_stat, m_file_address, bytes_have_send, out, headCuts>>
      /\ UNCHANGED <<readVars, m_trig_mode, wire, room, clientVars, historyVars>>
  BY DEF Respond, ProcessWrite
<1>2. ReadInv' /\ Room'
  BY <1>0, <1>1, ReadTypeStays
<1>3. /\ m_write_buf \in Seq(Element) /\ m_json \in Seq(Element) /\ m_file_stat \in Nat
      /\ m_iv \in [{0, 1} -> Iovec] /\ m_file_address \in Seq(Nat)
      /\ bytes_have_send \in Nat /\ out \in Seq(Byte) /\ headCuts \in Nat
  BY <1>0 DEF WriteInv, WriteTypeOK
<1>4. buf \in Seq(Element) /\ Len(buf) \in Nat
  <2>1. added \in Seq(Element)
    BY <1>3, AddedIs
  <2> QED
    BY <1>3, <2>1
<1> HIDE DEF added, buf
<1>5. /\ m_iv' \in [{0, 1} -> Iovec] /\ m_iv_count' \in {1, 2} /\ bytes_to_send' \in Int
      /\ Vector' = bytes_to_send'
  <2>1. /\ m_iv' \in [{0, 1} -> Iovec] /\ m_iv_count' \in {1, 2} /\ bytes_to_send' \in Int
    BY <1>1, <1>3, <1>4 DEF Iovec
  <2>2. /\ m_iv'[0].iov_len = Len(buf)
        /\ file => m_iv'[1].iov_len = m_file_stat
    BY <1>1
  <2>3. Vector' = m_iv'[0].iov_len + (IF m_iv_count' = 2 THEN m_iv'[1].iov_len ELSE 0)
    BY DEF Vector
  <2>4. Vector' = bytes_to_send'
    BY <1>1, <1>3, <1>4, <2>2, <2>3
  <2> QED
    BY <2>1, <2>4
<1>6. WriteInv'
  <2>1. WriteTypeOK'
    BY <1>1, <1>3, <1>4, <1>5 DEF WriteTypeOK
  <2> QED
    BY <1>5, <2>1 DEF WriteInv
<1>7. RestTypeOK'
  BY <1>0, <1>1 DEF RestTypeOK, clientVars, historyVars, Codes
<1> QED
  BY <1>2, <1>6, <1>7, TypeInvIs

LEMMA EndTypes == ASSUME TypeInv, Accept \/ WriteDone PROVE TypeInv'
<1>0. ReadInv /\ WriteInv /\ RestTypeOK /\ Room
  BY TypeInvIs
<1>1. /\ pc' \in {"in", "closed"}
      /\ ReadReset \/ UNCHANGED readVars
      /\ WriteReset \/ UNCHANGED <<m_write_buf, bytes_to_send, bytes_have_send, out, headCuts>>
      /\ m_file_address' \in {m_file_address, NULL}
      /\ UNCHANGED <<m_json, m_file_stat, m_iv, m_iv_count, m_trig_mode, ret, begun, splits,
                     abandoned, lost>>
      /\ wire' \in {wire, <<>>} /\ todo' \in {todo, <<>>} /\ got' \in {got, <<>>}
      /\ room' \in {room, TRUE} /\ present' \in {present, TRUE} /\ waiting' = NoRequest
      /\ torn' \in {torn, FALSE} /\ conns' \in {conns, conns + 1} /\ conns' <= MaxConns
  <2>1. conns \in 0 .. MaxConns /\ MaxConns \in Nat
    BY <1>0, ExchangeConstants DEF RestTypeOK
  <2>2. CASE Accept
    <3>1. conns' = conns + 1 /\ conns < MaxConns /\ UNCHANGED m_file_address
      BY <2>2 DEF Accept
    <3>2. conns' <= MaxConns
      BY <2>1, <3>1
    <3> QED
      BY <2>2, <3>1, <3>2, Zenon DEF Accept
  <2>3. CASE WriteDone
    <3>1. conns' = conns /\ conns' <= MaxConns
      BY <2>1, <2>3 DEF WriteDone
    <3>2. /\ pc' \in {"in", "closed"}
          /\ ReadReset \/ UNCHANGED readVars
          /\ WriteReset \/ UNCHANGED <<m_write_buf, bytes_to_send, bytes_have_send, out,
                                      headCuts>>
          /\ got' \in {got, <<>>} /\ torn' \in {torn, FALSE}
      <4>1. CASE m_linger
        BY <2>3, <4>1, Zenon DEF WriteDone
      <4>2. CASE ~m_linger
        BY <2>3, <4>2, Zenon DEF WriteDone
      <4> QED
        BY <4>1, <4>2
    <3>3. /\ m_file_address' = NULL /\ waiting' = NoRequest
          /\ UNCHANGED <<m_json, m_file_stat, m_iv, m_iv_count, m_trig_mode, ret, wire, room,
                         present, todo, begun, splits, abandoned, lost>>
      BY <2>3 DEF WriteDone, Unmap
    <3>4. /\ m_file_address' \in {m_file_address, NULL} /\ wire' \in {wire, <<>>}
          /\ todo' \in {todo, <<>>} /\ room' \in {room, TRUE} /\ present' \in {present, TRUE}
          /\ conns' \in {conns, conns + 1}
      BY <3>1, <3>3
    <3> QED
      BY <3>1, <3>2, <3>3, <3>4, Zenon
  <2> QED
    BY <2>2, <2>3
<1>2. ReadInv' /\ Room'
  <2>1. CASE ReadReset
    <3>1. /\ m_read_buf' = <<>> /\ m_checked_idx' = 0 /\ m_start_line' = 0
          /\ m_check_state' = "REQUESTLINE" /\ m_method' = GET /\ m_url' = <<>>
          /\ m_linger' = FALSE /\ m_content_length' = 0 /\ lineStatus' = "LINE_OK"
          /\ m_string' = m_string
      BY <2>1 DEF ReadReset
    <3>2. m_read_idx' = 0 /\ m_read_buf' \in Seq(Nat) /\ m_url' \in Seq(Nat)
      BY <3>1 DEF m_read_idx
    <3>3. m_string \in Nat
      BY <1>0 DEF ReadInv, ReadTypeOK
    <3>5. /\ m_checked_idx' \in 0 .. m_read_idx' /\ m_start_line' \in 0 .. m_read_idx'
          /\ m_start_line' <= m_checked_idx'
      BY <3>1, <3>2
    <3>6. m_read_idx' <= READ_BUFFER_SIZE
      BY <3>2, ExchangeConstants
    <3>4. ReadInv'
      BY <3>1, <3>2, <3>3, <3>5, <3>6 DEF ReadInv, ReadTypeOK
    <3> QED
      BY <3>2, <3>4, ExchangeConstants DEF Room
  <2>2. CASE UNCHANGED readVars
    BY <1>0, <2>2, ReadTypeStays
  <2> QED
    BY <1>1, <2>1, <2>2
<1>3. WriteInv'
  <2>1. /\ m_write_buf' \in Seq(Element) /\ out' \in Seq(Byte)
        /\ bytes_to_send' \in Int /\ bytes_have_send' \in Nat /\ headCuts' \in Nat
    <3>1. CASE WriteReset
      BY <3>1 DEF WriteReset
    <3>2. CASE UNCHANGED <<m_write_buf, bytes_to_send, bytes_have_send, out, headCuts>>
      BY <1>0, <3>2 DEF WriteInv, WriteTypeOK
    <3> QED
      BY <1>1, <3>1, <3>2
  <2>2. WriteTypeOK'
    <3>1. m_file_address' \in Seq(Nat)
      <4>1. m_file_address \in Seq(Nat) /\ <<>> \in Seq(Nat)
        BY <1>0 DEF WriteInv, WriteTypeOK
      <4> QED
        BY <1>1, <4>1 DEF NULL
    <3>2. UNCHANGED <<m_json, m_file_stat, m_iv, m_iv_count>>
      BY <1>1
    <3> QED
      BY <1>0, <2>1, <3>1, <3>2 DEF WriteInv, WriteTypeOK
  <2> QED
    BY <1>1, <2>2 DEF WriteInv, Sending
<1>4. RestTypeOK'
  <2>1. <<>> \in Seq(Nat)
    OBVIOUS
  <2>2. conns' \in 0 .. MaxConns
    BY <1>0, <1>1, ExchangeConstants DEF RestTypeOK
  <2> QED
    BY <1>0, <1>1, <2>1, <2>2 DEF RestTypeOK
<1> QED
  BY <1>2, <1>3, <1>4, TypeInvIs

LEMMA WritevTypes == ASSUME TypeInv, NEW t \in 1 .. Vector, Writev(t) PROVE TypeInv'
<1> DEFINE have == bytes_have_send + t
           send == bytes_to_send - t
           sent == [i \in 1 .. t |-> VectorByte(i)]
<1>0. ReadInv /\ WriteInv /\ RestTypeOK /\ Room
  BY TypeInvIs
<1>1. /\ pc = "write" /\ pc' = "write"
      /\ out' = out \o sent
      /\ bytes_have_send' = have /\ bytes_to_send' = send
      /\ headCuts' = IF have < m_write_idx THEN headCuts + 1 ELSE headCuts
      /\ UNCHANGED <<readVars, m_write_buf, m_json, m_file_stat, m_file_address, m_iv_count,
                     m_trig_mode, ret, wire, present, waiting, todo, begun, conns,
                     historyVars>>
      /\ room' \in BOOLEAN
      /\ splits' = (IF t = Vector THEN splits ELSE splits + 1) /\ splits' <= MaxSplits
  BY DEF Writev, Advance
<1>2. /\ m_iv_count \in {1, 2}
      /\ bytes_to_send \in Int /\ bytes_have_send \in Nat /\ headCuts \in Nat
      /\ m_iv[0] \in Iovec /\ m_iv[1] \in Iovec /\ m_iv \in [{0, 1} -> Iovec]
      /\ out \in Seq(Byte) /\ Vector <= bytes_to_send /\ m_write_idx \in Nat
  BY <1>0, <1>1 DEF WriteInv, WriteTypeOK, Sending, m_write_idx
<1>3. /\ m_iv[0].iov_len \in Nat /\ m_iv[1].iov_len \in Nat
      /\ m_iv[0].iov_base \in Int /\ m_iv[1].iov_base \in Int
      /\ Vector \in Nat /\ t \in Nat \ {0} /\ have \in Nat /\ send \in Nat /\ have >= t
  <2>1. /\ m_iv[0].iov_len \in Nat /\ m_iv[1].iov_len \in Nat
        /\ m_iv[0].iov_base \in Int /\ m_iv[1].iov_base \in Int
    BY <1>2 DEF Iovec
  <2>2. Vector \in Nat
    BY <1>2, <2>1 DEF Vector
  <2> QED
    BY <1>2, <2>1, <2>2
<1>4. out' \in Seq(Byte)
  <2>1. \A k \in 1 .. t : VectorByte(k) \in Byte
    BY <1>2, <1>3 DEF VectorByte, Byte
  <2> QED
    BY <1>1, <1>2, <1>3, <2>1
<1>5. Advance(t)
  BY DEF Writev
<1>6. m_iv' \in [{0, 1} -> Iovec] /\ Vector' <= bytes_to_send'
  <2>0. Vector' = m_iv'[0].iov_len + (IF m_iv_count = 2 THEN m_iv'[1].iov_len ELSE 0)
    BY <1>1 DEF Vector
  <2>1. CASE have >= m_iv[0].iov_len
    <3>1. m_iv' = [m_iv EXCEPT ![0] = [iov_base |-> @.iov_base, iov_len |-> 0],
                               ![1] = [iov_base |-> have - m_write_idx, iov_len |-> send]]
      BY <1>2, <1>3, <1>5, <2>1 DEF Advance, Iovec
    <3>2. /\ m_iv' \in [{0, 1} -> Iovec]
          /\ m_iv'[0].iov_len = 0 /\ m_iv'[1].iov_len = send
      BY <1>2, <1>3, <3>1 DEF Iovec
    <3> QED
      BY <1>1, <1>2, <1>3, <2>0, <3>2
  <2>2. CASE ~(have >= m_iv[0].iov_len)
    <3>1. m_iv' = [m_iv EXCEPT ![0] = [iov_base |-> have, iov_len |-> @.iov_len - have]]
      BY <1>5, <2>2 DEF Advance
    <3>2. /\ m_iv' \in [{0, 1} -> Iovec]
          /\ m_iv'[0].iov_len = m_iv[0].iov_len - have /\ m_iv'[1] = m_iv[1]
      BY <1>2, <1>3, <2>2, <3>1 DEF Iovec
    <3>3. Vector = m_iv[0].iov_len + (IF m_iv_count = 2 THEN m_iv[1].iov_len ELSE 0)
      BY DEF Vector
    <3> QED
      BY <1>1, <1>2, <1>3, <2>0, <3>2, <3>3
  <2> QED
    BY <2>1, <2>2
<1>7. ReadInv' /\ Room'
  BY <1>0, <1>1, ReadTypeStays
<1>8. WriteInv'
  <2>1. WriteTypeOK'
    BY <1>0, <1>1, <1>2, <1>3, <1>4, <1>6 DEF WriteInv, WriteTypeOK
  <2> QED
    BY <1>6, <2>1 DEF WriteInv
<1>9. RestTypeOK'
  <2>1. splits' \in 0 .. MaxSplits
    <3>1. splits \in 0 .. MaxSplits /\ MaxSplits \in Nat
      BY <1>0, ExchangeConstants DEF RestTypeOK
    <3> QED
      BY <1>1, <3>1
  <2> QED
    BY <1>0, <1>1, <2>1 DEF RestTypeOK, historyVars
<1> QED
  BY <1>7, <1>8, <1>9, TypeInvIs

LEMMA NextTypes == ASSUME TypeInv, [Next]_vars PROVE TypeInv'
<1>0. ReadInv /\ WriteInv /\ RestTypeOK /\ Room
  BY TypeInvIs
(* Steps that leave the buffers alone. *)
<1>1. ASSUME UNCHANGED <<readVars, writeVars, m_trig_mode, ret, wire, room, clientVars,
                         got, torn, lost>>,
             pc' \in {"out", "write", "closed", pc}, abandoned' \in BOOLEAN,
             pc' \in {"out", "write"} => Sending
      PROVE  TypeInv'
  <2>1. ReadInv' /\ Room'
    BY <1>0, <1>1, ReadTypeStays
  <2>2. WriteInv'
    BY <1>0, <1>1, WriteTypeStays DEF Sending
  <2>3. RestTypeOK'
    BY <1>0, <1>1 DEF RestTypeOK, clientVars
  <2> QED
    BY <2>1, <2>2, <2>3, TypeInvIs
<1>2. CASE CloseHup \/ WriteReady \/ WriteAgain \/ UNCHANGED vars
  <2>1. abandoned \in BOOLEAN
    BY <1>0 DEF RestTypeOK
  <2>2. /\ UNCHANGED <<readVars, writeVars, m_trig_mode, ret, wire, room, clientVars, got, torn,
                       lost>>
        /\ pc' \in {"out", "write", "closed", pc} /\ abandoned' \in BOOLEAN
        /\ pc' \in {"out", "write"} => Sending
    <3>1. CASE CloseHup
      BY <2>1, <3>1 DEF CloseHup
    <3>2. CASE WriteReady \/ WriteAgain \/ UNCHANGED vars
      BY <2>1, <3>2 DEF WriteReady, WriteAgain, vars, historyVars, Sending
    <3> QED
      BY <1>2, <3>1, <3>2
  <2> QED
    BY <1>1, <2>2
<1>3. CASE WriteError
  <2>1. /\ UNCHANGED <<readVars, m_trig_mode, ret, wire, room, clientVars, historyVars>>
        /\ pc' = "closed" /\ m_file_address' = <<>>
        /\ UNCHANGED <<m_write_buf, m_json, m_file_stat, m_iv, m_iv_count, bytes_to_send,
                       bytes_have_send, out, headCuts>>
    BY <1>3 DEF WriteError, Unmap, NULL
  <2>2. ReadInv' /\ Room'
    BY <1>0, <2>1, ReadTypeStays
  <2>3. WriteInv'
    <3>1. m_file_address' \in Seq(Nat)
      BY <2>1
    <3> QED
      BY <1>0, <2>1, <3>1 DEF WriteInv, WriteTypeOK, Sending
  <2>4. RestTypeOK'
    BY <1>0, <2>1 DEF RestTypeOK, clientVars, historyVars
  <2> QED
    BY <2>2, <2>3, <2>4, TypeInvIs
<1>4. CASE ParseOn \/ ParseBad \/ ParseDone \/ ParseWaits
  BY <1>4, ParseTypes
<1>5. CASE \E t \in 1 .. Vector : Writev(t)
  BY <1>5, WritevTypes
<1> QED
  BY <1>2, <1>3, <1>4, <1>5, ClientTypes, ReadOnceTypes, RequestTypes, RespondTypes, EndTypes
     DEF Next, ServerStep

LEMMA InitTypes == Init => TypeInv
<1> SUFFICES ASSUME Init PROVE TypeInv
  OBVIOUS
<1>1. ReadInv /\ Room
  <2>1. m_read_buf = <<>> /\ m_url = <<>>
    BY DEF Init, ReadInit
  <2>2. m_read_idx = 0 /\ m_read_buf \in Seq(Nat) /\ m_url \in Seq(Nat)
    BY <2>1 DEF m_read_idx
  <2>3. /\ m_checked_idx = 0 /\ m_start_line = 0
        /\ m_checked_idx \in 0 .. m_read_idx /\ m_start_line \in 0 .. m_read_idx
        /\ m_start_line <= m_checked_idx
    BY <2>2 DEF Init, ReadInit
  <2>5. /\ m_check_state = "REQUESTLINE" /\ lineStatus = "LINE_OK" /\ m_method = GET
        /\ m_linger = FALSE /\ m_content_length = 0 /\ m_string = 0
    BY DEF Init, ReadInit
  <2>6. m_read_idx <= READ_BUFFER_SIZE
    BY <2>2, ExchangeConstants
  <2>4. ReadInv
    BY <2>2, <2>3, <2>5, <2>6 DEF ReadInv, ReadTypeOK
  <2> QED
    BY <2>2, <2>4, ExchangeConstants DEF Room
<1>2. WriteInv
  <2>1. WriteTypeOK
    BY DEF Init, WriteInit, WriteTypeOK, NULL, Iovec
  <2> QED
    BY <2>1 DEF Init, WriteInv, Sending
<1>3. RestTypeOK
  <2>1. /\ <<>> \in Seq(Nat) /\ 0 \in 0 .. MaxRequests /\ 0 \in 0 .. MaxConns
        /\ 0 \in 0 .. MaxSplits /\ m_trig_mode \in {0, 1}
    BY ExchangeConstants DEF Init
  <2> QED
    BY <2>1 DEF Init, RestTypeOK, Codes
<1> QED
  BY <1>1, <1>2, <1>3, TypeInvIs

(* The types, with what they need to be kept: a line starts before where   *)
(* it is looked at, and an iovec is no longer than what is left to send    *)
(* (http_conn.cpp:142-232, 525-563).                                       *)
THEOREM TypeInvariance == Spec => []TypeInv
<1>1. Init => TypeInv
  BY InitTypes
<1>2. TypeInv /\ [Next]_vars => TypeInv'
  BY NextTypes
<1> QED
  BY <1>1, <1>2, PTL DEF Spec

(* Every variable stays in its type: m_read_idx is at most                 *)
(* READ_BUFFER_SIZE, the parser's indices are at most m_read_idx, and no   *)
(* iovec gets a negative length, however the bytes are cut up              *)
(* (http_conn.cpp:142-232, 525-563).  What is stored at those indices is   *)
(* in the buffer, but for the NUL behind a body that fills it (332), of    *)
(* which IndexStaysTrue speaks; do_request's name and password are not     *)
(* among these indices.                                                    *)
THEOREM TypeCorrect == Spec => []TypeOK
<1>1. TypeInv => TypeOK
  BY DEF TypeInv
<1> QED
  BY <1>1, TypeInvariance, PTL

(* No turn of process_read's loop changes m_read_idx.                      *)
LEMMA ParseKeepsIndex ==
    ASSUME TypeInv, ParseOn \/ ParseBad \/ ParseDone \/ ParseWaits
    PROVE  m_read_idx' = m_read_idx /\ got' = got
<1>1. \/ RequestLine \/ BadRequestLine \/ Header \/ BlankLine \/ LastLine
      \/ Content \/ BodyNotThere \/ NoLine
  BY DEF ParseOn, ParseBad, ParseDone, ParseWaits
<1>2. m_read_idx' = m_read_idx
  BY <1>1, TurnKeeps, TypeInvIs
<1>3. got' = got
  BY DEF ParseOn, ParseBad, ParseDone, ParseWaits, historyVars
<1> QED
  BY <1>2, <1>3

LEMMA NextIndex == ASSUME TypeInv, IndexIsTrue, [Next]_vars PROVE IndexIsTrue'
<1>1. CASE ReadOnce
  <2>1. PICK n \in 1 .. Len(wire) \cup {0} :
            m_read_idx' = m_read_idx + n /\ Len(got') = Len(got) + n
    <3>1. PICK n \in 1 .. Len(wire) \cup {0} :
              /\ Len(SubSeq(wire, 1, n)) = n /\ SubSeq(wire, 1, n) \in Seq(Nat)
              /\ got' = got \o SubSeq(wire, 1, n) /\ m_read_idx' = m_read_idx + n
      BY <1>1, ReadOnceGives
    <3>2. got \in Seq(Nat)
      BY TypeInvIs DEF RestTypeOK
    <3>3. Len(got') = Len(got) + n
      BY <3>1, <3>2, Joined
    <3> QED
      BY <3>1, <3>3
  <2> QED
    BY <2>1 DEF IndexIsTrue
<1>2. CASE ParseOn \/ ParseBad \/ ParseDone \/ ParseWaits
  BY <1>2, ParseKeepsIndex DEF IndexIsTrue
<1>3. CASE Accept \/ WriteDone
  <2>1. \/ m_read_buf' = <<>> /\ got' = <<>>
        \/ UNCHANGED <<m_read_buf, got>>
    <3>1. CASE Accept
      BY <3>1 DEF Accept, ReadReset
    <3>2. CASE WriteDone
      BY <3>2 DEF WriteDone, ReadReset, readVars
    <3> QED
      BY <1>3, <3>1, <3>2
  <2>2. CASE m_read_buf' = <<>> /\ got' = <<>>
    BY <2>2 DEF IndexIsTrue, m_read_idx
  <2>3. CASE UNCHANGED <<m_read_buf, got>>
    BY <2>3 DEF IndexIsTrue, m_read_idx
  <2> QED
    BY <2>1, <2>2, <2>3
<1>4. CASE ClientStep \/ CloseHup \/ SignIn \/ SignInOverruns \/ GetFile \/ Respond
           \/ WriteReady \/ WriteAgain \/ WriteError \/ UNCHANGED vars
  <2>1. UNCHANGED <<m_read_buf, got>>
    <3>1. CASE ClientStep
      BY <3>1 DEF ClientStep, Begin, SendBytes, Drain, HangUp, readVars, historyVars
    <3>2. CASE SignIn \/ SignInOverruns \/ GetFile
      BY <3>2 DEF SignIn, SignInOverruns, GetFile, readVars, historyVars
    <3>3. CASE CloseHup \/ Respond \/ WriteReady \/ WriteAgain \/ WriteError \/ UNCHANGED vars
      BY <3>3 DEF CloseHup, Respond, WriteReady, WriteAgain, WriteError, readVars,
                  historyVars, vars
    <3> QED
      BY <1>4, <3>1, <3>2, <3>3
  <2> QED
    BY <2>1 DEF IndexIsTrue, m_read_idx
<1>5. ASSUME NEW t \in 1 .. Vector, Writev(t) PROVE IndexIsTrue'
  BY <1>5 DEF Writev, IndexIsTrue, m_read_idx, readVars, historyVars
<1> QED
  BY <1>1, <1>2, <1>3, <1>4, <1>5 DEF Next, ServerStep

(* The count of the bytes read is true, even when the NUL behind a body    *)
(* that fills the buffer falls on its low byte: that byte is zero then,    *)
(* as READ_BUFFER_SIZE is a multiple of the values a byte can have         *)
(* (http_conn.cpp:332).                                                    *)
THEOREM IndexStaysTrue == Spec => []IndexIsTrue
<1>1. Init => IndexIsTrue
  BY DEF Init, ReadInit, IndexIsTrue, m_read_idx
<1>2. TypeInv /\ IndexIsTrue /\ [Next]_vars => IndexIsTrue'
  BY NextIndex
<1> QED
  BY <1>1, <1>2, TypeInvariance, PTL DEF Spec
-----------------------------------------------------------------------------
(* What the parser makes of the lines of a request. *)

LEMMA RequestTextIs ==
    ASSUME NEW r, IsRequest(r)
    PROVE  LET t == RequestText(r)  n == Len(r.path) IN
           /\ n \in Nat \ {0} /\ t \in Seq(Nat) /\ Len(t) = n + 4
           /\ t[1] = r.method /\ t[2] = SP
           /\ \A j \in 1 .. n : t[2 + j] = r.path[j] /\ r.path[j] # SP
           /\ t[n + 3] = SP /\ t[n + 4] = HTTP11
<1> DEFINE n == Len(r.path)  a == <<r.method, SP>>  c == <<SP, HTTP11>>  p == r.path
<1>1. /\ r.method \in Word /\ p \in Seq(Word) /\ p # <<>>
      /\ Word \subseteq Nat /\ SP \in Nat /\ HTTP11 \in Nat
      /\ \A w \in Word : w # SP
  BY DEF IsRequest, Word, SP, HTTP11
<1>2. /\ a \in Seq(Nat) /\ Len(a) = 2 /\ a[1] = r.method /\ a[2] = SP
      /\ c \in Seq(Nat) /\ Len(c) = 2 /\ c[1] = SP /\ c[2] = HTTP11
  <2>1. r.method \in Nat /\ SP \in Nat /\ HTTP11 \in Nat
    BY <1>1
  <2> QED
    BY <2>1
<1>3. p \in Seq(Nat) /\ n \in Nat \ {0} /\ \A j \in 1 .. n : p[j] # SP
  <2>1. p \in Seq(Nat)
    BY <1>1, SeqMonotonic
  <2>2. n \in Nat /\ n # 0
    BY <1>1
  <2>3. \A j \in 1 .. n : p[j] \in Word
    BY <1>1, ElementOfSeq
  <2> QED
    BY <1>1, <2>1, <2>2, <2>3
<1>4. RequestText(r) = (a \o p) \o c
  BY Zenon DEF RequestText
<1> HIDE DEF a, c, p
<1>5. /\ a \o p \in Seq(Nat) /\ Len(a \o p) = n + 2
      /\ \A j \in 1 .. 2 : (a \o p)[j] = a[j]
      /\ \A j \in 1 .. n : (a \o p)[2 + j] = p[j]
  <2>1. n = Len(p)
    BY DEF p
  <2>2. /\ a \o p \in Seq(Nat) /\ Len(a \o p) = Len(a) + Len(p)
        /\ \A j \in 1 .. Len(a) : (a \o p)[j] = a[j]
        /\ \A j \in 1 .. Len(p) : (a \o p)[Len(a) + j] = p[j]
    BY <1>2, <1>3, Joined
  <2> HIDE DEF n
  <2> QED
    BY <1>2, <1>3, <2>1, <2>2
<1> HIDE DEF n
<1> DEFINE x == a \o p
<1>6. x \in Seq(Nat) /\ Len(x) = n + 2
  BY <1>5
<1> HIDE DEF x
<1>7. /\ x \o c \in Seq(Nat) /\ Len(x \o c) = n + 4
      /\ \A j \in 1 .. n + 2 : (x \o c)[j] = x[j]
      /\ (x \o c)[n + 3] = c[1] /\ (x \o c)[n + 4] = c[2]
  <2>1. /\ x \o c \in Seq(Nat) /\ Len(x \o c) = Len(x) + Len(c)
        /\ \A j \in 1 .. Len(x) : (x \o c)[j] = x[j]
        /\ \A j \in 1 .. Len(c) : (x \o c)[Len(x) + j] = c[j]
    BY <1>2, <1>6, Joined
  <2>2. Len(x) + Len(c) = n + 4 /\ Len(x) + 1 = n + 3 /\ Len(x) + 2 = n + 4
    BY <1>2, <1>3, <1>6
  <2>3. 1 \in 1 .. Len(c) /\ 2 \in 1 .. Len(c)
    BY <1>2
  <2> QED
    BY <1>6, <2>1, <2>2, <2>3, Zenon
<1>8. /\ (x \o c)[1] = r.method /\ (x \o c)[2] = SP
      /\ \A j \in 1 .. n : (x \o c)[2 + j] = p[j]
  <2>1. 1 \in 1 .. n + 2 /\ 2 \in 1 .. n + 2 /\ \A j \in 1 .. n : 2 + j \in 1 .. n + 2
    BY <1>3
  <2>2. 1 \in 1 .. 2 /\ 2 \in 1 .. 2
    OBVIOUS
  <2> QED
    BY <1>2, <1>5, <1>7, <2>1, <2>2, Zenon DEF x
<1> QED
  BY <1>2, <1>3, <1>4, <1>7, <1>8, Zenon DEF n, p, x

(* A request line by rights is taken, if its method is one of the two the  *)
(* server knows, and gives the method and the path.                        *)
LEMMA RequestLineIs ==
    ASSUME NEW r, IsRequest(r)
    PROVE  /\ GoodRequestLine(RequestText(r)) <=> r.method \in {GET, POST}
           /\ RequestText(r)[1] = r.method
           /\ Url(RequestText(r)) = r.path
<1> DEFINE t == RequestText(r)  n == Len(r.path)  S == {SP}
<1>1. /\ n \in Nat \ {0} /\ t \in Seq(Nat) /\ Len(t) = n + 4
      /\ t[1] = r.method /\ t[2] = SP
      /\ \A j \in 1 .. n : t[2 + j] = r.path[j] /\ r.path[j] # SP
      /\ t[n + 3] = SP /\ t[n + 4] = HTTP11
  BY RequestTextIs
<1>2. /\ r.method \in Word /\ r.path \in Seq(Word) /\ r.path[1] = SLASH /\ SLASH # SP
      /\ HTTP11 # SP /\ r.method # SP
  BY DEF IsRequest, Word, SLASH, SP, HTTP11
<1> HIDE DEF t, n, S
<1>3. FirstOf(t, 1, S) = 2
  <2>1. /\ 2 \in 1 .. Len(t) /\ 1 \in Nat \ {0} /\ Len(t) \in Nat
        /\ \A j \in 1 .. 2 - 1 : j = 1
    BY <1>1
  <2>2. t[2] \in S /\ \A j \in 1 .. 2 - 1 : t[j] \notin S
    BY <1>1, <1>2, <2>1 DEF S
  <2> QED
    BY <2>1, <2>2, FirstOfAt
<1>4. t[3] = SLASH
  <2>1. 1 \in 1 .. n /\ 2 + 1 = 3
    BY <1>1
  <2> QED
    BY <1>1, <1>2, <2>1 DEF t
<1>5. SkipSpaces(t, 3) = 3
  <2>1. Len(t) \in Nat /\ 3 \in 1 .. Len(t) + 1 /\ 3 \in 3 .. Len(t) /\ \A j \in 3 .. 3 - 1 : FALSE
    BY <1>1
  <2>2. t[3] # SP /\ \A j \in 3 .. 3 - 1 : t[j] = SP
    BY <1>2, <1>4, <2>1
  <2> QED
    BY <2>1, <2>2, SkipSpacesAt
<1>6. FirstOf(t, 3, S) = n + 3
  <2> DEFINE k == n + 3
  <2>1. Len(t) \in Nat /\ 3 \in Nat \ {0} /\ k \in 3 .. Len(t) /\ t[k] \in S
    BY <1>1 DEF S
  <2>2. ASSUME NEW j \in 3 .. k - 1 PROVE t[j] \notin S
    <3>1. j - 2 \in 1 .. n /\ 2 + (j - 2) = j
      BY <1>1
    <3>2. t[2 + (j - 2)] # SP
      BY <1>1, <3>1
    <3> QED
      BY <3>1, <3>2 DEF S
  <2> HIDE DEF k
  <2>3. FirstOf(t, 3, S) = k
    BY <2>1, <2>2, FirstOfAt
  <2> QED
    BY <2>3 DEF k
<1>7. SkipSpaces(t, n + 4) = n + 4
  <2>1. /\ Len(t) \in Nat /\ n + 4 \in 1 .. Len(t) + 1 /\ n + 4 \in n + 4 .. Len(t)
        /\ \A j \in n + 4 .. n + 4 - 1 : FALSE
    BY <1>1
  <2>2. t[n + 4] # SP /\ \A j \in n + 4 .. n + 4 - 1 : t[j] = SP
    BY <1>1, <1>2, <2>1
  <2> QED
    BY <2>1, <2>2, SkipSpacesAt
<1>8. \A i \in 1 .. n + 4 : t[i] \in Nat
  BY <1>1, ElementOfSeq
<1>9. From(t, n + 4) = <<HTTP11>>
  <2> DEFINE k == n + 4  x == SubSeq(t, k, k)
  <2>1. k \in Int /\ \A i \in k .. k : t[i] \in Nat
    BY <1>1, <1>8
  <2>2. From(t, k) = x
    BY <1>1 DEF From
  <2>6. t[k] = HTTP11
    BY <1>1
  <2> HIDE DEF k
  <2>3. /\ x \in Seq(Nat) /\ Len(x) = IF k <= k THEN k - k + 1 ELSE 0
        /\ \A i \in 1 .. k - k + 1 : x[i] = t[k + i - 1]
    BY <2>1, SubSeqProperties
  <2> HIDE DEF x
  <2>4. Len(x) = 1 /\ x[1] = t[k]
    BY <2>1, <2>3
  <2>5. x = <<HTTP11>>
    BY <2>3, <2>4, <2>6
  <2> QED
    BY <2>2, <2>5 DEF k
<1>10. SubSeq(t, 1, 1) = <<r.method>>
  <2>1. 1 \in Int /\ \A i \in 1 .. 1 : t[i] \in Nat
    BY <1>1, <1>8
  <2> DEFINE x == SubSeq(t, 1, 1)
  <2>3. /\ x \in Seq(Nat) /\ Len(x) = IF 1 <= 1 THEN 1 - 1 + 1 ELSE 0
        /\ \A i \in 1 .. 1 - 1 + 1 : x[i] = t[1 + i - 1]
    BY <2>1, SubSeqProperties
  <2> HIDE DEF x
  <2>4. Len(x) = 1 /\ x[1] = t[1]
    BY <2>3
  <2>5. x = <<r.method>>
    BY <1>1, <2>3, <2>4
  <2> QED
    BY <2>5 DEF x
<1>11. SubSeq(t, 3, n + 2) = r.path
  <2>1. 3 \in Int /\ n + 2 \in Int /\ \A i \in 3 .. n + 2 : t[i] \in Nat
    BY <1>1, <1>8
  <2> DEFINE x == SubSeq(t, 3, n + 2)
  <2>3. /\ x \in Seq(Nat) /\ Len(x) = IF 3 <= n + 2 THEN (n + 2) - 3 + 1 ELSE 0
        /\ \A i \in 1 .. (n + 2) - 3 + 1 : x[i] = t[3 + i - 1]
    BY <2>1, SubSeqProperties
  <2> HIDE DEF x
  <2>4. Len(x) = n /\ \A i \in 1 .. n : x[i] = t[2 + i]
    BY <1>1, <2>3
  <2>5. r.path \in Seq(Nat) /\ Len(r.path) = n
    <3>1. Word \subseteq Nat
      BY DEF Word
    <3> QED
      BY <1>2, <3>1, SeqMonotonic DEF n
  <2>6. x = r.path
    BY <1>1, <2>3, <2>4, <2>5, SeqEqual
  <2> QED
    BY <2>6 DEF x
<1>12. /\ 2 - 1 = 1 /\ 2 + 1 = 3 /\ (n + 3) - 1 = n + 2 /\ (n + 3) + 1 = n + 4 /\ 2 # 0
       /\ n + 3 # 0 /\ 3 < n + 3
  BY <1>1
<1>13. Url(t) = r.path
  BY <1>3, <1>5, <1>6, <1>11, <1>12, Zenon DEF Url, S
<1>14. GoodRequestLine(t) <=> <<r.method>> \in {<<GET>>, <<POST>>}
  BY <1>3, <1>4, <1>5, <1>6, <1>7, <1>9, <1>10, <1>12, Zenon DEF GoodRequestLine, S
<1>15. <<r.method>> \in {<<GET>>, <<POST>>} <=> r.method \in {GET, POST}
  OBVIOUS
<1> QED
  BY <1>1, <1>13, <1>14, <1>15, Zenon DEF t

LEMMA ThirdIs ==
    ASSUME NEW a \in Nat, NEW b \in Nat, b # SP
    PROVE  Value(<<a, SP, b>>) = <<b>>
<1> DEFINE t == <<a, SP, b>>
<1>1. SP \in Nat /\ Len(t) = 3 /\ t[2] = SP /\ t[3] = b /\ t \in Seq(Nat)
  BY DEF SP
<1> HIDE DEF t
<1>2. SkipSpaces(t, 2) = 3
  <2>1. Len(t) \in Nat /\ 2 \in 1 .. Len(t) + 1 /\ 3 \in 2 .. Len(t) /\ \A j \in 2 .. 3 - 1 : j = 2
    BY <1>1
  <2>2. t[3] # SP /\ \A j \in 2 .. 3 - 1 : t[j] = SP
    BY <1>1, <2>1
  <2> QED
    BY <2>1, <2>2, SkipSpacesAt
<1>3. SubSeq(t, 3, 3) = <<b>>
  <2>1. 3 \in Int /\ \A i \in 3 .. 3 : t[i] \in Nat
    BY <1>1
  <2> DEFINE x == SubSeq(t, 3, 3)
  <2>3. /\ x \in Seq(Nat) /\ Len(x) = IF 3 <= 3 THEN 3 - 3 + 1 ELSE 0
        /\ \A i \in 1 .. 3 - 3 + 1 : x[i] = t[3 + i - 1]
    BY <2>1, SubSeqProperties
  <2> HIDE DEF x
  <2>4. Len(x) = 1 /\ x[1] = t[3]
    BY <2>3
  <2>5. x = <<b>>
    BY <1>1, <2>3, <2>4
  <2> QED
    BY <2>5 DEF x
<1> QED
  BY <1>1, <1>2, <1>3, Zenon DEF Value, From, t

LEMMA HeadersAre ==
    /\ KeepText # <<>> /\ KeepText[1] = CONNECTION /\ Value(KeepText) = <<KEEP_ALIVE>>
    /\ CONNECTION # CONTENT_LENGTH
    /\ \A r : IsRequest(r) =>
          /\ LengthText(r) # <<>> /\ LengthText(r)[1] = CONTENT_LENGTH
          /\ atol(Value(LengthText(r))) = Len(Form(r))
<1>1. /\ CONNECTION \in Nat /\ KEEP_ALIVE \in Nat /\ KEEP_ALIVE # SP /\ CONTENT_LENGTH \in Nat
      /\ CONNECTION # CONTENT_LENGTH
  BY DEF CONNECTION, KEEP_ALIVE, SP, CONTENT_LENGTH
<1>2. Value(KeepText) = <<KEEP_ALIVE>>
  BY <1>1, ThirdIs DEF KeepText
<1>3. ASSUME NEW r, IsRequest(r)
      PROVE  /\ LengthText(r) # <<>> /\ LengthText(r)[1] = CONTENT_LENGTH
             /\ atol(Value(LengthText(r))) = Len(Form(r))
  <2> DEFINE n == Len(Form(r))  num == Numeral(n)
  <2>1. n \in Nat
    BY <1>3, FormIs
  <2> HIDE DEF n
  <2>2. num \in Nat /\ num # SP /\ num >= Numeral(0) /\ num - Numeral(0) = n
    BY <2>1 DEF Numeral, SP
  <2> HIDE DEF num
  <2>3. Value(<<CONTENT_LENGTH, SP, num>>) = <<num>>
    BY <1>1, <2>2, ThirdIs
  <2>4. atol(<<num>>) = n
    BY <2>2 DEF atol
  <2>5. LengthText(r) = <<CONTENT_LENGTH, SP, num>>
    BY DEF LengthText, num, n
  <2> QED
    BY <2>3, <2>4, <2>5 DEF n
<1> QED
  BY <1>1, <1>2, <1>3 DEF KeepText
-----------------------------------------------------------------------------
(* What has been read belongs to the request r. *)
Meant(r) ==
    /\ Len(got) <= Len(Bytes(r))
    /\ \A i \in 1 .. Len(got) : got[i] = Bytes(r)[i]

(* The bytes from the line on that the parser is at are as they were read. *)
SameBytes ==
    /\ m_read_idx = Len(got)
    /\ \A i \in m_start_line + 1 .. Len(got) : m_read_buf[i] = got[i]

LineAt(s, t) == m_start_line = s /\ m_checked_idx \in s .. s + Len(t)

(* Where parse_line finds the end of a line the client has begun. *)
LEMMA LineEndAt ==
    ASSUME ReadInv, SameBytes, NEW w, Len(got) <= Len(w), Len(w) \in Nat,
           \A i \in 1 .. Len(got) : got[i] = w[i],
           NEW s, NEW t \in Seq(Text), LineAt(s, t), s + Len(t) + 1 <= Len(w),
           \A j \in 1 .. Len(t) : w[s + j] = t[j],
           w[s + Len(t) + 1] \in {CR, LF}
    PROVE  /\ s \in Nat /\ Len(t) \in Nat
           /\ m_read_idx <= s + Len(t) => LineEnd = 0
           /\ m_read_idx > s + Len(t) => LineEnd = s + Len(t) + 1
           /\ \A i \in s + 1 .. m_read_idx : m_read_buf[i] = w[i]
<1> DEFINE end == s + Len(t)
<1>1. /\ m_read_idx \in Nat /\ m_checked_idx \in Nat /\ m_start_line = s /\ s \in Nat
      /\ m_checked_idx <= m_read_idx /\ m_checked_idx \in s .. end /\ Len(t) \in Nat
      /\ Len(m_read_buf) = m_read_idx /\ \A j \in 1 .. Len(t) : t[j] \notin {CR, LF}
  <2>1. \A j \in 1 .. Len(t) : t[j] \in Text
    BY ElementOfSeq
  <2> QED
    BY <2>1, IndicesAre, LenProperties DEF LineAt, Text
<1>2. m_read_idx = Len(got) /\ \A i \in s + 1 .. Len(got) : m_read_buf[i] = got[i]
  BY <1>1 DEF SameBytes
<1>3. \A i \in s + 1 .. m_read_idx : m_read_buf[i] = w[i]
  BY <1>1, <1>2
<1> HIDE DEF m_read_idx
<1>4. ASSUME NEW i \in m_checked_idx + 1 .. end, i <= m_read_idx
      PROVE  m_read_buf[i] \notin {CR, LF}
  <2>1. i \in s + 1 .. m_read_idx /\ i - s \in 1 .. Len(t) /\ s + (i - s) = i
    BY <1>1, <1>4
  <2>2. w[s + (i - s)] = t[i - s]
    BY <2>1
  <2> QED
    BY <1>1, <1>3, <2>1, <2>2
<1>5. CASE m_read_idx <= end
  <2>1. LineEnd \notin m_checked_idx + 1 .. m_read_idx
    <3>1. SUFFICES ASSUME LineEnd \in m_checked_idx + 1 .. m_read_idx PROVE FALSE
      OBVIOUS
    <3>2. m_read_buf[LineEnd] \in {CR, LF}
      BY <1>1, <3>1, LineEndIs
    <3>3. LineEnd \in m_checked_idx + 1 .. end /\ LineEnd <= m_read_idx
      BY <1>1, <1>5, <3>1
    <3> QED
      BY <1>4, <3>2, <3>3
  <2>2. LineEnd = 0
    BY <2>1, LineEndIs
  <2> QED
    BY <1>1, <1>3, <1>5, <2>2
<1>6. CASE m_read_idx > end
  <2> DEFINE k == end + 1  i == m_checked_idx + 1  C == {CR, LF}
  <2>1. /\ Len(m_read_buf) \in Nat /\ i \in Nat \ {0} /\ k \in i .. Len(m_read_buf)
        /\ k \in s + 1 .. m_read_idx
    BY <1>1, <1>6
  <2>2. m_read_buf[k] \in C
    BY <1>1, <1>3, <2>1
  <2>3. \A j \in i .. k - 1 : m_read_buf[j] \notin C
    <3>1. SUFFICES ASSUME NEW j \in i .. k - 1 PROVE m_read_buf[j] \notin C
      OBVIOUS
    <3>2. j \in m_checked_idx + 1 .. end /\ j <= m_read_idx
      BY <1>1, <1>6
    <3> QED
      BY <1>4, <3>2
  <2>4. LineEnd = FirstOf(m_read_buf, i, C)
    BY DEF LineEnd
  <2> HIDE DEF k, i, C
  <2>5. LineEnd = k
    BY <2>1, <2>2, <2>3, <2>4, FirstOfAt
  <2> QED
    BY <1>1, <1>3, <1>6, <2>5 DEF k
<1> QED
  BY <1>1, <1>5, <1>6

(* A line that ends by rights is found when its last byte is there. *)
LEMMA LineThere ==
    ASSUME ReadInv, SameBytes, NEW w, Len(got) <= Len(w), Len(w) \in Nat,
           \A i \in 1 .. Len(got) : got[i] = w[i],
           NEW s, NEW t, LineAt(s, t), LineIn(w, s, t)
    PROVE  /\ LineStatus = "LINE_OK" => /\ CarriageReturn = s + Len(t) + 1 /\ Line = {t}
                                        /\ s + Len(t) + 2 <= m_read_idx
           /\ LineStatus # "LINE_OK" => m_read_idx < s + Len(t) + 2
           /\ LineNotOver => m_checked_idx' \in s .. s + Len(t)
<1> DEFINE end == s + Len(t)
<1>1. /\ t \in Seq(Text) /\ end + 2 <= Len(w)
      /\ \A j \in 1 .. Len(t) : w[s + j] = t[j]
      /\ w[end + 1] = CR /\ w[end + 2] = LF
  BY DEF LineIn
<1>2. /\ m_read_idx \in Nat /\ m_checked_idx \in Nat /\ m_start_line = s /\ s \in Nat
      /\ m_checked_idx <= m_read_idx /\ m_checked_idx \in s .. end /\ Len(t) \in Nat
      /\ Len(m_read_buf) = m_read_idx
  BY <1>1, IndicesAre, LenProperties DEF LineAt
<1>3. /\ m_read_idx <= end => LineEnd = 0
      /\ m_read_idx > end => LineEnd = end + 1
      /\ \A i \in s + 1 .. m_read_idx : m_read_buf[i] = w[i]
  <2>1. end + 1 <= Len(w) /\ w[end + 1] \in {CR, LF}
    BY <1>1, <1>2
  <2> QED
    BY <1>1, <2>1, LineEndAt
<1>4. CR # LF
  BY DEF CR, LF
<1> HIDE DEF m_read_idx
<1>5. CASE m_read_idx <= end
  <2>1. LineEnd = 0
    BY <1>3, <1>5
  <2>2. LineStatus = "LINE_OPEN"
    BY <2>1 DEF LineStatus
  <2>3. LineNotOver => m_checked_idx' = m_read_idx
    BY <2>1 DEF LineNotOver
  <2> QED
    BY <1>2, <1>5, <2>2, <2>3
<1>6. CASE m_read_idx = end + 1
  <2>1. LineEnd = end + 1 /\ LineEnd # 0 /\ m_read_buf[LineEnd] = CR /\ LineEnd = m_read_idx
    BY <1>1, <1>2, <1>3, <1>6
  <2>2. LineStatus = "LINE_OPEN"
    BY <1>4, <2>1 DEF LineStatus
  <2>3. LineNotOver => m_checked_idx' = LineEnd - 1
    BY <2>1 DEF LineNotOver
  <2> QED
    BY <1>2, <1>6, <2>1, <2>2, <2>3
<1>7. CASE m_read_idx >= end + 2
  <2>1. /\ LineEnd = end + 1 /\ LineEnd # 0 /\ m_read_buf[LineEnd] = CR /\ LineEnd # m_read_idx
        /\ m_read_buf[LineEnd + 1] = LF
    <3>1. /\ end + 1 \in s + 1 .. m_read_idx /\ end + 2 \in s + 1 .. m_read_idx
          /\ (end + 1) + 1 = end + 2 /\ m_read_idx > end
      BY <1>2, <1>7
    <3> QED
      BY <1>1, <1>2, <1>3, <1>7, <3>1
  <2>2. LineStatus = "LINE_OK" /\ CarriageReturn = LineEnd
    BY <1>4, <2>1 DEF LineStatus, CarriageReturn
  <2>3. SubSeq(m_read_buf, s + 1, end) = t
    <3> DEFINE x == SubSeq(m_read_buf, s + 1, end)
    <3>1. /\ s + 1 \in Int /\ end \in Int
          /\ \A j \in 1 .. Len(t) : m_read_buf[s + j] = t[j] /\ t[j] \in Text
      <4>1. \A j \in 1 .. Len(t) : t[j] \in Text
        BY <1>1, ElementOfSeq
      <4>2. ASSUME NEW j \in 1 .. Len(t) PROVE m_read_buf[s + j] = t[j]
        <5>1. s + j \in s + 1 .. m_read_idx
          BY <1>2, <1>7
        <5> QED
          BY <1>1, <1>3, <5>1
      <4>3. s + 1 \in Int /\ end \in Int
        BY <1>2
      <4> QED
        BY <4>1, <4>2, <4>3
    <3>2. \A i \in s + 1 .. end : m_read_buf[i] \in Text
      <4>1. SUFFICES ASSUME NEW i \in s + 1 .. end PROVE m_read_buf[i] \in Text
        OBVIOUS
      <4>2. i - s \in 1 .. Len(t) /\ s + (i - s) = i
        BY <1>2
      <4> QED
        BY <3>1, <4>2
    <3>3. /\ x \in Seq(Text) /\ Len(x) = IF s + 1 <= end THEN end - (s + 1) + 1 ELSE 0
          /\ \A i \in 1 .. end - (s + 1) + 1 : x[i] = m_read_buf[s + 1 + i - 1]
      <4> DEFINE k == s + 1
      <4>1. k \in Int /\ end \in Int /\ \A i \in k .. end : m_read_buf[i] \in Text
        BY <3>1, <3>2
      <4>2. x = SubSeq(m_read_buf, k, end)
        OBVIOUS
      <4> HIDE DEF k, end, x
      <4>3. /\ x \in Seq(Text) /\ Len(x) = IF k <= end THEN end - k + 1 ELSE 0
            /\ \A i \in 1 .. end - k + 1 : x[i] = m_read_buf[k + i - 1]
        BY <4>1, <4>2, SubSeqProperties
      <4> QED
        BY <4>3, Zenon DEF k
    <3> HIDE DEF x
    <3>4. Len(x) = Len(t) /\ \A i \in 1 .. Len(t) : x[i] = m_read_buf[s + i]
      BY <1>2, <3>3
    <3>5. x = t
      BY <1>1, <3>1, <3>3, <3>4, SeqEqual
    <3> QED
      BY <3>5 DEF x
  <2>4. Line = {t}
    <3>1. CarriageReturn - 1 = end
      BY <1>2, <2>1, <2>2
    <3> QED
      BY <1>2, <2>2, <2>3, <3>1 DEF Line
  <2>5. ~ LineNotOver
    BY <2>2 DEF LineNotOver
  <2> QED
    BY <1>2, <1>7, <2>1, <2>2, <2>4, <2>5
<1> QED
  BY <1>2, <1>5, <1>6, <1>7

(* A bare LF is no end of a line: parse_line stays before it for good. *)
LEMMA BareLine ==
    ASSUME ReadInv, SameBytes, NEW r, IsRequest(r), ~WellFormed(r), Meant(r),
           LineAt(0, RequestText(r))
    PROVE  /\ LineStatus # "LINE_OK"
           /\ LineNotOver => m_checked_idx' \in 0 .. Len(RequestText(r))
<1> DEFINE w == Bytes(r)  t == RequestText(r)  n == Len(t)
<1>1. /\ t \in Seq(Text) /\ Len(t) = Len(r.path) + 4 /\ w \in Seq(Nat)
      /\ \A j \in 1 .. Len(r.path) + 4 : w[j] = t[j]
      /\ \A j \in 1 .. Len(r.eol) : w[Len(r.path) + 4 + j] = r.eol[j]
      /\ Len(w) = AfterHead(r) + Len(Form(r))
  BY BytesAre
<1>2. r.eol = <<LF>>
  BY DEF IsRequest, WellFormed
<1>3. Len(r.path) \in Nat \ {0} /\ t[n] = HTTP11
  BY <1>1, RequestTextIs
<1> HIDE DEF w, t
<1>4. n \in Nat /\ n = Len(r.path) + 4 /\ Len(w) \in Nat /\ n + 1 <= Len(w)
  <2>1. n = Len(r.path) + 4 /\ n \in Nat
    BY <1>1, <1>3
  <2>2. Len(w) >= Len(r.path) + 4 + Len(r.eol) /\ Len(r.eol) = 1
    <3>1. Len(r.eol) = 1
      BY <1>2
    <3>2. Len(Form(r)) \in Nat
      BY FormIs
    <3> QED
      <4>0. AfterRequestLine(r) = Len(r.path) + 4 + Len(r.eol)
        BY DEF AfterRequestLine
      <4>1. AfterRequestLine(r) \in Nat
        BY <1>3, <3>1, <4>0
      <4>2. AfterKeepAlive(r) \in Nat /\ AfterKeepAlive(r) >= AfterRequestLine(r)
        <5> DEFINE k == IF r.keep THEN 5 ELSE 0
        <5>1. k \in Nat /\ AfterKeepAlive(r) = AfterRequestLine(r) + k
          BY DEF AfterKeepAlive
        <5> HIDE DEF k
        <5> QED
          BY <4>1, <5>1
      <4>3. AfterHead(r) \in Nat /\ AfterHead(r) >= AfterKeepAlive(r)
        BY <4>2 DEF AfterHead, AfterLength
      <4> QED
        BY <1>1, <1>3, <3>1, <3>2, <4>0, <4>1, <4>2, <4>3
  <2>3. Len(w) \in Nat
    BY <1>1, LenProperties
  <2> QED
    BY <2>1, <2>2, <2>3
<1>5. w[n + 1] = LF
  <2>1. 1 \in 1 .. Len(r.eol) /\ r.eol[1] = LF
    BY <1>2
  <2> QED
    BY <1>1, <1>4, <2>1
<1>6. /\ m_read_idx <= n => LineEnd = 0
      /\ m_read_idx > n => LineEnd = n + 1
      /\ \A i \in 1 .. m_read_idx : m_read_buf[i] = w[i]
  <2> DEFINE s == 0
  <2>1. /\ Len(got) <= Len(w) /\ \A i \in 1 .. Len(got) : got[i] = w[i]
    BY DEF Meant, w
  <2>2. LineAt(s, t)
    BY DEF t
  <2>6. s + n = n /\ s + 1 = 1
    BY <1>4
  <2>3. \A j \in 1 .. Len(t) : w[s + j] = t[j]
    BY <1>1, <1>4
  <2>4. s + Len(t) + 1 <= Len(w) /\ w[s + Len(t) + 1] \in {CR, LF}
    BY <1>4, <1>5
  <2>7. t \in Seq(Text) /\ Len(w) \in Nat
    BY <1>1, <1>4
  <2> HIDE DEF s
  <2>5. /\ m_read_idx <= s + Len(t) => LineEnd = 0
        /\ m_read_idx > s + Len(t) => LineEnd = s + Len(t) + 1
        /\ \A i \in s + 1 .. m_read_idx : m_read_buf[i] = w[i]
    BY <2>1, <2>2, <2>3, <2>4, <2>7, LineEndAt
  <2> QED
    BY <1>4, <2>5, <2>6, Zenon
<1>7. /\ m_read_idx \in Nat /\ m_checked_idx \in 0 .. n /\ m_checked_idx <= m_read_idx
  <2>1. m_checked_idx \in 0 .. 0 + n
    BY DEF LineAt, t
  <2> QED
    BY <1>4, <2>1, IndicesAre
<1> HIDE DEF m_read_idx
<1>8. CASE m_read_idx <= n
  <2>1. LineEnd = 0
    BY <1>6, <1>8
  <2> QED
    BY <1>4, <1>7, <1>8, <2>1 DEF LineStatus, LineNotOver, t
<1>9. CASE m_read_idx > n
  <2>1. LineEnd = n + 1 /\ LineEnd # 0 /\ m_read_buf[LineEnd] = LF /\ m_read_buf[LineEnd - 1] # CR
    <3>1. n \in 1 .. m_read_idx /\ n + 1 \in 1 .. m_read_idx /\ (n + 1) - 1 = n
      BY <1>3, <1>4, <1>7, <1>9
    <3>2. m_read_buf[n] = HTTP11 /\ HTTP11 # CR
      <4>1. n \in 1 .. Len(r.path) + 4
        BY <1>3, <1>4
      <4> QED
        BY <1>1, <1>3, <1>6, <3>1, <4>1 DEF HTTP11, CR
    <3> QED
      BY <1>4, <1>5, <1>6, <1>9, <3>1, <3>2
  <2>2. LineStatus = "LINE_BAD"
    BY <2>1 DEF LineStatus
  <2>3. LineNotOver => m_checked_idx' = LineEnd - 1
    BY <2>1 DEF LineNotOver
  <2> QED
    BY <1>4, <2>1, <2>2, <2>3 DEF t
<1> QED
  BY <1>4, <1>7, <1>8, <1>9

(* No request is the beginning of another: a server that has read one need *)
(* not wait to see whether it goes on.                                     *)
LEMMA PrefixFree ==
    ASSUME NEW r, NEW w, IsRequest(r), IsRequest(w), Len(Bytes(r)) <= Len(Bytes(w)),
           \A i \in 1 .. Len(Bytes(r)) : Bytes(r)[i] = Bytes(w)[i]
    PROVE  Len(Bytes(r)) = Len(Bytes(w))
<1> DEFINE b == Bytes(r)  c == Bytes(w)  n == Len(r.path)  m == Len(w.path)
           A(x) == AfterRequestLine(x)
(* What BytesAre says of either. *)
<1>1. ASSUME NEW x, IsRequest(x)
      PROVE  /\ Len(x.path) \in Nat \ {0} /\ Bytes(x) \in Seq(Nat) /\ Len(Bytes(x)) \in Nat
             /\ Len(Bytes(x)) = AfterHead(x) + Len(Form(x)) /\ Len(Form(x)) \in Nat
             /\ \A j \in 1 .. Len(x.path) + 4 : Bytes(x)[j] \notin {CR, LF}
             /\ Bytes(x)[1] = x.method
             /\ Bytes(x)[Len(x.path) + 5] = IF WellFormed(x) THEN CR ELSE LF
             /\ A(x) = Len(x.path) + 5 + IF WellFormed(x) THEN 1 ELSE 0
             /\ Bytes(x)[A(x) + 1] = IF x.keep THEN CONNECTION
                                     ELSE IF x.method = POST THEN CONTENT_LENGTH ELSE CR
             /\ x.method = POST => Bytes(x)[AfterKeepAlive(x) + 3] = Numeral(Len(Form(x)))
             /\ x.method # POST => Len(Form(x)) = 0
             /\ x.keep \in BOOLEAN
  <2> DEFINE y == Bytes(x)  t == RequestText(x)  k == Len(x.path)
  <2>1. /\ y \in Seq(Nat) /\ Len(y) = AfterHead(x) + Len(Form(x))
        /\ t \in Seq(Text) /\ Len(t) = k + 4
        /\ \A j \in 1 .. k + 4 : y[j] = t[j]
        /\ \A j \in 1 .. Len(x.eol) : y[k + 4 + j] = x.eol[j]
        /\ x.keep => LineIn(y, A(x), KeepText)
        /\ x.method = POST => LineIn(y, AfterKeepAlive(x), LengthText(x))
        /\ LineIn(y, AfterLength(x), <<>>)
    BY <1>1, BytesAre
  <2>2. k \in Nat \ {0} /\ t[1] = x.method
    BY <1>1, RequestTextIs
  <2>3. Len(y) \in Nat /\ Len(Form(x)) \in Nat /\ (x.method # POST => Len(Form(x)) = 0)
    BY <1>1, <2>1, FormIs, LenProperties
  <2>4. /\ x.eol = IF WellFormed(x) THEN <<CR, LF>> ELSE <<LF>>
        /\ x.keep \in BOOLEAN
    BY <1>1 DEF IsRequest, WellFormed
  <2>5. /\ 1 \in 1 .. Len(x.eol) /\ x.eol[1] = (IF WellFormed(x) THEN CR ELSE LF)
        /\ Len(x.eol) = 1 + IF WellFormed(x) THEN 1 ELSE 0
    BY <2>4
  <2>6. \A j \in 1 .. k + 4 : t[j] \notin {CR, LF}
    <3>1. \A j \in 1 .. k + 4 : t[j] \in Text
      BY <2>1, ElementOfSeq
    <3> QED
      BY <3>1 DEF Text
  <2> HIDE DEF y, t
  <2>7. /\ \A j \in 1 .. k + 4 : y[j] \notin {CR, LF}
        /\ y[1] = x.method
    <3>1. 1 \in 1 .. k + 4
      BY <2>2
    <3> QED
      BY <2>1, <2>2, <2>6, <3>1
  <2>8. y[k + 5] = IF WellFormed(x) THEN CR ELSE LF
    <3>1. k + 4 + 1 = k + 5
      BY <2>2
    <3> QED
      BY <2>1, <2>5, <3>1
  <2>9. A(x) = k + 5 + IF WellFormed(x) THEN 1 ELSE 0
    <3>1. A(x) = k + 4 + Len(x.eol)
      BY DEF AfterRequestLine
    <3> HIDE DEF A
    <3>2. CASE WellFormed(x)
      BY <2>2, <2>5, <3>1, <3>2
    <3>3. CASE ~WellFormed(x)
      BY <2>2, <2>5, <3>1, <3>3
    <3> QED
      BY <3>2, <3>3
  <2>10. /\ Len(KeepText) = 3 /\ KeepText[1] = CONNECTION
         /\ Len(LengthText(x)) = 3 /\ LengthText(x)[1] = CONTENT_LENGTH
         /\ LengthText(x)[3] = Numeral(Len(Form(x))) /\ Len(<<>>) = 0
    BY DEF KeepText, LengthText
  <2>11. y[A(x) + 1] = IF x.keep THEN CONNECTION
                       ELSE IF x.method = POST THEN CONTENT_LENGTH ELSE CR
    <3>1. CASE x.keep
      <4>1. y[A(x) + 1] = CONNECTION
        BY <2>1, <2>10, <3>1 DEF LineIn
      <4> QED
        BY <3>1, <4>1
    <3>2. CASE ~x.keep /\ x.method = POST
      <4>1. AfterKeepAlive(x) = A(x)
        BY <2>2, <2>9, <3>2 DEF AfterKeepAlive
      <4>2. y[AfterKeepAlive(x) + 1] = CONTENT_LENGTH
        BY <2>1, <2>10, <3>2 DEF LineIn
      <4> QED
        BY <3>2, <4>1, <4>2
    <3>3. CASE ~x.keep /\ x.method # POST
      <4>1. AfterLength(x) = A(x) /\ AfterLength(x) + 0 + 1 = A(x) + 1
        BY <2>2, <2>9, <3>3 DEF AfterLength, AfterKeepAlive
      <4>2. y[AfterLength(x) + 0 + 1] = CR
        BY <2>1, <2>10 DEF LineIn
      <4> QED
        BY <3>3, <4>1, <4>2
    <3> QED
      BY <3>1, <3>2, <3>3
  <2>14. x.method = POST => y[AfterKeepAlive(x) + 3] = Numeral(Len(Form(x)))
    BY <2>1, <2>10 DEF LineIn
  <2> QED
    BY <2>1, <2>2, <2>3, <2>4, <2>7, <2>8, <2>9, <2>11, <2>14 DEF y
<1>2. /\ n \in Nat \ {0} /\ m \in Nat \ {0} /\ Len(b) \in Nat /\ Len(c) \in Nat
      /\ Len(b) = AfterHead(r) + Len(Form(r)) /\ Len(Form(r)) \in Nat
      /\ Len(c) = AfterHead(w) + Len(Form(w)) /\ Len(Form(w)) \in Nat
      /\ A(r) = n + 5 + (IF WellFormed(r) THEN 1 ELSE 0)
      /\ A(w) = m + 5 + (IF WellFormed(w) THEN 1 ELSE 0)
      /\ Len(b) <= Len(c) /\ \A i \in 1 .. Len(b) : b[i] = c[i]
  BY <1>1
<1>3. /\ \A j \in 1 .. n + 4 : b[j] \notin {CR, LF}
      /\ \A j \in 1 .. m + 4 : c[j] \notin {CR, LF}
      /\ b[1] = r.method /\ c[1] = w.method
      /\ b[n + 5] = IF WellFormed(r) THEN CR ELSE LF
      /\ c[m + 5] = IF WellFormed(w) THEN CR ELSE LF
  BY <1>1
<1>4. /\ b[A(r) + 1] = IF r.keep THEN CONNECTION
                       ELSE IF r.method = POST THEN CONTENT_LENGTH ELSE CR
      /\ c[A(w) + 1] = IF w.keep THEN CONNECTION
                       ELSE IF w.method = POST THEN CONTENT_LENGTH ELSE CR
      /\ r.method = POST => b[AfterKeepAlive(r) + 3] = Numeral(Len(Form(r)))
      /\ w.method = POST => c[AfterKeepAlive(w) + 3] = Numeral(Len(Form(w)))
      /\ r.method # POST => Len(Form(r)) = 0
      /\ w.method # POST => Len(Form(w)) = 0
      /\ r.keep \in BOOLEAN /\ w.keep \in BOOLEAN
  BY <1>1
<1> HIDE DEF b, c, n, m
<1>5. /\ n + 5 <= A(r) /\ A(r) \in Nat /\ A(r) + 2 <= Len(b)
      /\ r.method = POST => AfterKeepAlive(r) + 3 \in 1 .. Len(b)
  BY <1>2 DEF AfterHead, AfterLength, AfterKeepAlive
<1>6. n = m
  <2>1. n + 5 \in 1 .. Len(b) /\ b[n + 5] = c[n + 5] /\ b[n + 5] \in {CR, LF}
    BY <1>2, <1>3, <1>5
  <2>2. ~ (n < m)
    <3>1. n < m => n + 5 \in 1 .. m + 4
      BY <1>2
    <3> QED
      BY <1>3, <2>1, <3>1
  <2>3. ~ (m < n)
    <3>1. SUFFICES ASSUME m < n PROVE FALSE
      OBVIOUS
    <3>2. m + 5 \in 1 .. n + 4 /\ m + 5 \in 1 .. Len(b)
      BY <1>2, <1>5, <3>1
    <3>3. b[m + 5] = c[m + 5] /\ c[m + 5] \in {CR, LF}
      BY <1>2, <1>3, <3>2
    <3> QED
      BY <1>3, <3>2, <3>3
  <2> QED
    BY <1>2, <2>2, <2>3
<1>7. /\ CR # LF /\ CONNECTION # CONTENT_LENGTH /\ CONNECTION # CR /\ CONTENT_LENGTH # CR
  BY DEF CR, LF, CONNECTION, CONTENT_LENGTH
<1>8. A(r) = A(w)
  <2>1. n + 5 \in 1 .. Len(b)
    BY <1>2, <1>5
  <2>2. b[n + 5] = c[m + 5]
    BY <1>2, <1>6, <2>1
  <2>3. WellFormed(r) <=> WellFormed(w)
    BY <1>3, <1>7, <2>2
  <2> QED
    BY <1>2, <1>6, <2>3
<1>9. r.method = w.method
  <2>1. 1 \in 1 .. Len(b)
    BY <1>2, <1>5
  <2> QED
    BY <1>2, <1>3, <2>1
<1>10. r.keep = w.keep
  <2>1. A(r) + 1 \in 1 .. Len(b)
    BY <1>2, <1>5
  <2>2. b[A(r) + 1] = c[A(w) + 1]
    BY <1>2, <1>8, <2>1
  <2> HIDE DEF A
  <2>3. r.keep <=> w.keep
    BY <1>4, <1>7, <2>2
  <2> QED
    BY <1>4, <2>3
<1>11. AfterKeepAlive(r) = AfterKeepAlive(w) /\ AfterHead(r) = AfterHead(w)
  <2>1. AfterKeepAlive(r) = AfterKeepAlive(w)
    BY <1>8, <1>10, Zenon DEF AfterKeepAlive
  <2>2. AfterLength(r) = AfterLength(w)
    BY <1>9, <2>1, Zenon DEF AfterLength
  <2> QED
    BY <2>1, <2>2, Zenon DEF AfterHead
<1>12. Len(Form(r)) = Len(Form(w))
  <2>1. CASE r.method = POST
    <3>1. Numeral(Len(Form(r))) = Numeral(Len(Form(w)))
      BY <1>2, <1>4, <1>5, <1>9, <1>11, <2>1
    <3> QED
      BY <1>2, <3>1 DEF Numeral
  <2>2. CASE r.method # POST
    BY <1>4, <1>9, <2>2
  <2> QED
    BY <2>1, <2>2
<1>13. Len(b) = Len(c)
  BY <1>2, <1>11, <1>12
<1> QED
  BY <1>13 DEF b, c
-----------------------------------------------------------------------------
(* What do_request makes of a form. *)

LEMMA FormParts ==
    ASSUME NEW r, IsRequest(r), r.method = POST
    PROVE  LET x == Sent(r, r.name)  y == Sent(r, r.password)  f == Form(r) IN
           /\ x \in Seq(SentByte) /\ y \in Seq(SentByte) /\ f \in Seq(Nat)
           /\ Len(x) \in Nat /\ Len(y) \in Nat /\ Len(f) = Len(x) + 3 + Len(y)
           /\ f[1] = USER /\ f[Len(x) + 2] = AMPERSAND /\ f[Len(x) + 3] = r.field
           /\ \A j \in 1 .. Len(x) : f[1 + j] = x[j]
           /\ \A j \in 1 .. Len(y) : f[Len(x) + 3 + j] = y[j]
<1> DEFINE x == Sent(r, r.name)  y == Sent(r, r.password)
           a == <<USER>>  b == <<AMPERSAND, r.field>>
           ax == a \o x  axb == ax \o b
<1>1. x \in Seq(SentByte) /\ y \in Seq(SentByte) /\ x \in Seq(Nat) /\ y \in Seq(Nat)
  <2>1. x \in Seq(SentByte) /\ y \in Seq(SentByte)
    BY SentIs, Zenon DEF IsRequest
  <2>2. SentByte \subseteq Nat
    BY DEF SentByte
  <2> QED
    BY <2>1, <2>2, SeqMonotonic
<1>2. /\ a \in Seq(Nat) /\ Len(a) = 1 /\ a[1] = USER
      /\ b \in Seq(Nat) /\ Len(b) = 2 /\ b[1] = AMPERSAND /\ b[2] = r.field
  <2>1. r.field \in Nat
    BY DEF IsRequest, PASSWORD, PASSWD
  <2> QED
    BY <2>1 DEF USER, AMPERSAND
<1>3. Form(r) = axb \o y
  BY Zenon DEF Form
<1> HIDE DEF x, y, a, b
<1>4. /\ ax \in Seq(Nat) /\ Len(ax) = Len(a) + Len(x) /\ Len(x) \in Nat
      /\ \A j \in 1 .. Len(a) : ax[j] = a[j]
      /\ \A j \in 1 .. Len(x) : ax[Len(a) + j] = x[j]
  BY <1>1, <1>2, Joined
<1> HIDE DEF ax
<1>5. /\ axb \in Seq(Nat) /\ Len(axb) = Len(ax) + Len(b)
      /\ \A j \in 1 .. Len(ax) : axb[j] = ax[j]
      /\ \A j \in 1 .. Len(b) : axb[Len(ax) + j] = b[j]
  BY <1>2, <1>4, Joined
<1> HIDE DEF axb
<1> DEFINE f == axb \o y  k == Len(x)
<1>6. /\ f \in Seq(Nat) /\ Len(f) = Len(axb) + Len(y) /\ Len(y) \in Nat
      /\ \A j \in 1 .. Len(axb) : f[j] = axb[j]
      /\ \A j \in 1 .. Len(y) : f[Len(axb) + j] = y[j]
  BY <1>1, <1>5, Joined
<1> HIDE DEF f
<1>7. k \in Nat
  BY <1>4
<1>8. Len(ax) = 1 + k
  BY <1>2, <1>4
<1>9. Len(axb) = k + 3
  <2>1. Len(axb) = (1 + k) + 2
    BY <1>2, <1>5, <1>8, Zenon
  <2> HIDE DEF k
  <2> QED
    BY <1>7, <2>1
<1>10. Len(f) = k + 3 + Len(y)
  BY <1>6, <1>9, Zenon
<1>11. f[1] = USER /\ f[k + 2] = AMPERSAND /\ f[k + 3] = r.field
  <2>1. /\ 1 \in 1 .. k + 3 /\ 1 \in 1 .. 1 + k /\ 1 \in 1 .. 1 /\ 1 \in 1 .. 2 /\ 2 \in 1 .. 2
        /\ k + 2 \in 1 .. k + 3 /\ (1 + k) + 1 = k + 2
        /\ k + 3 \in 1 .. k + 3 /\ (1 + k) + 2 = k + 3
    BY <1>7
  <2>2. f[1] = axb[1] /\ axb[1] = ax[1] /\ ax[1] = a[1]
    BY <1>2, <1>4, <1>5, <1>6, <1>8, <1>9, <2>1, Zenon
  <2>3. axb[(1 + k) + 1] = b[1] /\ axb[(1 + k) + 2] = b[2]
    BY <1>2, <1>5, <1>8, <2>1, Zenon
  <2>4. f[k + 2] = axb[k + 2] /\ f[k + 3] = axb[k + 3]
    BY <1>6, <1>9, <2>1, Zenon
  <2> QED
    BY <1>2, <2>1, <2>2, <2>3, <2>4
<1>12. ASSUME NEW j \in 1 .. k PROVE f[1 + j] = x[j]
  <2>1. 1 + j \in 1 .. 1 + k /\ 1 + j \in 1 .. k + 3
    BY <1>7
  <2>2. f[1 + j] = axb[1 + j] /\ axb[1 + j] = ax[1 + j]
    BY <1>5, <1>6, <1>8, <1>9, <2>1, Zenon
  <2>3. ax[1 + j] = x[j]
    BY <1>2, <1>4, Zenon DEF k
  <2> QED
    BY <2>2, <2>3
<1>13. \A j \in 1 .. Len(y) : f[k + 3 + j] = y[j]
  BY <1>6, <1>9, Zenon
<1> QED
  BY <1>1, <1>3, <1>4, <1>6, <1>10, <1>11, <1>12, <1>13, Zenon DEF x, y, f, k

(* The body that is in the buffer from m_string on, and what do_request    *)
(* copies out of it.                                                       *)
LEMMA BodyIs ==
    ASSUME NEW r, IsRequest(r), r.method = POST, m_read_buf \in Seq(Nat), m_string \in Nat,
           Len(m_read_buf) = m_string + Len(Form(r)),
           \A j \in 1 .. Len(Form(r)) : m_read_buf[m_string + j] = Form(r)[j]
    PROVE  /\ NameText = Sent(r, r.name)
           /\ PasswordText = Sent(r, Copied(r))
<1> DEFINE f == Form(r)  x == Sent(r, r.name)  y == Sent(r, r.password)  k == Len(x)
           A == {AMPERSAND}  i == m_string + 1  n == Len(m_read_buf)
<1>1. /\ x \in Seq(SentByte) /\ y \in Seq(SentByte) /\ f \in Seq(Nat)
      /\ k \in Nat /\ Len(y) \in Nat /\ Len(f) = k + 3 + Len(y)
      /\ f[1] = USER /\ f[k + 2] = AMPERSAND /\ f[k + 3] = r.field
      /\ \A j \in 1 .. k : f[1 + j] = x[j]
      /\ \A j \in 1 .. Len(y) : f[k + 3 + j] = y[j]
  BY FormParts, Zenon
<1>2. f \in Seq(FormByte) /\ Len(f) \in Nat /\ \A j \in 1 .. Len(f) : f[j] # NUL /\ f[j] \in Nat
  <2>1. f \in Seq(FormByte) /\ Len(f) \in Nat
    BY FormIs
  <2>2. \A j \in 1 .. Len(f) : f[j] \in FormByte
    BY <2>1, ElementOfSeq
  <2> HIDE DEF f
  <2> QED
    BY <2>1, <2>2 DEF FormByte
<1>5. \A j \in 1 .. Len(f) : m_read_buf[m_string + j] = f[j]
  OBVIOUS
<1>6. n = m_string + Len(f) /\ n \in Nat
  BY <1>2
<1> HIDE DEF f, x, y, k, A, n
(* The body is the form. *)
<1>7. \A j \in i .. n : m_read_buf[j] # NUL /\ m_read_buf[j] \in Nat
  <2>1. SUFFICES ASSUME NEW j \in i .. n PROVE m_read_buf[j] # NUL /\ m_read_buf[j] \in Nat
    OBVIOUS
  <2>2. j - m_string \in 1 .. Len(f) /\ m_string + (j - m_string) = j
    BY <1>2, <1>6
  <2> QED
    BY <1>2, <1>5, <2>2
<1>8. CString(m_read_buf, i) = From(m_read_buf, i)
  <2> DEFINE C == {NUL}
  <2>1. Len(m_read_buf) \in Nat /\ i \in Nat /\ \A j \in i .. Len(m_read_buf) : m_read_buf[j] \notin C
    BY <1>6, <1>7 DEF n
  <2> HIDE DEF C, i
  <2>2. FirstOf(m_read_buf, i, C) = 0
    BY <2>1, FirstOfIs
  <2> QED
    BY <2>2, Zenon DEF CString, C
<1>9. From(m_read_buf, i) = f
  <2> DEFINE z == SubSeq(m_read_buf, i, n)
  <2>1. From(m_read_buf, i) = z
    BY DEF From, n
  <2>2. i \in Int /\ n \in Int /\ \A j \in i .. n : m_read_buf[j] \in Nat
    BY <1>6, <1>7
  <2>3. /\ z \in Seq(Nat) /\ Len(z) = IF i <= n THEN n - i + 1 ELSE 0
        /\ \A j \in 1 .. n - i + 1 : z[j] = m_read_buf[i + j - 1]
    <3> HIDE DEF i
    <3> QED
      BY <2>2, SubSeqProperties
  <2> HIDE DEF z
  <2>4. /\ Len(z) = Len(f) /\ n - i + 1 = Len(f)
        /\ \A j \in 1 .. Len(f) : i + j - 1 = m_string + j
    BY <1>2, <1>6, <2>3
  <2>5. \A j \in 1 .. Len(f) : z[j] = f[j]
    BY <1>5, <2>3, <2>4
  <2>6. z = f
    BY <1>1, <2>3, <2>4, <2>5, SeqEqual
  <2> QED
    BY <2>1, <2>6
<1>10. CString(m_read_buf, m_string + 1) = f
  BY <1>8, <1>9
(* Its fields. *)
<1>11. FirstOf(f, 1, A) = k + 2
  <2> DEFINE e == k + 2
  <2>1. Len(f) \in Nat /\ 1 \in Nat \ {0} /\ e \in 1 .. Len(f) /\ f[e] \in A
    BY <1>1, <1>2 DEF A
  <2>2. ASSUME NEW j \in 1 .. e - 1 PROVE f[j] \notin A
    <3>1. CASE j = 1
      BY <1>1, <3>1 DEF A, USER, AMPERSAND
    <3>2. CASE j # 1
      <4>1. j - 1 \in 1 .. k /\ 1 + (j - 1) = j
        BY <1>1, <3>2
      <4>2. x[j - 1] \in SentByte
        BY <1>1, <4>1, ElementOfSeq DEF k
      <4>3. f[j] = x[j - 1]
        BY <1>1, <4>1
      <4>4. \A c \in SentByte : c # AMPERSAND
        BY DEF SentByte
      <4> QED
        BY <4>2, <4>3, <4>4 DEF A
    <3> QED
      BY <3>1, <3>2
  <2> HIDE DEF e
  <2>3. FirstOf(f, 1, A) = e
    BY <2>1, <2>2, FirstOfAt
  <2> QED
    BY <2>3 DEF e
<1>12. SubSeq(f, 2, k + 1) = x
  <2> DEFINE e == k + 1  z == SubSeq(f, 2, e)
  <2>1. 2 \in Int /\ e \in Int /\ \A j \in 2 .. e : f[j] \in SentByte
    <3>1. ASSUME NEW j \in 2 .. e PROVE f[j] \in SentByte
      <4>1. j - 1 \in 1 .. k /\ 1 + (j - 1) = j
        BY <1>1
      <4>2. x[j - 1] \in SentByte
        BY <1>1, <4>1, ElementOfSeq DEF k
      <4> QED
        BY <1>1, <4>1, <4>2
    <3> QED
      BY <1>1, <3>1
  <2>2. e = k + 1
    OBVIOUS
  <2> HIDE DEF e
  <2>3. /\ z \in Seq(SentByte) /\ Len(z) = IF 2 <= e THEN e - 2 + 1 ELSE 0
        /\ \A j \in 1 .. e - 2 + 1 : z[j] = f[2 + j - 1]
    BY <2>1, SubSeqProperties
  <2> HIDE DEF z
  <2>4. Len(z) = k /\ e - 2 + 1 = k /\ \A j \in 1 .. k : 2 + j - 1 = 1 + j
    BY <1>1, <2>2, <2>3
  <2>5. \A j \in 1 .. k : z[j] = x[j]
    BY <1>1, <2>3, <2>4
  <2>6. z = x
    BY <1>1, <2>3, <2>4, <2>5, SeqEqual DEF k
  <2> QED
    BY <2>6 DEF z, e
<1>13. From(f, k + 4) = y
  <2> DEFINE b == k + 4  e == Len(f)  z == SubSeq(f, b, e)
  <2>1. From(f, b) = z
    BY DEF From
  <2>2. b = k + 4 /\ e = k + 3 + Len(y) /\ b \in Int /\ e \in Int
    BY <1>1
  <2>7. ASSUME NEW j \in b .. e PROVE f[j] \in SentByte
    <3> DEFINE m == Len(y)
    <3>a. k \in Nat /\ m \in Nat
      BY <1>1
    <3>b. j \in k + 4 .. k + 3 + m
      BY <2>2
    <3> HIDE DEF m, k
    <3>c. j - (k + 3) \in 1 .. m /\ k + 3 + (j - (k + 3)) = j
      BY <3>a, <3>b
    <3>1. j - (k + 3) \in 1 .. Len(y) /\ k + 3 + (j - (k + 3)) = j
      BY <3>c DEF m
    <3>2. y[j - (k + 3)] \in SentByte
      BY <1>1, <3>1, ElementOfSeq
    <3> QED
      BY <1>1, <3>1, <3>2
  <2> HIDE DEF b, e
  <2>3. /\ z \in Seq(SentByte) /\ Len(z) = IF b <= e THEN e - b + 1 ELSE 0
        /\ \A j \in 1 .. e - b + 1 : z[j] = f[b + j - 1]
    BY <2>2, <2>7, SubSeqProperties
  <2> HIDE DEF z
  <2>4. /\ Len(z) = Len(y) /\ e - b + 1 = Len(y)
        /\ \A j \in 1 .. Len(y) : b + j - 1 = k + 3 + j
    <3> DEFINE m == Len(y)
    <3>1. k \in Nat /\ m \in Nat /\ b = k + 4 /\ e = k + 3 + m
      BY <1>1, <2>2
    <3>2. Len(z) = IF b <= e THEN e - b + 1 ELSE 0
      BY <2>3
    <3> HIDE DEF m, k
    <3>3. Len(z) = m /\ e - b + 1 = m /\ \A j \in 1 .. m : b + j - 1 = k + 3 + j
      BY <3>1, <3>2
    <3> QED
      BY <3>3 DEF m
  <2>5. \A j \in 1 .. Len(y) : z[j] = y[j]
    BY <1>1, <2>3, <2>4
  <2>6. z = y
    BY <1>1, <2>3, <2>4, <2>5, SeqEqual
  <2> QED
    BY <2>1, <2>6 DEF b
<1>14. (k + 2) - 1 = k + 1 /\ (k + 2) + 1 = k + 3 /\ (k + 2) + 11 - 9 = k + 4
  <2>1. k \in Nat
    BY <1>1
  <2> QED
    BY <2>1
<1>15. NameText = SubSeq(f, 2, FirstOf(f, 1, A) - 1)
  BY <1>10, Zenon DEF NameText, A
<1>16. PasswordText = From(f, FirstOf(f, 1, A) + 11 - Width(f[FirstOf(f, 1, A) + 1]))
  BY <1>10, Zenon DEF PasswordText, A
<1>17. Width(PASSWORD) = 9
  BY DEF Width, PASSWORD, PASSWD
<1>18. ASSUME r.field = PASSWORD PROVE PasswordText = From(f, k + 4)
  <2>1. f[k + 3] = PASSWORD
    BY <1>1, <1>18
  <2>2. PasswordText = From(f, (k + 2) + 11 - Width(f[(k + 2) + 1]))
    BY <1>11, <1>16
  <2>3. PasswordText = From(f, (k + 2) + 11 - 9)
    BY <1>14, <1>17, <2>1, <2>2
  <2> QED
    BY <1>14, <2>3
<1>19. ASSUME r.field = PASSWD PROVE PasswordText = From(f, k + 6)
  <2>1. f[k + 3] = PASSWD /\ Width(PASSWD) = 7
    BY <1>1, <1>19 DEF Width
  <2>2. PasswordText = From(f, (k + 2) + 11 - Width(f[(k + 2) + 1]))
    BY <1>11, <1>16
  <2>3. PasswordText = From(f, (k + 2) + 11 - 7)
    BY <1>14, <2>1, <2>2
  <2>4. (k + 2) + 11 - 7 = k + 6
    <3>1. k \in Nat
      BY <1>1
    <3> QED
      BY <3>1
  <2> QED
    BY <2>3, <2>4
<1>20. ASSUME Len(y) >= 2 PROVE From(f, k + 6) = From(y, 3)
  <2> DEFINE b == k + 6  e == Len(f)  z == SubSeq(f, b, e)  v == From(y, 3)  m == Len(y)
  <2>1. From(f, b) = z
    BY DEF From
  <2>2. b = k + 6 /\ e = k + 3 + m /\ b \in Int /\ e \in Int /\ k \in Nat /\ m \in Nat /\ m >= 2
    BY <1>1, <1>20
  <2>3. /\ v \in Seq(SentByte) /\ Len(v) = m - 2
        /\ \A j \in 1 .. m - 2 : v[j] = y[j + 2]
    BY <1>1, <1>20, FromThird
  <2>4. \A j \in 1 .. m : f[k + 3 + j] = y[j]
    BY <1>1
  <2> HIDE DEF v
  <2>5. ASSUME NEW j \in b .. e PROVE f[j] \in SentByte
    <3> HIDE DEF m, k
    <3>1. j - (k + 3) \in 1 .. m /\ k + 3 + (j - (k + 3)) = j
      BY <2>2
    <3>2. y[j - (k + 3)] \in SentByte
      BY <1>1, <3>1, ElementOfSeq DEF m
    <3> QED
      BY <2>4, <3>1, <3>2
  <2> HIDE DEF b, e
  <2>6. /\ z \in Seq(SentByte) /\ Len(z) = IF b <= e THEN e - b + 1 ELSE 0
        /\ \A j \in 1 .. e - b + 1 : z[j] = f[b + j - 1]
    BY <2>2, <2>5, SubSeqProperties
  <2> HIDE DEF z, m, k
  <2>7. Len(z) = m - 2 /\ e - b + 1 = m - 2
    BY <2>2, <2>6
  <2>8. ASSUME NEW j \in 1 .. m - 2 PROVE z[j] = v[j]
    <3>1. b + j - 1 = k + 3 + (j + 2) /\ j + 2 \in 1 .. m
      BY <2>2, <2>8
    <3>2. z[j] = f[k + 3 + (j + 2)]
      BY <2>6, <2>7, <3>1
    <3> QED
      BY <2>3, <2>4, <3>1, <3>2
  <2>9. z = v
    BY <2>3, <2>6, <2>7, <2>8, SeqEqual
  <2> QED
    BY <2>1, <2>9 DEF b, v
<1>21. PasswordText = Sent(r, Copied(r))
  <2>1. /\ r.field \in {PASSWORD, PASSWD} /\ PASSWORD # PASSWD
        /\ r.field = PASSWD => r.plain /\ Len(r.password) >= 2
    <3>1. PASSWORD # PASSWD
      BY DEF PASSWORD, PASSWD
    <3>2. r.method = POST
      BY <1>1
    <3>3. /\ r.field \in {PASSWORD, PASSWD}
          /\ r.field = PASSWD => r.plain /\ Len(r.password) >= 2
      BY <3>2, Zenon DEF IsRequest
    <3> QED
      BY <3>1, <3>3
  <2>2. CASE r.field = PASSWORD
    BY <1>13, <1>18, <2>1, <2>2 DEF Copied, y
  <2>3. CASE r.field = PASSWD
    <3>1. y = r.password
      BY <2>1, <2>3 DEF y, Sent
    <3>2. PasswordText = From(r.password, 3)
      BY <1>19, <1>20, <2>1, <2>3, <3>1
    <3> QED
      BY <2>1, <2>3, <3>2 DEF Copied, Sent
  <2> QED
    BY <2>1, <2>2, <2>3
<1> QED
  BY <1>11, <1>12, <1>14, <1>15, <1>21, Zenon DEF x

(* Where the lines of a request begin. *)
LEMMA Places ==
    ASSUME NEW r, IsRequest(r)
    PROVE  /\ AfterRequestLine(r) \in Nat /\ AfterKeepAlive(r) \in Nat /\ AfterLength(r) \in Nat
           /\ WellFormed(r) => AfterRequestLine(r) = Len(RequestText(r)) + 2
           /\ r.keep => AfterKeepAlive(r) = AfterRequestLine(r) + Len(KeepText) + 2
           /\ ~r.keep => AfterKeepAlive(r) = AfterRequestLine(r)
           /\ r.method = POST => AfterLength(r) = AfterKeepAlive(r) + Len(LengthText(r)) + 2
           /\ r.method # POST => AfterLength(r) = AfterKeepAlive(r)
           /\ AfterHead(r) = AfterLength(r) + 2
           /\ WellFormed(r) => LineIn(Bytes(r), 0, RequestText(r))
<1>1. /\ Len(r.path) \in Nat /\ Len(r.eol) \in Nat /\ r.keep \in BOOLEAN
      /\ Len(RequestText(r)) = Len(r.path) + 4
      /\ Len(KeepText) = 3 /\ Len(LengthText(r)) = 3
  <2>1. Len(r.path) \in Nat /\ r.keep \in BOOLEAN
    BY LenProperties, RequestTextIs DEF IsRequest
  <2>2. Len(r.eol) \in Nat
    BY DEF IsRequest, CR, LF
  <2>3. Len(RequestText(r)) = Len(r.path) + 4
    BY BytesAre
  <2>4. Len(KeepText) = 3 /\ Len(LengthText(r)) = 3
    BY DEF KeepText, LengthText
  <2> QED
    BY <2>1, <2>2, <2>3, <2>4
<1>2. AfterRequestLine(r) \in Nat
  <2> DEFINE a == Len(r.path)  b == Len(r.eol)
  <2>1. a \in Nat /\ b \in Nat
    BY <1>1
  <2>2. AfterRequestLine(r) = a + 4 + b
    BY Zenon DEF AfterRequestLine
  <2> HIDE DEF a, b
  <2> QED
    BY <2>1, <2>2
<1>3. AfterKeepAlive(r) \in Nat
  BY <1>2 DEF AfterKeepAlive
<1>4. AfterLength(r) \in Nat
  BY <1>3 DEF AfterLength
<1>5. WellFormed(r) => AfterRequestLine(r) = Len(RequestText(r)) + 2
  <2>1. WellFormed(r) => Len(r.eol) = 2
    BY DEF WellFormed
  <2>2. WellFormed(r) => AfterRequestLine(r) = (Len(r.path) + 4) + 2
    BY <1>1, <2>1 DEF AfterRequestLine
  <2> QED
    BY <1>1, <2>2
<1>6. /\ r.keep => AfterKeepAlive(r) = AfterRequestLine(r) + Len(KeepText) + 2
      /\ ~r.keep => AfterKeepAlive(r) = AfterRequestLine(r)
  BY <1>1, <1>2 DEF AfterKeepAlive
<1>7. /\ r.method = POST => AfterLength(r) = AfterKeepAlive(r) + Len(LengthText(r)) + 2
      /\ r.method # POST => AfterLength(r) = AfterKeepAlive(r)
  BY <1>1, <1>3 DEF AfterLength
<1>8. AfterHead(r) = AfterLength(r) + 2
  BY DEF AfterHead
<1>9. ASSUME WellFormed(r) PROVE LineIn(Bytes(r), 0, RequestText(r))
  <2> DEFINE w == Bytes(r)  t == RequestText(r)
  <2>1. /\ w \in Seq(Nat) /\ t \in Seq(Text) /\ Len(t) = Len(r.path) + 4
        /\ \A j \in 1 .. Len(r.path) + 4 : w[j] = t[j]
        /\ \A j \in 1 .. Len(r.eol) : w[Len(r.path) + 4 + j] = r.eol[j]
        /\ Len(w) = AfterHead(r) + Len(Form(r))
    BY BytesAre
  <2>2. Len(r.eol) = 2 /\ r.eol[1] = CR /\ r.eol[2] = LF
    BY <1>9 DEF WellFormed
  <2>3. Len(Form(r)) \in Nat
    BY FormIs
  <2>4. LineIn(w, AfterLength(r), <<>>)
    BY BytesAre
  <2>5. AfterLength(r) >= Len(t) + 2
    <3>1. AfterLength(r) >= AfterKeepAlive(r) /\ AfterKeepAlive(r) >= AfterRequestLine(r)
      <4>1. AfterKeepAlive(r) >= AfterRequestLine(r)
        BY <1>2 DEF AfterKeepAlive
      <4>2. AfterLength(r) >= AfterKeepAlive(r)
        BY <1>3 DEF AfterLength
      <4> QED
        BY <4>1, <4>2
    <3> HIDE DEF t
    <3>2. AfterRequestLine(r) = Len(t) + 2
      BY <1>5, <1>9 DEF t
    <3> QED
      BY <1>2, <1>3, <1>4, <3>1, <3>2
  <2> HIDE DEF w, t
  <2>6. Len(t) \in Nat /\ Len(w) \in Nat
    BY <2>1, LenProperties
  <2>7. Len(w) >= Len(t) + 2
    <3>1. Len(w) = (AfterLength(r) + 2) + Len(Form(r))
      BY <1>8, <2>1
    <3> QED
      BY <1>4, <2>3, <2>5, <2>6, <3>1
  <2>8. \A j \in 1 .. Len(t) : w[0 + j] = t[j]
    BY <2>1, <2>6
  <2>9. w[0 + Len(t) + 1] = CR /\ w[0 + Len(t) + 2] = LF
    <3>1. w[Len(t) + 1] = CR /\ w[Len(t) + 2] = LF
      BY <2>1, <2>2
    <3> QED
      BY <2>6, <3>1
  <2>10. 0 + Len(t) + 2 <= Len(w)
    BY <2>6, <2>7
  <2>11. LineIn(w, 0, t)
    BY <2>1, <2>8, <2>9, <2>10, Zenon DEF LineIn
  <2> QED
    BY <2>11 DEF w, t
<1> QED
  BY <1>2, <1>3, <1>4, <1>5, <1>6, <1>7, <1>8, <1>9
-----------------------------------------------------------------------------
(* The invariant of reading and answering: what the parser has understood  *)
(* of a request r, at each place it may stand in, as long as what has been *)
(* read may still be r.                                                    *)
Target(r) == IF r.path = <<SLASH>> THEN <<SLASH, INDEX>> ELSE r.path

Understood(r) ==
    /\ WellFormed(r) /\ r.method \in {GET, POST}
    /\ m_method = r.method /\ m_url = Target(r)

AtRequestLine(r) ==
    /\ m_check_state = "REQUESTLINE" /\ LineAt(0, RequestText(r))
    /\ ~m_linger /\ m_content_length = 0

AtKeepAlive(r) ==
    /\ r.keep /\ LineAt(AfterRequestLine(r), KeepText)
    /\ ~m_linger /\ m_content_length = 0

AtLength(r) ==
    /\ r.method = POST /\ LineAt(AfterKeepAlive(r), LengthText(r))
    /\ m_linger = r.keep /\ m_content_length = 0

AtBlank(r) ==
    /\ LineAt(AfterLength(r), <<>>)
    /\ m_linger = r.keep /\ m_content_length = Len(Form(r))

AtHeader(r) ==
    /\ m_check_state = "HEADER" /\ Understood(r)
    /\ AtKeepAlive(r) \/ AtLength(r) \/ AtBlank(r)

(* parse_line checks a part of a body it is not asked about. *)
AtContent(r) ==
    /\ m_check_state = "CONTENT" /\ Understood(r) /\ r.method = POST
    /\ m_linger = r.keep /\ m_content_length = Len(Form(r))
    /\ \/ m_start_line = AfterHead(r) /\ m_checked_idx = AfterHead(r)
       \/ torn /\ m_start_line >= AfterHead(r) /\ m_checked_idx > AfterHead(r)

ParseAt(r) == SameBytes /\ (AtRequestLine(r) \/ AtHeader(r) \/ AtContent(r))

(* What is there of r when the parser waits, and when it has it all. *)
Incomplete(r) == torn \/ (WellFormed(r) => Len(got) < Len(Bytes(r)))

Requested(r) ==
    /\ Understood(r) /\ m_linger = r.keep /\ Len(got) = Len(Bytes(r))
    /\ r.method = POST => SameBytes /\ m_start_line = AfterHead(r) /\ m_string = AfterHead(r)

(* The requests whose answers nothing is said of. *)
Excused(r) == EmptyFile(r) \/ Overruns(r)

(* Only a request that was read to its end keeps the connection. *)
Complete(r) == m_linger => Len(got) = Len(Bytes(r))

(* The answer that process_write is about to lay out. *)
Planned(r) ==
    /\ Added(ret, m_linger) = Answer(r).text
    /\ Answer(r).file = IF ret = "FILE_REQUEST" /\ m_file_stat # 0 THEN m_file_address ELSE NULL

Treated(r) ==
    /\ pc \in {"in", "parse"} => ParseAt(r)
    /\ pc = "in" => Incomplete(r)
    /\ pc = "request" => Requested(r)
    /\ pc = "respond" => Complete(r) /\ (Excused(r) \/ Planned(r))
    /\ Sending => Complete(r) /\ (Excused(r) \/ Response = Answer(r))

(* The client's bytes, on their way. *)
Stream ==
    present /\ pc # "closed" =>
        \/ waiting = NoRequest /\ got = <<>> /\ wire = <<>> /\ todo = <<>>
        \/ waiting \in Requests /\ (got \o wire) \o todo = Bytes(waiting)

Meaning == got = <<>> \/ \E r \in Requests : Meant(r)

Going == pc = "parse" => lineStatus = "LINE_OK"

Unwritten == pc \in {"in", "parse", "request", "respond"} => m_write_buf = <<>>

ReadingInv ==
    /\ TypeInv
    /\ Stream
    /\ Meaning
    /\ Going
    /\ Unwritten
    /\ \A r \in Requests : Meant(r) => Treated(r)

(* The line that is over is overwritten, and what comes after it is not.   *)
LEMMA TurnedIs ==
    ASSUME ReadInv, SameBytes, LineStatus = "LINE_OK", LineOver, got' = got
    PROVE  /\ SameBytes'
           /\ m_start_line' = CarriageReturn + 1 /\ m_checked_idx' = CarriageReturn + 1
<1>1. /\ CarriageReturn \in m_checked_idx .. m_read_idx - 1 /\ CarriageReturn > 0
      /\ m_read_idx' = m_read_idx
      /\ \A i \in CarriageReturn + 2 .. m_read_idx : m_read_buf'[i] = m_read_buf[i]
      /\ m_checked_idx' = CarriageReturn + 1 /\ m_start_line' = CarriageReturn + 1
  BY LineOverIs
<1>2. /\ m_read_idx \in Nat /\ m_checked_idx \in Nat /\ m_start_line \in Nat
      /\ m_start_line <= m_checked_idx
  BY IndicesAre
<1> DEFINE e == CarriageReturn
<1>3. e \in Nat /\ m_start_line <= e
  BY <1>1, <1>2
<1>4. m_read_idx = Len(got) /\ \A i \in m_start_line + 1 .. Len(got) : m_read_buf[i] = got[i]
  BY Zenon DEF SameBytes
<1>5. ASSUME NEW i \in e + 2 .. Len(got) PROVE m_read_buf'[i] = got[i]
  <2>1. i \in m_start_line + 1 .. Len(got) /\ i \in e + 2 .. m_read_idx
    <3> HIDE DEF e
    <3> QED
      BY <1>2, <1>3, <1>4
  <2> QED
    BY <1>1, <1>4, <2>1
<1>6. m_start_line' + 1 = e + 2
  <2>1. m_start_line' = e + 1
    BY <1>1
  <2> HIDE DEF e
  <2> QED
    BY <1>3, <2>1
<1>7. SameBytes'
  BY <1>1, <1>4, <1>5, <1>6 DEF SameBytes
<1> QED
  BY <1>1, <1>7

(* Where the parser is once the line t of r is over. *)
LEMMA PastLine ==
    ASSUME ReadInv, SameBytes, NEW r, IsRequest(r), Meant(r), NEW s, NEW t,
           LineAt(s, t), LineIn(Bytes(r), s, t)
    PROVE  /\ LineStatus = "LINE_OK" => Line = {t} /\ s + Len(t) + 2 <= Len(got)
           /\ LineStatus = "LINE_OK" /\ LineOver /\ UNCHANGED got =>
                SameBytes' /\ m_start_line' = s + Len(t) + 2 /\ m_checked_idx' = s + Len(t) + 2
           /\ LineStatus # "LINE_OK" => Len(got) < Len(Bytes(r))
           /\ LineNotOver => m_checked_idx' \in s .. s + Len(t)
<1>1. Bytes(r) \in Seq(Nat)
  BY BytesAre
<1>2. Len(Bytes(r)) \in Nat
  BY <1>1, LenProperties
<1>3. Len(got) <= Len(Bytes(r)) /\ \A i \in 1 .. Len(got) : got[i] = Bytes(r)[i]
  BY DEF Meant
<1> DEFINE w == Bytes(r)
<1>4. /\ LineStatus = "LINE_OK" => /\ CarriageReturn = s + Len(t) + 1 /\ Line = {t}
                                   /\ s + Len(t) + 2 <= m_read_idx
      /\ LineStatus # "LINE_OK" => m_read_idx < s + Len(t) + 2
      /\ LineNotOver => m_checked_idx' \in s .. s + Len(t)
  <2> HIDE DEF w
  <2>1. Len(got) <= Len(w) /\ Len(w) \in Nat /\ LineIn(w, s, t)
        /\ \A i \in 1 .. Len(got) : got[i] = w[i]
    BY <1>2, <1>3 DEF w
  <2> QED
    BY <2>1, LineThere
<1>5. m_read_idx = Len(got) /\ m_read_idx \in Nat
  BY IndicesAre DEF SameBytes
<1>6. s \in Nat /\ Len(t) \in Nat /\ s + Len(t) + 2 <= Len(w)
  <2>1. s \in Nat
    BY IndicesAre DEF LineAt
  <2>2. Len(t) \in Nat
    BY LenProperties DEF LineIn
  <2>3. s + Len(t) + 2 <= Len(w)
    BY DEF LineIn
  <2> QED
    BY <2>1, <2>2, <2>3
<1> DEFINE n == Len(t)
<1>7. ASSUME LineStatus = "LINE_OK", LineOver, UNCHANGED got
      PROVE  SameBytes' /\ m_start_line' = s + n + 2 /\ m_checked_idx' = s + n + 2
  <2>1. /\ SameBytes'
        /\ m_start_line' = CarriageReturn + 1 /\ m_checked_idx' = CarriageReturn + 1
    BY <1>7, TurnedIs
  <2>2. CarriageReturn = s + n + 1 /\ s \in Nat /\ n \in Nat
    BY <1>4, <1>6, <1>7
  <2> HIDE DEF n
  <2>3. CarriageReturn + 1 = s + n + 2
    BY <2>2
  <2> QED
    BY <2>1, <2>3
<1>8. ASSUME LineStatus # "LINE_OK" PROVE Len(got) < Len(w)
  <2>1. Len(got) < s + n + 2 /\ s + n + 2 <= Len(w) /\ s + n + 2 \in Nat /\ Len(w) \in Nat
        /\ Len(got) \in Nat
    BY <1>2, <1>4, <1>5, <1>6, <1>8
  <2> HIDE DEF n, w
  <2> QED
    BY <2>1
<1> QED
  BY <1>4, <1>5, <1>7, <1>8

LEMMA StartOfLine ==
    ASSUME NEW s \in Nat, NEW t, Len(t) \in Nat, m_start_line' = s, m_checked_idx' = s
    PROVE  LineAt(s, t)'
BY DEF LineAt

(* The line that a turn of the loop works on. *)
LEMMA LineIsOver ==
    /\ \A text : text \in Line => LineStatus = "LINE_OK"
    /\ RequestLine => LineStatus = "LINE_OK"
    /\ BadRequestLine => LineStatus = "LINE_OK"
    /\ Header => LineStatus = "LINE_OK"
    /\ BlankLine => LineStatus = "LINE_OK"
    /\ LastLine => LineStatus = "LINE_OK"
<1>1. \A text : text \in Line => LineStatus = "LINE_OK"
  BY Zenon DEF Line
<1>2. RequestLine => LineStatus = "LINE_OK"
  BY <1>1, Zenon DEF RequestLine
<1>3. BadRequestLine => LineStatus = "LINE_OK"
  BY <1>1, Zenon DEF BadRequestLine
<1>4. Header => LineStatus = "LINE_OK"
  BY <1>1 DEF Header
<1>5. BlankLine => LineStatus = "LINE_OK"
  BY <1>1, Zenon DEF BlankLine
<1>6. LastLine => LineStatus = "LINE_OK"
  BY <1>1, Zenon DEF LastLine
<1> QED
  BY <1>1, <1>2, <1>3, <1>4, <1>5, <1>6

(* At its request line a request is well formed, or its line never ends.   *)
LEMMA FirstLine ==
    ASSUME ReadInv, SameBytes, NEW r, IsRequest(r), Meant(r), AtRequestLine(r)
    PROVE  /\ LineStatus = "LINE_OK" => WellFormed(r) /\ Line = {RequestText(r)}
           /\ LineStatus = "LINE_OK" /\ LineOver /\ UNCHANGED got =>
                /\ SameBytes' /\ m_start_line' = AfterRequestLine(r)
                /\ m_checked_idx' = AfterRequestLine(r)
           /\ LineStatus # "LINE_OK" /\ WellFormed(r) => Len(got) < Len(Bytes(r))
           /\ LineNotOver => m_checked_idx' \in 0 .. 0 + Len(RequestText(r))
<1>1. LineAt(0, RequestText(r))
  BY Zenon DEF AtRequestLine
<1>2. CASE WellFormed(r)
  <2>1. LineIn(Bytes(r), 0, RequestText(r)) /\ AfterRequestLine(r) = Len(RequestText(r)) + 2
    BY <1>2, Places
  <2>2. /\ LineStatus = "LINE_OK" => Line = {RequestText(r)}
        /\ LineStatus = "LINE_OK" /\ LineOver /\ UNCHANGED got =>
             /\ SameBytes' /\ m_start_line' = 0 + Len(RequestText(r)) + 2
             /\ m_checked_idx' = 0 + Len(RequestText(r)) + 2
        /\ LineStatus # "LINE_OK" => Len(got) < Len(Bytes(r))
        /\ LineNotOver => m_checked_idx' \in 0 .. 0 + Len(RequestText(r))
    BY <1>1, <2>1, PastLine
  <2>3. 0 + Len(RequestText(r)) + 2 = AfterRequestLine(r)
    <3> DEFINE n == Len(RequestText(r))
    <3>1. n \in Nat
      BY BytesAre, LenProperties
    <3>2. AfterRequestLine(r) = n + 2
      BY <2>1
    <3> HIDE DEF n
    <3>3. 0 + n + 2 = AfterRequestLine(r)
      BY <3>1, <3>2
    <3> QED
      BY <3>3 DEF n
  <2> QED
    BY <1>2, <2>2, <2>3
<1>3. CASE ~WellFormed(r)
  <2>1. /\ LineStatus # "LINE_OK"
        /\ LineNotOver => m_checked_idx' \in 0 .. Len(RequestText(r))
    BY <1>1, <1>3, BareLine
  <2>2. Len(RequestText(r)) \in Nat
    BY BytesAre, LenProperties
  <2>3. 0 + Len(RequestText(r)) = Len(RequestText(r))
    BY <2>2
  <2> QED
    BY <1>3, <2>1, <2>3
<1> QED
  BY <1>2, <1>3

LEMMA RequestLineMoves ==
    ASSUME ReadInv, NEW r, IsRequest(r), Meant(r), ParseAt(r), RequestLine, UNCHANGED got
    PROVE  ParseAt(r)'
<1>1. AtRequestLine(r) /\ SameBytes
  BY DEF ParseAt, RequestLine, AtHeader, AtContent
<1>2. LineStatus = "LINE_OK" /\ LineOver
  BY LineIsOver DEF RequestLine
<1>3. /\ WellFormed(r) /\ Line = {RequestText(r)} /\ SameBytes'
      /\ m_start_line' = AfterRequestLine(r) /\ m_checked_idx' = AfterRequestLine(r)
  BY <1>1, <1>2, FirstLine
<1>4. RequestLineTaken(RequestText(r)) /\ UNCHANGED <<m_linger, m_content_length>>
  BY <1>3, Zenon DEF RequestLine
<1>5. r.method \in {GET, POST} /\ m_method' = r.method /\ m_url' = Target(r)
      /\ m_check_state' = "HEADER"
  BY <1>4, RequestLineIs, Zenon DEF RequestLineTaken, Target
<1>6. Understood(r)'
  BY <1>3, <1>5 DEF Understood
<1>7. ~m_linger' /\ m_content_length' = 0
  BY <1>1, <1>4 DEF AtRequestLine
<1>8. r.keep \in BOOLEAN
  BY DEF IsRequest
<1>9. Len(KeepText) \in Nat /\ Len(LengthText(r)) \in Nat /\ Len(<<>>) \in Nat
  BY DEF KeepText, LengthText
<1>10. AfterRequestLine(r) \in Nat
  BY Places
<1>11. AtKeepAlive(r)' \/ AtLength(r)' \/ AtBlank(r)'
  <2>1. CASE r.keep
    <3>1. LineAt(AfterRequestLine(r), KeepText)'
      BY <1>3, <1>9, <1>10, StartOfLine
    <3> QED
      BY <1>7, <2>1, <3>1 DEF AtKeepAlive
  <2>2. CASE ~r.keep /\ r.method = POST
    <3>1. AfterKeepAlive(r) = AfterRequestLine(r)
      BY <2>2, Places
    <3>2. LineAt(AfterKeepAlive(r), LengthText(r))'
      BY <1>3, <1>9, <1>10, <3>1, StartOfLine
    <3>3. m_linger' = r.keep
      <4>1. m_linger \in BOOLEAN /\ m_linger' = m_linger
        BY <1>4 DEF ReadInv, ReadTypeOK
      <4> QED
        BY <1>7, <1>8, <2>2, <4>1
    <3> QED
      BY <1>7, <2>2, <3>2, <3>3 DEF AtLength
  <2>3. CASE ~r.keep /\ r.method # POST
    <3>1. AfterLength(r) = AfterRequestLine(r)
      BY <2>3, Places
    <3>2. LineAt(AfterLength(r), <<>>)'
      BY <1>3, <1>9, <1>10, <3>1, StartOfLine
    <3>3. m_linger' = r.keep
      <4>1. m_linger \in BOOLEAN /\ m_linger' = m_linger
        BY <1>4 DEF ReadInv, ReadTypeOK
      <4> QED
        BY <1>7, <1>8, <2>3, <4>1
    <3>4. Len(Form(r)) = 0
      BY <2>3, FormIs
    <3> QED
      BY <1>7, <3>2, <3>3, <3>4 DEF AtBlank
  <2> QED
    BY <1>8, <2>1, <2>2, <2>3
<1>12. AtHeader(r)'
  BY <1>5, <1>6, <1>11 DEF AtHeader
<1> QED
  BY <1>3, <1>12 DEF ParseAt

(* Where the parser is in the headers, and what turns of the loop do there. *)
LEMMA HeaderMoves ==
    ASSUME ReadInv, NEW r, IsRequest(r), Meant(r), ParseAt(r), Header, UNCHANGED got
    PROVE  ParseAt(r)'
<1>1. AtHeader(r) /\ SameBytes
  BY DEF ParseAt, Header, AtRequestLine, AtContent
<1>2. LineStatus = "LINE_OK" /\ LineOver
  BY LineIsOver DEF Header
<1>3. Len(KeepText) = 3 /\ Len(LengthText(r)) = 3 /\ Len(<<>>) = 0
  BY DEF KeepText, LengthText
<1>4. AfterRequestLine(r) \in Nat /\ AfterKeepAlive(r) \in Nat /\ AfterLength(r) \in Nat
  BY Places
<1>5. Understood(r)' /\ m_check_state' = "HEADER"
  BY <1>1 DEF AtHeader, Understood, Header
<1>6. m_linger \in BOOLEAN /\ r.keep \in BOOLEAN
  BY DEF ReadInv, ReadTypeOK, IsRequest
<1>7. ASSUME AtKeepAlive(r) PROVE SameBytes' /\ (AtLength(r)' \/ AtBlank(r)')
  <2>1. r.keep /\ LineAt(AfterRequestLine(r), KeepText) /\ m_content_length = 0
    BY <1>7 DEF AtKeepAlive
  <2>2. LineIn(Bytes(r), AfterRequestLine(r), KeepText)
    BY <2>1, BytesAre
  <2>3. /\ Line = {KeepText} /\ SameBytes'
        /\ m_start_line' = AfterRequestLine(r) + Len(KeepText) + 2
        /\ m_checked_idx' = AfterRequestLine(r) + Len(KeepText) + 2
    BY <1>1, <1>2, <2>1, <2>2, PastLine
  <2>4. AfterKeepAlive(r) = AfterRequestLine(r) + Len(KeepText) + 2
    BY <2>1, Places
  <2>5. HeaderTaken(KeepText)
    BY <2>3 DEF Header
  <2>6. m_linger' = TRUE /\ m_content_length' = 0
    BY <2>1, <2>5, HeadersAre DEF HeaderTaken
  <2>7. CASE r.method = POST
    <3>1. LineAt(AfterKeepAlive(r), LengthText(r))'
      BY <1>3, <1>4, <2>3, <2>4, StartOfLine
    <3>2. AtLength(r)'
      BY <1>6, <2>1, <2>6, <2>7, <3>1 DEF AtLength
    <3> QED
      BY <2>3, <3>2
  <2>8. CASE r.method # POST
    <3>1. AfterLength(r) = AfterKeepAlive(r) /\ Len(Form(r)) = 0
      BY <2>8, Places, FormIs
    <3>2. LineAt(AfterLength(r), <<>>)'
      BY <1>3, <1>4, <2>3, <2>4, <3>1, StartOfLine
    <3>3. AtBlank(r)'
      BY <1>6, <2>1, <2>6, <3>1, <3>2 DEF AtBlank
    <3> QED
      BY <2>3, <3>3
  <2> QED
    BY <2>7, <2>8
<1>8. ASSUME AtLength(r) PROVE SameBytes' /\ AtBlank(r)'
  <2>1. r.method = POST /\ LineAt(AfterKeepAlive(r), LengthText(r)) /\ m_linger = r.keep
    BY <1>8 DEF AtLength
  <2>2. LineIn(Bytes(r), AfterKeepAlive(r), LengthText(r))
    BY <2>1, BytesAre
  <2>3. /\ Line = {LengthText(r)} /\ SameBytes'
        /\ m_start_line' = AfterKeepAlive(r) + Len(LengthText(r)) + 2
        /\ m_checked_idx' = AfterKeepAlive(r) + Len(LengthText(r)) + 2
    BY <1>1, <1>2, <2>1, <2>2, PastLine
  <2>4. AfterLength(r) = AfterKeepAlive(r) + Len(LengthText(r)) + 2
    BY <2>1, Places
  <2>5. HeaderTaken(LengthText(r))
    BY <2>3 DEF Header
  <2>6. m_linger' = m_linger /\ m_content_length' = Len(Form(r))
    <3>1. LengthText(r)[1] = CONTENT_LENGTH /\ LengthText(r)[1] # CONNECTION
          /\ atol(Value(LengthText(r))) = Len(Form(r))
      BY HeadersAre
    <3> QED
      BY <1>6, <2>5, <3>1 DEF HeaderTaken
  <2>7. LineAt(AfterLength(r), <<>>)'
    BY <1>3, <1>4, <2>3, <2>4, StartOfLine
  <2>8. AtBlank(r)'
    BY <2>1, <2>6, <2>7 DEF AtBlank
  <2> QED
    BY <2>3, <2>8
<1>9. ASSUME AtBlank(r) PROVE FALSE
  <2>1. LineIn(Bytes(r), AfterLength(r), <<>>)
    BY BytesAre
  <2>2. Line = {<<>>}
    BY <1>1, <1>2, <1>9, <2>1, PastLine DEF AtBlank
  <2> QED
    BY <2>2 DEF Header
<1>10. SameBytes' /\ (AtLength(r)' \/ AtBlank(r)')
  BY <1>1, <1>7, <1>8, <1>9 DEF AtHeader
<1>11. AtHeader(r)'
  BY <1>5, <1>10 DEF AtHeader
<1> QED
  BY <1>10, <1>11 DEF ParseAt

(* An empty line is the one the headers end with. *)
LEMMA EmptyLine ==
    ASSUME ReadInv, NEW r, IsRequest(r), Meant(r), AtHeader(r), SameBytes, <<>> \in Line,
           LineOver, UNCHANGED got
    PROVE  /\ AtBlank(r) /\ SameBytes'
           /\ m_start_line' = AfterHead(r) /\ m_checked_idx' = AfterHead(r)
           /\ AfterHead(r) <= Len(got)
<1>1. LineStatus = "LINE_OK"
  BY LineIsOver
<1>2. ASSUME AtKeepAlive(r) PROVE FALSE
  <2>1. LineAt(AfterRequestLine(r), KeepText) /\ LineIn(Bytes(r), AfterRequestLine(r), KeepText)
    BY <1>2, BytesAre DEF AtKeepAlive
  <2>2. Line = {KeepText}
    BY <1>1, <2>1, PastLine
  <2> QED
    BY <2>2, HeadersAre
<1>3. ASSUME AtLength(r) PROVE FALSE
  <2>1. LineAt(AfterKeepAlive(r), LengthText(r)) /\ LineIn(Bytes(r), AfterKeepAlive(r), LengthText(r))
    BY <1>3, BytesAre DEF AtLength
  <2>2. Line = {LengthText(r)}
    BY <1>1, <2>1, PastLine
  <2>3. LengthText(r) # <<>>
    BY HeadersAre
  <2> QED
    BY <2>2, <2>3
<1>4. AtBlank(r)
  BY <1>2, <1>3 DEF AtHeader
<1>5. LineAt(AfterLength(r), <<>>) /\ LineIn(Bytes(r), AfterLength(r), <<>>)
  BY <1>4, BytesAre DEF AtBlank
<1>6. /\ SameBytes' /\ m_start_line' = AfterLength(r) + Len(<<>>) + 2
      /\ m_checked_idx' = AfterLength(r) + Len(<<>>) + 2
      /\ AfterLength(r) + Len(<<>>) + 2 <= Len(got)
  BY <1>1, <1>5, PastLine
<1>7. AfterLength(r) + Len(<<>>) + 2 = AfterHead(r)
  BY Places
<1> QED
  BY <1>4, <1>6, <1>7

LEMMA BlankLineMoves ==
    ASSUME ReadInv, NEW r, IsRequest(r), Meant(r), ParseAt(r), BlankLine, UNCHANGED got
    PROVE  ParseAt(r)'
<1>1. AtHeader(r) /\ SameBytes
  BY DEF ParseAt, BlankLine, AtRequestLine, AtContent
<1>2. <<>> \in Line /\ LineOver
  BY DEF BlankLine
<1>3. /\ AtBlank(r) /\ SameBytes'
      /\ m_start_line' = AfterHead(r) /\ m_checked_idx' = AfterHead(r)
  BY <1>1, <1>2, EmptyLine
<1>4. r.method = POST
  BY <1>3, FormIs DEF AtBlank, BlankLine
<1>5. AtContent(r)'
  BY <1>1, <1>3, <1>4 DEF AtHeader, AtBlank, AtContent, Understood, BlankLine
<1> QED
  BY <1>3, <1>5 DEF ParseAt

LEMMA LastLineMoves ==
    ASSUME ReadInv, NEW r, IsRequest(r), Meant(r), ParseAt(r), LastLine, UNCHANGED got
    PROVE  Requested(r)'
<1>1. AtHeader(r) /\ SameBytes
  BY DEF ParseAt, LastLine, AtRequestLine, AtContent
<1>2. <<>> \in Line /\ LineOver
  BY DEF LastLine
<1>3. AtBlank(r) /\ AfterHead(r) <= Len(got)
  BY <1>1, <1>2, EmptyLine
<1>4. Len(Form(r)) = 0 /\ r.method # POST
  BY <1>3, FormIs DEF AtBlank, LastLine
<1>5. Len(got) = Len(Bytes(r))
  <2>1. Len(Bytes(r)) = AfterHead(r) + Len(Form(r)) /\ AfterHead(r) \in Nat
    BY BytesAre
  <2>2. Len(got) <= Len(Bytes(r))
    BY DEF Meant
  <2>3. Len(got) \in Nat
    BY IndicesAre DEF SameBytes
  <2> QED
    BY <1>3, <1>4, <2>1, <2>2, <2>3
<1> QED
  BY <1>1, <1>3, <1>4, <1>5 DEF AtHeader, AtBlank, Requested, Understood, LastLine

(* A request line that is not taken is that of a method the server does    *)
(* not know.                                                               *)
LEMMA BadLineMoves ==
    ASSUME ReadInv, NEW r, IsRequest(r), Meant(r), ParseAt(r), BadRequestLine
    PROVE  r.method \notin {GET, POST} /\ m_linger' = FALSE
<1>1. AtRequestLine(r) /\ SameBytes
  BY DEF ParseAt, BadRequestLine, AtHeader, AtContent
<1>2. Line = {RequestText(r)}
  BY <1>1, LineIsOver, FirstLine
<1>3. ~GoodRequestLine(RequestText(r))
  BY <1>2, Zenon DEF BadRequestLine
<1>4. m_linger' = FALSE
  BY <1>1 DEF AtRequestLine, BadRequestLine, ReadInv, ReadTypeOK
<1> QED
  BY <1>3, <1>4, RequestLineIs

(* What is in the buffer while the body is being read. *)
LEMMA ContentIs ==
    ASSUME ReadInv, NEW r, IsRequest(r), Meant(r), SameBytes, AtContent(r)
    PROVE  /\ m_start_line \in Nat /\ AfterHead(r) \in Nat /\ Len(Form(r)) \in Nat \ {0}
           /\ m_checked_idx \in Nat /\ m_read_idx \in Nat /\ m_read_idx = Len(got)
           /\ AfterHead(r) <= m_start_line /\ m_start_line <= m_checked_idx
           /\ m_checked_idx <= m_read_idx /\ m_read_idx <= AfterHead(r) + Len(Form(r))
           /\ Len(Bytes(r)) = AfterHead(r) + Len(Form(r))
           /\ \A i \in m_start_line + 1 .. m_read_idx :
                /\ i - AfterHead(r) \in 1 .. Len(Form(r))
                /\ m_read_buf[i] = Form(r)[i - AfterHead(r)]
<1> DEFINE a == AfterHead(r)  f == Form(r)  n == Len(f)  w == Bytes(r)
<1>1. /\ m_read_idx \in Nat /\ m_checked_idx \in Nat /\ m_start_line \in Nat
      /\ m_start_line <= m_checked_idx /\ m_checked_idx <= m_read_idx
  BY IndicesAre
<1>2. a \in Nat /\ Len(w) = a + n /\ \A j \in 1 .. n : w[a + j] = f[j]
  BY BytesAre
<1>3. n \in Nat \ {0}
  BY FormIs DEF AtContent
<1>4. m_read_idx = Len(got) /\ \A i \in m_start_line + 1 .. Len(got) : m_read_buf[i] = got[i]
  BY Zenon DEF SameBytes
<1>5. Len(got) <= Len(w) /\ \A i \in 1 .. Len(got) : got[i] = w[i]
  BY Zenon DEF Meant
<1>6. a <= m_start_line
  BY <1>2 DEF AtContent
<1> HIDE DEF a, f, n, w
<1>7. m_read_idx <= a + n
  BY <1>2, <1>4, <1>5
<1>8. ASSUME NEW i \in m_start_line + 1 .. m_read_idx
      PROVE  i - a \in 1 .. n /\ m_read_buf[i] = f[i - a]
  <2>1. i - a \in 1 .. n /\ a + (i - a) = i
    BY <1>1, <1>2, <1>3, <1>6, <1>7
  <2>2. i \in m_start_line + 1 .. Len(got)
    BY <1>4
  <2>3. i \in 1 .. Len(got)
    <3>1. i \in m_start_line + 1 .. m_read_idx /\ m_start_line \in Nat /\ m_read_idx \in Nat
      BY <1>1
    <3>2. i \in 1 .. m_read_idx
      BY <3>1
    <3> QED
      BY <1>4, <3>2
  <2>4. m_read_buf[i] = w[i]
    BY <1>4, <1>5, <2>2, <2>3
  <2>5. w[a + (i - a)] = f[i - a]
    BY <1>2, <2>1
  <2> QED
    BY <2>1, <2>4, <2>5
<1>9. /\ m_start_line \in Nat /\ a \in Nat /\ n \in Nat \ {0}
      /\ m_checked_idx \in Nat /\ m_read_idx \in Nat /\ m_read_idx = Len(got)
      /\ a <= m_start_line /\ m_start_line <= m_checked_idx
      /\ m_checked_idx <= m_read_idx /\ m_read_idx <= a + n
      /\ Len(w) = a + n
  BY <1>1, <1>2, <1>3, <1>4, <1>6, <1>7
<1> QED
  BY <1>8, <1>9 DEF a, f, n, w

(* The body is complete: the NUL that ends it falls behind what was read.  *)
LEMMA ContentMoves ==
    ASSUME ReadInv, NEW r, IsRequest(r), Meant(r), ParseAt(r), Content, UNCHANGED got
    PROVE  Requested(r)'
<1>1. AtContent(r) /\ SameBytes
  BY DEF ParseAt, Content, InContent, AtRequestLine, AtHeader
<1> DEFINE a == AfterHead(r)  n == Len(Form(r))  s == m_start_line
<1>2. /\ s \in Nat /\ a \in Nat /\ n \in Nat \ {0}
      /\ m_checked_idx \in Nat /\ m_read_idx \in Nat /\ m_read_idx = Len(got)
      /\ a <= s /\ s <= m_checked_idx
      /\ m_checked_idx <= m_read_idx /\ m_read_idx <= a + n
      /\ Len(Bytes(r)) = a + n
  BY <1>1, ContentIs
<1>3. m_content_length = n /\ m_linger = r.keep /\ Understood(r)
  BY <1>1 DEF AtContent
<1>4. m_read_idx >= n + m_checked_idx
  BY <1>3 DEF Content, BodyIsThere
<1> HIDE DEF a, n, s
<1>5. m_checked_idx = a /\ s = a /\ m_read_idx = a + n
  BY <1>2, <1>4
<1>6. /\ m_string' = a /\ m_start_line' = a
      /\ UNCHANGED <<m_method, m_url, m_linger>>
  BY <1>5 DEF Content, s
<1>7. m_read_buf' = m_read_buf
  <2>1. m_read_buf' = [i \in 1 .. m_read_idx |-> IF i = s + n + 1 THEN NUL ELSE m_read_buf[i]]
    BY <1>3, ContentStores DEF s
  <2>2. \A i \in 1 .. m_read_idx : i # s + n + 1
    BY <1>2, <1>5
  <2>3. m_read_buf' = [i \in 1 .. m_read_idx |-> m_read_buf[i]]
    BY <2>1, <2>2
  <2>4. m_read_buf = [i \in 1 .. Len(m_read_buf) |-> m_read_buf[i]]
    BY IndicesAre
  <2> QED
    BY <2>3, <2>4 DEF m_read_idx
<1>8. SameBytes'
  <2>1. m_start_line' = m_start_line
    BY <1>5, <1>6 DEF s
  <2> QED
    BY <1>1, <1>7, <2>1 DEF SameBytes, m_read_idx
<1>9. Understood(r)'
  BY <1>3, <1>6 DEF Understood
<1>10. Len(got)' = Len(Bytes(r))
  BY <1>2, <1>5
<1> QED
  BY <1>3, <1>6, <1>8, <1>9, <1>10 DEF Requested, a

(* It is not: what there is of it is counted as checked, and from then on  *)
(* the parser waits for more than the client has to say.                   *)
LEMMA BodyNotThereMoves ==
    ASSUME ReadInv, torn \in BOOLEAN, NEW r, IsRequest(r), Meant(r), ParseAt(r), BodyNotThere,
           torn' = (torn \/ PartOfBody), UNCHANGED got
    PROVE  ParseAt(r)' /\ Incomplete(r)'
<1>1. AtContent(r) /\ SameBytes
  BY DEF ParseAt, BodyNotThere, InContent, AtRequestLine, AtHeader
<1> DEFINE a == AfterHead(r)  n == Len(Form(r))  s == m_start_line  c == m_checked_idx
           d == m_read_idx
<1>2. /\ s \in Nat /\ a \in Nat /\ n \in Nat \ {0}
      /\ c \in Nat /\ d \in Nat /\ d = Len(got)
      /\ a <= s /\ s <= c /\ c <= d /\ d <= a + n
      /\ Len(Bytes(r)) = a + n
      /\ \A i \in s + 1 .. d : i - a \in 1 .. n /\ m_read_buf[i] = Form(r)[i - a]
  BY <1>1, ContentIs
<1>3. /\ m_content_length = n /\ m_linger = r.keep /\ Understood(r) /\ r.method = POST
      /\ m_check_state = "CONTENT"
      /\ (s = a /\ c = a) \/ (torn /\ c > a)
  BY <1>1 DEF AtContent
<1>4. ~ (d >= n + c)
  BY <1>3 DEF BodyNotThere, BodyIsThere
<1>5. LineEnd = 0
  <2>1. \A i \in s + 1 .. d : m_read_buf[i] \notin {CR, LF}
    <3>1. Form(r) \in Seq(FormByte)
      BY FormIs
    <3>2. \A j \in 1 .. n : Form(r)[j] \notin {CR, LF}
      <4>1. \A j \in 1 .. n : Form(r)[j] \in FormByte
        BY <3>1, ElementOfSeq
      <4> QED
        BY <4>1 DEF FormByte
    <3> HIDE DEF a, n, s, d
    <3> QED
      BY <1>2, <3>2
  <2>2. \A i \in c + 1 .. d : i \in s + 1 .. d
    <3> HIDE DEF a, n, s, d, c
    <3> QED
      BY <1>2
  <2>3. \A i \in c + 1 .. d : m_read_buf[i] \notin {CR, LF}
    BY <2>1, <2>2
  <2>4. ASSUME LineEnd # 0 PROVE FALSE
    <3>1. LineEnd \in c + 1 .. d /\ m_read_buf[LineEnd] \in {CR, LF}
      BY <2>4, LineEndIs
    <3> QED
      BY <2>3, <3>1
  <2> QED
    BY <2>4
<1>6. /\ m_start_line' = c /\ m_checked_idx' = d
      /\ UNCHANGED <<m_read_buf, m_check_state, m_method, m_url, m_linger, m_content_length>>
  BY <1>5 DEF BodyNotThere, LineNotOver
<1> HIDE DEF a, n, s, c, d
<1>7. SameBytes'
  <2>1. m_read_idx' = d /\ d = Len(got) /\ Len(got)' = Len(got)
    BY <1>2, <1>6 DEF d, m_read_idx
  <2>2. \A i \in s + 1 .. Len(got) : m_read_buf[i] = got[i]
    BY <1>1, Zenon DEF SameBytes, s
  <2>3. \A i \in c + 1 .. Len(got) : m_read_buf'[i] = got'[i]
    <3>1. \A i \in c + 1 .. Len(got) : i \in s + 1 .. Len(got)
      BY <1>2
    <3> QED
      BY <1>6, <2>2, <3>1
  <2> QED
    BY <1>6, <2>1, <2>3 DEF SameBytes
<1>8. PartOfBody <=> d > c
  <2>1. PartOfBody <=> d - c \in 1 .. n - 1
    BY <1>3 DEF PartOfBody, d, c
  <2>2. d - c \in 1 .. n - 1 <=> d > c
    BY <1>2, <1>4
  <2> QED
    BY <2>1, <2>2
<1>9. CASE d = c
  <2>1. (c = a /\ d = a) \/ (torn' /\ c >= a /\ d > a)
    BY <1>2, <1>3, <1>9
  <2>2. AtContent(r)'
    BY <1>3, <1>6, <2>1 DEF AtContent, Understood, a, n
  <2>3. torn' \/ Len(got)' < Len(Bytes(r))
    BY <1>2, <2>1
  <2> QED
    BY <1>7, <2>2, <2>3 DEF ParseAt, Incomplete
<1>10. CASE d > c
  <2>a. PartOfBody
    BY <1>8, <1>10
  <2>b. torn'
    BY <2>a, Zenon
  <2>c. c >= a /\ d > a
    BY <1>2, <1>10
  <2>1. torn' /\ c >= a /\ d > a
    BY <2>b, <2>c
  <2>2. AtContent(r)'
    BY <1>3, <1>6, <2>1 DEF AtContent, Understood, a, n
  <2> QED
    BY <1>7, <2>1, <2>2 DEF ParseAt, Incomplete
<1> QED
  BY <1>2, <1>9, <1>10

(* The next line is not there yet, or the line never ends. *)
LEMMA NoLineMoves ==
    ASSUME ReadInv, NEW r, IsRequest(r), Meant(r), ParseAt(r), lineStatus = "LINE_OK", NoLine,
           UNCHANGED <<got, torn>>
    PROVE  ParseAt(r)' /\ Incomplete(r)'
<1>1. SameBytes /\ (AtRequestLine(r) \/ AtHeader(r))
  BY DEF ParseAt, NoLine, InContent, AtContent
<1>2. /\ LineNotOver /\ LineStatus # "LINE_OK"
      /\ UNCHANGED <<m_read_buf, m_start_line, m_check_state, m_method, m_url, m_linger,
                     m_content_length>>
  BY DEF NoLine, LineNotOver
<1>3. SameBytes'
  BY <1>1, <1>2 DEF SameBytes, m_read_idx
<1>4. ASSUME NEW s, NEW t, LineAt(s, t), m_checked_idx' \in s .. s + Len(t) PROVE LineAt(s, t)'
  BY <1>2, <1>4 DEF LineAt
<1>5. CASE AtRequestLine(r)
  <2>1. LineAt(0, RequestText(r))
    BY <1>5, Zenon DEF AtRequestLine
  <2>2. /\ WellFormed(r) => Len(got) < Len(Bytes(r))
        /\ m_checked_idx' \in 0 .. 0 + Len(RequestText(r))
    BY <1>1, <1>2, <1>5, FirstLine
  <2>3. LineAt(0, RequestText(r))'
    BY <1>4, <2>1, <2>2
  <2>4. AtRequestLine(r)'
    BY <1>2, <1>5, <2>3 DEF AtRequestLine
  <2> QED
    BY <1>3, <2>2, <2>4 DEF ParseAt, Incomplete
<1>6. CASE AtHeader(r)
  <2>1. ASSUME AtKeepAlive(r) PROVE AtKeepAlive(r)' /\ Len(got) < Len(Bytes(r))
    <3>1. LineAt(AfterRequestLine(r), KeepText) /\ LineIn(Bytes(r), AfterRequestLine(r), KeepText)
      BY <2>1, BytesAre DEF AtKeepAlive
    <3>2. /\ Len(got) < Len(Bytes(r))
          /\ m_checked_idx' \in AfterRequestLine(r) .. AfterRequestLine(r) + Len(KeepText)
      BY <1>1, <1>2, <3>1, PastLine
    <3>3. LineAt(AfterRequestLine(r), KeepText)'
      BY <1>4, <3>1, <3>2
    <3> QED
      BY <1>2, <2>1, <3>2, <3>3 DEF AtKeepAlive
  <2>2. ASSUME AtLength(r) PROVE AtLength(r)' /\ Len(got) < Len(Bytes(r))
    <3>1. /\ LineAt(AfterKeepAlive(r), LengthText(r))
          /\ LineIn(Bytes(r), AfterKeepAlive(r), LengthText(r))
      BY <2>2, BytesAre DEF AtLength
    <3>2. /\ Len(got) < Len(Bytes(r))
          /\ m_checked_idx' \in AfterKeepAlive(r) .. AfterKeepAlive(r) + Len(LengthText(r))
      BY <1>1, <1>2, <3>1, PastLine
    <3>3. LineAt(AfterKeepAlive(r), LengthText(r))'
      BY <1>4, <3>1, <3>2
    <3> QED
      BY <1>2, <2>2, <3>2, <3>3 DEF AtLength
  <2>3. ASSUME AtBlank(r) PROVE AtBlank(r)' /\ Len(got) < Len(Bytes(r))
    <3>1. LineAt(AfterLength(r), <<>>) /\ LineIn(Bytes(r), AfterLength(r), <<>>)
      BY <2>3, BytesAre DEF AtBlank
    <3>2. /\ Len(got) < Len(Bytes(r))
          /\ m_checked_idx' \in AfterLength(r) .. AfterLength(r) + Len(<<>>)
      BY <1>1, <1>2, <3>1, PastLine
    <3>3. LineAt(AfterLength(r), <<>>)'
      BY <1>4, <3>1, <3>2
    <3> QED
      BY <1>2, <2>3, <3>2, <3>3 DEF AtBlank
  <2>4. AtHeader(r)' /\ Len(got) < Len(Bytes(r))
    BY <1>2, <1>6, <2>1, <2>2, <2>3 DEF AtHeader, Understood
  <2> QED
    BY <1>3, <2>4 DEF ParseAt, Incomplete
<1> QED
  BY <1>1, <1>5, <1>6
-----------------------------------------------------------------------------
(* The answer: what do_request decides and process_write lays out. *)
LEMMA LinesAre ==
    ASSUME NEW s \in Nat, NEW n \in Nat, NEW l, NEW c \in Seq(Element)
    PROVE  /\ Lines(s, n, l, c) \in Seq(Element)
           /\ <<>> \o Lines(s, n, l, c) = Lines(s, n, l, c)
<1> DEFINE head == <<[field |-> "status", value |-> s], [field |-> "length", value |-> n],
                     [field |-> "linger", value |-> IF l THEN 1 ELSE 0],
                     [field |-> "blank", value |-> 0]>>
<1>1. head \in Seq(Element)
  BY DEF Element
<1>2. Lines(s, n, l, c) = head \o c
  BY DEF Lines
<1> HIDE DEF head
<1>3. head \o c \in Seq(Element)
  BY <1>1
<1> DEFINE z == head \o c
<1>4. z \in Seq(Element)
  BY <1>3
<1> HIDE DEF z
<1>5. <<>> \o z = z
  BY <1>4
<1> QED
  BY <1>2, <1>3, <1>5 DEF z

LEMMA AnswerIs ==
    ASSUME NEW r PROVE Answer(r) = [text |-> Answer(r).text, file |-> Answer(r).file]
<1>2. CASE r.method \notin {GET, POST}
  BY <1>2 DEF Answer, Error
<1>3. CASE r.method \in {GET, POST} /\ r.method = POST
  BY <1>3 DEF Answer, Error
<1>4. CASE r.method \in {GET, POST} /\ r.method # POST
  <2>1. CASE Found(r) \notin DOMAIN DocRoot
    BY <1>4, <2>1 DEF Answer, Error
  <2>2. CASE Found(r) \in DOMAIN DocRoot
    <3>1. CASE DocRoot[Found(r)].mode = "private"
      <4>1. Answer(r) = Error(403, r.keep)
        BY <1>4, <2>2, <3>1 DEF Answer
      <4> QED
        BY <4>1 DEF Error
    <3>2. CASE DocRoot[Found(r)].mode = "directory"
      <4>1. Answer(r) = Error(400, r.keep)
        BY <1>4, <2>2, <3>2 DEF Answer
      <4> QED
        BY <4>1 DEF Error
    <3>3. CASE DocRoot[Found(r)].mode \notin {"private", "directory"}
      BY <1>4, <2>2, <3>3 DEF Answer, Error
    <3> QED
      BY <3>1, <3>2, <3>3
  <2> QED
    BY <2>1, <2>2
<1> QED
  BY <1>2, <1>3, <1>4

(* A bad request line, whose method is none the server knows. *)
LEMMA BadLineAnswer ==
    ASSUME NEW r, r.method \notin {GET, POST}, ret' = "BAD_REQUEST", m_linger' = FALSE
    PROVE  Planned(r)'
<1>1. Answer(r) = Error(400, FALSE)
  BY DEF Answer
<1>2. Added(ret, m_linger)' = Lines(400, 1, FALSE, Text1(400))
  BY DEF Added, Status, ErrorCodes
<1>3. Answer(r).text = Lines(400, 1, FALSE, Text1(400)) /\ Answer(r).file = NULL
  BY <1>1 DEF Error
<1> QED
  BY <1>2, <1>3 DEF Planned

(* What do_request copies, when the request is r. *)
LEMMA RequestedForm ==
    ASSUME ReadInv, NEW r, IsRequest(r), Meant(r), Requested(r), r.method = POST
    PROVE  /\ NameText = Sent(r, r.name)
           /\ PasswordText = Sent(r, Copied(r))
<1> DEFINE a == AfterHead(r)  f == Form(r)
<1>1. SameBytes /\ m_start_line = a /\ m_string = a /\ Len(got) = Len(Bytes(r))
  BY DEF Requested
<1>2. /\ a \in Nat /\ Len(Bytes(r)) = a + Len(f) /\ \A j \in 1 .. Len(f) : Bytes(r)[a + j] = f[j]
  BY BytesAre
<1>3. Len(f) \in Nat
  BY FormIs
<1>4. m_read_buf \in Seq(Nat) /\ Len(m_read_buf) = Len(got)
  BY <1>1, IndicesAre DEF SameBytes
<1>5. /\ \A i \in a + 1 .. Len(got) : m_read_buf[i] = got[i]
      /\ \A i \in 1 .. Len(got) : got[i] = Bytes(r)[i]
  BY <1>1 DEF SameBytes, Meant
<1> HIDE DEF a, f
<1>6. Len(m_read_buf) = m_string + Len(f)
  BY <1>1, <1>2, <1>4
<1>7. ASSUME NEW j \in 1 .. Len(f) PROVE m_read_buf[m_string + j] = f[j]
  <2>1. Len(got) = a + Len(f)
    BY <1>1, <1>2
  <2>2. a + j \in a + 1 .. a + Len(f) /\ a + j \in 1 .. a + Len(f)
    BY <1>2, <1>3
  <2>3. m_read_buf[a + j] = got[a + j] /\ got[a + j] = Bytes(r)[a + j]
    BY <1>5, <2>1, <2>2
  <2> QED
    BY <1>1, <1>2, <2>3
<1>8. m_string \in Nat
  BY <1>1, <1>2
<1> QED
  BY <1>4, <1>6, <1>7, <1>8, BodyIs DEF f

(* A name or a password that overruns its array was sent that long. *)
LEMMA OverrunIsExcused ==
    ASSUME ReadInv, NEW r, IsRequest(r), Meant(r), Requested(r), SignInOverruns
    PROVE  Excused(r)
<1>1. r.method = POST /\ m_url = Target(r) /\ m_url = SIGN_IN /\ Overrun
  BY DEF SignInOverruns, Requested, Understood
<1>2. IsSignIn(r)
  BY <1>1 DEF Target, SIGN_IN, SLASH, INDEX, IsSignIn
<1>3. NameText = Sent(r, r.name) /\ PasswordText = Sent(r, Copied(r))
  BY <1>1, RequestedForm
<1>4. Overruns(r)
  BY <1>1, <1>2, <1>3, Zenon DEF Overrun, Overruns
<1> QED
  BY <1>4 DEF Excused

(* The answer to a POST that do_request has room for. *)
LEMMA SignInAnswer ==
    ASSUME ReadInv, NEW r, IsRequest(r), Meant(r), Requested(r), SignIn
    PROVE  Planned(r)'
<1>1. r.method = POST /\ m_url = Target(r) /\ m_linger' = r.keep
  BY DEF SignIn, Requested, Understood, readVars
<1>2. m_url = SIGN_IN <=> r.path = SIGN_IN
  BY <1>1 DEF Target, SIGN_IN, SLASH, INDEX
<1>3. POST # GET /\ POST \in {GET, POST}
  BY DEF GET, POST
<1>4. CASE r.path = SIGN_IN
  <2>1. Name = Decoded(r, r.name) /\ Password = Decoded(r, Copied(r))
    <3>1. NameText = Sent(r, r.name) /\ PasswordText = Sent(r, Copied(r))
      BY <1>1, RequestedForm
    <3>2. r.plain \in BOOLEAN /\ r.name \in Seq(Char) /\ (r.plain => Plain(r.name))
      BY <1>1, Zenon DEF IsRequest
    <3>3. Copied(r) \in Seq(Char) /\ (r.plain => Plain(Copied(r)))
      BY <1>1, CopiedIs
    <3>4. /\ acl_url_decode(Sent(r, r.name)) = Decoded(r, r.name)
          /\ acl_url_decode(Sent(r, Copied(r))) = Decoded(r, Copied(r))
      BY <3>2, <3>3, SentIs, Zenon
    <3> QED
      BY <3>1, <3>4 DEF Name, Password
  <2>2. LoggedIn <=> Right(r)
    BY <2>1 DEF LoggedIn, Right
  <2> DEFINE t == LoginText(Right(r))
  <2>3. ret' = "JSON_REQUEST" /\ m_json' = t
    BY <1>1, <1>2, <1>4, <2>2 DEF SignIn, LoginText
  <2>4. t \in Seq(Element) /\ Len(t) = 1
    BY DEF LoginText, Text1, Element
  <2>5. Answer(r) = [text |-> Lines(200, 1, r.keep, t), file |-> NULL]
    BY <1>1, <1>3, <1>4 DEF Answer
  <2> HIDE DEF t
  <2>6. Added(ret, m_linger)' = <<>> \o Lines(200, 1, r.keep, t)
    BY <1>1, <2>3, <2>4 DEF Added, ErrorCodes
  <2>7. Added(ret, m_linger)' = Lines(200, 1, r.keep, t)
    BY <2>4, <2>6, LinesAre
  <2> QED
    BY <2>3, <2>5, <2>7 DEF Planned
<1>5. CASE r.path # SIGN_IN
  <2>1. ret' = "BAD_REQUEST"
    BY <1>2, <1>5 DEF SignIn
  <2>2. Answer(r) = Error(400, r.keep)
    BY <1>1, <1>3, <1>5 DEF Answer
  <2>3. Added(ret, m_linger)' = Lines(400, 1, r.keep, Text1(400))
    BY <1>1, <2>1 DEF Added, Status, ErrorCodes
  <2> QED
    BY <2>1, <2>2, <2>3 DEF Planned, Error
<1> QED
  BY <1>4, <1>5

(* The answer to a GET. *)
LEMMA GetFileAnswer ==
    ASSUME ReadInv, NEW r, IsRequest(r), Requested(r), GetFile
    PROVE  Excused(r) \/ Planned(r)'
<1>1. r.method = GET /\ m_url = Target(r) /\ m_linger' = r.keep
  BY DEF GetFile, Requested, Understood, readVars
<1>2. GET # POST /\ GET \in {GET, POST}
  BY DEF GET, POST
<1>3. RealFile = Found(r)
  <2>1. CASE r.path = <<SLASH>>
    <3>1. m_url = <<SLASH, INDEX>>
      BY <1>1, <2>1 DEF Target
    <3>2. RealFile = <<SLASH, INDEX>>
      BY <3>1 DEF RealFile, SLASH, INDEX
    <3>3. Found(r) = <<SLASH, INDEX>>
      <4>1. <<SLASH>>[Len(<<SLASH>>)] = SLASH
        OBVIOUS
      <4>2. Append(<<SLASH>>, INDEX) = <<SLASH, INDEX>>
        <5> DEFINE z == Append(<<SLASH>>, INDEX)  y == <<SLASH, INDEX>>
        <5>1. <<SLASH>> \in Seq(Nat) /\ INDEX \in Nat /\ Len(<<SLASH>>) = 1
          BY DEF SLASH, INDEX
        <5>2. /\ z \in Seq(Nat) /\ Len(z) = 2 /\ z[2] = INDEX /\ z[1] = <<SLASH>>[1]
          BY <5>1, AppendProperties
        <5>3. y \in Seq(Nat) /\ Len(y) = 2 /\ y[1] = SLASH /\ y[2] = INDEX
          BY DEF SLASH, INDEX
        <5>4. <<SLASH>>[1] = SLASH
          OBVIOUS
        <5> HIDE DEF z, y
        <5>5. \A i \in 1 .. 2 : z[i] = y[i]
          BY <5>2, <5>3, <5>4
        <5> QED
          BY <5>2, <5>3, <5>5, SeqEqual DEF z, y
      <4> QED
        BY <2>1, <4>1, <4>2 DEF Found
    <3> QED
      BY <3>2, <3>3
  <2>2. CASE r.path # <<SLASH>>
    BY <1>1, <2>2 DEF Target, RealFile, Found
  <2> QED
    BY <2>1, <2>2
<1> DEFINE p == Found(r)
<1>4. /\ IF p \in DOMAIN DocRoot
         THEN /\ m_file_stat' = DocRoot[p].size
              /\ ret' = CASE DocRoot[p].mode = "private"   -> "FORBIDDEN_REQUEST"
                          [] DocRoot[p].mode = "directory" -> "BAD_REQUEST"
                          [] OTHER                         -> "FILE_REQUEST"
         ELSE ret' = "NO_RESOURCE" /\ UNCHANGED m_file_stat
      /\ ret' = "FILE_REQUEST" =>
            m_file_address' = IF m_file_stat' = 0 THEN MAP_FAILED ELSE p
  BY <1>3 DEF GetFile
<1>5. CASE p \notin DOMAIN DocRoot
  <2>1. ret' = "NO_RESOURCE"
    BY <1>4, <1>5
  <2>2. Answer(r) = Error(404, r.keep)
    BY <1>1, <1>2, <1>5 DEF Answer
  <2>3. Added(ret, m_linger)' = Lines(404, 1, r.keep, Text1(404))
    BY <1>1, <2>1 DEF Added, Status, ErrorCodes
  <2> QED
    BY <2>1, <2>2, <2>3 DEF Planned, Error
<1>6. CASE p \in DOMAIN DocRoot /\ DocRoot[p].mode = "private"
  <2>1. ret' = "FORBIDDEN_REQUEST"
    BY <1>4, <1>6
  <2>2. Answer(r) = Error(403, r.keep)
    BY <1>1, <1>2, <1>6 DEF Answer
  <2>3. Added(ret, m_linger)' = Lines(403, 1, r.keep, Text1(403))
    BY <1>1, <2>1 DEF Added, Status, ErrorCodes
  <2> QED
    BY <2>1, <2>2, <2>3 DEF Planned, Error
<1>7. CASE p \in DOMAIN DocRoot /\ DocRoot[p].mode = "directory"
  <2>1. ret' = "BAD_REQUEST"
    BY <1>4, <1>7
  <2>2. Answer(r) = Error(400, r.keep)
    BY <1>1, <1>2, <1>7 DEF Answer
  <2>3. Added(ret, m_linger)' = Lines(400, 1, r.keep, Text1(400))
    BY <1>1, <2>1 DEF Added, Status, ErrorCodes
  <2> QED
    BY <2>1, <2>2, <2>3 DEF Planned, Error
<1>8. CASE p \in DOMAIN DocRoot /\ DocRoot[p].mode = "file"
  <2>1. ret' = "FILE_REQUEST" /\ m_file_stat' = DocRoot[p].size
    BY <1>4, <1>8
  <2>2. Answer(r) = [text |-> Lines(200, DocRoot[p].size, r.keep, <<>>), file |-> p]
    BY <1>1, <1>2, <1>8 DEF Answer
  <2>3. CASE DocRoot[p].size = 0
    BY <1>1, <1>8, <2>3 DEF EmptyFile, Excused
  <2>4. CASE DocRoot[p].size # 0
    <3>1. m_file_address' = p
      BY <1>4, <2>1, <2>4
    <3>2. Added(ret, m_linger)' = Lines(200, DocRoot[p].size, r.keep, <<>>)
      BY <1>1, <2>1, <2>4 DEF Added, ErrorCodes
    <3> QED
      BY <2>1, <2>2, <2>4, <3>1, <3>2 DEF Planned
  <2> QED
    BY <2>3, <2>4
<1> QED
  BY <1>5, <1>6, <1>7, <1>8, ExchangeConstants

LEMMA RespondAnswer ==
    ASSUME WriteInv, m_write_buf = <<>>, NEW r, Planned(r), Respond
    PROVE  (Response = Answer(r))'
<1> DEFINE added == Added(ret, m_linger)
           file == ret = "FILE_REQUEST" /\ m_file_stat # 0
<1>1. /\ m_write_buf' = m_write_buf \o added
      /\ m_iv_count' = IF file THEN 2 ELSE 1
      /\ m_file_address' = m_file_address
  BY DEF Respond, ProcessWrite
<1>2. added \in Seq(Element)
  BY AddedIs DEF WriteInv, WriteTypeOK
<1>3. added = Answer(r).text
      /\ Answer(r).file = IF file THEN m_file_address ELSE NULL
  BY DEF Planned
<1> HIDE DEF added
<1>4. m_write_buf' = added
  BY <1>1, <1>2
<1>5. (IF m_iv_count' = 2 THEN m_file_address' ELSE NULL) = Answer(r).file
  BY <1>1, <1>3
<1>6. Response' = [text |-> Answer(r).text, file |-> Answer(r).file]
  BY <1>3, <1>4, <1>5 DEF Response
<1> QED
  BY <1>6, AnswerIs
-----------------------------------------------------------------------------
(* A text in three pieces. *)
LEMMA InPieces ==
    ASSUME NEW g \in Seq(Nat), NEW w \in Seq(Nat), NEW t \in Seq(Nat),
           NEW v, v = g \o w, NEW b, b = v \o t
    PROVE  /\ Len(g) <= Len(b) /\ \A i \in 1 .. Len(g) : g[i] = b[i]
           /\ Len(g) = Len(b) => Len(w) = 0 /\ Len(t) = 0
<1>1. /\ v \in Seq(Nat) /\ Len(g) \in Nat /\ Len(w) \in Nat /\ Len(v) = Len(g) + Len(w)
      /\ \A j \in 1 .. Len(g) : v[j] = g[j]
  BY Joined
<1>2. /\ Len(t) \in Nat /\ Len(v) \in Nat /\ Len(b) = Len(v) + Len(t)
      /\ \A j \in 1 .. Len(v) : b[j] = v[j]
  BY <1>1, Joined
<1>3. Len(g) <= Len(b) /\ (Len(g) = Len(b) => Len(w) = 0 /\ Len(t) = 0)
  BY <1>1, <1>2
<1>4. \A i \in 1 .. Len(g) : g[i] = b[i]
  <2>1. \A i \in 1 .. Len(g) : i \in 1 .. Len(v)
    BY <1>1, <1>2
  <2> QED
    BY <1>1, <1>2, <2>1
<1> QED
  BY <1>3, <1>4

LEMMA Regrouped ==
    ASSUME NEW g \in Seq(Nat), NEW a \in Seq(Nat), NEW b \in Seq(Nat)
    PROVE  \A p, q : p = g \o a /\ q = a \o b => p \o b = g \o q
<1>1. (g \o a) \o b = g \o (a \o b)
  OBVIOUS
<1> QED
  BY <1>1, Zenon

LEMMA NoRequestIsNone == NoRequest \notin Requests
<1>1. NoRequest.method = NUL
  BY DEF NoRequest, NUL
<1> QED
  BY <1>1, ExchangeConstants DEF IsRequest, Word

(* The client's bytes: begun, sent and read, none is lost or out of order. *)
LEMMA ClientStreams == ASSUME TypeInv, Stream, ClientStep PROVE Stream'
<1>0. got \in Seq(Nat) /\ wire \in Seq(Nat) /\ todo \in Seq(Nat)
  BY TypeInvIs DEF RestTypeOK
<1>1. ASSUME NEW w \in Wire, Begin(w) PROVE Stream'
  <2>1. /\ present /\ pc = "in" /\ waiting = NoRequest /\ waiting' = w.request /\ todo' = w.bytes
        /\ UNCHANGED <<got, wire, present, pc>>
    BY <1>1 DEF Begin, historyVars
  <2>2. got = <<>> /\ wire = <<>>
    BY <2>1, NoRequestIsNone DEF Stream
  <2>3. w.request \in Requests /\ w.bytes = Bytes(w.request) /\ w.bytes \in Seq(Nat)
    BY WireIs
  <2> DEFINE b == w.bytes
  <2>4. (got' \o wire') \o todo' = (<<>> \o <<>>) \o b
    BY <2>1, <2>2
  <2>5. b \in Seq(Nat)
    BY <2>3
  <2> HIDE DEF b
  <2>6. (<<>> \o <<>>) \o b = b
    BY <2>5
  <2> QED
    BY <2>1, <2>3, <2>4, <2>6 DEF Stream, b
<1>2. ASSUME NEW n \in 1 .. Len(todo), SendBytes(n) PROVE Stream'
  <2> DEFINE a == SubSeq(todo, 1, n)  b == From(todo, n + 1)
  <2>1. /\ present /\ pc = "in" /\ wire' = wire \o a /\ todo' = b
        /\ UNCHANGED <<got, waiting, present, pc>>
    BY <1>2 DEF SendBytes, historyVars
  <2>2. Len(todo) \in Nat /\ n \in 0 .. Len(todo) /\ Len(todo) # 0
    BY <1>0, LenProperties
  <2>3. todo # <<>>
    BY <2>2
  <2>4. waiting \in Requests /\ (got \o wire) \o todo = Bytes(waiting)
    BY <2>1, <2>3 DEF Stream
  <2>5. a \in Seq(Nat) /\ b \in Seq(Nat) /\ a \o b = todo
    BY <1>0, <2>2, Pieces
  <2> DEFINE u == got \o wire  v == wire \o a  x == u \o a
  <2> HIDE DEF a, b
  <2>6. u \in Seq(Nat) /\ u = got \o wire /\ v = wire \o a /\ x = u \o a /\ todo = a \o b
    BY <1>0, <2>5, Joined
  <2> HIDE DEF u, v, x
  <2>7. x = got \o v
    <3>0. got \in Seq(Nat) /\ wire \in Seq(Nat) /\ a \in Seq(Nat)
      BY <1>0, <2>5
    <3>1. \A p, q : p = got \o wire /\ q = wire \o a => p \o a = got \o q
      BY <3>0, Regrouped
    <3> QED
      BY <2>6, <3>1, Zenon
  <2>8. x \o b = u \o todo
    <3>1. \A p, q : p = u \o a /\ q = a \o b => p \o b = u \o q
      BY <2>5, <2>6, Regrouped, Zenon
    <3> QED
      BY <2>6, <3>1, Zenon
  <2>9. u \o todo = Bytes(waiting)
    BY <2>4, <2>6, Zenon
  <2>10. (got' \o wire') \o todo' = Bytes(waiting)
    <3>1. got' = got /\ wire' = v /\ todo' = b
      BY <2>1, <2>6, Zenon
    <3> QED
      BY <2>7, <2>8, <2>9, <3>1, Zenon
  <2> QED
    BY <2>1, <2>4, <2>10 DEF Stream
<1>3. CASE Drain
  BY <1>3 DEF Drain, Stream, clientVars, historyVars
<1>4. CASE HangUp
  BY <1>4 DEF HangUp, Stream
<1> QED
  BY <1>1, <1>2, <1>3, <1>4 DEF ClientStep

LEMMA ReadOnceStreams == ASSUME TypeInv, Stream, ReadOnce PROVE Stream' /\ Meaning'
<1>0. got \in Seq(Nat) /\ wire \in Seq(Nat) /\ todo \in Seq(Nat)
  BY TypeInvIs DEF RestTypeOK
<1>1. present /\ pc = "in" /\ wire # <<>> /\ UNCHANGED <<todo, waiting, present>>
  BY DEF ReadOnce, clientVars
<1>2. waiting \in Requests /\ (got \o wire) \o todo = Bytes(waiting)
  BY <1>1 DEF Stream
<1>3. PICK n \in 1 .. Len(wire) \cup {0} :
         LET piece == SubSeq(wire, 1, n) IN
         /\ piece \in Seq(Nat) /\ got' = got \o piece
         /\ wire' \in Seq(Nat) /\ piece \o wire' = wire /\ got' \in Seq(Nat)
  BY ReadOnceGives
<1> DEFINE a == SubSeq(wire, 1, n)  b == wire'
<1>4. a \in Seq(Nat) /\ b \in Seq(Nat) /\ got' = got \o a /\ a \o b = wire /\ got' \in Seq(Nat)
  BY <1>3
<1> HIDE DEF a
<1>5. (got' \o wire') \o todo' = Bytes(waiting)
  <2> DEFINE v == got \o a
  <2> HIDE DEF b
  <2>1. v = got \o a /\ wire = a \o b
    BY <1>4, Zenon
  <2> HIDE DEF v
  <2>0. got \in Seq(Nat) /\ a \in Seq(Nat) /\ b \in Seq(Nat)
    BY <1>0, <1>4
  <2>2. \A p, q : p = got \o a /\ q = a \o b => p \o b = got \o q
    BY <2>0, Regrouped
  <2>3. v \o b = got \o wire
    BY <2>1, <2>2, Zenon
  <2>4. got' = v /\ wire' = b /\ todo' = todo
    BY <1>1, <1>4, <2>1, Zenon DEF b
  <2> QED
    BY <1>2, <2>3, <2>4, Zenon
<1>6. Stream'
  BY <1>1, <1>2, <1>5 DEF Stream
<1>7. Meant(waiting)'
  <2> DEFINE g == got'  t == todo'  v == g \o b  all == Bytes(waiting)
  <2>1. g \in Seq(Nat) /\ b \in Seq(Nat) /\ t \in Seq(Nat) /\ v = g \o b /\ all = v \o t
    BY <1>0, <1>1, <1>4, <1>5
  <2> HIDE DEF g, b, t, v, all
  <2>2. Len(g) <= Len(all) /\ \A i \in 1 .. Len(g) : g[i] = all[i]
    BY <2>1, InPieces
  <2> QED
    BY <1>1, <2>2 DEF Meant, g, all
<1> QED
  BY <1>1, <1>2, <1>6, <1>7 DEF Meaning

(* What a step leaves alone. *)
LEMMA StreamStays ==
    ASSUME Stream, UNCHANGED <<got, wire, todo, waiting, present>>, pc # "closed" PROVE Stream'
BY DEF Stream

LEMMA MeaningStays == ASSUME Meaning, UNCHANGED got PROVE Meaning'
BY DEF Meaning, Meant

LEMMA TreatedStays ==
    ASSUME UNCHANGED <<readVars, got, torn, m_write_buf, m_json, m_file_stat, m_file_address,
                       m_iv_count, ret>>,
           pc' = pc \/ (Sending /\ Sending'),
           NEW r, Meant(r) => Treated(r), Meant(r)'
    PROVE  Treated(r)'
<1>1. UNCHANGED <<m_read_buf, m_checked_idx, m_start_line, m_check_state, lineStatus,
                  m_method, m_url, m_linger, m_content_length, m_string>>
  BY DEF readVars
<1>2. Treated(r)
  BY DEF Meant
<1>3. SameBytes' <=> SameBytes
  BY <1>1 DEF SameBytes, m_read_idx
<1>4. Understood(r)' <=> Understood(r)
  BY <1>1 DEF Understood
<1>5. ParseAt(r) => ParseAt(r)'
  BY <1>1, <1>3, <1>4
     DEF ParseAt, AtRequestLine, AtHeader, AtKeepAlive, AtLength, AtBlank, AtContent, LineAt
<1>6. /\ Incomplete(r) => Incomplete(r)'
      /\ Requested(r) => Requested(r)'
      /\ Complete(r) => Complete(r)'
  BY <1>1, <1>3, <1>4 DEF Incomplete, Requested, Complete
<1>7. Planned(r) => Planned(r)'
  BY <1>1 DEF Planned, Added
<1>8. Response = Answer(r) => (Response = Answer(r))'
  BY DEF Response
<1>9. CASE pc' = pc
  BY <1>2, <1>5, <1>6, <1>7, <1>8, <1>9 DEF Treated, Sending
<1>10. CASE Sending /\ Sending'
  BY <1>2, <1>6, <1>8, <1>10 DEF Treated, Sending
<1> QED
  BY <1>9, <1>10

LEMMA ClosedIsTreated == ASSUME pc' = "closed" PROVE \A r : Treated(r)'
BY DEF Treated, Sending

(* The parser's turns. *)
LEMMA ParseTreats ==
    ASSUME ReadingInv, ParseOn \/ ParseBad \/ ParseDone \/ ParseWaits
    PROVE  /\ Stream' /\ Meaning' /\ Going' /\ Unwritten'
           /\ \A r \in Requests : Meant(r)' => Treated(r)'
<1>1. ReadInv /\ RestTypeOK /\ lineStatus = "LINE_OK" /\ pc = "parse" /\ m_write_buf = <<>>
  BY TypeInvIs DEF ReadingInv, Going, Unwritten, ParseOn, ParseBad, ParseDone, ParseWaits
<1>2. UNCHANGED <<m_write_buf, got, wire, todo, waiting, present>>
  BY DEF ParseOn, ParseBad, ParseDone, ParseWaits, writeVars, clientVars, historyVars
<1>3. Stream' /\ Meaning' /\ Unwritten'
  BY <1>1, <1>2, StreamStays, MeaningStays DEF ReadingInv, Unwritten
<1>4. Going'
  <2>1. CASE ParseOn
    BY <2>1 DEF ParseOn, RequestLine, Header, BlankLine, LineOver, Going
  <2>2. CASE ParseBad \/ ParseDone \/ ParseWaits
    BY <2>2 DEF ParseBad, ParseDone, ParseWaits, Going
  <2> QED
    BY <2>1, <2>2
<1>5. ASSUME NEW r \in Requests, Meant(r)' PROVE Treated(r)'
  <2>1. IsRequest(r) /\ Meant(r)
    BY <1>2, <1>5, ExchangeConstants DEF Meant
  <2>2. ParseAt(r)
    BY <1>1, <2>1 DEF ReadingInv, Treated
  <2>3. CASE ParseOn
    <3>1. ParseAt(r)'
      BY <1>1, <1>2, <2>1, <2>2, <2>3, RequestLineMoves, HeaderMoves, BlankLineMoves DEF ParseOn
    <3> QED
      BY <1>1, <2>3, <3>1 DEF ParseOn, Treated, Sending
  <2>4. CASE ParseBad
    <3>1. r.method \notin {GET, POST} /\ m_linger' = FALSE
      BY <1>1, <2>1, <2>2, <2>4, BadLineMoves DEF ParseBad
    <3>2. Planned(r)'
      BY <2>4, <3>1, BadLineAnswer DEF ParseBad
    <3>3. Complete(r)'
      BY <3>1 DEF Complete
    <3> QED
      BY <2>4, <3>2, <3>3 DEF ParseBad, Treated, Sending
  <2>5. CASE ParseDone
    <3>1. Requested(r)'
      BY <1>1, <1>2, <2>1, <2>2, <2>5, LastLineMoves, ContentMoves DEF ParseDone
    <3> QED
      BY <2>5, <3>1 DEF ParseDone, Treated, Sending
  <2>6. CASE ParseWaits
    <3>1. ParseAt(r)' /\ Incomplete(r)'
      <4>1. CASE NoLine /\ UNCHANGED torn
        BY <1>1, <1>2, <2>1, <2>2, <4>1, NoLineMoves
      <4>2. CASE BodyNotThere /\ torn' = (torn \/ PartOfBody)
        <5>1. torn \in BOOLEAN
          BY <1>1 DEF RestTypeOK
        <5> QED
          BY <1>1, <1>2, <2>1, <2>2, <4>2, <5>1, BodyNotThereMoves
      <4> QED
        BY <2>6, <4>1, <4>2 DEF ParseWaits
    <3> QED
      BY <2>6, <3>1 DEF ParseWaits, Treated, Sending
  <2> QED
    BY <2>3, <2>4, <2>5, <2>6
<1> QED
  BY <1>3, <1>4, <1>5

(* do_request() and process_write(). *)
LEMMA RequestTreats ==
    ASSUME ReadingInv, SignIn \/ SignInOverruns \/ GetFile \/ Respond
    PROVE  /\ Stream' /\ Meaning' /\ Going' /\ Unwritten'
           /\ \A r \in Requests : Meant(r)' => Treated(r)'
<1>1. ReadInv /\ WriteInv /\ pc \in {"request", "respond"} /\ m_write_buf = <<>>
  BY TypeInvIs DEF ReadingInv, Unwritten, SignIn, SignInOverruns, GetFile, Respond
<1>2. UNCHANGED <<readVars, got, wire, todo, waiting, present, torn>>
  BY DEF SignIn, SignInOverruns, GetFile, Respond, clientVars, historyVars
<1>3. Stream' /\ Meaning'
  BY <1>1, <1>2, StreamStays, MeaningStays DEF ReadingInv
<1>4. Going' /\ Unwritten'
  BY <1>1 DEF SignIn, SignInOverruns, GetFile, Respond, Going, Unwritten
<1>5. ASSUME NEW r \in Requests, Meant(r)' PROVE Treated(r)'
  <2>1. IsRequest(r) /\ Meant(r)
    BY <1>2, <1>5, ExchangeConstants DEF Meant
  <2>2. Treated(r)
    BY <2>1 DEF ReadingInv
  <2>3. m_linger' = m_linger
    BY <1>2 DEF readVars
  <2>4. CASE SignIn \/ SignInOverruns \/ GetFile
    <3>1. Requested(r) /\ pc' \in {"respond", "aborted"}
      BY <2>2, <2>4 DEF Treated, SignIn, SignInOverruns, GetFile
    <3>2. Excused(r) \/ Planned(r)'
      BY <1>1, <2>1, <2>4, <3>1, SignInAnswer, OverrunIsExcused, GetFileAnswer
    <3>3. Complete(r)'
      BY <1>2, <3>1 DEF Complete, Requested
    <3>4. Excused(r) => Excused(r)'
      OBVIOUS
    <3> QED
      BY <3>1, <3>2, <3>3, <3>4 DEF Treated, Sending
  <2>5. CASE Respond
    <3>1. Complete(r) /\ (Excused(r) \/ Planned(r)) /\ pc' = "out"
      BY <2>2, <2>5 DEF Treated, Respond
    <3>2. Excused(r) \/ (Response = Answer(r))'
      BY <1>1, <2>5, <3>1, RespondAnswer
    <3>3. Complete(r)'
      BY <1>2, <2>3, <3>1 DEF Complete
    <3> QED
      BY <3>1, <3>2, <3>3 DEF Treated, Sending
  <2> QED
    BY <2>4, <2>5
<1> QED
  BY <1>3, <1>4, <1>5

(* read_once(): what is read goes on with the request that has begun. *)
LEMMA ReadOnceTreats ==
    ASSUME ReadingInv, ReadOnce
    PROVE  /\ Stream' /\ Meaning' /\ Going' /\ Unwritten'
           /\ \A r \in Requests : Meant(r)' => Treated(r)'
<1>1. TypeInv /\ pc = "in" /\ pc' \in {"parse", "closed"} /\ lineStatus' = "LINE_OK"
      /\ UNCHANGED <<m_checked_idx, m_start_line, m_check_state, m_method, m_url, m_linger,
                     m_content_length, m_write_buf, torn>>
  BY DEF ReadingInv, ReadOnce, writeVars
<1>2. Stream' /\ Meaning'
  BY ReadOnceStreams DEF ReadingInv, ReadOnce
<1>3. Going' /\ Unwritten'
  BY <1>1 DEF ReadingInv, Going, Unwritten
<1>4. ASSUME NEW r \in Requests, Meant(r)', pc' = "parse" PROVE ParseAt(r)'
  <2>1. PICK n \in 1 .. Len(wire) \cup {0} :
           LET piece == SubSeq(wire, 1, n) IN
           /\ piece \in Seq(Nat) /\ Len(piece) = n
           /\ got' = got \o piece
           /\ m_read_idx' = m_read_idx + n
           /\ \A i \in 1 .. m_read_idx : m_read_buf'[i] = m_read_buf[i]
           /\ \A i \in 1 .. n : m_read_buf'[m_read_idx + i] = piece[i]
    BY <1>1, ReadOnceGives
  <2> DEFINE a == SubSeq(wire, 1, n)  g == Len(got)
  <2>2. /\ a \in Seq(Nat) /\ Len(a) = n /\ got' = got \o a
        /\ m_read_idx' = m_read_idx + n
        /\ \A i \in 1 .. m_read_idx : m_read_buf'[i] = m_read_buf[i]
        /\ \A i \in 1 .. n : m_read_buf'[m_read_idx + i] = a[i]
    BY <2>1
  <2> HIDE DEF a
  <2>3. got \in Seq(Nat) /\ ReadInv
    BY <1>1, TypeInvIs DEF RestTypeOK
  <2>4. /\ g \in Nat /\ n \in Nat /\ Len(got') = g + n
        /\ \A j \in 1 .. g : got'[j] = got[j]
        /\ \A j \in 1 .. n : got'[g + j] = a[j]
    <3>1. /\ Len(got) \in Nat /\ Len(a) \in Nat /\ Len(got \o a) = Len(got) + Len(a)
          /\ \A j \in 1 .. Len(got) : (got \o a)[j] = got[j]
          /\ \A j \in 1 .. Len(a) : (got \o a)[Len(got) + j] = a[j]
      BY <2>2, <2>3, Joined
    <3> QED
      BY <2>2, <3>1
  <2>5. Meant(r)
    <3>1. g <= Len(got') /\ Len(got') <= Len(Bytes(r)) /\ \A i \in 1 .. Len(got') : got'[i] = Bytes(r)[i]
      BY <1>4, <2>4 DEF Meant
    <3> DEFINE b == Bytes(r)
    <3>2. Len(b) \in Nat
      BY ExchangeConstants, BytesAre, LenProperties
    <3> HIDE DEF g, b
    <3>3. g <= Len(b) /\ \A i \in 1 .. g : got'[i] = b[i]
      BY <2>4, <3>1, <3>2 DEF b
    <3> QED
      BY <2>4, <3>3 DEF Meant, g, b
  <2>6. ParseAt(r)
    BY <1>1, <2>5 DEF ReadingInv, Treated
  <2>7. SameBytes'
    <3>1. m_read_idx = g /\ \A i \in m_start_line + 1 .. g : m_read_buf[i] = got[i]
      BY <2>6 DEF ParseAt, SameBytes
    <3>2. m_start_line \in Nat
      BY <2>3, IndicesAre
    <3> HIDE DEF g
    <3>3. ASSUME NEW i \in m_start_line + 1 .. g + n PROVE m_read_buf'[i] = got'[i]
      <4>1. CASE i <= g
        <5>1. i \in 1 .. g /\ i \in m_start_line + 1 .. g
          BY <2>4, <3>2, <4>1
        <5> QED
          BY <2>2, <2>4, <3>1, <5>1
      <4>2. CASE ~ (i <= g)
        <5>1. i - g \in 1 .. n /\ g + (i - g) = i
          BY <2>4, <3>2, <4>2
        <5>2. m_read_buf'[g + (i - g)] = a[i - g] /\ got'[g + (i - g)] = a[i - g]
          BY <2>2, <2>4, <3>1, <5>1
        <5> QED
          BY <5>1, <5>2
      <4> QED
        BY <4>1, <4>2
    <3>4. m_read_idx' = Len(got') /\ Len(got') = g + n
      BY <2>2, <2>4, <3>1
    <3> QED
      BY <1>1, <3>3, <3>4 DEF SameBytes
  <2> QED
    BY <1>1, <2>6, <2>7
       DEF ParseAt, Understood, AtRequestLine, AtHeader, AtKeepAlive, AtLength, AtBlank,
           AtContent, LineAt
<1>5. ASSUME NEW r \in Requests, Meant(r)' PROVE Treated(r)'
  <2>1. CASE pc' = "parse"
    BY <1>4, <1>5, <2>1 DEF Treated, Sending
  <2>2. CASE pc' = "closed"
    BY <2>2, ClosedIsTreated
  <2> QED
    BY <1>1, <2>1, <2>2
<1> QED
  BY <1>2, <1>3, <1>5

(* init(): nothing has been read, of whatever request comes next. *)
LEMMA ResetIsTreated ==
    ASSUME ReadReset, got' = <<>>, NEW r, IsRequest(r), pc' = "in"
    PROVE  Treated(r)'
<1>1. AtRequestLine(r)'
  <2>1. Len(RequestText(r)) \in Nat
    BY BytesAre, LenProperties
  <2> QED
    BY <2>1 DEF ReadReset, AtRequestLine, LineAt
<1>2. SameBytes'
  BY DEF ReadReset, SameBytes, m_read_idx
<1>3. Len(Bytes(r)) > 0
  <2>1. /\ Len(Bytes(r)) = AfterHead(r) + Len(Form(r)) /\ AfterHead(r) = AfterLength(r) + 2
        /\ AfterLength(r) \in Nat /\ Len(Form(r)) \in Nat
    BY BytesAre, Places, FormIs
  <2> QED
    BY <2>1
<1>4. Incomplete(r)'
  <2>1. Len(got') = 0
    OBVIOUS
  <2> QED
    BY <1>3, <2>1 DEF Incomplete
<1> QED
  BY <1>1, <1>2, <1>4 DEF ParseAt, Treated, Sending

(* The connection is given to a client, or is free for its next request: a *)
(* client that has sent it has been answered.                              *)
LEMMA EndTreats ==
    ASSUME ReadingInv, Accept \/ WriteDone
    PROVE  /\ Stream' /\ Meaning' /\ Going' /\ Unwritten'
           /\ \A r \in Requests : Meant(r)' => Treated(r)'
<1>1. CASE Accept
  <2>1. pc' = "in" /\ ReadReset /\ m_write_buf' = <<>> /\ got' = <<>> /\ wire' = <<>>
        /\ todo' = <<>> /\ waiting' = NoRequest
    BY <1>1 DEF Accept, WriteReset
  <2>2. Stream' /\ Meaning' /\ Going' /\ Unwritten'
    BY <2>1 DEF Stream, Meaning, Going, Unwritten
  <2>3. \A r \in Requests : Treated(r)'
    BY <2>1, ResetIsTreated, ExchangeConstants
  <2> QED
    BY <2>2, <2>3
<1>2. CASE WriteDone /\ m_linger
  <2>1. /\ pc = "write" /\ pc' = "in" /\ ReadReset /\ m_write_buf' = <<>> /\ got' = <<>>
        /\ waiting' = NoRequest
        /\ UNCHANGED <<wire, todo, present>>
    BY <1>2 DEF WriteDone, WriteReset
  <2>2. Meaning' /\ Going' /\ Unwritten'
    BY <2>1 DEF Meaning, Going, Unwritten
  <2>3. present => wire = <<>> /\ todo = <<>>
    <3>1. SUFFICES ASSUME present PROVE wire = <<>> /\ todo = <<>>
      OBVIOUS
    <3>2. CASE wire = <<>> /\ todo = <<>>
      BY <3>2
    <3>3. CASE waiting \in Requests /\ (got \o wire) \o todo = Bytes(waiting)
      <4>1. got \in Seq(Nat) /\ wire \in Seq(Nat) /\ todo \in Seq(Nat)
        BY TypeInvIs DEF ReadingInv, RestTypeOK
      <4>2. /\ Len(got) <= Len(Bytes(waiting))
            /\ \A i \in 1 .. Len(got) : got[i] = Bytes(waiting)[i]
            /\ Len(got) = Len(Bytes(waiting)) => wire = <<>> /\ todo = <<>>
        <5> DEFINE g == got  w == wire  t == todo  v == g \o w  b == Bytes(waiting)
        <5>1. g \in Seq(Nat) /\ w \in Seq(Nat) /\ t \in Seq(Nat) /\ v = g \o w /\ b = v \o t
          BY <3>3, <4>1
        <5> HIDE DEF g, w, t, v, b
        <5>2. /\ Len(g) <= Len(b) /\ \A i \in 1 .. Len(g) : g[i] = b[i]
              /\ Len(g) = Len(b) => Len(w) = 0 /\ Len(t) = 0
          BY <5>1, InPieces
        <5>3. (Len(w) = 0 => w = <<>>) /\ (Len(t) = 0 => t = <<>>)
          BY <5>1, EmptySeq
        <5> QED
          BY <5>2, <5>3 DEF g, w, t, b
      <4>3. Meant(waiting)
        BY <4>2 DEF Meant
      <4>4. Complete(waiting)
        BY <2>1, <3>3, <4>3 DEF ReadingInv, Treated, Sending
      <4> QED
        BY <1>2, <4>2, <4>4 DEF Complete
    <3> QED
      BY <2>1, <3>1, <3>2, <3>3 DEF ReadingInv, Stream
  <2>4. Stream'
    BY <2>1, <2>3 DEF Stream
  <2>5. \A r \in Requests : Treated(r)'
    BY <2>1, ResetIsTreated, ExchangeConstants
  <2> QED
    BY <2>2, <2>4, <2>5
<1>3. CASE WriteDone /\ ~m_linger
  <2>1. pc' = "closed" /\ UNCHANGED got
    BY <1>3 DEF WriteDone
  <2>2. Stream' /\ Meaning' /\ Going' /\ Unwritten'
    BY <2>1, MeaningStays DEF ReadingInv, Stream, Going, Unwritten
  <2> QED
    BY <2>1, <2>2, ClosedIsTreated
<1> QED
  BY <1>1, <1>2, <1>3

LEMMA OtherTreats ==
    ASSUME ReadingInv,
           \/ ClientStep \/ CloseHup \/ WriteReady \/ WriteAgain \/ WriteError
           \/ \E t \in 1 .. Vector : Writev(t)
           \/ UNCHANGED vars
    PROVE  /\ Stream' /\ Meaning' /\ Going' /\ Unwritten'
           /\ \A r \in Requests : Meant(r)' => Treated(r)'
<1>1. ASSUME pc' = "closed", UNCHANGED got
      PROVE  /\ Stream' /\ Meaning' /\ Going' /\ Unwritten'
             /\ \A r \in Requests : Meant(r)' => Treated(r)'
  <2>1. Stream' /\ Meaning' /\ Going' /\ Unwritten'
    BY <1>1, MeaningStays DEF ReadingInv, Stream, Going, Unwritten
  <2> QED
    BY <1>1, <2>1, ClosedIsTreated
<1>2. ASSUME UNCHANGED <<readVars, got, torn, m_write_buf, m_json, m_file_stat,
                         m_file_address, m_iv_count, ret>>,
             pc' = pc \/ (Sending /\ Sending')
      PROVE  /\ Meaning' /\ Going' /\ Unwritten'
             /\ \A r \in Requests : Meant(r)' => Treated(r)'
  <2>1. Meaning'
    BY <1>2, MeaningStays DEF ReadingInv
  <2>2. Going' /\ Unwritten'
    BY <1>2 DEF ReadingInv, Going, Unwritten, Sending, readVars
  <2>3. ASSUME NEW r \in Requests, Meant(r)' PROVE Treated(r)'
    <3>1. Meant(r) => Treated(r)
      BY DEF ReadingInv
    <3> QED
      BY <1>2, <2>3, <3>1, TreatedStays
  <2> QED
    BY <2>1, <2>2, <2>3
<1>3. CASE ClientStep
  <2>1. UNCHANGED <<readVars, got, torn, m_write_buf, m_json, m_file_stat, m_file_address,
                    m_iv_count, ret, pc>>
    BY <1>3 DEF ClientStep, Begin, SendBytes, Drain, HangUp, writeVars, historyVars
  <2>2. Stream'
    BY <1>3, ClientStreams DEF ReadingInv
  <2> QED
    BY <1>2, <2>1, <2>2
<1>4. CASE CloseHup \/ WriteError
  BY <1>1, <1>4 DEF CloseHup, WriteError, historyVars
<1>5. CASE WriteReady \/ WriteAgain \/ \E t \in 1 .. Vector : Writev(t)
  <2>1. /\ UNCHANGED <<readVars, got, torn, m_write_buf, m_json, m_file_stat, m_file_address,
                       m_iv_count, ret>>
        /\ Sending /\ Sending'
        /\ UNCHANGED <<wire, todo, waiting, present>>
    BY <1>5 DEF WriteReady, WriteAgain, Writev, Sending, writeVars, clientVars, historyVars
  <2>2. Stream'
    BY <2>1, StreamStays DEF ReadingInv, Sending
  <2> QED
    BY <1>2, <2>1, <2>2
<1>6. CASE UNCHANGED vars
  <2>1. /\ UNCHANGED <<readVars, got, torn, m_write_buf, m_json, m_file_stat, m_file_address,
                       m_iv_count, ret, pc>>
        /\ UNCHANGED <<wire, todo, waiting, present>>
    BY <1>6 DEF vars, writeVars, clientVars, historyVars
  <2>2. Stream'
    BY <2>1 DEF ReadingInv, Stream
  <2> QED
    BY <1>2, <2>1, <2>2
<1> QED
  BY <1>3, <1>4, <1>5, <1>6

LEMMA NextReads == ASSUME ReadingInv, [Next]_vars PROVE ReadingInv'
<1>1. TypeInv'
  BY NextTypes DEF ReadingInv
<1>2. /\ Stream' /\ Meaning' /\ Going' /\ Unwritten'
      /\ \A r \in Requests : Meant(r)' => Treated(r)'
  <2>1. \/ ClientStep \/ Accept \/ ReadOnce \/ CloseHup
        \/ ParseOn \/ ParseBad \/ ParseDone \/ ParseWaits
        \/ SignIn \/ SignInOverruns \/ GetFile \/ Respond
        \/ WriteReady \/ \E t \in 1 .. Vector : Writev(t)
        \/ WriteAgain \/ WriteError \/ WriteDone \/ UNCHANGED vars
    BY DEF Next, ServerStep
  <2>2. CASE Accept \/ WriteDone
    BY <2>2, EndTreats
  <2>3. CASE ReadOnce
    BY <2>3, ReadOnceTreats
  <2>4. CASE ParseOn \/ ParseBad \/ ParseDone \/ ParseWaits
    BY <2>4, ParseTreats
  <2>5. CASE SignIn \/ SignInOverruns \/ GetFile \/ Respond
    BY <2>5, RequestTreats
  <2>6. CASE \/ ClientStep \/ CloseHup \/ WriteReady \/ WriteAgain \/ WriteError
             \/ \E t \in 1 .. Vector : Writev(t)
             \/ UNCHANGED vars
    BY <2>6, OtherTreats
  <2> QED
    BY <2>1, <2>2, <2>3, <2>4, <2>5, <2>6
<1> QED
  BY <1>1, <1>2 DEF ReadingInv

(* What the server has read of a client's bytes is the beginning of a      *)
(* request, and the parser agrees with every request it can still be the   *)
(* beginning of (http_conn.cpp:172-381).  The answer that is planned and   *)
(* sent is Answer(r), what the code makes of a request r that arrives      *)
(* whole: a plain text that ends like an escape cut short counts without   *)
(* its last character, a password sent as "passwd=" without its first two. *)
(* Of an empty file, and of a name or password that overruns its array,    *)
(* this says nothing (http_conn.cpp:409-510, 649-714).                     *)
THEOREM Reading == Spec => []ReadingInv
<1>1. Init => ReadingInv
  <2>1. SUFFICES ASSUME Init PROVE ReadingInv
    OBVIOUS
  <2>2. TypeInv
    BY <2>1, InitTypes
  <2>3. Stream /\ Meaning /\ Going /\ Unwritten
    BY <2>1 DEF Init, Stream, Meaning, Going, Unwritten
  <2>4. \A r : Treated(r)
    BY <2>1 DEF Init, Treated, Sending
  <2> QED
    BY <2>2, <2>3, <2>4 DEF ReadingInv
<1>2. ReadingInv /\ [Next]_vars => ReadingInv'
  BY NextReads
<1> QED
  BY <1>1, <1>2, PTL DEF Spec

(* A request whose bytes were read is the one that was meant. *)
LEMMA ReadIsMeant ==
    ASSUME ReadingInv, NEW r \in Read
    PROVE  r \in Requests /\ Meant(r) /\ Len(got) = Len(Bytes(r))
<1>1. PICK x \in Wire : r = x.request /\ IsPrefix(x.bytes, got)
  BY DEF Read
<1>2. r \in Requests /\ x.bytes = Bytes(r) /\ IsRequest(r)
  BY <1>1, WireIs, ExchangeConstants
<1> DEFINE b == Bytes(r)
<1>3. got \in Seq(Nat) /\ b \in Seq(Nat)
  BY <1>2, TypeInvIs, BytesAre DEF ReadingInv, RestTypeOK
<1>4. Len(b) \in Nat /\ Len(b) > 0
  <2>1. /\ Len(b) = AfterHead(r) + Len(Form(r)) /\ AfterHead(r) = AfterLength(r) + 2
        /\ AfterLength(r) \in Nat /\ Len(Form(r)) \in Nat
    BY <1>2, BytesAre, Places, FormIs
  <2> HIDE DEF b
  <2> QED
    BY <2>1
<1>5. Len(b) <= Len(got) /\ \A i \in 1 .. Len(b) : b[i] = got[i]
  <2>1. IsPrefix(b, got)
    BY <1>1, <1>2
  <2> HIDE DEF b
  <2>2. Len(b) <= Len(got) /\ SubSeq(b, 1, Len(b)) = SubSeq(got, 1, Len(b))
    BY <2>1 DEF IsPrefix
  <2>3. Len(got) \in Nat
    BY <1>3, LenProperties
  <2>4. SubSeq(b, 1, Len(b)) = b
    BY <1>3, SubSeqFull
  <2>5. \A i \in 1 .. Len(b) : SubSeq(got, 1, Len(b))[i] = got[i]
    BY <1>3, <1>4, <2>2, <2>3
  <2> QED
    BY <2>2, <2>4, <2>5
<1>6. PICK w \in Requests : Meant(w)
  <2>1. got # <<>>
    BY <1>3, <1>4, <1>5
  <2> QED
    BY <2>1 DEF ReadingInv, Meaning
<1>7. Len(b) = Len(Bytes(w)) /\ Len(got) = Len(b)
  <2> DEFINE v == Bytes(w)
  <2>1. IsRequest(w)
    BY <1>6, ExchangeConstants
  <2>2. Len(v) \in Nat /\ Len(got) \in Nat
    BY <1>3, <2>1, BytesAre, LenProperties
  <2>3. Len(got) <= Len(v) /\ \A i \in 1 .. Len(got) : got[i] = v[i]
    BY <1>6 DEF Meant
  <2> HIDE DEF b, v
  <2>4. Len(b) <= Len(v) /\ \A i \in 1 .. Len(b) : b[i] = v[i]
    BY <1>4, <1>5, <2>2, <2>3
  <2>5. Len(b) = Len(v)
    BY <1>2, <2>1, <2>4, PrefixFree DEF b, v
  <2> QED
    BY <1>4, <1>5, <2>2, <2>3, <2>5 DEF v
<1>8. Meant(r)
  BY <1>4, <1>5, <1>7 DEF Meant
<1> QED
  BY <1>2, <1>7, <1>8

(* A request that was read gets Answer(r), however its bytes were cut up   *)
(* and whatever the http_conn was used for before, unless it asks for an   *)
(* empty file or its name or password overruns the array of NAME_LEN       *)
(* (http_conn.cpp:172-510, 649-714).                                       *)
THEOREM RequestsAreAnswered == Spec => []AnswersRequest
<1>1. ReadingInv => AnswersRequest
  <2>1. SUFFICES ASSUME ReadingInv, Sending, NEW r \in Read
                 PROVE  Excused(r) \/ Response = Answer(r)
    BY Zenon DEF AnswersRequest, Excused
  <2>2. r \in Requests /\ Meant(r)
    BY <2>1, ReadIsMeant
  <2> QED
    BY <2>1, <2>2 DEF ReadingInv, Treated
<1> QED
  BY <1>1, Reading, PTL

(* The parser does not wait for bytes of a request it has got all of, but  *)
(* for the two exceptions of NothingWaits (http_conn.cpp:190, 331,         *)
(* 347-348, 382).                                                          *)
THEOREM NobodyWaits == Spec => []NothingWaits
<1>1. ReadingInv => NothingWaits
  <2>1. SUFFICES ASSUME ReadingInv, pc = "in", ~torn, NEW r \in Read
                 PROVE  ~WellFormed(r)
    BY DEF NothingWaits
  <2>2. r \in Requests /\ Meant(r) /\ Len(got) = Len(Bytes(r))
    BY <2>1, ReadIsMeant
  <2>3. Incomplete(r)
    BY <2>1, <2>2 DEF ReadingInv, Treated
  <2>4. Len(Bytes(r)) \in Nat
    BY <2>2, ExchangeConstants, BytesAre, LenProperties
  <2> QED
    BY <2>1, <2>2, <2>3, <2>4 DEF Incomplete
<1> QED
  BY <1>1, Reading, PTL
=============================================================================
