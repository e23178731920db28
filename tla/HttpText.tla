------------------------------- MODULE HttpText -------------------------------
(***************************************************************************)
(* The text of requests.  A byte that the server looks at on its own is    *)
(* its character code; a word it only compares as a whole (a method, a     *)
(* header's name, a file's name) is one number above 1000.  A C string is  *)
(* what a buffer holds up to its first NUL.                                *)
(***************************************************************************)
EXTENDS Integers, Sequences, SequencesExt

NUL == 0
LF == 10
CR == 13
SP == 32
PERCENT == 37
AMPERSAND == 38
SLASH == 47

GET == 1001
POST == 1002
HTTP11 == 1003
CONNECTION == 1004
KEEP_ALIVE == 1005
CONTENT_LENGTH == 1006
INDEX == 1007

Numeral(n) == 2000 + n

(* "user=", "password=" and "passwd=", names of a form's fields.           *)
USER == 1008
PASSWORD == 1009
PASSWD == 1017

(* The bytes of the name of a form's second field. *)
Width(word) == IF word = PASSWD THEN 7 ELSE 9

(* strpbrk: the first place from i on of a byte in C, 0 when there is none. *)
FirstOf(s, i, C) ==
    IF \A j \in i .. Len(s) : s[j] \notin C THEN 0
    ELSE CHOOSE j \in i .. Len(s) : s[j] \in C /\ \A k \in i .. j - 1 : s[k] \notin C

(* strspn of " \t": the first place from i on that is not a space. *)
SkipSpaces(s, i) ==
    CHOOSE j \in i .. Len(s) + 1 :
        /\ j = Len(s) + 1 \/ s[j] # SP
        /\ \A k \in i .. j - 1 : s[k] = SP

From(s, i) == SubSeq(s, i, Len(s))

CString(s, i) ==
    LET end == FirstOf(s, i, {NUL})
    IN IF end = 0 THEN From(s, i) ELSE SubSeq(s, i, end - 1)

(* atol of a number that stands by itself. *)
atol(text) == IF Len(text) = 1 /\ text[1] >= Numeral(0) THEN text[1] - Numeral(0) ELSE 0
-----------------------------------------------------------------------------
(* acl_url_decode. *)

isalnum(c) == c \in (48 .. 57) \cup (65 .. 90) \cup (97 .. 122)

dec_tab(c) ==
    CASE c \in 48 .. 57  -> c - 48
      [] c \in 65 .. 70  -> c - 55
      [] c \in 97 .. 102 -> c - 87
      [] OTHER           -> 0

acl_url_decode_strict(str) ==
    LET n == Len(str)
        tmp[i \in 1 .. n + 1] ==
            IF i > n THEN <<>>
            ELSE IF str[i] = PERCENT /\ i + 2 >= n THEN <<PERCENT>>
            ELSE IF str[i] = PERCENT /\ isalnum(str[i + 1]) /\ isalnum(str[i + 2])
            THEN <<(16 * dec_tab(str[i + 1]) + dec_tab(str[i + 2])) % 256>> \o tmp[i + 3]
            ELSE <<str[i]>> \o tmp[i + 1]
    IN CString(tmp[1], 1)

(* tmp[i] is what the loop appends from str[i] on.  Of an escape that the  *)
(* end of the string cuts short the "%" is kept; a character behind it is  *)
(* stored without moving on, so that the NUL at the end overwrites it.     *)
acl_url_decode(str) ==
    LET n == Len(str)
        tmp[i \in 1 .. n + 1] ==
            IF i > n THEN <<>>
            ELSE IF str[i] = PERCENT /\ i + 2 > n THEN <<PERCENT>>
            ELSE IF str[i] = PERCENT /\ isalnum(str[i + 1]) /\ isalnum(str[i + 2])
            THEN <<(16 * dec_tab(str[i + 1]) + dec_tab(str[i + 2])) % 256>> \o tmp[i + 3]
            ELSE <<str[i]>> \o tmp[i + 1]
    IN CString(tmp[1], 1)
-----------------------------------------------------------------------------
(* The request a client sends to say r: the reference the server's reading *)
(* is compared with.  r.eol ends the request line, <<CR, LF>> by rights;   *)
(* r.field is what its form calls the password: "passwd" in the form       *)
(* user=123&passwd=123 that do_request's comment shows.  A plain one sends *)
(* its name and password as they are.                                      *)

Hex(d) == IF d < 10 THEN 48 + d ELSE 55 + d

Encoded(s) ==
    LET code[i \in 1 .. Len(s) + 1] ==
            IF i > Len(s) THEN <<>>
            ELSE (IF isalnum(s[i]) THEN <<s[i]>>
                  ELSE <<PERCENT, Hex(s[i] \div 16), Hex(s[i] % 16)>>) \o code[i + 1]
    IN code[1]

Sent(r, s) == IF r.plain THEN s ELSE Encoded(s)

Form(r) ==
    IF r.method = POST
    THEN <<USER>> \o Sent(r, r.name) \o <<AMPERSAND, r.field>> \o Sent(r, r.password)
    ELSE <<>>

RequestHead(r) ==
    <<r.method, SP>> \o r.path \o <<SP, HTTP11>> \o r.eol
    \o (IF r.keep THEN <<CONNECTION, SP, KEEP_ALIVE, CR, LF>> ELSE <<>>)
    \o (IF r.method = POST
        THEN <<CONTENT_LENGTH, SP, Numeral(Len(Form(r))), CR, LF>> ELSE <<>>)
    \o <<CR, LF>>

Bytes(r) == RequestHead(r) \o Form(r)

WellFormed(r) == r.eol = <<CR, LF>>

(* What a client may say: words with no NUL, space or line end in them, a  *)
(* path from the root, names and passwords of bytes.                       *)
Word == Nat \ {NUL, LF, CR, SP}
Char == 1 .. 255

(* What may be sent as it is: nothing a form or an escape is made of.      *)
Plain(s) ==
    \A i \in 1 .. Len(s) :
        /\ s[i] \notin {LF, CR, AMPERSAND}
        /\ s[i] = PERCENT /\ i + 2 <= Len(s) => ~(isalnum(s[i + 1]) /\ isalnum(s[i + 2]))

IsRequest(r) ==
    /\ r.method \in Word
    /\ r.path \in Seq(Word) /\ r.path # <<>> /\ r.path[1] = SLASH
    /\ r.keep \in BOOLEAN
    /\ r.eol \in {<<CR, LF>>, <<LF>>}
    /\ r.method = POST =>
          /\ r.field \in {PASSWORD, PASSWD}
          /\ r.plain \in BOOLEAN
          /\ r.field = PASSWD => r.plain /\ Len(r.password) >= 2
          /\ \A s \in {r.name, r.password} : s \in Seq(Char) /\ (r.plain => Plain(s))

(* The end of a plain text looks like an escape without its last digit.    *)
CutShort(s) == Len(s) >= 2 /\ s[Len(s) - 1] = PERCENT

(* What acl_url_decode makes of s, as r sends it: it drops the last        *)
(* character of an escape cut short.                                       *)
Decoded(r, s) == IF r.plain /\ CutShort(s) THEN SubSeq(s, 1, Len(s) - 1) ELSE s

(* What do_request finds ten bytes behind the "&".                         *)
Copied(r) == IF r.field = PASSWD THEN From(r.password, 3) ELSE r.password
=============================================================================
