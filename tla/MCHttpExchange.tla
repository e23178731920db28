---------------------------- MODULE MCHttpExchange ----------------------------
(* HttpExchange on a small document root and user table. *)
EXTENDS HttpExchange

PAGE == 1011  EMPTY == 1012  PRIVATE == 1013  DIRECTORY == 1014  HEAD == 1015

MCDocRoot ==
    LET file(name) == <<SLASH, name>> IN
    [path \in {file(INDEX), file(PAGE), file(EMPTY), file(PRIVATE), file(DIRECTORY)} |->
        CASE path = file(PRIVATE)   -> [mode |-> "private", size |-> 1]
          [] path = file(DIRECTORY) -> [mode |-> "directory", size |-> 1]
          [] path = file(EMPTY)     -> [mode |-> "file", size |-> 0]
          [] path = file(PAGE)      -> [mode |-> "file", size |-> 2]
          [] OTHER                  -> [mode |-> "file", size |-> 1]]

(* The user "" has the password "%", the user "aa" has "&".                *)
MCUsers ==
    [name \in {<<>>, <<97, 97>>} |-> IF name = <<>> THEN <<PERCENT>> ELSE <<AMPERSAND>>]

Get(path, keep) ==
    [method |-> GET, path |-> path, keep |-> keep, eol |-> <<CR, LF>>]

Login(name, password, keep) ==
    [method |-> POST, path |-> SIGN_IN, keep |-> keep, eol |-> <<CR, LF>>,
     name |-> name, password |-> password, field |-> PASSWORD, plain |-> FALSE]

PlainLogin(name, password, keep) == [Login(name, password, keep) EXCEPT !.plain = TRUE]

(* The last is let in as "" with "%": of the password "aa%4", sent as the  *)
(* comment at http_conn.cpp:453 has it, the start is lost and the end.     *)
MCRequests ==
    {Get(<<SLASH>>, TRUE), Get(<<SLASH, PAGE>>, FALSE), Get(<<SLASH, EMPTY>>, FALSE),
     Get(<<SLASH, PRIVATE>>, FALSE), Get(<<SLASH, DIRECTORY>>, FALSE),
     Get(<<SLASH, HEAD>>, FALSE), [Get(<<SLASH, PAGE>>, FALSE) EXCEPT !.method = HEAD],
     [Get(<<SLASH, PAGE>>, FALSE) EXCEPT !.eol = <<LF>>],
     Login(<<97, 97>>, <<AMPERSAND>>, FALSE), Login(<<PERCENT>>, <<PERCENT>>, FALSE),
     Login(<<>>, <<97, 97, 97, 97>>, FALSE),
     [PlainLogin(<<>>, <<97, 97, PERCENT, 52>>, FALSE) EXCEPT !.field = PASSWD]}
=============================================================================
