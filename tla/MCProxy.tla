------------------------------ MODULE MCProxy ------------------------------
(***************************************************************************)
(* Instances of Proxy for TLC.                                             *)
(***************************************************************************)
EXTENDS Proxy

Line(k, v) == [text |-> k, separator |-> ": ", value |-> v]
Tight(k, v) == [text |-> k, separator |-> ":", value |-> v]
NoColon(t) == [text |-> t, separator |-> "none", value |-> ""]

Request(line, method, version, headers, size) ==
    [line |-> line, method |-> method, version |-> version, headers |-> headers, size |-> size]

\* A GET whose headers repeat and replace one another, with one line that has
\* no colon; it fills a buffer of two units.
Get == Request("ok", "GET", "HTTP/1.1",
               <<Line("Accept", "text"), Line("Connection", "keep-alive"), Tight("Agent", "text"),
                 NoColon("Accept"), Line("Accept", "html"), Tight("Connection", "")>>, 2)

\* One of each kind of request that fits into the buffer.
Fitting ==
    {Get,
     Request("bad", "GET", "HTTP/1.0", <<>>, 1),
     Request("ok", "GET", "HTTP/1.0", <<Line("Accept", "text"), NoColon("Accept")>>, 1),
     Request("ok", "POST", "HTTP/1.0", <<>>, 1)}

\* And one that does not.
MCRequests == Fitting \cup {Request("ok", "GET", "HTTP/1.0", <<>>, 3)}

\* A name in another case is another key to strcmp.
LowerCase == {Request("ok", "GET", "HTTP/1.0", <<Line("connection", "keep-alive")>>, 2)}

\* Headers of the form that proxy_parse.h names.
Tights == {Request("ok", "GET", "HTTP/1.0", <<Tight("Accept", "text")>>, 2)}

\* What follows the received bytes on the stack: no blank line, or one before
\* anything is received, behind the first unit and behind the buffer.
MCStaleEnds == {{}, {0, 1, 2}}

MCKeys == {<<"Accept">>, <<"Agent">>, <<"Connection">>, <<"Host">>, <<"Accept", "Accept">>}
MCValues == {<<"text">>, <<"html">>, <<"tail", "text">>, <<"LF">>, <<"close">>, <<"origin">>}
=============================================================================
