--------------------------- MODULE MCHttpProtocol ---------------------------
(* HttpProtocol for TLC: messages of every framing, and input that is wrong *)
(* at every line the parser looks at.                                       *)
EXTENDS HttpProtocol

Texts(a, b, c) == [n \in 0 .. 2 |-> <<a, b, c>>[n + 1]]

SomeHex == Texts("x0", "x1", "x2")

SomeLength == Texts("CL0", "CL1", "CL2")

SomeGood ==
    {[type |-> "GET",  head |-> <<>>,             chunks |-> <<>>, body |-> <<>>],
     [type |-> "HTTP", head |-> <<"HDR", "CL0">>, chunks |-> <<>>, body |-> <<>>],
     [type |-> "GET",  head |-> <<"CL2">>,        chunks |-> <<>>, body |-> CRLF],
     [type |-> "HTTP", head |-> <<"CL1", "HDR">>, chunks |-> <<>>, body |-> <<"z">>],
     [type |-> "GET",  head |-> <<"TE">>,         body |-> <<>>,
         chunks |-> << <<"z">>, CRLF >>],
     [type |-> "HTTP", head |-> <<"CL0", "TE">>,  chunks |-> <<>>, body |-> <<>>]}

Headed(lines) == <<"GET">> \o CRLF \o lines \o CRLF \o CRLF

SomeBad ==
    {<<"z">> \o CRLF,
     CRLF,
     Headed(<<"z">>),
     Headed(<<"TE">>) \o <<"z">> \o CRLF,
     Headed(<<"TE">>) \o <<"x1">> \o CRLF \o <<"z", "z", "z">>}

SomeTrailer == <<"HDR">>
=============================================================================
