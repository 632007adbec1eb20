-------------------------- MODULE MCHttpConnection --------------------------
(* Small instances of the HTTP connection for TLC.                          *)
EXTENDS HttpConnection

Plain == [status |-> 200, framing |-> "length", ends |-> <<2>>, bodyless |-> FALSE,
          closes |-> FALSE, interim |-> FALSE]
EmptyBody == [Plain EXCEPT !.ends = <<>>]
Interim == [Plain EXCEPT !.ends = <<1>>, !.interim = TRUE]
Chunks == [Plain EXCEPT !.framing = "chunked", !.ends = <<2, 3>>]
NotChanged == [Plain EXCEPT !.status = 304, !.framing = "none", !.bodyless = TRUE]
ToTheEnd == [Plain EXCEPT !.framing = "none", !.closes = TRUE]
HeadOnly == [Plain EXCEPT !.bodyless = TRUE]
NotHttp == [Plain EXCEPT !.status = 42, !.framing = "none"]

Server == [GET |-> {Plain, EmptyBody, Interim, Chunks, NotChanged, ToTheEnd,
                   NotHttp},
           HEAD |-> {HeadOnly}]
=============================================================================
