--------------------------- MODULE HttpConnection ---------------------------
(***************************************************************************)
(* Connection and Response of src/curl_http/happyhttp/happyhttp.cpp, with  *)
(* a server and the network, which the code does not hold.  Requests are   *)
(* sent without waiting for the answers to earlier ones, pump takes what   *)
(* has arrived, cut at any place, and the callbacks that it makes may send *)
(* requests too.  After an exception the user closes the connection.       *)
(*                                                                         *)
(* What travels is a sequence of tokens <<kind, n>>: words of a line, the  *)
(* two characters that end it, and bytes of a body.                        *)
(***************************************************************************)
EXTENDS Integers, SequencesExt

CONSTANTS Answers,  \* what the server may answer, for each method
          MaxRequests \* bound of the models: requests ever issued

(* No server sends an answer without a body as chunks: of one that did, the *)
(* client would wait for chunks.  What ends with the connection is said to. *)
ASSUME AnswersAssumption ==
  \A method \in DOMAIN Answers : \A a \in Answers[method] :
    /\ a \in [status : Nat \ 100 .. 199, framing : {"length", "chunked", "none"},
             ends : Seq(Nat \ {0}), bodyless : BOOLEAN, closes : BOOLEAN, interim : BOOLEAN]
    /\ \A i, j \in DOMAIN a.ends : i < j => a.ends[i] < a.ends[j]
    /\ a.bodyless <=> method = "HEAD" \/ a.status \in {204, 304}
    /\ a.bodyless => a.framing # "chunked"
    /\ a.framing = "none" /\ ~a.bodyless => a.closes \/ a.status \notin 100 .. 999

ASSUME RequestsAssumption == MaxRequests \in Nat

VARIABLES
  m_State,       \* "IDLE" or "REQ_STARTED"
  m_Sock,        \* -1: none
  m_Outstanding, \* the responses waited for, each a record of its members
  pc,            \* "user", "request", "pump", a callback, or "thrown"
  caller,        \* where request was called: "user" or a callback
  buf,           \* what recv gave and is not used yet
  eof,           \* recv gave nothing
  up,            \* external: the server has not closed the connection
  requests,      \* external: sent, and not answered yet
  wire,          \* external: the server's tokens, not received yet
  answer,        \* history: what the server answered to each request
  got,           \* history: what the callbacks reported of each request
  fate           \* history: "none", "open", "complete" or "failed"

connVars == <<m_State, m_Sock, m_Outstanding>>
pumpVars == <<pc, caller, buf, eof>>
network == <<up, requests, wire>>
history == <<got, fate>>
vars == <<connVars, pumpVars, network, answer, history>>

Requests == 1 .. MaxRequests
NoAnswer == [status |-> 0]
Methods == DOMAIN Answers
Callbacks == {"begin", "data", "complete"}

Token(kind) == <<kind, 0>>
Socket == 3
CR == Token("cr")
LF == Token("lf")
Number(n) == <<"number", n>>
Byte(q, i) == <<"byte", 10 * q + i>>

(* What atoi and strtol make of the start of a string.                      *)
NumberIn(s) == IF s # <<>> /\ s[1][1] = "number" THEN s[1][2] ELSE 0

Init ==
  /\ m_State = "IDLE"
  /\ m_Sock = -1
  /\ m_Outstanding = <<>>
  /\ pc = "user"
  /\ caller = "user"
  /\ buf = <<>>
  /\ eof = FALSE
  /\ up = FALSE
  /\ requests = <<>>
  /\ wire = <<>>
  /\ answer = [q \in Requests |-> NoAnswer]
  /\ got = [q \in Requests |-> [begun |-> 0, willClose |-> FALSE, data |-> <<>>]]
  /\ fate = [q \in Requests |-> "none"]

-----------------------------------------------------------------------------
(* The server and the network.                                              *)

(* A body is cut into chunks, the ends of which are given, or is one piece  *)
(* that ends where its length or the close of the connection says.          *)
EndOf(a, k) == IF k = 0 THEN 0 ELSE a.ends[k]
Size(a, k) == EndOf(a, k) - EndOf(a, k - 1)
Total(a) == EndOf(a, Len(a.ends))
BodyOf(q, a) == IF a.bodyless THEN <<>> ELSE [i \in 1 .. Total(a) |-> Byte(q, i)]

Line(words) == words \o <<CR, LF>>
StatusLineOf(status) == Line(<<Token("http"), Number(status)>>)
Chunk(q, a, k) ==
  Line(<<Number(Size(a, k))>>)
    \o Line([i \in 1 .. Size(a, k) |-> Byte(q, EndOf(a, k - 1) + i)])

Text(q, a) ==
  (IF a.interim THEN StatusLineOf(100) \o Line(<<>>) ELSE <<>>)
    \o StatusLineOf(a.status)
    \o (IF a.closes THEN Line(<<Token("connection"), Token("close")>>) ELSE <<>>)
    \o (CASE a.framing = "length" -> Line(<<Token("content-length"), Number(Total(a))>>)
          [] a.framing = "chunked" ->
               Line(<<Token("transfer-encoding")>>) \o Line(<<Token("space"), Token("chunked")>>)
          [] OTHER -> <<>>)
    \o Line(<<>>)
    \o (IF a.framing # "chunked" \/ a.bodyless THEN BodyOf(q, a)
        ELSE FlattenSeq([k \in DOMAIN a.ends |-> Chunk(q, a, k)])
               \o Line(<<Number(0)>>) \o Line(<<Token("trailer")>>) \o Line(<<>>))

(* The server answers requests in their order, but none after an answer     *)
(* that it closes the connection with.                                      *)
Serve ==
  /\ up
  /\ requests # <<>>
  /\ LET q == Head(requests).req
     IN  \E a \in Answers[Head(requests).method] :
           /\ answer' = [answer EXCEPT ![q] = a]
           /\ wire' = wire \o Text(q, a)
           /\ requests' = IF a.closes THEN <<>> ELSE Tail(requests)
           /\ up' = ~a.closes
  /\ UNCHANGED <<connVars, pumpVars, history>>

(* It may close the connection at any time, and what has not arrived may be *)
(* lost, from some place on.                                                *)
ServerCloses ==
  /\ up
  /\ up' = FALSE
  /\ requests' = <<>>
  /\ \E n \in 0 .. Len(wire) : wire' = SubSeq(wire, 1, n)
  /\ UNCHANGED <<connVars, pumpVars, answer, history>>

-----------------------------------------------------------------------------
(* Requests, from the user's own code or from a callback.                   *)

NewResponse(q, method) ==
  [req |-> q, method |-> method, state |-> "STATUSLINE", lineBuf |-> <<>>, version |-> <<>>,
   status |-> 0, headerAccum |-> <<>>, headers |-> [n \in {} |-> <<>>], bytesRead |-> 0,
   chunked |-> FALSE, chunkLeft |-> 0, length |-> -1, willClose |-> FALSE]

PutRequest(q, method) ==
  /\ pc \in {"user"} \cup Callbacks
  /\ m_State = "IDLE"
  /\ fate[q] = "none"
  /\ \A p \in 1 .. q - 1 : fate[p] # "none"
  /\ m_State' = "REQ_STARTED"
  /\ m_Outstanding' = Append(m_Outstanding, NewResponse(q, method))
  /\ pc' = "request"
  /\ caller' = pc
  /\ fate' = [fate EXCEPT ![q] = "open"]
  /\ UNCHANGED <<m_Sock, buf, eof, network, answer, got>>

(* An exception leaves pump, with what it has not used, and every call.     *)
Throw == pc' = "thrown" /\ caller' = "user" /\ buf' = <<>> /\ eof' = FALSE

(* connect, which issuing a request calls where there is no connection.     *)
Connected == m_Sock = -1 /\ m_Sock' = Socket /\ up' = TRUE /\ wire' = <<>>
NotConnected == m_Sock = -1 /\ m_Sock' \in {-1, Socket}

Connect ==
  /\ pc = "user"
  /\ Connected /\ requests' = <<>>
  /\ UNCHANGED <<m_State, m_Outstanding, pumpVars, answer, history>>

(* There is no address, or connect fails, which leaves a socket.            *)
ConnectFails ==
  /\ pc = "user"
  /\ NotConnected
  /\ Throw
  /\ UNCHANGED <<m_State, m_Outstanding, network, answer, history>>

(* endheaders, and send: what is sent on a connection that the server has   *)
(* closed is lost, or fails.                                                *)
EndHeaders ==
  LET sent == [req |-> Last(m_Outstanding).req, method |-> Last(m_Outstanding).method]
  IN  /\ pc = "request"
      /\ m_State' = "IDLE"
      /\ pc' = caller
      /\ caller' = "user"
      /\ \/ Connected /\ requests' = <<sent>>
         \/ /\ m_Sock # -1
            /\ requests' = IF up THEN Append(requests, sent) ELSE requests
            /\ UNCHANGED <<m_Sock, up, wire>>
      /\ UNCHANGED <<m_Outstanding, buf, eof, answer, history>>

(* The response of the request that failed stays outstanding.               *)
EndHeadersFails ==
  /\ pc = "request"
  /\ m_State' = "IDLE"
  /\ NotConnected \/ (m_Sock # -1 /\ ~up /\ UNCHANGED m_Sock)
  /\ Throw
  /\ UNCHANGED <<m_Outstanding, network, answer, history>>

(* Mutant: close only closes the socket.                                    *)
DiscardOnlySocket ==
  /\ m_Sock' = -1
  /\ up' = FALSE
  /\ requests' = <<>>
  /\ wire' = <<>>
  /\ UNCHANGED <<m_Outstanding, fate>>

Discard ==
  /\ m_Sock' = -1
  /\ m_Outstanding' = <<>>
  /\ fate' = [q \in Requests |-> IF fate[q] = "open" THEN "failed" ELSE fate[q]]
  /\ up' = FALSE
  /\ requests' = <<>>
  /\ wire' = <<>>

Close ==
  /\ pc \in {"user", "thrown"}
  /\ Discard
  /\ pc' = "user"
  /\ UNCHANGED <<m_State, caller, buf, eof, answer, got>>

-----------------------------------------------------------------------------
(* pump.                                                                    *)

Current == m_Outstanding[1]
Becomes(r) == m_Outstanding' = [m_Outstanding EXCEPT ![1] = r]

(* recv, of anything up to what has arrived.                                *)
Recv ==
  /\ pc = "user"
  /\ m_Outstanding # <<>>
  /\ \E n \in 1 .. Len(wire) :
       buf' = SubSeq(wire, 1, n) /\ wire' = SubSeq(wire, n + 1, Len(wire))
  /\ pc' = "pump"
  /\ UNCHANGED <<connVars, caller, eof, up, requests, answer, history>>

(* The close of the connection.                                             *)
RecvNothing ==
  /\ pc = "user"
  /\ m_Outstanding # <<>>
  /\ ~up /\ wire = <<>>
  /\ pc' = "pump"
  /\ eof' = TRUE
  /\ UNCHANGED <<connVars, caller, buf, network, answer, history>>

Untouched == UNCHANGED <<m_State, m_Sock, caller, eof, network, answer>>

(* The response that is being read, in one of its states, and data for it.  *)
Reading(state) ==
  /\ pc = "pump" /\ ~eof
  /\ buf # <<>> /\ m_Outstanding # <<>>
  /\ Current.state = state

(* Characters of a line; CR is ignored.                                     *)
LineStates == {"STATUSLINE", "HEADERS", "TRAILERS", "CHUNKLEN", "CHUNKEND"}
Accumulate ==
  /\ \E s \in LineStates : Reading(s)
  /\ Head(buf) # LF
  /\ Becomes([Current EXCEPT !.lineBuf = IF Head(buf) = CR THEN @ ELSE Append(@, Head(buf))])
  /\ buf' = Tail(buf)
  /\ UNCHANGED <<pc, history>> /\ Untouched

(* A whole line, after which the response is r.                             *)
EndOfLine(state, r) ==
  /\ Reading(state)
  /\ Head(buf) = LF
  /\ buf' = Tail(buf)
  /\ Becomes([r EXCEPT !.lineBuf = <<>>])
  /\ Untouched

GoesOn == pc' = "pump" /\ UNCHANGED history

(* The version is added to what is there of an interim answer.              *)
Version(r) == r.version \o SubSeq(r.lineBuf, 1, 1)
GoodStatusLine(r) ==
  /\ NumberIn(Tail(r.lineBuf)) \in 100 .. 999
  /\ Version(r)[1] = Token("http")

ProcessStatusLine ==
  /\ EndOfLine("STATUSLINE",
       [Current EXCEPT !.version = Version(Current), !.status = NumberIn(Tail(Current.lineBuf)),
                     !.state = "HEADERS", !.headerAccum = <<>>])
  /\ Current.lineBuf # <<>> /\ GoodStatusLine(Current)
  /\ GoesOn

BadStatusLine ==
  /\ Reading("STATUSLINE")
  /\ Head(buf) = LF
  /\ Current.lineBuf = <<>> \/ ~GoodStatusLine(Current)
  /\ Throw
  /\ UNCHANGED <<connVars, network, answer, history>>

Flushed(r) ==
  LET line == r.headerAccum
      name == line[1][1]
  IN  IF line = <<>> THEN r
      ELSE [r EXCEPT !.headers = [n \in DOMAIN @ \cup {name} |->
                                     IF n = name THEN Tail(line) ELSE r.headers[n]],
                     !.headerAccum = <<>>]

(* Mutant: every line begins a new header.                                  *)
ContinuedNever(line) == FALSE
Continued(line) == line # <<>> /\ line[1] = Token("space")

HeaderLine ==
  LET line == Current.lineBuf
  IN  /\ EndOfLine("HEADERS",
           IF Continued(line) THEN [Current EXCEPT !.headerAccum = @ \o Tail(line)]
           ELSE [Flushed(Current) EXCEPT !.headerAccum = line])
      /\ line # <<>>
      /\ GoesOn

Has(r, name) == name \in DOMAIN r.headers
IsChunked(r) == Has(r, "transfer-encoding")
                  /\ r.headers["transfer-encoding"] = <<Token("chunked")>>
NoBody(r) == r.status \in {204, 304} \cup 100 .. 199 \/ r.method = "HEAD"
LengthOf(r) ==
  IF NoBody(r) THEN 0
  ELSE IF Has(r, "content-length") /\ ~IsChunked(r) THEN NumberIn(r.headers["content-length"])
  ELSE -1
CheckClose(r) == Has(r, "connection") /\ r.headers["connection"] = <<Token("close")>>

(* The empty line after the headers.  An answer 100 is not reported.        *)
EndOfInterim ==
  /\ EndOfLine("HEADERS", [Flushed(Current) EXCEPT !.state = "STATUSLINE"])
  /\ Current.lineBuf = <<>>
  /\ Current.status = 100
  /\ GoesOn

(* BeginBody, up to its callback, and the rest.                             *)
BeginBody ==
  LET r == Flushed(Current)
      close == CheckClose(r) \/ (~IsChunked(r) /\ LengthOf(r) = -1)
  IN  /\ EndOfLine("HEADERS",
           [r EXCEPT !.chunked = IsChunked(r), !.chunkLeft = IF IsChunked(r) THEN -1 ELSE @,
                     !.length = LengthOf(r), !.willClose = close])
      /\ Current.lineBuf = <<>>
      /\ Current.status # 100
      /\ got' = [got EXCEPT ![r.req].begun = r.status, ![r.req].willClose = close]
      /\ pc' = "begin"
      /\ UNCHANGED fate

BeginReturns ==
  /\ pc = "begin"
  /\ pc' = "pump"
  /\ Becomes([Current EXCEPT !.state = IF Current.chunked THEN "CHUNKLEN" ELSE "BODY"])
  /\ UNCHANGED <<buf, history>> /\ Untouched

ProcessChunkLenLine ==
  LET n == NumberIn(Current.lineBuf)
  IN  /\ EndOfLine("CHUNKLEN",
           IF n = 0 THEN [Current EXCEPT !.chunkLeft = 0, !.state = "TRAILERS",
                                       !.headerAccum = <<>>]
           ELSE [Current EXCEPT !.chunkLeft = n, !.state = "BODY"])
      /\ GoesOn

ChunkEndLine == EndOfLine("CHUNKEND", [Current EXCEPT !.state = "CHUNKLEN"]) /\ GoesOn

(* Finish, of a response that was r.                                        *)
Finish(r) ==
  /\ Becomes([r EXCEPT !.state = "COMPLETE"])
  /\ fate' = [fate EXCEPT ![r.req] = "complete"]
  /\ pc' = "complete"

ProcessTrailerLine ==
  /\ EndOfLine("TRAILERS", Current)
  /\ Current.lineBuf # <<>>
  /\ GoesOn

LastTrailerLine ==
  /\ Reading("TRAILERS")
  /\ Head(buf) = LF
  /\ Current.lineBuf = <<>>
  /\ buf' = Tail(buf)
  /\ Finish(Current)
  /\ UNCHANGED got /\ Untouched

(* Some of the body is passed on, maybe nothing, and counted.               *)
Limit == IF Current.chunked THEN {Current.chunkLeft}
         ELSE IF Current.length # -1 THEN {Current.length - Current.bytesRead}
         ELSE {}

ProcessData ==
  LET n == Min({Len(buf)} \cup Limit)
  IN  /\ Reading("BODY")
      /\ got' = [got EXCEPT ![Current.req].data = @ \o SubSeq(buf, 1, n)]
      /\ buf' = SubSeq(buf, n + 1, Len(buf))
      /\ Becomes([Current EXCEPT !.bytesRead = @ + n,
                                 !.chunkLeft = IF Current.chunked THEN @ - n ELSE @])
      /\ pc' = "data"
      /\ UNCHANGED fate /\ Untouched

(* Mutant: only bytes too many end a body.                                  *)
AllReadLate == Current.length # -1 /\ Current.bytesRead > Current.length
AllRead == Current.length # -1 /\ Current.bytesRead = Current.length

DataReturns ==
  /\ pc = "data"
  /\ IF ~Current.chunked /\ AllRead THEN Finish(Current)
     ELSE /\ pc' = "pump"
          /\ Becomes([Current EXCEPT !.state =
                        IF Current.chunked /\ Current.chunkLeft = 0 THEN "CHUNKEND" ELSE @])
          /\ UNCHANGED fate
  /\ UNCHANGED <<buf, got>> /\ Untouched

CompleteReturns ==
  /\ pc = "complete"
  /\ pc' = "pump"
  /\ UNCHANGED <<connVars, caller, buf, eof, network, answer, history>>

(* A response that is complete is deleted.                                  *)
Delete ==
  /\ pc = "pump" /\ ~eof
  /\ m_Outstanding # <<>> /\ Current.state = "COMPLETE"
  /\ m_Outstanding' = Tail(m_Outstanding)
  /\ UNCHANGED <<m_State, m_Sock, pumpVars, network, answer, history>>

PumpReturns ==
  /\ pc = "pump" /\ ~eof
  /\ buf = <<>>
  /\ m_Outstanding # <<>> => Current.state # "COMPLETE"
  /\ pc' = "user"
  /\ UNCHANGED <<connVars, caller, buf, eof, network, answer, history>>

(* notifyconnectionclosed: a body without any length is complete, and what  *)
(* is outstanding besides is discarded with the connection.                 *)
EndsAtClose == Current.state = "BODY" /\ ~Current.chunked /\ Current.length = -1

ClosedIsEnd ==
  /\ pc = "pump" /\ eof
  /\ EndsAtClose
  /\ Finish(Current)
  /\ UNCHANGED <<buf, got>> /\ Untouched

(* Mutant: the close of the connection is not reported.                     *)
ClosedQuietly ==
  /\ pc = "pump" /\ eof
  /\ Current.state # "COMPLETE"
  /\ ~EndsAtClose
  /\ pc' = "user" /\ eof' = FALSE
  /\ UNCHANGED <<connVars, caller, buf, network, answer, history>>

ClosedUnexpectedly ==
  /\ pc = "pump" /\ eof
  /\ Current.state # "COMPLETE"
  /\ ~EndsAtClose
  /\ Throw
  /\ UNCHANGED <<connVars, network, answer, history>>

DeleteAndClose ==
  /\ pc = "pump" /\ eof
  /\ Current.state = "COMPLETE"
  /\ Discard
  /\ pc' = "user"
  /\ eof' = FALSE
  /\ UNCHANGED <<m_State, caller, buf, answer, got>>

Pump ==
  \/ Recv \/ RecvNothing \/ Accumulate
  \/ ProcessStatusLine \/ BadStatusLine \/ HeaderLine \/ EndOfInterim
  \/ BeginBody \/ BeginReturns \/ ProcessData \/ DataReturns
  \/ ProcessChunkLenLine \/ ChunkEndLine \/ ProcessTrailerLine \/ LastTrailerLine
  \/ CompleteReturns \/ Delete \/ PumpReturns
  \/ ClosedIsEnd \/ ClosedUnexpectedly \/ DeleteAndClose

Next ==
  \/ \E q \in Requests, method \in Methods : PutRequest(q, method)
  \/ Connect \/ ConnectFails \/ EndHeaders \/ EndHeadersFails \/ Close \/ Pump
  \/ Serve \/ ServerCloses

Spec == Init /\ [][Next]_vars

(* The user goes on calling pump and closes after an exception; the server  *)
(* answers.                                                                 *)
FairSpec ==
  /\ Spec
  /\ WF_vars(Pump) /\ WF_vars(EndHeaders \/ EndHeadersFails)
  /\ WF_vars(pc = "thrown" /\ Close) /\ WF_vars(Serve)

-----------------------------------------------------------------------------
UntilClose(a) == ~a.bodyless /\ a.framing = "none"

(* However the answers are cut, and whatever the server does, a request is  *)
(* told of the answer to it and no other: its status, a start of its body,  *)
(* or, when it completes, all of it, unless the close of the connection is  *)
(* all that tells where the body ends.                                      *)
OwnAnswers ==
  \A q \in Requests :
    LET a == answer[q] IN
    got[q].begun # 0 =>
      /\ got[q].begun = a.status
      /\ got[q].willClose <=> a.closes
      /\ IsPrefix(got[q].data, BodyOf(q, a))
      /\ fate[q] = "complete" => got[q].data = BodyOf(q, a) \/ UntilClose(a)

(* The assertions of pump: no bytes are left over, and requests that are    *)
(* outstanding have a connection (happyhttp.cpp:437, 481); and those of     *)
(* Response on chunks (604, 660, 673).                                      *)
AssertionsHold ==
  /\ pc = "pump" /\ buf # <<>> => m_Outstanding # <<>>
  /\ pc = "user" /\ m_Outstanding # <<>> => m_Sock > 0
  /\ m_Outstanding # <<>> => /\ Current.chunked => Current.chunkLeft >= -1
                             /\ Current.state = "CHUNKEND" => Current.chunked

(* "Once a response is completed, this callback is invoked" (README.md:129):*)
(* what has arrived whole is complete, but for an answer with no body, or   *)
(* with an empty one, that nothing has followed yet: these are not, until   *)
(* something does.                                                          *)
Arrived(q) == answer[q] # NoAnswer /\ up /\ pc = "user" /\ wire = <<>>
Empty(q) == answer[q] # NoAnswer /\ BodyOf(q, answer[q]) = <<>>
                                 /\ (answer[q].framing # "chunked" \/ answer[q].bodyless)
ArrivedIsComplete ==
  \A q \in Requests :
    Arrived(q) /\ fate[q] = "open" => Empty(q) /\ \A p \in q + 1 .. MaxRequests : ~Arrived(p)

(* Every request is completed, or fails, or has got an empty answer.        *)
RequestEnds == \A q \in Requests : fate[q] = "open" ~> fate[q] # "open" \/ Empty(q)
=============================================================================
