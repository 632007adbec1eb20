------------------------ MODULE HttpConnectionProofs ------------------------
(***************************************************************************)
(* The callbacks of HttpConnection tell a request of its own answer.       *)
(*                                                                         *)
(* A place is a position in the text of an answer: a line or a body of it, *)
(* and how many of its tokens are before the place.  Every token leads     *)
(* from a place to the next one, and a path is a sequence of such steps.   *)
(* The invariant says that what is received and not used yet, and what is  *)
(* on the wire after it, is a path, over the texts of consecutive answers, *)
(* from the place P that the response being read has come to up to a place *)
(* Q, which is the start of the next answer while the connection is up;    *)
(* and what the members of that response are at P (Matches).               *)
(*                                                                         *)
(* nx is the request that is issued next, u the one that is answered next. *)
(***************************************************************************)
EXTENDS HttpConnection, SequenceTheorems, WellFoundedInduction, TLAPS

Names == {"number", "byte", "cr", "lf", "http", "connection", "close", "content-length",
          "transfer-encoding", "space", "chunked", "trailer"}
Tokens == Names \X Int

(***************************************************************************)
(* Places in the text of answers.                                          *)
(***************************************************************************)
StatusKinds == {"interim", "status"}
HeaderKinds == {"interimEnd", "connection", "length", "coding", "folded", "headersEnd"}
SizeKinds == {"size", "noChunk"}
TrailerKinds == {"trailer", "trailersEnd"}
LineKinds == StatusKinds \cup HeaderKinds \cup SizeKinds \cup TrailerKinds
Kinds == LineKinds \cup {"start", "body", "chunk", "end"}
Places == [req : Nat, kind : Kinds, k : Nat, w : Nat]

Place(q, kind, k, w) == [req |-> q, kind |-> kind, k |-> k, w |-> w]
First(q) == Place(q, "start", 0, 0)

SentInChunks(a) == a.framing = "chunked" /\ ~a.bodyless

Words(a, P) ==
  CASE P.kind = "interim" -> <<Token("http"), Number(100)>>
    [] P.kind = "status" -> <<Token("http"), Number(a.status)>>
    [] P.kind = "connection" -> <<Token("connection"), Token("close")>>
    [] P.kind = "length" -> <<Token("content-length"), Number(Total(a))>>
    [] P.kind = "coding" -> <<Token("transfer-encoding")>>
    [] P.kind = "folded" -> <<Token("space"), Token("chunked")>>
    [] P.kind = "size" -> <<Number(Size(a, P.k))>>
    [] P.kind = "chunk" -> [i \in 1 .. Size(a, P.k) |-> Byte(P.req, EndOf(a, P.k - 1) + i)]
    [] P.kind = "noChunk" -> <<Number(0)>>
    [] P.kind = "trailer" -> <<Token("trailer")>>
    [] OTHER -> <<>>

Segment(a, P) ==
  CASE P.kind = "start" -> <<Token("http")>>
    [] P.kind = "body" -> BodyOf(P.req, a)
    [] P.kind = "end" -> <<>>
    [] OTHER -> Line(Words(a, P))

Framing(q, a) ==
  Place(q, CASE a.framing = "length" -> "length"
             [] a.framing = "chunked" -> "coding"
             [] OTHER -> "headersEnd", 0, 0)
Done(q, a) == IF UntilClose(a) /\ a.closes THEN Place(q, "end", 0, 0) ELSE First(q + 1)
BodyPlace(q, a, n) == IF n < Len(BodyOf(q, a)) THEN Place(q, "body", 0, n) ELSE Done(q, a)
SizePlace(q, a, k) ==
  IF k <= Len(a.ends) THEN Place(q, "size", k, 0) ELSE Place(q, "noChunk", 0, 0)
AfterHeaders(q, a) == IF SentInChunks(a) THEN SizePlace(q, a, 1) ELSE BodyPlace(q, a, 0)

AfterSegment(a, P) ==
  CASE P.kind = "start" -> Place(P.req, IF a.interim THEN "interim" ELSE "status", 0, 1)
    [] P.kind = "interim" -> Place(P.req, "interimEnd", 0, 0)
    [] P.kind = "interimEnd" -> Place(P.req, "status", 0, 0)
    [] P.kind = "status" -> IF a.closes THEN Place(P.req, "connection", 0, 0) ELSE Framing(P.req, a)
    [] P.kind = "connection" -> Framing(P.req, a)
    [] P.kind = "length" -> Place(P.req, "headersEnd", 0, 0)
    [] P.kind = "coding" -> Place(P.req, "folded", 0, 0)
    [] P.kind = "folded" -> Place(P.req, "headersEnd", 0, 0)
    [] P.kind = "headersEnd" -> AfterHeaders(P.req, a)
    [] P.kind = "body" -> Done(P.req, a)
    [] P.kind = "size" -> Place(P.req, "chunk", P.k, 0)
    [] P.kind = "chunk" -> SizePlace(P.req, a, P.k + 1)
    [] P.kind = "noChunk" -> Place(P.req, "trailer", 0, 0)
    [] P.kind = "trailer" -> Place(P.req, "trailersEnd", 0, 0)
    [] OTHER -> First(P.req + 1)

After(a, P) ==
  IF P.w + 1 < Len(Segment(a, P)) THEN Place(P.req, P.kind, P.k, P.w + 1) ELSE AfterSegment(a, P)

Steps(ans, u, P, x, R) ==
  /\ P.req < u
  /\ P.w < Len(Segment(ans[P.req], P))
  /\ x = Segment(ans[P.req], P)[P.w + 1]
  /\ R = After(ans[P.req], P)

Walk(ans, u, t, P, Q, p) ==
  /\ p \in [0 .. Len(t) -> Places]
  /\ p[0] = P /\ p[Len(t)] = Q
  /\ \A i \in 1 .. Len(t) : Steps(ans, u, p[i - 1], t[i], p[i])
Path(ans, u, t, P, Q) == \E p : Walk(ans, u, t, P, Q, p)

(***************************************************************************)
(* What the client knows at a place.                                       *)
(***************************************************************************)
NoHeaders == [n \in {} |-> <<>>]
Nothing == [begun |-> 0, willClose |-> FALSE, data |-> <<>>]
Closing(a) == IF a.closes THEN <<Token("connection"), Token("close")>> ELSE <<>>

Accum(a, kind) ==
  CASE kind \in {"length", "coding"} -> Closing(a)
    [] kind = "folded" -> <<Token("transfer-encoding")>>
    [] kind = "headersEnd" ->
         (CASE a.framing = "length" -> <<Token("content-length"), Number(Total(a))>>
            [] a.framing = "chunked" -> <<Token("transfer-encoding"), Token("chunked")>>
            [] OTHER -> Closing(a))
    [] OTHER -> <<>>
Kept(a, kind) ==
  IF a.closes /\ (kind = "folded" \/ (kind = "headersEnd" /\ a.framing # "none"))
  THEN [n \in {"connection"} |-> <<Token("close")>>] ELSE NoHeaders

StateOf(kind) ==
  CASE kind \in StatusKinds -> "STATUSLINE"
    [] kind \in HeaderKinds -> "HEADERS"
    [] kind \in SizeKinds -> "CHUNKLEN"
    [] OTHER -> "TRAILERS"

(* What it has of a line after w tokens: all of them, but for the ending.   *)
ReadOf(ws, w) == SubSeq(ws, 1, IF w <= Len(ws) THEN w ELSE Len(ws))
InLine(r, a, P) ==
  /\ P.req = r.req
  /\ r.state = StateOf(P.kind)
  /\ P.w <= Len(Words(a, P)) + 1
  /\ r.lineBuf = ReadOf(Words(a, P), P.w)

(* The lines of headers that an answer has.                                 *)
Belongs(a, kind) ==
  /\ kind = "connection" => a.closes
  /\ kind = "length" => a.framing = "length"
  /\ kind \in {"coding", "folded"} => a.framing = "chunked"

InHead(r, a, g, P) ==
  /\ P.kind \in StatusKinds \cup HeaderKinds
  /\ InLine(r, a, P)
  /\ Belongs(a, P.kind)
  /\ r.headers = Kept(a, P.kind)
  /\ P.kind \in HeaderKinds =>
       /\ r.headerAccum = Accum(a, P.kind)
       /\ r.status = IF P.kind = "interimEnd" THEN 100 ELSE a.status
       /\ P.kind # "interimEnd" => a.status \in 100 .. 999
  /\ r.bytesRead = 0 /\ ~r.chunked /\ g = Nothing

LengthGiven(a) == IF a.bodyless THEN 0 ELSE IF a.framing = "length" THEN Total(a) ELSE -1
Begun(r, a, g) ==
  /\ a.status \in 100 .. 999
  /\ r.chunked = SentInChunks(a)
  /\ r.length = LengthGiven(a)
  /\ r.bytesRead \in 0 .. Len(BodyOf(r.req, a))
  /\ g = [begun |-> a.status, willClose |-> a.closes,
          data |-> SubSeq(BodyOf(r.req, a), 1, r.bytesRead)]

AtBegin(r, a, P) ==
  r.state = "HEADERS" /\ r.lineBuf = <<>> /\ r.bytesRead = 0 /\ P = AfterHeaders(r.req, a)
InBody(r, a, at, P) ==
  /\ ~r.chunked /\ r.state = "BODY"
  /\ P = BodyPlace(r.req, a, r.bytesRead)
  /\ at # "data" /\ r.length # -1 => r.bytesRead < r.length \/ r.length = 0
InChunk(r, a, at, P) ==
  /\ r.chunked /\ r.state = "BODY" /\ r.lineBuf = <<>>
  /\ P = Place(r.req, "chunk", P.k, P.w)
  /\ P.k \in 1 .. Len(a.ends)
  /\ r.chunkLeft \in Nat /\ P.w + r.chunkLeft = Size(a, P.k)
  /\ r.bytesRead = EndOf(a, P.k - 1) + P.w
  /\ at # "data" => r.chunkLeft > 0
AtChunkEnd(r, a, P) ==
  /\ r.chunked /\ r.state = "CHUNKEND" /\ r.lineBuf = <<>>
  /\ P = Place(r.req, "chunk", P.k, P.w)
  /\ P.k \in 1 .. Len(a.ends)
  /\ P.w \in {Size(a, P.k), Size(a, P.k) + 1}
  /\ r.bytesRead = EndOf(a, P.k)
InChunkLine(r, a, P) ==
  /\ r.chunked
  /\ P.kind \in SizeKinds \cup TrailerKinds
  /\ InLine(r, a, P)
  /\ P.kind = "size" => P.k \in 1 .. Len(a.ends)
  /\ r.bytesRead = IF P.kind = "size" THEN EndOf(a, P.k - 1) ELSE Total(a)
IsComplete(r, a, P) ==
  r.state = "COMPLETE" /\ r.bytesRead = Len(BodyOf(r.req, a)) /\ P = First(r.req + 1)

Matches(r, a, g, at, P) ==
  \/ at \in {"user", "pump"} /\ P = First(r.req) /\ r = NewResponse(r.req, r.method) /\ g = Nothing
  \/ at \in {"user", "pump"} /\ InHead(r, a, g, P)
  \/ /\ Begun(r, a, g)
     /\ \/ at = "begin" /\ AtBegin(r, a, P)
        \/ at \in {"user", "pump", "data"} /\ (InBody(r, a, at, P) \/ InChunk(r, a, at, P))
        \/ at \in {"user", "pump"} /\ (AtChunkEnd(r, a, P) \/ InChunkLine(r, a, P))
        \/ at \in {"pump", "complete"} /\ IsComplete(r, a, P)

-----------------------------------------------------------------------------
At == IF pc = "request" THEN caller ELSE pc
FirstOf(nx) == nx - Len(m_Outstanding)

Response(q, method, state, lineBuf, version, status, headerAccum, headers, bytesRead, chunked,
         chunkLeft, length, willClose) ==
  [req |-> q, method |-> method, state |-> state, lineBuf |-> lineBuf, version |-> version,
   status |-> status, headerAccum |-> headerAccum, headers |-> headers, bytesRead |-> bytesRead,
   chunked |-> chunked, chunkLeft |-> chunkLeft, length |-> length, willClose |-> willClose]
IsResponse(r) ==
  r = Response(r.req, r.method, r.state, r.lineBuf, r.version, r.status, r.headerAccum, r.headers,
               r.bytesRead, r.chunked, r.chunkLeft, r.length, r.willClose)

OwnSeq(s) == s \in Seq({s[i] : i \in DOMAIN s})

Types ==
  /\ pc \in {"user", "request", "pump", "thrown"} \cup Callbacks
  /\ caller \in {"user"} \cup Callbacks
  /\ m_Sock \in {-1, Socket}
  /\ eof \in BOOLEAN /\ up \in BOOLEAN
  /\ buf \in Seq(Tokens) /\ wire \in Seq(Tokens)
  /\ requests \in Seq([req : Requests, method : Methods])
  /\ answer = [q \in Requests |-> answer[q]]
  /\ got = [q \in Requests |-> got[q]]
  /\ fate \in [Requests -> {"none", "open", "complete", "failed"}]
  /\ OwnSeq(m_Outstanding)

Ends(r) == (r.chunked => r.chunkLeft >= -1) /\ (r.state = "CHUNKEND" => r.chunked)

(* A response that is outstanding, in place i.                              *)
Waits(nx, i) ==
  LET r == m_Outstanding[i]
  IN  /\ IsResponse(r)
      /\ r.req = FirstOf(nx) + i - 1
      /\ r.method \in Methods
      /\ i > 1 => r = NewResponse(r.req, r.method)
      /\ fate[r.req] = IF i = 1 /\ r.state = "COMPLETE" THEN "complete" ELSE "open"

Issued(nx) ==
  /\ nx \in 1 .. MaxRequests + 1
  /\ FirstOf(nx) >= 1
  /\ \A q \in Requests : fate[q] = "none" <=> q >= nx
  /\ \A q \in Requests : fate[q] = "open" => q >= FirstOf(nx)
  /\ \A i \in 1 .. Len(m_Outstanding) : Waits(nx, i)
  /\ \A q \in Requests : q >= nx \/ q > FirstOf(nx) => got[q] = Nothing
  /\ pc = "request" => m_Outstanding # <<>>
  /\ m_Outstanding # <<>> => Ends(m_Outstanding[1])

Answered(nx, u) ==
  /\ u \in 1 .. nx
  /\ pc = "request" => u < nx
  /\ \A q \in Requests : q >= u => answer[q] = NoAnswer
  /\ \A i \in 1 .. Len(m_Outstanding) :
       m_Outstanding[i].req < u => answer[m_Outstanding[i].req] \in Answers[m_Outstanding[i].method]

Sent(nx, u) ==
  /\ ~up => requests = <<>>
  /\ up =>
       /\ m_Sock = Socket
       /\ u >= FirstOf(nx)
       /\ u + Len(requests) = IF pc = "request" THEN nx - 1 ELSE nx
       /\ \A i \in 1 .. Len(requests) :
            requests[i] = [req |-> u + i - 1, method |-> m_Outstanding[u + i - FirstOf(nx)].method]

Connection ==
  /\ m_Sock = -1 =>
       /\ ~up /\ wire = <<>> /\ buf = <<>>
       /\ pc # "thrown" => At = "user" /\ Len(m_Outstanding) = IF pc = "request" THEN 1 ELSE 0
  /\ At \in {"user", "thrown"} => buf = <<>> /\ ~eof
  /\ eof => buf = <<>> /\ wire = <<>> /\ ~up /\ m_Outstanding # <<>>

Reads(nx, u, P, Q) ==
  /\ Path(answer, u, buf \o wire, P, Q)
  /\ up => Q = First(u)
  /\ m_Outstanding = <<>> => P = First(nx) /\ At \in {"user", "pump"}
  /\ m_Outstanding # <<>> =>
       /\ P = First(Current.req) \/ Current.req < u
       /\ \/ Matches(Current, answer[Current.req], got[Current.req], At, P)
          \/ eof /\ Current.state = "COMPLETE" /\ At \in {"pump", "complete"}

Told(q, a, g, f) ==
  g.begun # 0 =>
    /\ g.begun = a.status
    /\ g.willClose <=> a.closes
    /\ IsPrefix(g.data, BodyOf(q, a))
    /\ f = "complete" => g.data = BodyOf(q, a) \/ UntilClose(a)
AllTold == \A q \in Requests : Told(q, answer[q], got[q], fate[q])

Counted(nx, u) == Types /\ Issued(nx) /\ Answered(nx, u) /\ Sent(nx, u) /\ Connection
IInv ==
  /\ \E nx, u \in 1 .. MaxRequests + 1 :
       /\ Counted(nx, u)
       /\ pc # "thrown" => \E P, Q \in Places : Reads(nx, u, P, Q)
  /\ AllTold

-----------------------------------------------------------------------------
(* A set of numbers has a least one.                                        *)
LEMMA LeastNumber ==
  ASSUME NEW S, S \subseteq Nat, S # {}
  PROVE  \E m \in S : \A k \in S : m <= k
<1>1. IsWellFoundedOn(OpToRel(<, Nat), Nat)
  BY NatLessThanWellFounded
<1>2. PICK m \in S : \A k \in S : ~ (<<k, m>> \in OpToRel(<, Nat))
  BY <1>1, WFMin
<1>3. ASSUME NEW k \in S PROVE m <= k
  <2>1. ~ (k < m)
    BY <1>2, <1>3 DEF OpToRel
  <2> QED
    BY <2>1
<1> QED
  BY <1>2, <1>3

(* The tokens from the place after m up to place n.                         *)
LEMMA Slice ==
  ASSUME NEW S, NEW s \in Seq(S), NEW m \in 0 .. Len(s), NEW n \in m .. Len(s)
  PROVE  /\ SubSeq(s, m + 1, n) \in Seq(S)
         /\ Len(SubSeq(s, m + 1, n)) = n - m
         /\ \A i \in 1 .. n - m : SubSeq(s, m + 1, n)[i] = s[m + i]
<1>1. Len(s) \in Nat /\ m \in Nat /\ n \in Nat
  BY LenProperties
<1>2. \A i \in m + 1 .. n : s[i] \in S
  BY <1>1, ElementOfSeq
<1>3. /\ SubSeq(s, m + 1, n) \in Seq(S)
      /\ Len(SubSeq(s, m + 1, n)) = IF m + 1 <= n THEN n - (m + 1) + 1 ELSE 0
      /\ \A i \in 1 .. n - (m + 1) + 1 : SubSeq(s, m + 1, n)[i] = s[m + 1 + i - 1]
  BY <1>1, <1>2, SubSeqProperties
<1>4. n - (m + 1) + 1 = n - m /\ \A i \in 1 .. n - m : m + 1 + i - 1 = m + i
  BY <1>1
<1> QED
  BY <1>1, <1>3, <1>4

(* The same, of n tokens.                                                   *)
LEMMA SliceOf ==
  ASSUME NEW S, NEW s \in Seq(S), NEW m \in Nat, NEW n \in Nat, m + n <= Len(s)
  PROVE  /\ SubSeq(s, m + 1, m + n) \in Seq(S)
         /\ Len(SubSeq(s, m + 1, m + n)) = n
         /\ \A i \in 1 .. n : SubSeq(s, m + 1, m + n)[i] = s[m + i]
<1> DEFINE e == m + n
<1>1. Len(s) \in Nat
  BY LenProperties
<1>2. m \in 0 .. Len(s) /\ e \in m .. Len(s) /\ e - m = n
  BY <1>1
<1> HIDE DEF e
<1>3. /\ SubSeq(s, m + 1, e) \in Seq(S)
      /\ Len(SubSeq(s, m + 1, e)) = e - m
      /\ \A i \in 1 .. e - m : SubSeq(s, m + 1, e)[i] = s[m + i]
  BY <1>2, Slice
<1> QED
  BY <1>2, <1>3 DEF e

(* A sequence is its first element, and the others.                         *)
LEMMA FirstAndRest ==
  ASSUME NEW S, NEW s \in Seq(S), 0 < Len(s)
  PROVE  /\ s # <<>> /\ Head(s) = s[1] /\ Head(s) \in S
         /\ Tail(s) \in Seq(S)
         /\ <<s[1]>> \o Tail(s) = s
<1>1. s # <<>> /\ Len(s) \in Nat \ {0} /\ Head(s) = s[1]
  BY LenProperties, EmptySeq
<1>2. SubSeq(s, 1, Len(s)) = <<s[1]>> \o SubSeq(s, 1 + 1, Len(s))
  <2>1. 1 \in 1 .. Len(s) /\ Len(s) \in 1 .. Len(s)
    BY <1>1
  <2> QED
    BY <2>1, SubSeqRecursiveFirst
<1>3. SubSeq(s, 1, Len(s)) = s /\ Tail(s) = SubSeq(s, 2, Len(s))
  BY <1>1, SubSeqFull, TailIsSubSeq
<1>4. SubSeq(s, 1 + 1, Len(s)) = SubSeq(s, 2, Len(s))
  OBVIOUS
<1> QED
  BY <1>1, <1>2, <1>3, <1>4, HeadTailProperties

(* The path of nothing.                                                     *)
LEMMA PathOfNothing ==
  ASSUME NEW ans, NEW u, NEW P \in Places
  PROVE  /\ Path(ans, u, <<>>, P, P)
         /\ \A Q : Path(ans, u, <<>>, P, Q) => P = Q
<1>1. Len(<<>>) = 0
  OBVIOUS
<1>2. Path(ans, u, <<>>, P, P)
  <2> DEFINE p == [i \in 0 .. 0 |-> P]
  <2>1. p \in [0 .. Len(<<>>) -> Places] /\ p[0] = P
    BY <1>1
  <2>2. 1 .. Len(<<>>) = {}
    BY <1>1
  <2> QED
    BY <1>1, <2>1, <2>2 DEF Path, Walk
<1> QED
  BY <1>1, <1>2 DEF Path, Walk

(* One path after another.                                                  *)
LEMMA PathConcat ==
  ASSUME NEW ans, NEW u, NEW s \in Seq(Tokens), NEW t \in Seq(Tokens), NEW P, NEW Q, NEW R,
         Path(ans, u, s, P, Q), Path(ans, u, t, Q, R)
  PROVE  Path(ans, u, s \o t, P, R)
<1>1. PICK p \in [0 .. Len(s) -> Places] :
        /\ p[0] = P /\ p[Len(s)] = Q
        /\ \A i \in 1 .. Len(s) : Steps(ans, u, p[i - 1], s[i], p[i])
  BY DEF Path, Walk
<1>2. PICK o \in [0 .. Len(t) -> Places] :
        /\ o[0] = Q /\ o[Len(t)] = R
        /\ \A i \in 1 .. Len(t) : Steps(ans, u, o[i - 1], t[i], o[i])
  BY DEF Path, Walk
<1> DEFINE n == Len(s)
           m == Len(t)
           w == [i \in 0 .. n + m |-> IF i <= n THEN p[i] ELSE o[i - n]]
<1>3. n \in Nat /\ m \in Nat
  BY LenProperties
<1>4. /\ Len(s \o t) = n + m
      /\ \A i \in 1 .. n + m : (s \o t)[i] = IF i <= n THEN s[i] ELSE t[i - n]
  BY ConcatProperties
<1>5. w \in [0 .. n + m -> Places]
  BY <1>3
<1>6. w[0] = P /\ \A i \in 0 .. m : w[n + i] = o[i]
  <2>1. w[0] = p[0]
    BY <1>3
  <2>2. ASSUME NEW i \in 0 .. m PROVE w[n + i] = o[i]
    <3>1. CASE i = 0
      <4>1. w[n + i] = p[n]
        BY <1>3, <3>1
      <4> QED
        BY <1>1, <1>2, <3>1, <4>1
    <3>2. CASE i # 0
      <4>1. n + i \in 0 .. n + m /\ ~(n + i <= n) /\ (n + i) - n = i
        BY <1>3, <3>2
      <4> QED
        BY <4>1
    <3> QED
      BY <3>1, <3>2
  <2> QED
    BY <1>1, <2>1, <2>2
<1>7. ASSUME NEW i \in 1 .. n + m PROVE Steps(ans, u, w[i - 1], (s \o t)[i], w[i])
  <2>1. CASE i <= n
    <3>1. i \in 1 .. n /\ i - 1 \in 0 .. n + m /\ i - 1 <= n
      BY <1>3, <2>1
    <3>2. w[i] = p[i] /\ w[i - 1] = p[i - 1] /\ (s \o t)[i] = s[i]
      BY <1>3, <1>4, <2>1, <3>1
    <3> QED
      BY <1>1, <3>1, <3>2
  <2>2. CASE i > n
    <3>1. i - n \in 1 .. m /\ i - 1 \in 0 .. n + m
      BY <1>3, <2>2
    <3>2. w[n + (i - n)] = o[i - n] /\ w[n + ((i - n) - 1)] = o[(i - n) - 1]
      <4>1. (i - n) - 1 \in 0 .. m /\ i - n \in 0 .. m
        BY <1>3, <3>1
      <4> HIDE DEF w
      <4> QED
        BY <1>6, <4>1
    <3>3. n + (i - n) = i /\ n + ((i - n) - 1) = i - 1 /\ (s \o t)[i] = t[i - n]
      BY <1>3, <1>4, <2>2
    <3>4. w[i] = o[i - n] /\ w[i - 1] = o[(i - n) - 1]
      <4> HIDE DEF w
      <4> QED
        BY <3>2, <3>3
    <3> QED
      <4> HIDE DEF w
      <4> QED
        BY <1>2, <3>1, <3>3, <3>4
  <2> QED
    BY <1>3, <2>1, <2>2
<1>8. w[n + m] = R
  <2> HIDE DEF w
  <2>1. m \in 0 .. m
    BY <1>3
  <2> QED
    BY <1>2, <1>6, <2>1
<1> HIDE DEF w
<1> QED
  BY <1>4, <1>5, <1>6, <1>7, <1>8 DEF Path, Walk

(* A path may be cut anywhere.                                              *)
LEMMA PathCut ==
  ASSUME NEW ans, NEW u, NEW t \in Seq(Tokens), NEW P, NEW Q, NEW p,
         Walk(ans, u, t, P, Q, p), NEW n \in 0 .. Len(t)
  PROVE  /\ p[n] \in Places
         /\ Path(ans, u, SubSeq(t, 1, n), P, p[n])
         /\ Path(ans, u, SubSeq(t, n + 1, Len(t)), p[n], Q)
<1>1. /\ p \in [0 .. Len(t) -> Places]
      /\ p[0] = P /\ p[Len(t)] = Q
      /\ \A i \in 1 .. Len(t) : Steps(ans, u, p[i - 1], t[i], p[i])
  BY DEF Walk
<1> DEFINE l == Len(t)
           before == [i \in 0 .. n |-> p[i]]
           behind == [i \in 0 .. l - n |-> p[n + i]]
           s1 == SubSeq(t, 1, n)
           s2 == SubSeq(t, n + 1, l)
<1>2. l \in Nat /\ n \in 0 .. l /\ \A i \in 1 .. l : t[i] \in Tokens
  BY LenProperties, ElementOfSeq
<1>3. Len(s1) = n /\ \A i \in 1 .. n : s1[i] = t[i]
  <2>1. 0 + 1 = 1 /\ n - 0 = n /\ \A i \in 1 .. n : 0 + i = i
    BY <1>2
  <2> QED
    BY <1>2, <2>1, Slice
<1>4. Len(s2) = l - n /\ \A i \in 1 .. l - n : s2[i] = t[n + i]
  BY <1>2, Slice
<1>5. Path(ans, u, s1, P, p[n])
  <2>1. before \in [0 .. n -> Places] /\ before[0] = P /\ before[n] = p[n]
    BY <1>1, <1>2
  <2>2. ASSUME NEW i \in 1 .. n PROVE Steps(ans, u, before[i - 1], s1[i], before[i])
    <3>1. before[i - 1] = p[i - 1] /\ before[i] = p[i] /\ s1[i] = t[i] /\ i \in 1 .. l
      BY <1>2, <1>3
    <3> QED
      BY <1>1, <3>1
  <2> HIDE DEF before, s1
  <2> QED
    BY <1>3, <2>1, <2>2 DEF Path, Walk
<1>6. Path(ans, u, s2, p[n], Q)
  <2>1. behind \in [0 .. l - n -> Places] /\ behind[0] = p[n] /\ behind[l - n] = Q
    BY <1>1, <1>2
  <2>2. ASSUME NEW i \in 1 .. l - n PROVE Steps(ans, u, behind[i - 1], s2[i], behind[i])
    <3>1. behind[i - 1] = p[n + i - 1] /\ behind[i] = p[n + i] /\ s2[i] = t[n + i]
      <4>1. i - 1 \in 0 .. l - n /\ i \in 0 .. l - n /\ n + (i - 1) = n + i - 1
        BY <1>2
      <4>2. behind[i - 1] = p[n + (i - 1)] /\ behind[i] = p[n + i]
        BY <4>1
      <4>3. s2[i] = t[n + i]
        BY <1>4
      <4> QED
        BY <4>1, <4>2, <4>3
    <3>2. n + i \in 1 .. l
      BY <1>2
    <3> QED
      BY <1>1, <3>1, <3>2
  <2> HIDE DEF behind, s2, l
  <2> QED
    BY <1>4, <2>1, <2>2 DEF Path, Walk
<1>7. p[n] \in Places
  BY <1>1, <1>2
<1> QED
  BY <1>5, <1>6, <1>7

(* Where the first of a path leads.                                         *)
LEMMA PathHead ==
  ASSUME NEW ans, NEW u, NEW t \in Seq(Tokens), NEW P, NEW Q, Path(ans, u, t, P, Q), t # <<>>
  PROVE  \E R \in Places : Steps(ans, u, P, Head(t), R) /\ Path(ans, u, Tail(t), R, Q)
<1>1. Len(t) \in Nat \ {0} /\ Tail(t) = SubSeq(t, 2, Len(t)) /\ Head(t) = t[1]
  BY EmptySeq, TailIsSubSeq
<1>2. PICK p \in [0 .. Len(t) -> Places] :
        /\ p[0] = P /\ p[Len(t)] = Q
        /\ \A i \in 1 .. Len(t) : Steps(ans, u, p[i - 1], t[i], p[i])
  BY DEF Path, Walk
<1> DEFINE o == [i \in 0 .. Len(t) - 1 |-> p[i + 1]]
<1>3. Len(Tail(t)) = Len(t) - 1 /\ \A i \in 1 .. Len(t) - 1 : Tail(t)[i] = t[i + 1]
  BY HeadTailProperties
<1>4. o \in [0 .. Len(t) - 1 -> Places] /\ o[0] = p[1] /\ o[Len(t) - 1] = Q
  BY <1>1, <1>2
<1>5. ASSUME NEW i \in 1 .. Len(t) - 1 PROVE Steps(ans, u, o[i - 1], Tail(t)[i], o[i])
  <2>1. o[i - 1] = p[i] /\ o[i] = p[i + 1] /\ Tail(t)[i] = t[i + 1] /\ i + 1 \in 1 .. Len(t)
    BY <1>1, <1>3
  <2>2. Steps(ans, u, p[(i + 1) - 1], t[i + 1], p[i + 1])
    BY <1>2, <2>1
  <2> QED
    BY <2>1, <2>2
<1>6. Path(ans, u, Tail(t), p[1], Q)
  <2> HIDE DEF o
  <2> QED
    BY <1>3, <1>4, <1>5 DEF Path, Walk
<1>7. Steps(ans, u, P, Head(t), p[1]) /\ p[1] \in Places
  <2>1. 1 \in 1 .. Len(t) /\ p[1 - 1] = P
    BY <1>1, <1>2
  <2> QED
    BY <1>1, <1>2, <2>1
<1> QED
  BY <1>6, <1>7

(* More answers do not change it.                                           *)
LEMMA PathAgrees ==
  ASSUME NEW ans, NEW other, NEW u \in Nat, NEW v \in Nat, u <= v,
         \A q \in Nat : q < u => other[q] = ans[q],
         NEW t \in Seq(Tokens), NEW P, NEW Q, Path(ans, u, t, P, Q)
  PROVE  Path(other, v, t, P, Q)
<1>1. PICK p \in [0 .. Len(t) -> Places] :
        /\ p[0] = P /\ p[Len(t)] = Q
        /\ \A i \in 1 .. Len(t) : Steps(ans, u, p[i - 1], t[i], p[i])
  BY DEF Path, Walk
<1>2. ASSUME NEW i \in 1 .. Len(t) PROVE Steps(other, v, p[i - 1], t[i], p[i])
  <2>1. Steps(ans, u, p[i - 1], t[i], p[i])
    BY <1>1
  <2>2. p[i - 1].req < u
    BY <2>1 DEF Steps
  <2>3. p[i - 1] \in Places
    <3>1. i - 1 \in 0 .. Len(t)
      BY <1>2, LenProperties
    <3> QED
      BY <1>1, <3>1
  <2> QED
    BY <2>1, <2>2, <2>3 DEF Steps, Places
<1> QED
  BY <1>1, <1>2 DEF Path, Walk

-----------------------------------------------------------------------------
(* Segments.                                                                *)

SegPlace(a, P, i) ==
  IF P.w + i < Len(Segment(a, P)) THEN Place(P.req, P.kind, P.k, P.w + i) ELSE AfterSegment(a, P)

(* Places in the same line or body.                                         *)
LEMMA SameSegment ==
  ASSUME NEW a, NEW P \in Places, NEW w \in Nat
  PROVE  LET R == Place(P.req, P.kind, P.k, w)
         IN  /\ R \in Places /\ R.req = P.req /\ R.w = w /\ R.kind = P.kind /\ R.k = P.k
             /\ Words(a, R) = Words(a, P)
             /\ Segment(a, R) = Segment(a, P)
             /\ AfterSegment(a, R) = AfterSegment(a, P)
<1> DEFINE R == Place(P.req, P.kind, P.k, w)
<1>1. R \in Places /\ R.req = P.req /\ R.w = w /\ R.kind = P.kind /\ R.k = P.k
  BY DEF Places, Place
<1> HIDE DEF R
<1>2. Words(a, R) = Words(a, P)
  BY <1>1 DEF Words
<1>3. Segment(a, R) = Segment(a, P)
  BY <1>1, <1>2 DEF Segment
<1>4. AfterSegment(a, R) = AfterSegment(a, P)
  BY <1>1 DEF AfterSegment
<1> QED
  BY <1>1, <1>2, <1>3, <1>4 DEF R

(* A place has no other fields.                                             *)
LEMMA PlaceIs ==
  ASSUME NEW P \in Places
  PROVE  P = Place(P.req, P.kind, P.k, P.w)
  BY DEF Places, Place

(* Within a segment a path goes from token to token.                        *)
LEMMA PathAlong ==
  ASSUME NEW ans, NEW u, NEW t \in Seq(Tokens), NEW P \in Places, NEW Q, Path(ans, u, t, P, Q),
         NEW a, a = ans[P.req], Segment(a, P) \in Seq(Tokens), P.w < Len(Segment(a, P)),
         NEW n \in 0 .. Len(t), P.w + n <= Len(Segment(a, P))
  PROVE  /\ \A i \in 1 .. n : t[i] = Segment(a, P)[P.w + i]
         /\ Path(ans, u, SubSeq(t, n + 1, Len(t)), SegPlace(a, P, n), Q)
         /\ SegPlace(a, P, n) \in Places
<1> DEFINE g == Segment(a, P)
           l == Len(g)
<1>1. PICK p : Walk(ans, u, t, P, Q, p)
  BY DEF Path
<1>2. l \in Nat /\ P.w \in Nat /\ Len(t) \in Nat /\ \A i \in 1 .. l : g[i] \in Tokens
  BY LenProperties, ElementOfSeq DEF Places
<1>3. ASSUME NEW i \in 1 .. n, p[i - 1] = SegPlace(a, P, i - 1)
      PROVE  t[i] = g[P.w + i] /\ p[i] = SegPlace(a, P, i)
  <2> DEFINE R == Place(P.req, P.kind, P.k, P.w + (i - 1))
  <2>1. P.w + (i - 1) \in Nat /\ P.w + (i - 1) < l
    BY <1>2
  <2>2. p[i - 1] = R
    BY <1>3, <2>1 DEF SegPlace
  <2>3. /\ R.req = P.req /\ R.w = P.w + (i - 1) /\ R.kind = P.kind /\ R.k = P.k
        /\ Segment(a, R) = g /\ AfterSegment(a, R) = AfterSegment(a, P)
    BY <2>1, SameSegment
  <2> HIDE DEF R, g
  <2>4. Steps(ans, u, R, t[i], p[i])
    BY <1>1, <2>2 DEF Walk
  <2>5. t[i] = g[P.w + (i - 1) + 1] /\ p[i] = After(a, R)
    BY <2>3, <2>4 DEF Steps
  <2>6. P.w + (i - 1) + 1 = P.w + i
    BY <1>2
  <2> QED
    BY <2>3, <2>5, <2>6 DEF After, SegPlace, g
<1>4. p[0] = SegPlace(a, P, 0)
  <2>1. P.w + 0 = P.w
    BY <1>2
  <2> QED
    BY <1>1, <2>1, PlaceIs DEF Walk, SegPlace
<1>5. \A i \in 0 .. n : p[i] = SegPlace(a, P, i)
  <2> DEFINE Wrong == {i \in 0 .. n : p[i] # SegPlace(a, P, i)}
  <2>1. SUFFICES ASSUME Wrong # {} PROVE FALSE
    OBVIOUS
  <2>2. PICK i \in Wrong : \A k \in Wrong : i <= k
    <3>1. Wrong \subseteq Nat
      BY <1>2
    <3> HIDE DEF Wrong
    <3> QED
      BY <2>1, <3>1, LeastNumber
  <2>3. i # 0
    BY <1>4
  <2>4. i \in 1 .. n /\ i - 1 \in 0 .. n /\ i - 1 \notin Wrong
    BY <1>2, <2>2, <2>3
  <2>5. p[i - 1] = SegPlace(a, P, i - 1)
    BY <2>4
  <2> QED
    BY <1>3, <2>4, <2>5
<1>6. ASSUME NEW i \in 1 .. n PROVE t[i] = g[P.w + i]
  <2>1. i - 1 \in 0 .. n
    BY <1>2
  <2> HIDE DEF g
  <2> QED
    BY <1>3, <1>5, <2>1
<1>8. p[n] = SegPlace(a, P, n)
  BY <1>2, <1>5
<1>9. p[n] \in Places /\ Path(ans, u, SubSeq(t, n + 1, Len(t)), p[n], Q)
  <2> HIDE DEF g
  <2> QED
    BY <1>1, PathCut
<1> QED
  BY <1>6, <1>8, <1>9 DEF g

(* The path of what is left of a segment.                                   *)
LEMMA PathOfSegment ==
  ASSUME NEW ans, NEW u, NEW P \in Places, P.req < u,
         NEW a, a = ans[P.req], Segment(a, P) \in Seq(Tokens), P.w < Len(Segment(a, P)),
         AfterSegment(a, P) \in Places
  PROVE  Path(ans, u, SubSeq(Segment(a, P), P.w + 1, Len(Segment(a, P))), P, AfterSegment(a, P))
<1> DEFINE g == Segment(a, P)
           n == Len(g) - P.w
           t == SubSeq(g, P.w + 1, Len(g))
           p == [i \in 0 .. n |-> SegPlace(a, P, i)]
<1>1. Len(g) \in Nat /\ P.w \in Nat /\ \A i \in 1 .. Len(g) : g[i] \in Tokens
  BY LenProperties, ElementOfSeq DEF Places
<1>2. Len(t) = n /\ \A i \in 1 .. n : t[i] = g[P.w + i]
  <2>1. P.w \in 0 .. Len(g) /\ Len(g) \in P.w .. Len(g) /\ g \in Seq(Tokens)
    BY <1>1
  <2> HIDE DEF g
  <2> QED
    BY <2>1, Slice
<1>3. ASSUME NEW i \in 0 .. n PROVE SegPlace(a, P, i) \in Places
  <2>1. Place(P.req, P.kind, P.k, P.w + i) \in Places
    BY <1>1, SameSegment
  <2> QED
    BY <2>1 DEF SegPlace
<1>4. SegPlace(a, P, 0) = P /\ SegPlace(a, P, n) = AfterSegment(a, P)
  <2>1. P.w + 0 = P.w /\ ~(P.w + n < Len(g))
    BY <1>1
  <2> QED
    BY <2>1, PlaceIs DEF SegPlace
<1>5. ASSUME NEW i \in 1 .. n
      PROVE  Steps(ans, u, SegPlace(a, P, i - 1), g[P.w + i], SegPlace(a, P, i))
  <2> DEFINE R == Place(P.req, P.kind, P.k, P.w + (i - 1))
  <2>1. P.w + (i - 1) \in Nat /\ P.w + (i - 1) < Len(g)
    BY <1>1
  <2>2. SegPlace(a, P, i - 1) = R
    BY <2>1 DEF SegPlace
  <2>3. /\ R.req = P.req /\ R.w = P.w + (i - 1) /\ R.kind = P.kind /\ R.k = P.k
        /\ Segment(a, R) = g /\ AfterSegment(a, R) = AfterSegment(a, P)
    BY <2>1, SameSegment
  <2>4. P.w + (i - 1) + 1 = P.w + i
    BY <1>1
  <2> HIDE DEF R, g
  <2>5. After(a, R) = SegPlace(a, P, i)
    BY <2>3, <2>4 DEF After, SegPlace, g
  <2> QED
    BY <2>1, <2>2, <2>3, <2>4, <2>5 DEF Steps
<1>6. n \in Nat /\ p \in [0 .. n -> Places] /\ p[0] = P /\ p[n] = AfterSegment(a, P)
  BY <1>1, <1>3, <1>4
<1>7. ASSUME NEW i \in 1 .. n PROVE Steps(ans, u, p[i - 1], t[i], p[i])
  <2>1. i - 1 \in 0 .. n /\ i \in 0 .. n
    BY <1>6
  <2>2. p[i - 1] = SegPlace(a, P, i - 1) /\ p[i] = SegPlace(a, P, i)
    BY <2>1
  <2> HIDE DEF p, t
  <2> QED
    BY <1>2, <1>5, <2>2
<1> HIDE DEF p, t, n
<1> QED
  BY <1>2, <1>6, <1>7 DEF Path, Walk, t

-----------------------------------------------------------------------------
(* The text of an answer.                                                   *)
WithinChunks(a, P) == P.kind \in {"size", "chunk"} => P.k \in 1 .. Len(a.ends)

(* What is sent consists of tokens, of which only CR and LF end lines.      *)
LEMMA TokenShape ==
  /\ \A n \in Int : Number(n) \in Tokens
  /\ \A q, i \in Int : Byte(q, i) \in Tokens
  /\ CR \in Tokens /\ LF \in Tokens /\ CR # LF
  /\ \A kind \in {"http", "connection", "close", "content-length", "transfer-encoding", "space",
                  "chunked", "trailer"} : Token(kind) \in Tokens \ {CR, LF}
  /\ \A n : Number(n) # CR /\ Number(n) # LF
  /\ \A q, i : Byte(q, i) # CR /\ Byte(q, i) # LF
<1>1. \A n \in Int : Number(n) \in Tokens
  BY DEF Number, Tokens, Names
<1>2. \A q, i \in Int : Byte(q, i) \in Tokens
  BY DEF Byte, Tokens, Names
<1>3. /\ CR \in Tokens /\ LF \in Tokens /\ CR # LF
      /\ \A kind \in {"http", "connection", "close", "content-length", "transfer-encoding",
                      "space", "chunked", "trailer"} : Token(kind) \in Tokens \ {CR, LF}
  BY DEF CR, LF, Token, Tokens, Names
<1>4. \A n : Number(n) # CR /\ Number(n) # LF
  BY DEF CR, LF, Token, Number
<1>5. \A q, i : Byte(q, i) # CR /\ Byte(q, i) # LF
  BY DEF CR, LF, Token, Byte
<1> QED
  BY <1>1, <1>2, <1>3, <1>4, <1>5

(* What the assumption says of an answer, and of the ends of its chunks.    *)
LEMMA AnswerShape ==
  ASSUME NEW method \in Methods, NEW a \in Answers[method]
  PROVE  /\ a.status \in Nat \ 100 .. 199
         /\ a.framing \in {"length", "chunked", "none"}
         /\ a.bodyless \in BOOLEAN /\ a.closes \in BOOLEAN /\ a.interim \in BOOLEAN
         /\ a.bodyless <=> method = "HEAD" \/ a.status \in {204, 304}
         /\ a.bodyless => a.framing # "chunked"
         /\ a.framing = "none" /\ ~a.bodyless => a.closes \/ a.status \notin 100 .. 999
         /\ Len(a.ends) \in Nat
         /\ \A k \in 0 .. Len(a.ends) : EndOf(a, k) \in Nat /\ EndOf(a, k) <= Total(a)
         /\ \A k \in 1 .. Len(a.ends) : /\ Size(a, k) \in Nat \ {0}
                                        /\ EndOf(a, k - 1) + Size(a, k) = EndOf(a, k)
         /\ EndOf(a, 0) = 0 /\ Total(a) \in Nat /\ Total(a) = EndOf(a, Len(a.ends))
<1>1. /\ a \in [status : Nat \ 100 .. 199, framing : {"length", "chunked", "none"},
                ends : Seq(Nat \ {0}), bodyless : BOOLEAN, closes : BOOLEAN, interim : BOOLEAN]
      /\ \A i, j \in DOMAIN a.ends : i < j => a.ends[i] < a.ends[j]
      /\ a.bodyless <=> method = "HEAD" \/ a.status \in {204, 304}
      /\ a.bodyless => a.framing # "chunked"
      /\ a.framing = "none" /\ ~a.bodyless => a.closes \/ a.status \notin 100 .. 999
  BY AnswersAssumption DEF Methods
<1> DEFINE n == Len(a.ends)
<1>2. n \in Nat /\ DOMAIN a.ends = 1 .. n /\ \A k \in 1 .. n : a.ends[k] \in Nat \ {0}
  <2>1. a.ends \in Seq(Nat \ {0})
    BY <1>1
  <2> QED
    BY <2>1, LenProperties, ElementOfSeq
<1>3. \A i, j \in 1 .. n : i < j => a.ends[i] < a.ends[j]
  <2>1. \A i, j \in DOMAIN a.ends : i < j => a.ends[i] < a.ends[j]
    BY <1>1
  <2>2. DOMAIN a.ends = 1 .. n
    BY <1>2
  <2> HIDE DEF n
  <2> QED
    BY <2>1, <2>2
<1>4. \A k \in 0 .. n : EndOf(a, k) \in Nat
  BY <1>2 DEF EndOf
<1>5. \A j, k \in 0 .. n : j < k => EndOf(a, j) < EndOf(a, k)
  BY <1>2, <1>3 DEF EndOf
<1>6. \A k \in 0 .. n : EndOf(a, k) <= Total(a)
  <2>1. n \in 0 .. n /\ Total(a) = EndOf(a, n)
    BY <1>2 DEF Total
  <2> HIDE DEF n
  <2> QED
    BY <1>2, <1>4, <1>5, <2>1
<1>7. ASSUME NEW k \in 1 .. n
      PROVE  Size(a, k) \in Nat \ {0} /\ EndOf(a, k - 1) + Size(a, k) = EndOf(a, k)
  <2>1. k - 1 \in 0 .. n /\ k \in 0 .. n /\ k - 1 < k
    BY <1>2
  <2> QED
    BY <1>4, <1>5, <2>1 DEF Size
<1>8. EndOf(a, 0) = 0 /\ Total(a) = EndOf(a, n) /\ Total(a) \in Nat
  BY <1>2, <1>4 DEF EndOf, Total
<1> QED
  BY <1>1, <1>2, <1>4, <1>6, <1>7, <1>8

(* Bytes that follow one another.                                           *)
LEMMA ByteRun ==
  ASSUME NEW n \in Nat, NEW q \in Int, NEW m \in Int,
         NEW s, s = [i \in 1 .. n |-> Byte(q, m + i)]
  PROVE  s \in Seq(Tokens) /\ Len(s) = n /\ \A i \in 1 .. n : s[i] = Byte(q, m + i)
<1>1. s \in [1 .. n -> Tokens]
  BY TokenShape
<1>2. s \in Seq(Tokens)
  BY <1>1, SeqDef
<1>3. Len(s) = n
  BY <1>1
<1> QED
  BY <1>2, <1>3

(* The body of an answer.                                                   *)
LEMMA BodyShape ==
  ASSUME NEW method \in Methods, NEW a \in Answers[method], NEW q \in Nat
  PROVE  /\ BodyOf(q, a) \in Seq(Tokens)
         /\ Len(BodyOf(q, a)) = IF a.bodyless THEN 0 ELSE Total(a)
         /\ ~a.bodyless => \A i \in 1 .. Total(a) : BodyOf(q, a)[i] = Byte(q, i)
<1>1. Total(a) \in Nat
  BY AnswerShape
<1> DEFINE s == [i \in 1 .. Total(a) |-> Byte(q, i)]
<1>2. s = [i \in 1 .. Total(a) |-> Byte(q, 0 + i)]
  BY <1>1 DEF Byte
<1>3. /\ s \in Seq(Tokens) /\ Len(s) = Total(a)
      /\ \A i \in 1 .. Total(a) : s[i] = Byte(q, i)
  <2>1. s \in [1 .. Total(a) -> Tokens]
    BY <1>1, TokenShape
  <2> QED
    BY <1>1, <2>1, SeqDef
<1> HIDE DEF s
<1> QED
  BY <1>3, EmptySeq DEF BodyOf, s

(* A line is its words, CR and LF.                                          *)
LEMMA LineShape ==
  ASSUME NEW ws \in Seq(Tokens)
  PROVE  /\ Line(ws) \in Seq(Tokens) /\ Len(Line(ws)) = Len(ws) + 2 /\ Len(ws) \in Nat
         /\ \A i \in 1 .. Len(ws) : Line(ws)[i] = ws[i]
         /\ Line(ws)[Len(ws) + 1] = CR /\ Line(ws)[Len(ws) + 2] = LF
<1>1. <<CR, LF>> \in Seq(Tokens) /\ Len(<<CR, LF>>) = 2
  BY TokenShape
<1>2. Len(ws) \in Nat
  BY LenProperties
<1>3. /\ Line(ws) \in Seq(Tokens) /\ Len(Line(ws)) = Len(ws) + 2
      /\ \A i \in 1 .. Len(ws) + 2 : Line(ws)[i] = IF i <= Len(ws) THEN ws[i]
                                                 ELSE <<CR, LF>>[i - Len(ws)]
  BY <1>1, ConcatProperties DEF Line
<1>4. Line(ws)[Len(ws) + 1] = CR /\ Line(ws)[Len(ws) + 2] = LF
  <2>1. Len(ws) + 1 \in 1 .. Len(ws) + 2 /\ ~(Len(ws) + 1 <= Len(ws)) /\ (Len(ws) + 1) - Len(ws) = 1
    BY <1>2
  <2>2. Len(ws) + 2 \in 1 .. Len(ws) + 2 /\ ~(Len(ws) + 2 <= Len(ws)) /\ (Len(ws) + 2) - Len(ws) = 2
    BY <1>2
  <2>3. Line(ws)[Len(ws) + 1] = <<CR, LF>>[1]
    BY <1>3, <2>1
  <2>4. Line(ws)[Len(ws) + 2] = <<CR, LF>>[2]
    BY <1>3, <2>2
  <2> QED
    BY <2>3, <2>4
<1> QED
  BY <1>2, <1>3, <1>4

(* No word of a line ends it.                                               *)
LEMMA WordsShape ==
  ASSUME NEW method \in Methods, NEW a \in Answers[method], NEW P \in Places, WithinChunks(a, P)
  PROVE  /\ Words(a, P) \in Seq(Tokens) /\ Len(Words(a, P)) \in Nat
         /\ \A i \in 1 .. Len(Words(a, P)) : Words(a, P)[i] # CR /\ Words(a, P)[i] # LF
         /\ P.kind = "chunk" =>
              /\ Len(Words(a, P)) = Size(a, P.k)
              /\ \A i \in 1 .. Size(a, P.k) : Words(a, P)[i] = Byte(P.req, EndOf(a, P.k - 1) + i)
<1>1. a.status \in Nat /\ Total(a) \in Nat
  BY AnswerShape
<1>2. ASSUME NEW x \in Tokens \ {CR, LF}, NEW y \in Tokens \ {CR, LF}
      PROVE  /\ <<x>> \in Seq(Tokens) /\ \A i \in 1 .. Len(<<x>>) : <<x>>[i] # CR /\ <<x>>[i] # LF
             /\ <<x, y>> \in Seq(Tokens)
             /\ \A i \in 1 .. Len(<<x, y>>) : <<x, y>>[i] # CR /\ <<x, y>>[i] # LF
  OBVIOUS
<1>3. CASE P.kind = "chunk"
  <2>1. P.k \in 1 .. Len(a.ends) /\ P.req \in Int
    BY <1>3 DEF WithinChunks, Places
  <2>2. Size(a, P.k) \in Nat /\ EndOf(a, P.k - 1) \in Int
    <3>1. P.k - 1 \in 0 .. Len(a.ends)
      BY <2>1, AnswerShape
    <3> QED
      BY <2>1, <3>1, AnswerShape
  <2>3. Words(a, P) = [i \in 1 .. Size(a, P.k) |-> Byte(P.req, EndOf(a, P.k - 1) + i)]
    BY <1>3 DEF Words
  <2>4. /\ Words(a, P) \in Seq(Tokens) /\ Len(Words(a, P)) = Size(a, P.k)
        /\ \A i \in 1 .. Size(a, P.k) : Words(a, P)[i] = Byte(P.req, EndOf(a, P.k - 1) + i)
    BY <2>1, <2>2, <2>3, ByteRun
  <2> QED
    BY <2>2, <2>4, TokenShape
<1>4. CASE P.kind = "size"
  <2>1. Size(a, P.k) \in Int
    BY <1>4, AnswerShape DEF WithinChunks
  <2>2. Words(a, P) = <<Number(Size(a, P.k))>> /\ Number(Size(a, P.k)) \in Tokens \ {CR, LF}
    BY <1>4, <2>1, TokenShape DEF Words
  <2> QED
    BY <1>2, <1>4, <2>2
<1>5. CASE P.kind \in {"interim", "status", "length"}
  <2>1. \A n \in Int : Number(n) \in Tokens \ {CR, LF}
    BY TokenShape
  <2>2. Token("http") \in Tokens \ {CR, LF} /\ Token("content-length") \in Tokens \ {CR, LF}
    BY TokenShape
  <2>3. \/ Words(a, P) = <<Token("http"), Number(100)>>
        \/ Words(a, P) = <<Token("http"), Number(a.status)>>
        \/ Words(a, P) = <<Token("content-length"), Number(Total(a))>>
    BY <1>5 DEF Words
  <2>4. PICK x \in Tokens \ {CR, LF}, y \in Tokens \ {CR, LF} : Words(a, P) = <<x, y>>
    BY <1>1, <2>1, <2>2, <2>3
  <2> QED
    BY <1>2, <1>5, <2>4
<1>6. CASE P.kind \in {"connection", "coding", "folded", "noChunk", "trailer"}
  <2>1. Number(0) \in Tokens \ {CR, LF}
    BY TokenShape
  <2>2. \/ Words(a, P) = <<Token("connection"), Token("close")>>
        \/ Words(a, P) = <<Token("transfer-encoding")>>
        \/ Words(a, P) = <<Token("space"), Token("chunked")>>
        \/ Words(a, P) = <<Number(0)>>
        \/ Words(a, P) = <<Token("trailer")>>
    BY <1>6 DEF Words
  <2> QED
    BY <1>2, <1>6, <2>1, <2>2, TokenShape
<1>7. CASE P.kind \notin {"interim", "status", "connection", "length", "coding", "folded", "size",
                          "chunk", "noChunk", "trailer"}
  <2>1. Words(a, P) = <<>>
    BY <1>7 DEF Words
  <2> QED
    BY <1>7, <2>1
<1> QED
  BY <1>3, <1>4, <1>5, <1>6, <1>7

(* A line of the text, or a body.                                           *)
LEMMA SegmentShape ==
  ASSUME NEW method \in Methods, NEW a \in Answers[method], NEW P \in Places, WithinChunks(a, P)
  PROVE  /\ Segment(a, P) \in Seq(Tokens) /\ Len(Segment(a, P)) \in Nat
         /\ P.kind \notin {"start", "body", "end"} =>
              /\ Segment(a, P) = Line(Words(a, P))
              /\ Len(Segment(a, P)) = Len(Words(a, P)) + 2
              /\ \A i \in 1 .. Len(Words(a, P)) : Segment(a, P)[i] = Words(a, P)[i]
              /\ Segment(a, P)[Len(Words(a, P)) + 1] = CR
              /\ Segment(a, P)[Len(Words(a, P)) + 2] = LF
<1>1. Segment(a, P) \in Seq(Tokens)
  <2>1. <<Token("http")>> \in Seq(Tokens) /\ <<>> \in Seq(Tokens)
    BY TokenShape
  <2>2. P.req \in Nat
    BY DEF Places
  <2> QED
    BY <2>1, <2>2, BodyShape, WordsShape, LineShape DEF Segment
<1> QED
  BY <1>1, LenProperties, WordsShape, LineShape DEF Segment

(* Where the parts of a text begin.                                         *)
LEMMA NextPlaces ==
  ASSUME NEW a, NEW q \in Nat
  PROVE  /\ First(q) \in Places /\ Done(q, a) \in Places /\ Framing(q, a) \in Places
         /\ \A n \in Nat : BodyPlace(q, a, n) \in Places
         /\ \A k \in Nat : SizePlace(q, a, k) \in Places
         /\ AfterHeaders(q, a) \in Places
<1> USE DEF Places, Kinds, LineKinds, StatusKinds, HeaderKinds, SizeKinds, TrailerKinds, Place
<1>1. First(q) \in Places /\ Done(q, a) \in Places /\ Framing(q, a) \in Places
  BY DEF First, Done, Framing
<1>2. \A n \in Nat : BodyPlace(q, a, n) \in Places
  BY <1>1 DEF BodyPlace
<1>3. \A k \in Nat : SizePlace(q, a, k) \in Places
  BY DEF SizePlace
<1> QED
  BY <1>1, <1>2, <1>3 DEF AfterHeaders

(* What follows a part of the text is a place.                              *)
LEMMA AfterShape ==
  ASSUME NEW a, NEW P \in Places
  PROVE  AfterSegment(a, P) \in Places
<1>1. P.req \in Nat /\ P.req + 1 \in Nat /\ P.k \in Nat /\ P.k + 1 \in Nat
  BY DEF Places
<1>2. \A kind \in Kinds, k \in Nat, w \in Nat : Place(P.req, kind, k, w) \in Places
  BY <1>1 DEF Places, Place
<1> QED
  BY <1>1, <1>2, NextPlaces DEF AfterSegment, Kinds, LineKinds, StatusKinds, HeaderKinds, SizeKinds,
     TrailerKinds

(* The same of a whole segment, and of one but for its first token.         *)
LEMMA PathOfWhole ==
  ASSUME NEW ans, NEW u, NEW P \in Places, P.req < u, NEW g, g = Segment(ans[P.req], P),
         g \in Seq(Tokens), P.w = 0, g # <<>>
  PROVE  Path(ans, u, g, P, AfterSegment(ans[P.req], P))
<1> DEFINE a == ans[P.req]
<1>1. 0 < Len(g) /\ P.w < Len(Segment(a, P)) /\ AfterSegment(a, P) \in Places
  BY EmptySeq, AfterShape
<1> HIDE DEF a
<1>2. Path(ans, u, SubSeq(Segment(a, P), P.w + 1, Len(Segment(a, P))), P, AfterSegment(a, P))
  BY <1>1, PathOfSegment DEF a
<1>3. SubSeq(g, 1, Len(g)) = g /\ P.w + 1 = 1
  BY SubSeqFull
<1>4. SubSeq(Segment(a, P), P.w + 1, Len(Segment(a, P))) = g
  BY <1>3 DEF a
<1> QED
  BY <1>2, <1>4 DEF a

(* The part of the text of which the first token is read.                   *)
LEMMA PathOfRest ==
  ASSUME NEW ans, NEW u, NEW P \in Places, P.req < u, NEW g, g = Segment(ans[P.req], P),
         g \in Seq(Tokens), P.w = 1, 1 < Len(g)
  PROVE  Path(ans, u, Tail(g), P, AfterSegment(ans[P.req], P))
<1> DEFINE a == ans[P.req]
<1>1. P.w < Len(Segment(a, P)) /\ AfterSegment(a, P) \in Places /\ P.w + 1 = 2
  BY AfterShape
<1> HIDE DEF a
<1>2. Path(ans, u, SubSeq(Segment(a, P), P.w + 1, Len(Segment(a, P))), P, AfterSegment(a, P))
  BY <1>1, PathOfSegment DEF a
<1>3. SubSeq(Segment(a, P), P.w + 1, Len(Segment(a, P))) = Tail(g)
  BY <1>1, EmptySeq, TailIsSubSeq DEF a
<1> QED
  BY <1>2, <1>3 DEF a

-----------------------------------------------------------------------------
Flattens(f, seqs, n) == f = [i \in 1 .. n |-> IF i = 1 THEN seqs[i] ELSE f[i - 1] \o seqs[i]]

(* What FlattenSeq makes of a sequence of sequences.                        *)
LEMMA FlattenIs ==
  ASSUME NEW n \in Nat \ {0}, NEW seqs, Len(seqs) = n
  PROVE  \E f : Flattens(f, seqs, n) /\ FlattenSeq(seqs) = f[n]
<1> DEFINE Bad == {m \in 1 .. n : ~ \E f : Flattens(f, seqs, m)}
<1>1. Bad = {}
  <2>1. SUFFICES ASSUME Bad # {} PROVE FALSE
    OBVIOUS
  <2>2. PICK m \in Bad : \A k \in Bad : m <= k
    <3>1. Bad \subseteq Nat
      OBVIOUS
    <3> HIDE DEF Bad
    <3> QED
      BY <2>1, <3>1, LeastNumber
  <2>3. m # 1
    <3> DEFINE f == [i \in 1 .. 1 |-> seqs[i]]
    <3>1. Flattens(f, seqs, 1)
      BY DEF Flattens
    <3> HIDE DEF f
    <3> QED
      BY <2>2, <3>1
  <2>4. m - 1 \in 1 .. n /\ m - 1 \notin Bad /\ m \in 1 .. n
    BY <2>2, <2>3
  <2>5. PICK g : Flattens(g, seqs, m - 1)
    BY <2>4
  <2> DEFINE f == [i \in 1 .. m |-> IF i < m THEN g[i] ELSE g[m - 1] \o seqs[m]]
  <2>6. ASSUME NEW i \in 1 .. m
        PROVE  f[i] = IF i = 1 THEN seqs[i] ELSE f[i - 1] \o seqs[i]
    <3>1. CASE i < m
      <4>1. i \in 1 .. m - 1 /\ f[i] = g[i]
        BY <2>4, <3>1
      <4>2. g[i] = IF i = 1 THEN seqs[i] ELSE g[i - 1] \o seqs[i]
        BY <2>5, <4>1 DEF Flattens
      <4>3. i # 1 => f[i - 1] = g[i - 1]
        BY <2>4, <3>1
      <4> HIDE DEF f
      <4> QED
        BY <4>1, <4>2, <4>3
    <3>2. CASE i = m
      <4>1. f[i] = g[m - 1] \o seqs[m]
        BY <2>4, <3>2
      <4>2. f[m - 1] = g[m - 1]
        BY <2>4
      <4> HIDE DEF f
      <4> QED
        BY <2>3, <3>2, <4>1, <4>2
    <3> QED
      BY <2>4, <3>1, <3>2
  <2>7. f = [i \in 1 .. m |-> f[i]]
    OBVIOUS
  <2>8. Flattens(f, seqs, m)
    <3> HIDE DEF f
    <3> QED
      BY <2>6, <2>7 DEF Flattens
  <2> HIDE DEF f
  <2> QED
    BY <2>2, <2>8
<1>2. PICK g : Flattens(g, seqs, n)
  BY <1>1
<1> DEFINE f == CHOOSE h : h = [i \in 1 .. n |-> IF i = 1 THEN seqs[i] ELSE h[i - 1] \o seqs[i]]
<1>3. f = [i \in 1 .. n |-> IF i = 1 THEN seqs[i] ELSE f[i - 1] \o seqs[i]]
  BY <1>2 DEF Flattens
<1>4. FlattenSeq(seqs) = f[n]
  BY DEF FlattenSeq
<1> HIDE DEF f
<1> QED
  BY <1>3, <1>4 DEF Flattens

(* Paths that follow one another, at places.                                *)
LEMMA PathsFlatten ==
  ASSUME NEW n \in Nat \ {0}, NEW seqs, Len(seqs) = n, NEW ans, NEW u, NEW at,
         \A k \in 1 .. n : seqs[k] \in Seq(Tokens) /\ Path(ans, u, seqs[k], at[k], at[k + 1])
  PROVE  FlattenSeq(seqs) \in Seq(Tokens) /\ Path(ans, u, FlattenSeq(seqs), at[1], at[n + 1])
<1>1. PICK f : Flattens(f, seqs, n) /\ FlattenSeq(seqs) = f[n]
  BY FlattenIs
<1> DEFINE Good(k) == f[k] \in Seq(Tokens) /\ Path(ans, u, f[k], at[1], at[k + 1])
           Bad == {k \in 1 .. n : ~Good(k)}
<1>2. Bad = {}
  <2>1. SUFFICES ASSUME Bad # {} PROVE FALSE
    OBVIOUS
  <2>2. PICK m \in Bad : \A k \in Bad : m <= k
    <3>1. Bad \subseteq Nat
      OBVIOUS
    <3> HIDE DEF Bad
    <3> QED
      BY <2>1, <3>1, LeastNumber
  <2>3. m \in 1 .. n /\ f[m] = IF m = 1 THEN seqs[m] ELSE f[m - 1] \o seqs[m]
    BY <1>1, <2>2 DEF Flattens
  <2>4. m # 1
    BY <2>2, <2>3
  <2>5. m - 1 \in 1 .. n /\ m - 1 \notin Bad /\ (m - 1) + 1 = m
    BY <2>2, <2>3, <2>4
  <2>6. f[m - 1] \in Seq(Tokens) /\ Path(ans, u, f[m - 1], at[1], at[m])
    BY <2>5
  <2>7. f[m - 1] \o seqs[m] \in Seq(Tokens)
    BY <2>3, <2>6, ConcatProperties
  <2>8. Path(ans, u, f[m - 1] \o seqs[m], at[1], at[m + 1])
    BY <2>3, <2>6, PathConcat
  <2> QED
    BY <2>2, <2>3, <2>4, <2>7, <2>8
<1>3. n \in 1 .. n
  OBVIOUS
<1> QED
  BY <1>1, <1>2, <1>3

(* The path of a whole segment, which is a line.                            *)
LEMMA PathOfLine ==
  ASSUME NEW ans, NEW q \in Nat, NEW u, q < u, NEW method \in Methods, NEW a \in Answers[method],
         a = ans[q], NEW kind \in Kinds \ {"start", "body", "end"}, NEW k \in Nat,
         kind \in {"size", "chunk"} => k \in 1 .. Len(a.ends)
  PROVE  LET P == Place(q, kind, k, 0)
         IN  /\ Line(Words(a, P)) \in Seq(Tokens)
             /\ Path(ans, u, Line(Words(a, P)), P, AfterSegment(a, P))
<1> DEFINE P == Place(q, kind, k, 0)
<1>1. P \in Places /\ P.req = q /\ P.w = 0 /\ P.kind = kind /\ P.k = k
  BY DEF Place, Places
<1> HIDE DEF P
<1>2. WithinChunks(a, P)
  BY <1>1 DEF WithinChunks
<1>3. /\ Segment(a, P) = Line(Words(a, P)) /\ Segment(a, P) \in Seq(Tokens)
      /\ Len(Segment(a, P)) = Len(Words(a, P)) + 2 /\ Len(Words(a, P)) \in Nat
  BY <1>1, <1>2, SegmentShape, WordsShape
<1>4. Segment(a, P) # <<>>
  BY <1>3, EmptySeq
<1>6. Path(ans, u, Line(Words(a, P)), P, AfterSegment(a, P))
  BY <1>1, <1>3, <1>4, PathOfWhole
<1> QED
  BY <1>3, <1>6 DEF P

(* The status line, of an interim answer or of the answer.                  *)
LEMMA PathOfStatusLine ==
  ASSUME NEW ans, NEW q \in Nat, NEW u, q < u, NEW method \in Methods, NEW a \in Answers[method],
         a = ans[q], NEW kind, kind = IF a.interim THEN "interim" ELSE "status"
  PROVE  LET P == Place(q, kind, 0, 1)
             t == Line(Words(a, P))
         IN  t \in Seq(Tokens) /\ Path(ans, u, t, First(q), AfterSegment(a, P))
<1> DEFINE P == Place(q, kind, 0, 1)
           t == Line(Words(a, P))
<1>1. /\ P \in Places /\ P.req = q /\ P.w = 1 /\ P.kind = kind /\ kind \in {"interim", "status"}
      /\ WithinChunks(a, P)
  BY DEF Place, Places, Kinds, LineKinds, StatusKinds, WithinChunks
<1> HIDE DEF P
<1>2. Len(Words(a, P)) = 2 /\ Words(a, P)[1] = Token("http")
  BY <1>1 DEF Words
<1>3. /\ Segment(a, P) = t /\ t \in Seq(Tokens) /\ Len(t) = 4 /\ t[1] = Token("http")
  <2>1. /\ Segment(a, P) = t /\ t \in Seq(Tokens) /\ Len(t) = Len(Words(a, P)) + 2
        /\ \A i \in 1 .. Len(Words(a, P)) : t[i] = Words(a, P)[i]
    BY <1>1, SegmentShape
  <2> HIDE DEF t
  <2> QED
    BY <1>2, <2>1
<1> HIDE DEF t
<1>4. Path(ans, u, Tail(t), P, AfterSegment(a, P))
  <2>1. a = ans[P.req] /\ 1 < Len(t)
    BY <1>1, <1>3
  <2>2. t = Segment(ans[P.req], P) /\ P.req < u
    BY <1>1, <1>3, <2>1
  <2>3. Path(ans, u, Tail(t), P, AfterSegment(ans[P.req], P))
    BY <1>1, <1>3, <2>1, <2>2, PathOfRest
  <2> QED
    BY <2>1, <2>3
<1>5. Path(ans, u, <<Token("http")>>, First(q), P)
  <2> DEFINE F == First(q)
  <2>1. /\ F \in Places /\ F.req = q /\ F.w = 0
        /\ Segment(a, F) = <<Token("http")>> /\ AfterSegment(a, F) = P
    BY NextPlaces DEF First, Place, Segment, AfterSegment, P
  <2>2. <<Token("http")>> \in Seq(Tokens) /\ <<Token("http")>> # <<>>
    BY TokenShape
  <2> HIDE DEF F
  <2> QED
    BY <2>1, <2>2, PathOfWhole DEF F
<1>6. <<Token("http")>> \o Tail(t) = t /\ Tail(t) \in Seq(Tokens)
  <2>1. t \in Seq(Tokens) /\ 0 < Len(t)
    BY <1>3
  <2>2. <<t[1]>> \o Tail(t) = t /\ Tail(t) \in Seq(Tokens)
    BY <2>1, FirstAndRest
  <2>3. t[1] = Token("http")
    BY <1>3
  <2> QED
    BY <2>2, <2>3, Zenon
<1>7. <<Token("http")>> \in Seq(Tokens)
  BY TokenShape
<1> QED
  BY <1>3, <1>4, <1>5, <1>6, <1>7, PathConcat DEF P, t

TextEnd(q, a) == IF SentInChunks(a) THEN First(q + 1) ELSE Done(q, a)

(* From the end of the headers on.                                          *)
LEMMA PathOfBody ==
  ASSUME NEW ans, NEW q \in Nat, NEW u, q < u, NEW method \in Methods, NEW a \in Answers[method],
         a = ans[q], ~SentInChunks(a)
  PROVE  /\ BodyOf(q, a) \in Seq(Tokens)
         /\ Path(ans, u, BodyOf(q, a), AfterHeaders(q, a), TextEnd(q, a))
<1> DEFINE P == Place(q, "body", 0, 0)
<1>1. BodyOf(q, a) \in Seq(Tokens) /\ Len(BodyOf(q, a)) \in Nat
  BY BodyShape, LenProperties
<1>2. AfterHeaders(q, a) = IF BodyOf(q, a) = <<>> THEN Done(q, a) ELSE P
  BY <1>1, EmptySeq DEF AfterHeaders, BodyPlace
<1>3. TextEnd(q, a) = Done(q, a) /\ Done(q, a) \in Places
  BY NextPlaces DEF TextEnd
<1>4. CASE BodyOf(q, a) = <<>>
  BY <1>1, <1>2, <1>3, <1>4, PathOfNothing
<1>5. CASE BodyOf(q, a) # <<>>
  <2>1. /\ P \in Places /\ P.req = q /\ P.w = 0 /\ Segment(a, P) = BodyOf(q, a)
        /\ AfterSegment(a, P) = Done(q, a)
    BY DEF Place, Places, Kinds, Segment, AfterSegment
  <2> HIDE DEF P
  <2>2. Path(ans, u, BodyOf(q, a), P, Done(q, a))
    BY <1>1, <1>5, <2>1, PathOfWhole
  <2> QED
    BY <1>1, <1>2, <1>3, <1>5, <2>2
<1> QED
  BY <1>4, <1>5

(* The text of a chunk leads on to the next one.                            *)
LEMMA PathOfChunk ==
  ASSUME NEW ans, NEW q \in Nat, NEW u, q < u, NEW method \in Methods, NEW a \in Answers[method],
         a = ans[q], NEW k \in 1 .. Len(a.ends)
  PROVE  /\ Chunk(q, a, k) \in Seq(Tokens)
         /\ Path(ans, u, Chunk(q, a, k), SizePlace(q, a, k), SizePlace(q, a, k + 1))
<1> DEFINE P == Place(q, "size", k, 0)
           R == Place(q, "chunk", k, 0)
<1>1. /\ SizePlace(q, a, k) = P /\ AfterSegment(a, P) = R
      /\ AfterSegment(a, R) = SizePlace(q, a, k + 1)
      /\ k \in Nat
  BY AnswerShape DEF SizePlace, AfterSegment, Place
<1>2. Line(Words(a, P)) \in Seq(Tokens) /\ Path(ans, u, Line(Words(a, P)), P, AfterSegment(a, P))
  BY <1>1, PathOfLine DEF Kinds, LineKinds, SizeKinds
<1>3. Line(Words(a, R)) \in Seq(Tokens) /\ Path(ans, u, Line(Words(a, R)), R, AfterSegment(a, R))
  BY <1>1, PathOfLine DEF Kinds
<1>4. Chunk(q, a, k) = Line(Words(a, P)) \o Line(Words(a, R))
  BY DEF Chunk, Words, Place
<1> HIDE DEF P, R
<1> QED
  BY <1>1, <1>2, <1>3, <1>4, PathConcat, ConcatProperties

(* The text of all chunks leads on to the next answer.                      *)
LEMMA PathOfChunks ==
  ASSUME NEW ans, NEW q \in Nat, NEW u, q < u, NEW method \in Methods, NEW a \in Answers[method],
         a = ans[q], SentInChunks(a)
  PROVE  LET t == FlattenSeq([k \in DOMAIN a.ends |-> Chunk(q, a, k)])
                    \o Line(<<Number(0)>>) \o Line(<<Token("trailer")>>) \o Line(<<>>)
         IN  t \in Seq(Tokens) /\ Path(ans, u, t, AfterHeaders(q, a), TextEnd(q, a))
<1> DEFINE n == Len(a.ends)
           seqs == [k \in DOMAIN a.ends |-> Chunk(q, a, k)]
           N == Place(q, "noChunk", 0, 0)
           T == Place(q, "trailer", 0, 0)
           E == Place(q, "trailersEnd", 0, 0)
<1>1. n \in Nat /\ DOMAIN a.ends = 1 .. n
  <2>1. a.ends \in Seq(Nat \ {0})
    BY AnswersAssumption DEF Methods
  <2> QED
    BY <2>1, LenProperties
<1>2. AfterHeaders(q, a) = SizePlace(q, a, 1) /\ TextEnd(q, a) = First(q + 1)
  BY DEF AfterHeaders, TextEnd
<1>3. SizePlace(q, a, n + 1) = N
  BY <1>1 DEF SizePlace
<1>4. FlattenSeq(seqs) \in Seq(Tokens) /\ Path(ans, u, FlattenSeq(seqs), SizePlace(q, a, 1), N)
  <2>1. seqs = [k \in 1 .. n |-> Chunk(q, a, k)] /\ Len(seqs) = n
    BY <1>1
  <2>2. CASE n = 0
    <3>1. seqs \in Seq(Tokens) /\ seqs = <<>>
      <4>1. seqs \in [1 .. 0 -> Tokens]
        BY <2>1, <2>2
      <4> QED
        BY <2>1, <2>2, <4>1, SeqDef, EmptySeq
    <3>2. FlattenSeq(seqs) = <<>>
      <4> HIDE DEF seqs, n
      <4> QED
        BY <2>1, <2>2, <3>1 DEF FlattenSeq
    <3>3. SizePlace(q, a, 1) = N /\ N \in Places
      <4>1. SizePlace(q, a, 1) = N
        BY <2>2 DEF SizePlace
      <4> HIDE DEF N
      <4> QED
        BY <4>1, NextPlaces
    <3> QED
      BY <3>2, <3>3, PathOfNothing
  <2>3. CASE n # 0
    <3> DEFINE at == [k \in 1 .. n + 1 |-> SizePlace(q, a, k)]
    <3>1. ASSUME NEW k \in 1 .. n
          PROVE  seqs[k] \in Seq(Tokens) /\ Path(ans, u, seqs[k], at[k], at[k + 1])
      <4>1. seqs[k] = Chunk(q, a, k) /\ at[k] = SizePlace(q, a, k)
              /\ at[k + 1] = SizePlace(q, a, k + 1)
        BY <1>1, <2>1
      <4> HIDE DEF seqs, at
      <4> QED
        BY <4>1, PathOfChunk
    <3>2. at[1] = SizePlace(q, a, 1) /\ at[n + 1] = N /\ n \in Nat \ {0}
      BY <1>1, <1>3, <2>3
    <3> HIDE DEF seqs, at, n
    <3> QED
      BY <2>1, <3>1, <3>2, PathsFlatten
  <2> QED
    BY <2>2, <2>3
<1>5. /\ Line(<<Number(0)>>) \in Seq(Tokens) /\ Path(ans, u, Line(<<Number(0)>>), N, T)
      /\ Line(<<Token("trailer")>>) \in Seq(Tokens)
      /\ Path(ans, u, Line(<<Token("trailer")>>), T, E)
      /\ Line(<<>>) \in Seq(Tokens) /\ Path(ans, u, Line(<<>>), E, First(q + 1))
  <2>1. /\ Words(a, N) = <<Number(0)>> /\ AfterSegment(a, N) = T
        /\ Words(a, T) = <<Token("trailer")>> /\ AfterSegment(a, T) = E
        /\ Words(a, E) = <<>> /\ AfterSegment(a, E) = First(q + 1)
    BY DEF Words, AfterSegment, Place
  <2>2. \A kind \in {"noChunk", "trailer", "trailersEnd"} :
          LET P == Place(q, kind, 0, 0)
          IN  Line(Words(a, P)) \in Seq(Tokens)
              /\ Path(ans, u, Line(Words(a, P)), P, AfterSegment(a, P))
    BY PathOfLine DEF Kinds, LineKinds, SizeKinds, TrailerKinds
  <2> HIDE DEF N, T, E
  <2> QED
    BY <2>1, <2>2 DEF N, T, E
<1> HIDE DEF N, T, E, seqs
<1>6. /\ FlattenSeq(seqs) \o Line(<<Number(0)>>) \in Seq(Tokens)
      /\ Path(ans, u, FlattenSeq(seqs) \o Line(<<Number(0)>>), SizePlace(q, a, 1), T)
  BY <1>4, <1>5, PathConcat, ConcatProperties
<1>7. /\ FlattenSeq(seqs) \o Line(<<Number(0)>>) \o Line(<<Token("trailer")>>) \in Seq(Tokens)
      /\ Path(ans, u, FlattenSeq(seqs) \o Line(<<Number(0)>>) \o Line(<<Token("trailer")>>),
              SizePlace(q, a, 1), E)
  BY <1>5, <1>6, PathConcat, ConcatProperties
<1>8. LET t == FlattenSeq(seqs) \o Line(<<Number(0)>>) \o Line(<<Token("trailer")>>) \o Line(<<>>)
      IN  t \in Seq(Tokens) /\ Path(ans, u, t, SizePlace(q, a, 1), First(q + 1))
  BY <1>5, <1>7, PathConcat, ConcatProperties
<1> QED
  BY <1>2, <1>8 DEF seqs

(* The text of an answer is a path through it.                              *)
LEMMA PathOfText ==
  ASSUME NEW ans, NEW q \in Nat, NEW u, q < u, NEW method \in Methods, NEW a \in Answers[method],
         a = ans[q]
  PROVE  Text(q, a) \in Seq(Tokens) /\ Path(ans, u, Text(q, a), First(q), TextEnd(q, a))
<1> DEFINE Goes(t, P, Q) == t \in Seq(Tokens) /\ Path(ans, u, t, P, Q)
           tI == IF a.interim THEN StatusLineOf(100) \o Line(<<>>) ELSE <<>>
           tS == StatusLineOf(a.status)
           tC == IF a.closes THEN Line(<<Token("connection"), Token("close")>>) ELSE <<>>
           tF == CASE a.framing = "length" -> Line(<<Token("content-length"), Number(Total(a))>>)
                   [] a.framing = "chunked" ->
                        Line(<<Token("transfer-encoding")>>)
                          \o Line(<<Token("space"), Token("chunked")>>)
                   [] OTHER -> <<>>
           tE == Line(<<>>)
           tB == IF a.framing # "chunked" \/ a.bodyless THEN BodyOf(q, a)
                 ELSE FlattenSeq([k \in DOMAIN a.ends |-> Chunk(q, a, k)])
                        \o Line(<<Number(0)>>) \o Line(<<Token("trailer")>>) \o Line(<<>>)
           pS == IF a.interim THEN Place(q, "status", 0, 0) ELSE First(q)
           pC == IF a.closes THEN Place(q, "connection", 0, 0) ELSE Framing(q, a)
           pE == Place(q, "headersEnd", 0, 0)
<1>1. Text(q, a) = tI \o tS \o tC \o tF \o tE \o tB
  BY DEF Text
<1>2. \A kind \in LineKinds \ SizeKinds :
        LET P == Place(q, kind, 0, 0) IN Goes(Line(Words(a, P)), P, AfterSegment(a, P))
  BY PathOfLine DEF Kinds, LineKinds, SizeKinds, StatusKinds, HeaderKinds, TrailerKinds
<1>3. \A s, t, P, Q, R : Goes(s, P, Q) /\ Goes(t, Q, R) => Goes(s \o t, P, R)
  BY PathConcat, ConcatProperties
<1>4. \A P \in Places : Goes(<<>>, P, P)
  BY PathOfNothing, EmptySeq
<1> HIDE DEF Goes
<1>5. Goes(IF a.interim THEN StatusLineOf(100) ELSE tS, First(q),
           IF a.interim THEN Place(q, "interimEnd", 0, 0) ELSE pC)
  <2> DEFINE kind == IF a.interim THEN "interim" ELSE "status"
             P == Place(q, kind, 0, 1)
  <2>1. Goes(Line(Words(a, P)), First(q), AfterSegment(a, P))
    BY PathOfStatusLine DEF Goes
  <2>2. Line(Words(a, P)) = IF a.interim THEN StatusLineOf(100) ELSE tS
    BY DEF Words, Place, StatusLineOf
  <2>3. AfterSegment(a, P) = IF a.interim THEN Place(q, "interimEnd", 0, 0) ELSE pC
    BY DEF AfterSegment, Place
  <2> QED
    BY <2>1, <2>2, <2>3
<1>6. Goes(tI \o tS, First(q), pC)
  <2>1. CASE a.interim
    <3> DEFINE P == Place(q, "interimEnd", 0, 0)
               R == Place(q, "status", 0, 0)
    <3>1. Goes(Line(Words(a, P)), P, AfterSegment(a, P))
            /\ Goes(Line(Words(a, R)), R, AfterSegment(a, R))
      BY <1>2 DEF LineKinds, SizeKinds, StatusKinds, HeaderKinds
    <3>2. /\ Words(a, P) = <<>> /\ AfterSegment(a, P) = R
          /\ Line(Words(a, R)) = tS /\ AfterSegment(a, R) = pC
      BY DEF Words, Place, StatusLineOf, AfterSegment
    <3> HIDE DEF P, R
    <3>3. Goes(StatusLineOf(100), First(q), P) /\ Goes(Line(<<>>), P, R) /\ Goes(tS, R, pC)
      BY <1>5, <2>1, <3>1, <3>2 DEF P
    <3>4. Goes(StatusLineOf(100) \o Line(<<>>), First(q), R)
      BY <1>3, <3>3
    <3> HIDE DEF tS, pC
    <3> QED
      BY <1>3, <2>1, <3>3, <3>4
  <2>2. CASE ~a.interim
    <3>1. Goes(tS, First(q), pC)
      BY <1>5, <2>2
    <3>2. Goes(<<>>, First(q), First(q))
      BY <1>4, NextPlaces
    <3> HIDE DEF tS, pC
    <3>3. Goes(<<>> \o tS, First(q), pC)
      BY <1>3, <3>1, <3>2
    <3> QED
      BY <2>2, <3>3
  <2> QED
    BY <2>1, <2>2
<1>7. Goes(tC, pC, Framing(q, a))
  <2>1. CASE a.closes
    <3> DEFINE P == Place(q, "connection", 0, 0)
    <3>1. Goes(Line(Words(a, P)), P, AfterSegment(a, P))
      BY <1>2 DEF LineKinds, SizeKinds, StatusKinds, HeaderKinds
    <3>2. Words(a, P) = <<Token("connection"), Token("close")>>
            /\ AfterSegment(a, P) = Framing(q, a)
      BY DEF Words, Place, AfterSegment
    <3> QED
      BY <2>1, <3>1, <3>2
  <2> QED
    BY <1>4, <2>1, NextPlaces
<1>8. Goes(tF, Framing(q, a), pE)
  <2>1. CASE a.framing = "length"
    <3> DEFINE P == Place(q, "length", 0, 0)
    <3>1. Goes(Line(Words(a, P)), P, AfterSegment(a, P))
      BY <1>2 DEF LineKinds, SizeKinds, StatusKinds, HeaderKinds
    <3>2. /\ Words(a, P) = <<Token("content-length"), Number(Total(a))>>
          /\ AfterSegment(a, P) = pE /\ Framing(q, a) = P
      BY <2>1 DEF Words, Place, AfterSegment, Framing
    <3> QED
      BY <2>1, <3>1, <3>2
  <2>2. CASE a.framing = "chunked"
    <3> DEFINE P == Place(q, "coding", 0, 0)
               R == Place(q, "folded", 0, 0)
    <3>1. Goes(Line(Words(a, P)), P, AfterSegment(a, P))
            /\ Goes(Line(Words(a, R)), R, AfterSegment(a, R))
      BY <1>2 DEF LineKinds, SizeKinds, StatusKinds, HeaderKinds
    <3>2. /\ Words(a, P) = <<Token("transfer-encoding")>> /\ AfterSegment(a, P) = R
          /\ Words(a, R) = <<Token("space"), Token("chunked")>> /\ AfterSegment(a, R) = pE
          /\ Framing(q, a) = P
      BY <2>2 DEF Words, Place, AfterSegment, Framing
    <3>3. tF = Line(Words(a, P)) \o Line(Words(a, R))
      BY <2>2, <3>2
    <3> HIDE DEF P, R, tF, pE
    <3> QED
      BY <1>3, <3>1, <3>2, <3>3
  <2>3. CASE a.framing # "length" /\ a.framing # "chunked"
    <3>1. tF = <<>> /\ Framing(q, a) = pE
      BY <2>3 DEF Framing
    <3>2. pE \in Places
      BY <3>1, NextPlaces
    <3> HIDE DEF tF, pE
    <3> QED
      BY <1>4, <3>1, <3>2
  <2> QED
    BY <2>1, <2>2, <2>3
<1>9. Goes(tE, pE, AfterHeaders(q, a))
  <2>1. Goes(Line(Words(a, pE)), pE, AfterSegment(a, pE))
    BY <1>2 DEF LineKinds, SizeKinds, StatusKinds, HeaderKinds
  <2>2. Words(a, pE) = <<>> /\ AfterSegment(a, pE) = AfterHeaders(q, a)
    BY DEF Words, Place, AfterSegment
  <2> HIDE DEF pE
  <2> QED
    BY <2>1, <2>2
<1>10. Goes(tB, AfterHeaders(q, a), TextEnd(q, a))
  <2>1. CASE SentInChunks(a)
    <3>1. tB = FlattenSeq([k \in DOMAIN a.ends |-> Chunk(q, a, k)])
                 \o Line(<<Number(0)>>) \o Line(<<Token("trailer")>>) \o Line(<<>>)
      BY <2>1 DEF SentInChunks
    <3> HIDE DEF tB
    <3> QED
      BY <2>1, <3>1, PathOfChunks DEF Goes
  <2>2. CASE ~SentInChunks(a)
    <3>1. tB = BodyOf(q, a)
      BY <2>2 DEF SentInChunks
    <3> HIDE DEF tB
    <3> QED
      BY <2>2, <3>1, PathOfBody DEF Goes
  <2> QED
    BY <2>1, <2>2
<1> HIDE DEF tI, tS, tC, tF, tE, tB, pC, pE
<1>11. Goes(tI \o tS \o tC, First(q), Framing(q, a))
  BY <1>3, <1>6, <1>7
<1>12. Goes(tI \o tS \o tC \o tF, First(q), pE)
  BY <1>3, <1>8, <1>11
<1>13. Goes(tI \o tS \o tC \o tF \o tE, First(q), AfterHeaders(q, a))
  BY <1>3, <1>9, <1>12
<1>14. Goes(tI \o tS \o tC \o tF \o tE \o tB, First(q), TextEnd(q, a))
  BY <1>3, <1>10, <1>13
<1> QED
  BY <1>1, <1>14 DEF Goes

-----------------------------------------------------------------------------
(* What the client knows, from token to token.                              *)
NextToken(a, P, x) == P.w < Len(Segment(a, P)) /\ x = Segment(a, P)[P.w + 1]

(* A token of a line, or the one that ends it.                              *)
LEMMA LineStep ==
  ASSUME NEW method \in Methods, NEW a \in Answers[method], NEW P \in Places,
         P.kind \in LineKinds \cup {"chunk"}, WithinChunks(a, P),
         P.w <= Len(Words(a, P)) + 1, NEW x, NextToken(a, P, x)
  PROVE  /\ x # LF =>
              /\ After(a, P) = Place(P.req, P.kind, P.k, P.w + 1)
              /\ P.w <= Len(Words(a, P))
              /\ x = CR <=> P.w = Len(Words(a, P))
              /\ ReadOf(Words(a, P), P.w + 1) =
                   IF x = CR THEN ReadOf(Words(a, P), P.w) ELSE Append(ReadOf(Words(a, P), P.w), x)
         /\ x = LF =>
              /\ After(a, P) = AfterSegment(a, P)
              /\ P.w = Len(Words(a, P)) + 1
              /\ ReadOf(Words(a, P), P.w) = Words(a, P)
<1> DEFINE ws == Words(a, P)
           g == Segment(a, P)
           n == Len(ws)
<1>1. /\ ws \in Seq(Tokens) /\ n \in Nat /\ P.w \in Nat
      /\ \A i \in 1 .. n : ws[i] # CR /\ ws[i] # LF
  BY WordsShape DEF Places
<1>2. /\ Len(g) = n + 2 /\ g[n + 1] = CR /\ g[n + 2] = LF
      /\ \A i \in 1 .. n : g[i] = ws[i]
  <2>1. P.kind \notin {"start", "body", "end"}
    BY DEF LineKinds, StatusKinds, HeaderKinds, SizeKinds, TrailerKinds
  <2> QED
    BY <2>1, SegmentShape
<1>3. P.w + 1 \in 1 .. n + 2 /\ x = g[P.w + 1] /\ CR # LF
  BY <1>1, <1>2, TokenShape DEF NextToken
<1> HIDE DEF ws, g, n
<1>4. CASE P.w < n
  <2>1. x = ws[P.w + 1] /\ x # CR /\ x # LF /\ P.w + 1 \in 1 .. n
    BY <1>1, <1>2, <1>3, <1>4
  <2>2. After(a, P) = Place(P.req, P.kind, P.k, P.w + 1)
    BY <1>1, <1>2, <1>4 DEF After, g
  <2>3. ReadOf(ws, P.w + 1) = SubSeq(ws, 1, P.w + 1) /\ ReadOf(ws, P.w) = SubSeq(ws, 1, P.w)
    BY <1>1, <1>4 DEF ReadOf, n
  <2>4. SubSeq(ws, 1, P.w + 1) = Append(SubSeq(ws, 1, P.w), x)
    <3> DEFINE s == SubSeq(ws, 1, P.w)
               t == SubSeq(ws, 1, P.w + 1)
    <3>1. s \in Seq(Tokens) /\ Len(s) = P.w /\ \A i \in 1 .. P.w : s[i] = ws[i]
      <4>1. 0 + P.w <= Len(ws)
        BY <1>1, <1>4 DEF n
      <4>2. /\ SubSeq(ws, 0 + 1, 0 + P.w) \in Seq(Tokens) /\ Len(SubSeq(ws, 0 + 1, 0 + P.w)) = P.w
            /\ \A i \in 1 .. P.w : SubSeq(ws, 0 + 1, 0 + P.w)[i] = ws[0 + i]
        BY <1>1, <4>1, SliceOf
      <4>3. 0 + 1 = 1 /\ 0 + P.w = P.w /\ \A i \in 1 .. P.w : 0 + i = i
        BY <1>1
      <4> QED
        BY <4>2, <4>3
    <3>2. t \in Seq(Tokens) /\ Len(t) = P.w + 1 /\ \A i \in 1 .. P.w + 1 : t[i] = ws[i]
      <4> DEFINE m == P.w + 1
      <4>1. 0 + m <= Len(ws) /\ m \in Nat
        BY <1>1, <1>4 DEF n
      <4> HIDE DEF m
      <4>2. /\ SubSeq(ws, 0 + 1, 0 + m) \in Seq(Tokens) /\ Len(SubSeq(ws, 0 + 1, 0 + m)) = m
            /\ \A i \in 1 .. m : SubSeq(ws, 0 + 1, 0 + m)[i] = ws[0 + i]
        BY <1>1, <4>1, SliceOf
      <4>3. 0 + 1 = 1 /\ 0 + m = m /\ \A i \in 1 .. m : 0 + i = i
        BY <4>1
      <4> QED
        BY <4>2, <4>3 DEF m
    <3>3. x \in Tokens
      BY <1>1, <2>1, ElementOfSeq DEF n
    <3> HIDE DEF s, t
    <3>4. /\ Append(s, x) \in Seq(Tokens) /\ Len(Append(s, x)) = P.w + 1
          /\ \A i \in 1 .. P.w : Append(s, x)[i] = s[i]
          /\ Append(s, x)[P.w + 1] = x
      BY <3>1, <3>3, AppendProperties
    <3>5. ASSUME NEW i \in 1 .. P.w + 1 PROVE t[i] = Append(s, x)[i]
      <4>1. i \in 1 .. P.w \/ i = P.w + 1
        BY <1>1
      <4> QED
        BY <2>1, <3>1, <3>2, <3>4, <4>1
    <3>6. t = Append(s, x)
      BY <3>2, <3>4, <3>5, SeqEqual
    <3> QED
      BY <3>6 DEF s, t
  <2>5. /\ P.w <= n /\ (x = CR <=> P.w = n)
        /\ ReadOf(ws, P.w + 1) = IF x = CR THEN ReadOf(ws, P.w) ELSE Append(ReadOf(ws, P.w), x)
    <3>1. P.w <= n /\ P.w # n /\ x # CR
      BY <1>1, <1>4, <2>1
    <3>2. ReadOf(ws, P.w + 1) = Append(ReadOf(ws, P.w), x)
      BY <2>3, <2>4, Zenon
    <3> QED
      BY <3>1, <3>2
  <2> QED
    BY <2>1, <2>2, <2>5 DEF ws, n
<1>5. CASE P.w = n
  <2>1. x = CR /\ x # LF
    BY <1>1, <1>2, <1>3, <1>5
  <2>2. After(a, P) = Place(P.req, P.kind, P.k, P.w + 1)
    BY <1>1, <1>2, <1>5 DEF After, g
  <2>3. ReadOf(ws, P.w + 1) = ReadOf(ws, P.w)
    BY <1>1, <1>5 DEF ReadOf, n
  <2> QED
    BY <1>1, <1>5, <2>1, <2>2, <2>3 DEF ws, n
<1>6. CASE P.w = n + 1
  <2>1. x = LF
    <3>1. P.w + 1 = n + 2
      BY <1>1, <1>6
    <3> QED
      BY <1>2, <1>3, <3>1
  <2>2. After(a, P) = AfterSegment(a, P)
    BY <1>1, <1>2, <1>6 DEF After, g
  <2>3. ReadOf(ws, P.w) = SubSeq(ws, 1, Len(ws)) /\ SubSeq(ws, 1, Len(ws)) = ws
    BY <1>1, <1>6, SubSeqFull DEF ReadOf, n
  <2> QED
    BY <1>6, <2>1, <2>2, <2>3 DEF ws, n
<1> QED
  BY <1>1, <1>4, <1>5, <1>6 DEF ws, n

(* The members of a response.                                               *)
LEMMA ResponseIs ==
  ASSUME NEW q, NEW method, NEW state, NEW lineBuf, NEW version, NEW status, NEW headerAccum,
         NEW headers, NEW bytesRead, NEW chunked, NEW chunkLeft, NEW length, NEW willClose,
         NEW n, n = Response(q, method, state, lineBuf, version, status, headerAccum, headers,
                             bytesRead, chunked, chunkLeft, length, willClose)
  PROVE  /\ IsResponse(n)
         /\ n.req = q /\ n.method = method /\ n.state = state /\ n.lineBuf = lineBuf
         /\ n.version = version /\ n.status = status /\ n.headerAccum = headerAccum
         /\ n.headers = headers /\ n.bytesRead = bytesRead /\ n.chunked = chunked
         /\ n.chunkLeft = chunkLeft /\ n.length = length /\ n.willClose = willClose
  BY DEF IsResponse, Response

(* A response that is being read, and the token that comes next.            *)
Reader(r, a, g, P, x) ==
  /\ IsResponse(r) /\ r.req \in Nat /\ r.method \in Methods /\ a \in Answers[r.method]
  /\ P \in Places /\ Matches(r, a, g, "pump", P) /\ NextToken(a, P, x) /\ Ends(r)

(* The same response, later.                                                *)
Same(r, n) == IsResponse(n) /\ n.req = r.req /\ n.method = r.method /\ Ends(n)

Fresh(r, g, P) == P = First(r.req) /\ r = NewResponse(r.req, r.method) /\ g = Nothing

(* In a line, and in the one that ends a chunk.                             *)
LEMMA Lines ==
  ASSUME NEW r, NEW a, NEW g, NEW P, NEW x, Reader(r, a, g, P, x), r.state \in LineStates
  PROVE  \/ Fresh(r, g, P)
         \/ InHead(r, a, g, P)
         \/ Begun(r, a, g) /\ AtChunkEnd(r, a, P)
         \/ Begun(r, a, g) /\ InChunkLine(r, a, P)
  BY DEF Reader, Matches, LineStates, InBody, InChunk, IsComplete, Fresh

(* A place later in the same line.                                          *)
LEMMA AfterWithin ==
  ASSUME NEW r, NEW a, NEW P \in Places, NEW w \in Nat,
         NEW R, R = Place(P.req, P.kind, P.k, w)
  PROVE  /\ R \in Places /\ R.req = P.req /\ R.kind = P.kind /\ R.k = P.k /\ R.w = w
         /\ Words(a, R) = Words(a, P)
  BY SameSegment

(* A token of a line, that does not end it.                                 *)
LEMMA TokenOfLine ==
  ASSUME NEW r, NEW a, NEW g, NEW P, NEW x, Reader(r, a, g, P, x), r.state \in LineStates, x # LF,
         NEW n, n = [r EXCEPT !.lineBuf = IF x = CR THEN @ ELSE Append(@, x)]
  PROVE  /\ Same(r, n) /\ n.state = r.state
         /\ Matches(n, a, g, "pump", After(a, P))
<1> DEFINE R == After(a, P)
           buf2 == IF x = CR THEN r.lineBuf ELSE Append(r.lineBuf, x)
<1>0. n = Response(r.req, r.method, r.state, buf2, r.version, r.status, r.headerAccum, r.headers,
                   r.bytesRead, r.chunked, r.chunkLeft, r.length, r.willClose)
  BY DEF Reader, IsResponse, Response
<1>1. /\ Same(r, n) /\ n.state = r.state /\ n.chunked = r.chunked /\ n.chunkLeft = r.chunkLeft
      /\ n.lineBuf = buf2 /\ n.headerAccum = r.headerAccum /\ n.headers = r.headers
      /\ n.bytesRead = r.bytesRead /\ n.length = r.length /\ n.status = r.status
  BY <1>0, ResponseIs DEF Same, Ends, Reader
<1> HIDE DEF buf2
<1>2. CASE Fresh(r, g, P)
  <2> DEFINE kind == IF a.interim THEN "interim" ELSE "status"
  <2>1. P.kind = "start" /\ P.w = 0 /\ P.req = r.req /\ Segment(a, P) = <<Token("http")>>
    BY <1>2 DEF Fresh, First, Place, Segment
  <2>2. x = Token("http") /\ x # CR /\ Len(Segment(a, P)) = 1
    BY <2>1, TokenShape DEF Reader, NextToken
  <2>3. R = Place(r.req, kind, 0, 1)
    BY <2>1, <2>2 DEF After, AfterSegment
  <2>4. r.lineBuf = <<>> /\ r.state = "STATUSLINE" /\ r.headers = NoHeaders
        /\ r.bytesRead = 0 /\ ~r.chunked
    BY <1>2 DEF Fresh, NewResponse, NoHeaders
  <2>5. n.lineBuf = <<Token("http")>>
    BY <1>1, <2>2, <2>4 DEF buf2
  <2>6. R.req = r.req /\ R.kind = kind /\ R.w = 1 /\ kind \in StatusKinds
    BY <2>3 DEF Place, StatusKinds
  <2>7. /\ Len(Words(a, R)) = 2 /\ ReadOf(Words(a, R), 1) = <<Token("http")>>
    <3>1. Words(a, R) = <<Token("http"), Number(IF a.interim THEN 100 ELSE a.status)>>
      BY <2>6 DEF Words
    <3>2. ASSUME NEW y, NEW z PROVE Len(<<y, z>>) = 2 /\ SubSeq(<<y, z>>, 1, 1) = <<y>>
      <4>1. <<y, z>> \in Seq({y, z}) /\ Len(<<y, z>>) = 2
        OBVIOUS
      <4>2. SubSeq(<<y, z>>, 1, 1) = << <<y, z>>[1] >> \o SubSeq(<<y, z>>, 1 + 1, 1)
        <5>1. 1 \in 1 .. Len(<<y, z>>) /\ 1 \in 1 .. 1
          BY <4>1
        <5> QED
          BY <4>1, <5>1, SubSeqRecursiveFirst
      <4>3. SubSeq(<<y, z>>, 1 + 1, 1) = <<>>
        BY SubSeqEmpty
      <4>4. <<y>> \o <<>> = <<y>>
        <5>1. <<y>> \in Seq({y})
          OBVIOUS
        <5> QED
          BY <5>1, ConcatEmptySeq
      <4> QED
        BY <4>1, <4>2, <4>3, <4>4
    <3>3. Len(Words(a, R)) = 2 /\ SubSeq(Words(a, R), 1, 1) = <<Token("http")>>
      BY <3>1, <3>2
    <3> QED
      BY <3>3 DEF ReadOf
  <2> HIDE DEF R, kind
  <2>8. InLine(n, a, R)
    <3>1. StateOf(R.kind) = "STATUSLINE"
      BY <2>6 DEF StateOf, StatusKinds, HeaderKinds, SizeKinds
    <3>2. R.w <= Len(Words(a, R)) + 1
      BY <2>6, <2>7
    <3>3. n.lineBuf = ReadOf(Words(a, R), R.w)
      BY <2>5, <2>6, <2>7
    <3>4. R.req = n.req /\ n.state = "STATUSLINE"
      BY <1>1, <2>4, <2>6 DEF Same
    <3> QED
      BY <3>1, <3>2, <3>3, <3>4 DEF InLine
  <2>9. Belongs(a, R.kind) /\ Kept(a, R.kind) = NoHeaders /\ R.kind \notin HeaderKinds
    BY <2>6 DEF Belongs, Kept, StatusKinds, HeaderKinds
  <2>10. InHead(n, a, g, R)
    BY <1>1, <1>2, <2>4, <2>6, <2>8, <2>9 DEF InHead, Fresh
  <2> QED
    BY <1>1, <2>10 DEF Matches, R
<1>3. ASSUME P.kind \in LineKinds \cup {"chunk"}, WithinChunks(a, P), P.w <= Len(Words(a, P)) + 1
      PROVE  /\ R = Place(P.req, P.kind, P.k, P.w + 1) /\ P.w + 1 \in Nat
             /\ R.req = P.req /\ R.kind = P.kind /\ R.k = P.k /\ R.w = P.w + 1
             /\ Words(a, R) = Words(a, P)
             /\ P.w <= Len(Words(a, P))
             /\ x = CR <=> P.w = Len(Words(a, P))
             /\ ReadOf(Words(a, P), P.w + 1) =
                   IF x = CR THEN ReadOf(Words(a, P), P.w) ELSE Append(ReadOf(Words(a, P), P.w), x)
             /\ Len(Words(a, P)) \in Nat /\ P.w \in Nat
  <2>1. /\ R = Place(P.req, P.kind, P.k, P.w + 1)
        /\ P.w <= Len(Words(a, P))
        /\ x = CR <=> P.w = Len(Words(a, P))
        /\ ReadOf(Words(a, P), P.w + 1) =
              IF x = CR THEN ReadOf(Words(a, P), P.w) ELSE Append(ReadOf(Words(a, P), P.w), x)
    BY <1>3, LineStep DEF Reader
  <2>2. P \in Places /\ P.w + 1 \in Nat /\ P.w \in Nat
    BY DEF Reader, Places
  <2>3. Len(Words(a, P)) \in Nat
    BY <1>3, WordsShape DEF Reader
  <2> QED
    BY <2>1, <2>2, <2>3, AfterWithin
<1> HIDE DEF R
<1>4. ASSUME InLine(r, a, P), P.kind \in LineKinds, WithinChunks(a, P)
      PROVE  InLine(n, a, R) /\ R.kind = P.kind /\ R.k = P.k
  <2>1. P.w <= Len(Words(a, P)) + 1
    BY <1>4 DEF InLine
  <2>2. n.lineBuf = ReadOf(Words(a, R), R.w)
    BY <1>1, <1>3, <1>4, <2>1 DEF InLine, buf2
  <2>3. R.w <= Len(Words(a, R)) + 1
    BY <1>3, <1>4, <2>1
  <2> QED
    BY <1>1, <1>3, <1>4, <2>1, <2>2, <2>3 DEF InLine
<1>5. CASE InHead(r, a, g, P)
  <2>1. InLine(r, a, P) /\ P.kind \in LineKinds /\ WithinChunks(a, P)
    BY <1>5 DEF InHead, LineKinds, StatusKinds, HeaderKinds, WithinChunks
  <2>2. InLine(n, a, R) /\ R.kind = P.kind
    BY <1>4, <2>1
  <2>3. InHead(n, a, g, R)
    BY <1>1, <1>5, <2>2 DEF InHead
  <2> QED
    BY <1>1, <2>3 DEF Matches, R
<1>6. ASSUME Begun(r, a, g) PROVE Begun(n, a, g)
  BY <1>1, <1>6 DEF Begun, Same
<1>7. CASE Begun(r, a, g) /\ AtChunkEnd(r, a, P)
  <2>1. P.kind = "chunk" /\ P.k \in 1 .. Len(a.ends) /\ WithinChunks(a, P) /\ P.req = r.req
    BY <1>7 DEF AtChunkEnd, WithinChunks, Place
  <2>2. Len(Words(a, P)) = Size(a, P.k) /\ Size(a, P.k) \in Nat
    BY <2>1, WordsShape, AnswerShape DEF Reader
  <2>3. P.w <= Len(Words(a, P)) + 1
    BY <1>7, <2>2 DEF AtChunkEnd
  <2>4. R.w = Size(a, P.k) + 1 /\ x = CR
    BY <1>3, <1>7, <2>1, <2>2, <2>3 DEF AtChunkEnd
  <2>5. R = Place(r.req, "chunk", R.k, R.w) /\ R.k = P.k
    BY <1>3, <2>1, <2>3
  <2>6. AtChunkEnd(n, a, R)
    BY <1>1, <1>7, <2>1, <2>4, <2>5 DEF AtChunkEnd, buf2, Same
  <2> QED
    BY <1>1, <1>6, <1>7, <2>6 DEF Matches, R
<1>8. CASE Begun(r, a, g) /\ InChunkLine(r, a, P)
  <2>1. InLine(r, a, P) /\ P.kind \in LineKinds /\ WithinChunks(a, P)
    BY <1>8 DEF InChunkLine, LineKinds, SizeKinds, TrailerKinds, WithinChunks
  <2>2. InLine(n, a, R) /\ R.kind = P.kind /\ R.k = P.k
    BY <1>4, <2>1
  <2>3. InChunkLine(n, a, R)
    BY <1>1, <1>8, <2>2 DEF InChunkLine
  <2> QED
    BY <1>1, <1>6, <1>8, <2>3 DEF Matches, R
<1> QED
  BY <1>1, <1>2, <1>5, <1>7, <1>8, Lines DEF R

(* The end of a line.                                                       *)
LEMMA WholeLine ==
  ASSUME NEW r, NEW a, NEW g, NEW P, NEW x, Reader(r, a, g, P, x), r.state \in LineStates, x = LF
  PROVE  /\ After(a, P) = AfterSegment(a, P) /\ P.req = r.req
         /\ \/ InHead(r, a, g, P) /\ r.lineBuf = Words(a, P)
            \/ Begun(r, a, g) /\ AtChunkEnd(r, a, P)
            \/ Begun(r, a, g) /\ InChunkLine(r, a, P) /\ r.lineBuf = Words(a, P)
<1>1. ~Fresh(r, g, P)
  <2>1. SUFFICES ASSUME Fresh(r, g, P) PROVE FALSE
    OBVIOUS
  <2>2. P.kind = "start" /\ P.w = 0
    BY <2>1 DEF Fresh, First, Place
  <2>3. x = Token("http")
    BY <2>2 DEF Reader, NextToken, Segment
  <2> QED
    BY <2>3, TokenShape
<1>2. ASSUME P.kind \in LineKinds \cup {"chunk"}, WithinChunks(a, P), P.w <= Len(Words(a, P)) + 1
      PROVE  After(a, P) = AfterSegment(a, P) /\ ReadOf(Words(a, P), P.w) = Words(a, P)
  BY <1>2, LineStep DEF Reader
<1>3. ASSUME InLine(r, a, P), P.kind \in LineKinds, WithinChunks(a, P)
      PROVE  After(a, P) = AfterSegment(a, P) /\ P.req = r.req /\ r.lineBuf = Words(a, P)
  BY <1>2, <1>3 DEF InLine
<1>4. CASE InHead(r, a, g, P)
  <2>1. InLine(r, a, P) /\ P.kind \in LineKinds /\ WithinChunks(a, P)
    BY <1>4 DEF InHead, LineKinds, StatusKinds, HeaderKinds, WithinChunks
  <2> QED
    BY <1>3, <1>4, <2>1
<1>5. CASE Begun(r, a, g) /\ AtChunkEnd(r, a, P)
  <2>1. P.kind = "chunk" /\ P.k \in 1 .. Len(a.ends) /\ WithinChunks(a, P) /\ P.req = r.req
    BY <1>5 DEF AtChunkEnd, WithinChunks, Place
  <2>2. Len(Words(a, P)) = Size(a, P.k) /\ Size(a, P.k) \in Nat
    BY <2>1, WordsShape, AnswerShape DEF Reader
  <2>3. P.w <= Len(Words(a, P)) + 1
    BY <1>5, <2>2 DEF AtChunkEnd
  <2> QED
    BY <1>2, <1>5, <2>1, <2>3
<1>6. CASE Begun(r, a, g) /\ InChunkLine(r, a, P)
  <2>1. InLine(r, a, P) /\ P.kind \in LineKinds /\ WithinChunks(a, P)
    BY <1>6 DEF InChunkLine, LineKinds, SizeKinds, TrailerKinds, WithinChunks
  <2> QED
    BY <1>3, <1>6, <2>1
<1> QED
  BY <1>1, <1>4, <1>5, <1>6, Lines

(* A line begins.                                                           *)
LEMMA LineBegins ==
  ASSUME NEW n, NEW a, NEW P, P.w = 0, n.req = P.req, n.state = StateOf(P.kind), n.lineBuf = <<>>,
         Words(a, P) \in Seq(Tokens)
  PROVE  InLine(n, a, P)
<1>1. Len(Words(a, P)) \in Nat
  BY LenProperties
<1>2. ReadOf(Words(a, P), 0) = <<>>
  BY <1>1, SubSeqEmpty DEF ReadOf
<1> QED
  BY <1>1, <1>2 DEF InLine

StatusRead(r) ==
  [[r EXCEPT !.version = Version(r), !.status = NumberIn(Tail(r.lineBuf)),
             !.state = "HEADERS", !.headerAccum = <<>>] EXCEPT !.lineBuf = <<>>]

(* ProcessStatusLine.                                                       *)
LEMMA StatusLine ==
  ASSUME NEW r, NEW a, NEW g, NEW P, NEW x, Reader(r, a, g, P, x), r.state = "STATUSLINE", x = LF,
         GoodStatusLine(r), NEW n, n = StatusRead(r)
  PROVE  Same(r, n) /\ n.state = "HEADERS" /\ Matches(n, a, g, "pump", After(a, P))
<1>1. n = Response(r.req, r.method, "HEADERS", <<>>, Version(r), NumberIn(Tail(r.lineBuf)), <<>>,
                   r.headers, r.bytesRead, r.chunked, r.chunkLeft, r.length, r.willClose)
  BY DEF Reader, IsResponse, Response, StatusRead
<1>2. /\ n.req = r.req /\ n.method = r.method /\ n.state = "HEADERS" /\ n.lineBuf = <<>>
      /\ n.headerAccum = <<>> /\ n.headers = r.headers /\ n.chunkLeft = r.chunkLeft
      /\ n.bytesRead = r.bytesRead /\ n.chunked = r.chunked /\ n.status = NumberIn(Tail(r.lineBuf))
  BY <1>1, ResponseIs
<1>3. IsResponse(n)
  BY <1>1, ResponseIs
<1> DEFINE R == After(a, P)
<1>4. /\ R = AfterSegment(a, P) /\ P.req = r.req
      /\ InHead(r, a, g, P) /\ r.lineBuf = Words(a, P) /\ P.kind \in StatusKinds
  <2>1. r.state \in LineStates
    BY DEF LineStates
  <2>2. \A kind \in Kinds : StateOf(kind) = "STATUSLINE" => kind \in StatusKinds
    BY DEF StateOf
  <2>3. P.kind \in Kinds
    BY DEF Reader, Places
  <2> QED
    BY <2>1, <2>2, <2>3, WholeLine
       DEF InHead, InLine, InChunkLine, AtChunkEnd, StatusKinds, SizeKinds, TrailerKinds
<1>5. /\ n.status = IF P.kind = "interim" THEN 100 ELSE a.status
      /\ a.status \in Nat
  <2>1. r.lineBuf = <<Token("http"), Number(IF P.kind = "interim" THEN 100 ELSE a.status)>>
    BY <1>4 DEF Words, StatusKinds
  <2>2. NumberIn(Tail(r.lineBuf)) = IF P.kind = "interim" THEN 100 ELSE a.status
    BY <2>1 DEF NumberIn, Number
  <2> QED
    BY <1>2, <2>2, AnswerShape DEF Reader
<1>6. n.status \in 100 .. 999 /\ r.headers = NoHeaders /\ n.bytesRead = 0 /\ ~n.chunked
        /\ g = Nothing
  BY <1>2, <1>4 DEF GoodStatusLine, InHead, Kept, StatusKinds
<1> DEFINE kind == IF P.kind = "interim" THEN "interimEnd" ELSE
                   IF a.closes THEN "connection" ELSE
                   IF a.framing = "length" THEN "length" ELSE
                   IF a.framing = "chunked" THEN "coding" ELSE "headersEnd"
<1>7. R = Place(r.req, kind, 0, 0)
  <2>1. P.kind = "interim" => AfterSegment(a, P) = Place(r.req, "interimEnd", 0, 0)
    BY <1>4 DEF AfterSegment
  <2>2. P.kind = "status" =>
          AfterSegment(a, P) =
            IF a.closes THEN Place(r.req, "connection", 0, 0) ELSE Framing(r.req, a)
    BY <1>4 DEF AfterSegment
  <2> QED
    BY <1>4, <2>1, <2>2 DEF Framing, StatusKinds
<1>8. /\ a.framing \in {"length", "chunked", "none"} /\ a.closes \in BOOLEAN
      /\ P.kind \in {"interim", "status"}
  BY <1>4, AnswerShape DEF Reader, StatusKinds
<1>9. kind \in HeaderKinds /\ StateOf(kind) = "HEADERS"
  BY DEF HeaderKinds, StateOf, StatusKinds, SizeKinds
<1>10. Belongs(a, kind) /\ (kind = "interimEnd" <=> P.kind = "interim")
  BY <1>8 DEF Belongs
<1>11. Kept(a, kind) = NoHeaders
  BY <1>8 DEF Kept
<1>12. Accum(a, kind) = <<>>
  BY <1>8 DEF Accum, Closing
<1> HIDE DEF R, kind
<1>13. R \in Places /\ R.kind = kind /\ R.req = r.req /\ R.w = 0 /\ WithinChunks(a, R)
  BY <1>7, <1>9 DEF Places, Place, Kinds, LineKinds, HeaderKinds, WithinChunks, Reader
<1>14. Words(a, R) \in Seq(Tokens)
  BY <1>13, WordsShape DEF Reader
<1>15. InLine(n, a, R)
  BY <1>2, <1>9, <1>13, <1>14, LineBegins
<1>16. InHead(n, a, g, R)
  <2>1. n.status = IF R.kind = "interimEnd" THEN 100 ELSE a.status
    BY <1>5, <1>10, <1>13
  <2>2. R.kind # "interimEnd" => a.status \in 100 .. 999
    BY <1>6, <2>1
  <2>3. n.headers = Kept(a, R.kind) /\ n.headerAccum = Accum(a, R.kind) /\ Belongs(a, R.kind)
    BY <1>2, <1>6, <1>10, <1>11, <1>12, <1>13
  <2> QED
    BY <1>6, <1>9, <1>13, <1>15, <2>1, <2>2, <2>3 DEF InHead
<1> QED
  BY <1>2, <1>3, <1>6, <1>16 DEF Matches, R, Same, Ends

(* What Flushed leaves of the headers.                                      *)
HeadersOf(r) ==
  IF r.headerAccum = <<>> THEN r.headers
  ELSE [n \in DOMAIN r.headers \cup {r.headerAccum[1][1]} |->
          IF n = r.headerAccum[1][1] THEN Tail(r.headerAccum) ELSE r.headers[n]]

(* Flushed, by its members.                                                 *)
LEMMA FlushedIs ==
  ASSUME NEW r, IsResponse(r)
  PROVE  Flushed(r) = Response(r.req, r.method, r.state, r.lineBuf, r.version, r.status, <<>>,
                               HeadersOf(r), r.bytesRead, r.chunked, r.chunkLeft, r.length,
                               r.willClose)
<1>1. CASE r.headerAccum = <<>>
  BY <1>1 DEF IsResponse, Response, Flushed, HeadersOf
<1>2. CASE r.headerAccum # <<>>
  <2>1. Flushed(r) = [r EXCEPT !.headers = HeadersOf(r), !.headerAccum = <<>>]
    BY <1>2 DEF IsResponse, Flushed, HeadersOf
  <2> HIDE DEF HeadersOf
  <2> QED
    BY <2>1 DEF IsResponse, Response
<1> QED
  BY <1>1, <1>2

(* What flushing keeps, of headers that came with lines of these kinds.     *)
LEMMA KeptHeaders ==
  ASSUME NEW r, NEW a, NEW kind, r.headers = Kept(a, kind), r.headerAccum = Accum(a, kind),
         Belongs(a, kind)
  PROVE  /\ kind \in {"interimEnd", "connection"} => HeadersOf(r) = NoHeaders
         /\ kind \in {"length", "coding"} =>
              HeadersOf(r) = IF a.closes THEN [n \in {"connection"} |-> <<Token("close")>>]
                             ELSE NoHeaders
<1>1. CASE kind \in {"interimEnd", "connection"}
  <2>1. r.headerAccum = <<>> /\ r.headers = NoHeaders
    BY <1>1 DEF Accum, Kept
  <2> QED
    BY <1>1, <2>1 DEF HeadersOf
<1>2. CASE kind \in {"length", "coding"}
  <2>1. r.headerAccum = Closing(a) /\ r.headers = NoHeaders
    BY <1>2 DEF Accum, Kept
  <2>2. CASE a.closes
    <3>1. r.headerAccum = <<Token("connection"), Token("close")>>
      BY <2>1, <2>2 DEF Closing
    <3>2. /\ r.headerAccum # <<>> /\ r.headerAccum[1][1] = "connection"
          /\ Tail(r.headerAccum) = <<Token("close")>>
      BY <3>1 DEF Token
    <3>3. DOMAIN r.headers \cup {"connection"} = {"connection"}
      BY <2>1 DEF NoHeaders
    <3> QED
      BY <1>2, <2>2, <3>2, <3>3 DEF HeadersOf
  <2>3. CASE ~a.closes
    BY <1>2, <2>1, <2>3 DEF HeadersOf, Closing
  <2> QED
    BY <2>2, <2>3
<1> QED
  BY <1>1, <1>2

(* A line of the headers that is not the last one.                          *)
LEMMA OfHeader ==
  ASSUME NEW r, NEW a, NEW g, NEW P, NEW x, Reader(r, a, g, P, x), r.state = "HEADERS", x = LF
  PROVE  /\ InHead(r, a, g, P) /\ r.lineBuf = Words(a, P) /\ P.kind \in HeaderKinds
         /\ After(a, P) = AfterSegment(a, P) /\ P.req = r.req
         /\ P.kind \in {"interimEnd", "headersEnd"} <=> r.lineBuf = <<>>
<1>1. r.state \in LineStates
  BY DEF LineStates
<1>2. \A kind \in Kinds : StateOf(kind) = "HEADERS" => kind \in HeaderKinds
  BY DEF StateOf, Kinds, LineKinds, StatusKinds, HeaderKinds, SizeKinds, TrailerKinds
<1>3. P.kind \in Kinds
  BY DEF Reader, Places
<1>4. /\ InHead(r, a, g, P) /\ r.lineBuf = Words(a, P) /\ P.kind \in HeaderKinds
      /\ After(a, P) = AfterSegment(a, P) /\ P.req = r.req
  BY <1>1, <1>2, <1>3, WholeLine
     DEF InHead, InLine, InChunkLine, AtChunkEnd, HeaderKinds, SizeKinds, TrailerKinds
<1>5. P.kind \in {"interimEnd", "headersEnd"} <=> Words(a, P) = <<>>
  BY <1>4 DEF Words, HeaderKinds
<1> QED
  BY <1>4, <1>5

(* Two tokens, one after the other.                                         *)
LEMMA TwoTokens ==
  ASSUME NEW y, NEW z
  PROVE  <<y>> \o <<z>> = <<y, z>>
<1>1. <<y>> \in Seq({y, z}) /\ <<z>> \in Seq({y, z}) /\ <<y, z>> \in Seq({y, z})
  OBVIOUS
<1>2. Len(<<y>>) = 1 /\ Len(<<z>>) = 1 /\ Len(<<y, z>>) = 2
  OBVIOUS
<1>3. /\ <<y>> \o <<z>> \in Seq({y, z}) /\ Len(<<y>> \o <<z>>) = 2
      /\ \A i \in 1 .. 2 : (<<y>> \o <<z>>)[i] = IF i <= 1 THEN <<y>>[i] ELSE <<z>>[i - 1]
  BY <1>1, <1>2, ConcatProperties
<1>4. ASSUME NEW i \in 1 .. 2 PROVE (<<y>> \o <<z>>)[i] = <<y, z>>[i]
  BY <1>3
<1> QED
  BY <1>1, <1>2, <1>3, <1>4, SeqEqual

HeaderRead(r) ==
  [(IF Continued(r.lineBuf) THEN [r EXCEPT !.headerAccum = @ \o Tail(r.lineBuf)]
    ELSE [Flushed(r) EXCEPT !.headerAccum = r.lineBuf]) EXCEPT !.lineBuf = <<>>]

(* HeaderLine: a header begins, or is continued.                            *)
LEMMA NextHeader ==
  ASSUME NEW r, NEW a, NEW g, NEW P, NEW x, Reader(r, a, g, P, x), r.state = "HEADERS", x = LF,
         r.lineBuf # <<>>, NEW n, n = HeaderRead(r)
  PROVE  Same(r, n) /\ n.state = "HEADERS" /\ Matches(n, a, g, "pump", After(a, P))
<1> DEFINE R == After(a, P)
           line == r.lineBuf
           accum == IF Continued(line) THEN r.headerAccum \o Tail(line) ELSE line
           heads == IF Continued(line) THEN r.headers ELSE HeadersOf(r)
           kind == CASE P.kind = "connection" -> IF a.framing = "length" THEN "length" ELSE
                                   IF a.framing = "chunked" THEN "coding" ELSE "headersEnd"
                     [] P.kind = "coding" -> "folded"
                     [] OTHER -> "headersEnd"
<1>1. n = Response(r.req, r.method, "HEADERS", <<>>, r.version, r.status, accum, heads, r.bytesRead,
                   r.chunked, r.chunkLeft, r.length, r.willClose)
  <2>1. IsResponse(r)
    BY DEF Reader
  <2>2. CASE Continued(line)
    <3>1. accum = r.headerAccum \o Tail(line) /\ heads = r.headers
      BY <2>2
    <3>2. n = [[r EXCEPT !.headerAccum = @ \o Tail(line)] EXCEPT !.lineBuf = <<>>]
      BY <2>2 DEF HeaderRead
    <3> HIDE DEF accum, heads
    <3> QED
      BY <2>1, <3>1, <3>2 DEF IsResponse, Response
  <2>3. CASE ~Continued(line)
    <3> DEFINE f == Flushed(r)
               m == [f EXCEPT !.headerAccum = line]
    <3>1. n = [m EXCEPT !.lineBuf = <<>>] /\ accum = line /\ heads = HeadersOf(r)
      BY <2>3 DEF HeaderRead
    <3> HIDE DEF accum, heads
    <3>2. f = Response(r.req, r.method, r.state, r.lineBuf, r.version, r.status, <<>>, heads,
                       r.bytesRead, r.chunked, r.chunkLeft, r.length, r.willClose)
      BY <2>1, <3>1, FlushedIs
    <3> HIDE DEF f
    <3>3. m = Response(r.req, r.method, r.state, r.lineBuf, r.version, r.status, line, heads,
                       r.bytesRead, r.chunked, r.chunkLeft, r.length, r.willClose)
      BY <3>2 DEF Response
    <3> HIDE DEF m
    <3>4. [m EXCEPT !.lineBuf = <<>>] =
            Response(r.req, r.method, r.state, <<>>, r.version, r.status, line, heads, r.bytesRead,
                     r.chunked, r.chunkLeft, r.length, r.willClose)
      BY <3>3 DEF Response
    <3>5. r.state = "HEADERS"
      OBVIOUS
    <3> QED
      BY <3>1, <3>4, <3>5
  <2> QED
    BY <2>2, <2>3
<1> HIDE DEF accum, heads
<1>2. /\ n.req = r.req /\ n.method = r.method /\ n.state = "HEADERS" /\ n.lineBuf = <<>>
      /\ n.headerAccum = accum /\ n.headers = heads /\ n.chunkLeft = r.chunkLeft
      /\ n.bytesRead = r.bytesRead /\ n.chunked = r.chunked /\ n.status = r.status
  BY <1>1, ResponseIs
<1>3. IsResponse(n)
  BY <1>1, ResponseIs
<1>4. /\ InHead(r, a, g, P) /\ line = Words(a, P) /\ R = AfterSegment(a, P) /\ P.req = r.req
      /\ P.kind \in {"connection", "length", "coding", "folded"}
  BY OfHeader DEF HeaderKinds
<1>5. R = Place(r.req, kind, 0, 0)
  BY <1>4 DEF AfterSegment, Framing
<1>6. a.framing \in {"length", "chunked", "none"} /\ a.closes \in BOOLEAN
  BY AnswerShape DEF Reader
<1>7. /\ r.headers = Kept(a, P.kind) /\ r.headerAccum = Accum(a, P.kind) /\ Belongs(a, P.kind)
      /\ r.status = a.status /\ a.status \in 100 .. 999
      /\ n.bytesRead = 0 /\ ~n.chunked /\ g = Nothing
  BY <1>2, <1>4 DEF InHead, HeaderKinds
<1>8. Continued(line) <=> P.kind = "folded"
  <2>1. Continued(Words(a, P)) <=> P.kind = "folded"
    <3>1. P.kind = "folded" => Words(a, P) # <<>> /\ Words(a, P)[1] = Token("space")
      BY DEF Words
    <3>2. /\ P.kind = "connection" => Words(a, P)[1] = Token("connection")
          /\ P.kind = "length" => Words(a, P)[1] = Token("content-length")
          /\ P.kind = "coding" => Words(a, P)[1] = Token("transfer-encoding")
      BY DEF Words
    <3>3. Token("space") \notin
            {Token("connection"), Token("content-length"), Token("transfer-encoding")}
      BY DEF Token
    <3> QED
      BY <1>4, <3>1, <3>2, <3>3 DEF Continued
  <2> QED
    BY <1>4, <2>1
<1>9. accum = Accum(a, kind)
  <2>1. CASE P.kind = "folded"
    <3>1. a.framing = "chunked"
      BY <1>7, <2>1 DEF Belongs
    <3>2. r.headerAccum = <<Token("transfer-encoding")>> /\ Tail(line) = <<Token("chunked")>>
      BY <1>4, <1>7, <2>1 DEF Accum, Words
    <3>3. accum = <<Token("transfer-encoding"), Token("chunked")>>
      <4>1. \A y, z : <<y>> \o <<z>> = <<y, z>>
        BY TwoTokens
      <4> QED
        BY <1>8, <2>1, <3>2, <4>1 DEF accum
    <3> QED
      BY <2>1, <3>1, <3>3 DEF Accum
  <2>2. CASE P.kind # "folded"
    <3>1. accum = Words(a, P)
      BY <1>4, <1>8, <2>2 DEF accum
    <3>2. P.kind = "connection" => accum = Closing(a)
      BY <1>7, <3>1 DEF Words, Closing, Belongs
    <3> QED
      BY <1>4, <1>6, <1>7, <2>2, <3>1, <3>2 DEF Accum, Words, Belongs
  <2> QED
    BY <2>1, <2>2
<1>10. heads = Kept(a, kind)
  <2>1. CASE P.kind = "folded"
    BY <1>6, <1>7, <1>8, <2>1 DEF heads, Kept, Belongs
  <2>2. CASE P.kind # "folded"
    <3>1. heads = HeadersOf(r)
      BY <1>8, <2>2 DEF heads
    <3>2. /\ P.kind = "connection" => HeadersOf(r) = NoHeaders
          /\ P.kind \in {"length", "coding"} =>
               HeadersOf(r) = IF a.closes THEN [m \in {"connection"} |-> <<Token("close")>>]
                              ELSE NoHeaders
      BY <1>7, KeptHeaders
    <3>3. P.kind = "length" => a.framing = "length"
      BY <1>7 DEF Belongs
    <3> QED
      BY <1>4, <1>6, <2>2, <3>1, <3>2, <3>3 DEF Kept
  <2> QED
    BY <2>1, <2>2
<1>11. /\ kind \in HeaderKinds /\ StateOf(kind) = "HEADERS" /\ kind # "interimEnd"
       /\ Belongs(a, kind)
  <2>1. kind \in {"length", "coding", "headersEnd", "folded"}
    OBVIOUS
  <2>2. Belongs(a, kind)
    BY <1>4, <1>7 DEF Belongs
  <2> HIDE DEF kind
  <2> QED
    BY <2>1, <2>2 DEF HeaderKinds, StateOf, StatusKinds, SizeKinds
<1> HIDE DEF R, kind
<1>12. R \in Places /\ R.kind = kind /\ R.req = r.req /\ R.w = 0 /\ WithinChunks(a, R)
  BY <1>5, <1>11 DEF Places, Place, Kinds, LineKinds, HeaderKinds, WithinChunks, Reader
<1>13. Words(a, R) \in Seq(Tokens)
  BY <1>12, WordsShape DEF Reader
<1>14. InLine(n, a, R)
  BY <1>2, <1>11, <1>12, <1>13, LineBegins
<1>15. InHead(n, a, g, R)
  BY <1>2, <1>7, <1>9, <1>10, <1>11, <1>12, <1>14 DEF InHead
<1> QED
  BY <1>2, <1>3, <1>7, <1>15 DEF Matches, R, Same, Ends

InterimRead(r) == [[Flushed(r) EXCEPT !.state = "STATUSLINE"] EXCEPT !.lineBuf = <<>>]

(* The end of an interim answer.                                            *)
LEMMA InterimEnds ==
  ASSUME NEW r, NEW a, NEW g, NEW P, NEW x, Reader(r, a, g, P, x), r.state = "HEADERS", x = LF,
         r.lineBuf = <<>>, r.status = 100,
         NEW n, n = InterimRead(r)
  PROVE  Same(r, n) /\ n.state = "STATUSLINE" /\ Matches(n, a, g, "pump", After(a, P))
<1> DEFINE R == After(a, P)
<1>1. /\ InHead(r, a, g, P) /\ R = AfterSegment(a, P) /\ P.req = r.req
      /\ P.kind \in {"interimEnd", "headersEnd"}
  BY OfHeader
<1>2. P.kind = "interimEnd"
  <2>1. P.kind = "headersEnd" => r.status = a.status
    BY <1>1 DEF InHead, HeaderKinds
  <2>2. a.status # 100
    BY AnswerShape DEF Reader
  <2> QED
    BY <1>1, <2>1, <2>2
<1>3. HeadersOf(r) = NoHeaders
  <2>1. r.headers = Kept(a, P.kind) /\ r.headerAccum = Accum(a, P.kind) /\ Belongs(a, P.kind)
    BY <1>1, <1>2 DEF InHead, HeaderKinds
  <2> QED
    BY <1>2, <2>1, KeptHeaders
<1>4. n = Response(r.req, r.method, "STATUSLINE", <<>>, r.version, r.status, <<>>, NoHeaders,
                   r.bytesRead, r.chunked, r.chunkLeft, r.length, r.willClose)
  <2> DEFINE f == Flushed(r)
             m == [f EXCEPT !.state = "STATUSLINE"]
  <2>1. f = Response(r.req, r.method, r.state, r.lineBuf, r.version, r.status, <<>>, NoHeaders,
                     r.bytesRead, r.chunked, r.chunkLeft, r.length, r.willClose)
    BY <1>3, FlushedIs DEF Reader
  <2> HIDE DEF f
  <2>2. m = Response(r.req, r.method, "STATUSLINE", r.lineBuf, r.version, r.status, <<>>, NoHeaders,
                     r.bytesRead, r.chunked, r.chunkLeft, r.length, r.willClose)
    BY <2>1 DEF Response
  <2>3. n = [m EXCEPT !.lineBuf = <<>>]
    BY DEF f, InterimRead
  <2> HIDE DEF m
  <2> QED
    BY <2>2, <2>3 DEF Response
<1>5. /\ n.req = r.req /\ n.method = r.method /\ n.state = "STATUSLINE" /\ n.lineBuf = <<>>
      /\ n.headers = NoHeaders /\ n.bytesRead = r.bytesRead /\ n.chunked = r.chunked
  BY <1>4, ResponseIs
<1>6. IsResponse(n)
  BY <1>4, ResponseIs
<1>7. R = Place(r.req, "status", 0, 0)
  BY <1>1, <1>2 DEF AfterSegment
<1> HIDE DEF R
<1>8. R \in Places /\ R.kind = "status" /\ R.req = r.req /\ R.w = 0 /\ WithinChunks(a, R)
  BY <1>7 DEF Places, Place, Kinds, LineKinds, StatusKinds, WithinChunks, Reader
<1>9. Words(a, R) \in Seq(Tokens)
  BY <1>8, WordsShape DEF Reader
<1>10. StateOf(R.kind) = "STATUSLINE" /\ R.kind \in StatusKinds /\ R.kind \notin HeaderKinds
       /\ Kept(a, R.kind) = NoHeaders /\ Belongs(a, R.kind)
  BY <1>8 DEF StateOf, StatusKinds, HeaderKinds, SizeKinds, Kept, Belongs
<1>11. InLine(n, a, R)
  BY <1>5, <1>8, <1>9, <1>10, LineBegins
<1>12. InHead(n, a, g, R)
  BY <1>1, <1>5, <1>10, <1>11 DEF InHead
<1> QED
  BY <1>1, <1>5, <1>6, <1>12 DEF Matches, R, Same, Ends, InHead

(* A header of two words.                                                   *)
LEMMA TwoWords ==
  ASSUME NEW s, NEW name, NEW z, s = <<Token(name), z>>
  PROVE  s # <<>> /\ s[1][1] = name /\ Tail(s) = <<z>>
<1>1. Token(name)[1] = name
  BY DEF Token
<1> QED
  BY <1>1

(* The headers of an answer, when all have been read.                       *)
AllHeaders(h, a) ==
  /\ "connection" \in DOMAIN h <=> a.closes
  /\ a.closes => h["connection"] = <<Token("close")>>
  /\ "content-length" \in DOMAIN h <=> a.framing = "length"
  /\ a.framing = "length" => h["content-length"] = <<Number(Total(a))>>
  /\ "transfer-encoding" \in DOMAIN h <=> a.framing = "chunked"
  /\ a.framing = "chunked" => h["transfer-encoding"] = <<Token("chunked")>>

(* What has been kept, with what flushing adds, is all of the headers.      *)
LEMMA FinalHeaders ==
  ASSUME NEW r, NEW a, r.headers = Kept(a, "headersEnd"), r.headerAccum = Accum(a, "headersEnd"),
         a.framing \in {"length", "chunked", "none"}
  PROVE  AllHeaders(HeadersOf(r), a)
<1> DEFINE h == HeadersOf(r)
<1> HIDE DEF h
<1>1. CASE a.framing = "none"
  <2>1. r.headers = NoHeaders /\ r.headerAccum = Closing(a)
    BY <1>1 DEF Kept, Accum
  <2>2. CASE a.closes
    <3>1. r.headerAccum = <<Token("connection"), Token("close")>>
      BY <2>1, <2>2 DEF Closing
    <3>2. /\ r.headerAccum # <<>> /\ r.headerAccum[1][1] = "connection"
          /\ Tail(r.headerAccum) = <<Token("close")>>
      BY <3>1, TwoWords
    <3>3. DOMAIN r.headers \cup {"connection"} = {"connection"}
      BY <2>1 DEF NoHeaders
    <3>4. h = [n \in {"connection"} |-> <<Token("close")>>]
      BY <3>2, <3>3 DEF HeadersOf, h
    <3> QED
      BY <1>1, <2>2, <3>4 DEF AllHeaders, h
  <2>3. CASE ~a.closes
    <3>1. h = NoHeaders
      BY <2>1, <2>3 DEF Closing, HeadersOf, h
    <3> QED
      BY <1>1, <2>3, <3>1 DEF NoHeaders, AllHeaders, h
  <2> QED
    BY <2>2, <2>3
<1>2. CASE a.framing # "none"
  <2> DEFINE name == IF a.framing = "length" THEN "content-length" ELSE "transfer-encoding"
             value == IF a.framing = "length" THEN <<Number(Total(a))>> ELSE <<Token("chunked")>>
  <2>1. /\ r.headerAccum # <<>> /\ r.headerAccum[1][1] = name
        /\ Tail(r.headerAccum) = value
    <3>1. a.framing = "length" => r.headerAccum = <<Token("content-length"), Number(Total(a))>>
      BY DEF Accum
    <3>2. a.framing = "chunked" => r.headerAccum = <<Token("transfer-encoding"), Token("chunked")>>
      BY DEF Accum
    <3> QED
      BY <1>2, <3>1, <3>2, TwoWords
  <2> HIDE DEF value
  <2>2. h = [n \in DOMAIN r.headers \cup {name} |-> IF n = name THEN value ELSE r.headers[n]]
    BY <2>1 DEF HeadersOf, h
  <2>3. r.headers = IF a.closes THEN [n \in {"connection"} |-> <<Token("close")>>] ELSE NoHeaders
    BY <1>2 DEF Kept
  <2>4. h[name] = value /\ name \in DOMAIN h
    BY <2>2
  <2>5. "connection" \in DOMAIN h <=> a.closes
    BY <2>2, <2>3 DEF NoHeaders
  <2>6. a.closes => h["connection"] = <<Token("close")>>
    BY <2>2, <2>3
  <2>7. "content-length" \in DOMAIN h <=> a.framing = "length"
    BY <1>2, <2>2, <2>3 DEF NoHeaders
  <2>8. "transfer-encoding" \in DOMAIN h <=> a.framing = "chunked"
    BY <1>2, <2>2, <2>3 DEF NoHeaders
  <2> QED
    BY <1>2, <2>4, <2>5, <2>6, <2>7, <2>8 DEF value, AllHeaders, h
<1> QED
  BY <1>1, <1>2

WillClose(f) == CheckClose(f) \/ (~IsChunked(f) /\ LengthOf(f) = -1)
BeginRead(f) ==
  [[f EXCEPT !.chunked = IsChunked(f), !.chunkLeft = IF IsChunked(f) THEN -1 ELSE @,
             !.length = LengthOf(f), !.willClose = WillClose(f)] EXCEPT !.lineBuf = <<>>]

(* An answer whose body nothing else ends says that the connection closes.  *)
LEMMA SaidToClose ==
  \A method \in Methods : \A a \in Answers[method] :
    a.framing = "none" /\ ~a.bodyless /\ a.status \in 100 .. 999 => a.closes
<1> TAKE method \in Methods
<1> TAKE a \in Answers[method]
<1>1. a.framing = "none" /\ ~a.bodyless => a.closes \/ a.status \notin 100 .. 999
  BY AnswersAssumption, Zenon DEF Methods
<1> QED
  BY <1>1, Zenon

(* What BeginBody makes of the headers.                                     *)
LEMMA Determined ==
  ASSUME NEW f, NEW method \in Methods, NEW a \in Answers[method], f.method = method,
         f.status = a.status,
         a.status \in 100 .. 999, AllHeaders(f.headers, a)
  PROVE  /\ IsChunked(f) <=> SentInChunks(a)
         /\ LengthOf(f) = LengthGiven(a)
         /\ WillClose(f) <=> a.closes
<1>1. /\ a.framing \in {"length", "chunked", "none"}
      /\ a.bodyless \in BOOLEAN /\ a.closes \in BOOLEAN
      /\ a.bodyless <=> method = "HEAD" \/ a.status \in {204, 304}
      /\ a.bodyless => a.framing # "chunked"
      /\ a.status \notin 100 .. 199 /\ Total(a) \in Nat
  BY AnswerShape
<1>2. a.framing = "none" /\ ~a.bodyless => a.closes
  BY SaidToClose
<1>3. IsChunked(f) <=> a.framing = "chunked"
  BY DEF IsChunked, Has, AllHeaders
<1>4. NoBody(f) <=> a.bodyless
  BY <1>1 DEF NoBody
<1>5. a.framing = "length" => NumberIn(f.headers["content-length"]) = Total(a)
  <2>1. ASSUME NEW s, NEW y, s = <<Number(y)>> PROVE NumberIn(s) = y
    BY <2>1 DEF NumberIn, Number
  <2> QED
    BY <2>1 DEF AllHeaders
<1>6. LengthOf(f) = LengthGiven(a)
  BY <1>1, <1>3, <1>4, <1>5 DEF LengthOf, LengthGiven, Has, AllHeaders
<1>7. CheckClose(f) <=> a.closes
  BY DEF CheckClose, Has, AllHeaders
<1>8. LengthGiven(a) = -1 <=> a.framing # "length" /\ ~a.bodyless
  BY <1>1 DEF LengthGiven
<1>9. WillClose(f) <=> a.closes
  BY <1>1, <1>2, <1>3, <1>6, <1>7, <1>8 DEF WillClose
<1> QED
  BY <1>1, <1>3, <1>6, <1>9 DEF SentInChunks

(* The end of the headers.                                                  *)
LEMMA HeadersEnd ==
  ASSUME NEW r, NEW a, NEW g, NEW P, NEW x, Reader(r, a, g, P, x), r.state = "HEADERS", x = LF,
         r.lineBuf = <<>>, r.status # 100, NEW f, f = Flushed(r), NEW n, n = BeginRead(f)
  PROVE  /\ Same(r, n) /\ n.state = "HEADERS" /\ g = Nothing
         /\ f.req = r.req /\ f.status = a.status /\ (WillClose(f) <=> a.closes)
         /\ \A m : m = [begun |-> f.status, willClose |-> a.closes, data |-> <<>>]
                     => Matches(n, a, m, "begin", After(a, P))
<1>1. /\ InHead(r, a, g, P) /\ After(a, P) = AfterSegment(a, P) /\ P.req = r.req
      /\ P.kind \in {"interimEnd", "headersEnd"}
  BY OfHeader
<1>2. P.kind = "headersEnd"
  BY <1>1 DEF InHead, HeaderKinds
<1>3. /\ r.headers = Kept(a, "headersEnd") /\ r.headerAccum = Accum(a, "headersEnd")
      /\ r.status = a.status /\ a.status \in 100 .. 999
      /\ r.bytesRead = 0 /\ g = Nothing /\ r.state = "HEADERS"
  BY <1>1, <1>2 DEF InHead, HeaderKinds
<1>4. After(a, P) = AfterHeaders(r.req, a)
  BY <1>1, <1>2 DEF AfterSegment
<1>5. f = Response(r.req, r.method, r.state, r.lineBuf, r.version, r.status, <<>>, HeadersOf(r),
                   r.bytesRead, r.chunked, r.chunkLeft, r.length, r.willClose)
  BY FlushedIs DEF Reader
<1>6. f.headers = HeadersOf(r) /\ f.status = r.status /\ f.method = r.method /\ f.req = r.req
  BY <1>5, ResponseIs
<1>7. /\ IsChunked(f) <=> SentInChunks(a)
      /\ LengthOf(f) = LengthGiven(a)
      /\ WillClose(f) <=> a.closes
  <2>1. AllHeaders(f.headers, a)
    BY <1>3, <1>6, FinalHeaders, AnswerShape DEF Reader
  <2> QED
    BY <1>3, <1>6, <2>1, Determined DEF Reader
<1> DEFINE left == IF IsChunked(f) THEN -1 ELSE r.chunkLeft
<1>8. n = Response(r.req, r.method, r.state, <<>>, r.version, r.status, <<>>, HeadersOf(r),
                   r.bytesRead, IsChunked(f), left, LengthOf(f), WillClose(f))
  <2> DEFINE c == IsChunked(f)
             l == LengthOf(f)
             w == WillClose(f)
  <2>1. n = [[f EXCEPT !.chunked = c, !.chunkLeft = IF c THEN -1 ELSE @, !.length = l,
                       !.willClose = w] EXCEPT !.lineBuf = <<>>]
    BY DEF BeginRead
  <2> HIDE DEF c, l, w
  <2>2. left = IF c THEN -1 ELSE r.chunkLeft
    BY DEF c
  <2> HIDE DEF left
  <2> DEFINE m == [f EXCEPT !.chunked = c, !.chunkLeft = IF c THEN -1 ELSE @, !.length = l,
                            !.willClose = w]
  <2>3. m = Response(r.req, r.method, r.state, r.lineBuf, r.version, r.status, <<>>, HeadersOf(r),
                     r.bytesRead, c, left, l, w)
    <3>1. m = [f EXCEPT !.chunked = c, !.chunkLeft = IF c THEN -1 ELSE f.chunkLeft, !.length = l,
                        !.willClose = w]
      BY <1>5 DEF Response
    <3>2. f.chunkLeft = r.chunkLeft
      BY <1>5, ResponseIs
    <3>3. m = [f EXCEPT !.chunked = c, !.chunkLeft = left, !.length = l, !.willClose = w]
      BY <2>2, <3>1, <3>2
    <3> HIDE DEF m
    <3> DEFINE m1 == [f EXCEPT !.chunked = c]
               m2 == [m1 EXCEPT !.chunkLeft = left]
               m3 == [m2 EXCEPT !.length = l]
    <3>4. m = [m3 EXCEPT !.willClose = w]
      BY <3>3
    <3>5. m1 = Response(r.req, r.method, r.state, r.lineBuf, r.version, r.status, <<>>,
                        HeadersOf(r), r.bytesRead, c, r.chunkLeft, r.length, r.willClose)
      BY <1>5 DEF Response
    <3> HIDE DEF m1
    <3>6. m2 = Response(r.req, r.method, r.state, r.lineBuf, r.version, r.status, <<>>,
                        HeadersOf(r), r.bytesRead, c, left, r.length, r.willClose)
      BY <3>5 DEF Response
    <3> HIDE DEF m2
    <3>7. m3 = Response(r.req, r.method, r.state, r.lineBuf, r.version, r.status, <<>>,
                        HeadersOf(r), r.bytesRead, c, left, l, r.willClose)
      BY <3>6 DEF Response
    <3> HIDE DEF m3
    <3> QED
      BY <3>4, <3>7 DEF Response
  <2>4. n = [m EXCEPT !.lineBuf = <<>>]
    BY <2>1
  <2> HIDE DEF m
  <2>5. n = Response(r.req, r.method, r.state, <<>>, r.version, r.status, <<>>, HeadersOf(r),
                     r.bytesRead, c, left, l, w)
    BY <2>3, <2>4 DEF Response
  <2> QED
    BY <2>5 DEF c, l, w
<1> HIDE DEF left
<1>9. /\ IsResponse(n) /\ n.req = r.req /\ n.method = r.method /\ n.state = "HEADERS"
      /\ n.lineBuf = <<>> /\ n.bytesRead = 0 /\ n.chunked = IsChunked(f) /\ n.chunkLeft = left
      /\ n.length = LengthOf(f)
  BY <1>3, <1>8, ResponseIs
<1>10. Same(r, n)
  <2>1. n.chunked => n.chunkLeft = -1
    BY <1>9 DEF left
  <2> QED
    BY <1>9, <2>1 DEF Same, Ends
<1>11. ASSUME NEW m, m = [begun |-> f.status, willClose |-> a.closes, data |-> <<>>]
       PROVE  Begun(n, a, m)
  <2>1. SubSeq(BodyOf(r.req, a), 1, 0) = <<>> /\ Len(BodyOf(r.req, a)) \in Nat
    BY BodyShape, SubSeqEmpty, LenProperties DEF Reader
  <2>2. n.chunked = SentInChunks(a)
    BY <1>7, <1>9 DEF IsChunked, SentInChunks
  <2> QED
    BY <1>3, <1>6, <1>7, <1>9, <1>11, <2>1, <2>2 DEF Begun
<1>12. AtBegin(n, a, After(a, P))
  BY <1>4, <1>9 DEF AtBegin
<1> QED
  BY <1>3, <1>6, <1>7, <1>9, <1>10, <1>11, <1>12 DEF Matches

(* After the callback the body is read.                                     *)
LEMMA BodyStarts ==
  ASSUME NEW r, IsResponse(r), r.req \in Nat, r.method \in Methods, NEW a \in Answers[r.method],
         NEW g, NEW P, Matches(r, a, g, "begin", P), Ends(r),
         NEW n, n = [r EXCEPT !.state = IF r.chunked THEN "CHUNKLEN" ELSE "BODY"]
  PROVE  Same(r, n) /\ n.state # "COMPLETE" /\ Matches(n, a, g, "pump", P)
<1> DEFINE s == IF r.chunked THEN "CHUNKLEN" ELSE "BODY"
<1>1. n = Response(r.req, r.method, s, r.lineBuf, r.version, r.status, r.headerAccum, r.headers,
                   r.bytesRead, r.chunked, r.chunkLeft, r.length, r.willClose)
  BY DEF IsResponse, Response
<1>2. /\ IsResponse(n) /\ n.req = r.req /\ n.method = r.method /\ n.state = s
      /\ n.lineBuf = r.lineBuf
      /\ n.bytesRead = r.bytesRead /\ n.chunked = r.chunked /\ n.chunkLeft = r.chunkLeft
      /\ n.length = r.length
  BY <1>1, ResponseIs
<1>3. Begun(r, a, g) /\ AtBegin(r, a, P)
  BY DEF Matches
<1>4. Begun(n, a, g)
  BY <1>2, <1>3 DEF Begun
<1>5. Same(r, n) /\ n.state # "COMPLETE"
  BY <1>2 DEF Same, Ends
<1>6. CASE r.chunked
  <2>1. SentInChunks(a)
    BY <1>3, <1>6 DEF Begun
  <2>2. P = SizePlace(r.req, a, 1) /\ n.lineBuf = <<>> /\ n.bytesRead = 0 /\ n.state = "CHUNKLEN"
    BY <1>2, <1>3, <1>6, <2>1 DEF AtBegin, AfterHeaders
  <2>3. Len(a.ends) \in Nat /\ EndOf(a, 0) = 0 /\ Total(a) = EndOf(a, Len(a.ends))
    BY AnswerShape
  <2>4. /\ P \in Places /\ P.w = 0 /\ P.req = r.req /\ P.kind \in SizeKinds
        /\ P.kind = "size" => P.k = 1 /\ 1 <= Len(a.ends)
        /\ P.kind # "size" => Len(a.ends) = 0
    BY <2>2, <2>3 DEF SizePlace, Place, Places, SizeKinds, Kinds, LineKinds
  <2>5. WithinChunks(a, P)
    BY <2>3, <2>4 DEF WithinChunks, SizeKinds
  <2>6. Words(a, P) \in Seq(Tokens)
    BY <2>4, <2>5, WordsShape
  <2>7. StateOf(P.kind) = "CHUNKLEN"
    BY <2>4 DEF StateOf, SizeKinds, StatusKinds, HeaderKinds
  <2>8. InLine(n, a, P)
    BY <1>2, <2>2, <2>4, <2>6, <2>7, LineBegins
  <2>9. InChunkLine(n, a, P)
    <3>1. P.kind = "size" => P.k - 1 = 0
      BY <2>4
    <3> QED
      BY <1>2, <1>6, <2>2, <2>3, <2>4, <2>8, <3>1 DEF InChunkLine
  <2> QED
    BY <1>4, <1>5, <2>9 DEF Matches
<1>7. CASE ~r.chunked
  <2>1. ~SentInChunks(a)
    BY <1>3, <1>7 DEF Begun
  <2>2. P = BodyPlace(r.req, a, 0) /\ n.bytesRead = 0 /\ n.state = "BODY"
    BY <1>2, <1>3, <1>7, <2>1 DEF AtBegin, AfterHeaders
  <2>3. n.length # -1 => 0 < n.length \/ n.length = 0
    <3>1. n.length = LengthGiven(a) /\ Total(a) \in Nat
      BY <1>4, AnswerShape DEF Begun
    <3> QED
      BY <3>1 DEF LengthGiven
  <2>4. InBody(n, a, "pump", P)
    BY <1>2, <1>7, <2>2, <2>3 DEF InBody
  <2> QED
    BY <1>4, <1>5, <2>4 DEF Matches
<1> QED
  BY <1>6, <1>7

Finished(r) == [r EXCEPT !.state = "COMPLETE"]

(* Finished, by its members.                                                *)
LEMMA FinishedIs ==
  ASSUME NEW r, IsResponse(r), NEW n, n = Finished(r)
  PROVE  n = Response(r.req, r.method, "COMPLETE", r.lineBuf, r.version, r.status, r.headerAccum,
                      r.headers, r.bytesRead, r.chunked, r.chunkLeft, r.length, r.willClose)
  BY DEF IsResponse, Response, Finished

ChunkLenRead(r) ==
  [(IF NumberIn(r.lineBuf) = 0
    THEN [r EXCEPT !.chunkLeft = 0, !.state = "TRAILERS", !.headerAccum = <<>>]
    ELSE [r EXCEPT !.chunkLeft = NumberIn(r.lineBuf), !.state = "BODY"]) EXCEPT !.lineBuf = <<>>]

(* A line of a body in chunks.                                              *)
LEMMA OfChunkLine ==
  ASSUME NEW r, NEW a, NEW g, NEW P, NEW x, Reader(r, a, g, P, x),
         r.state \in {"CHUNKLEN", "TRAILERS"}, x = LF
  PROVE  /\ Begun(r, a, g) /\ InChunkLine(r, a, P) /\ r.lineBuf = Words(a, P)
         /\ After(a, P) = AfterSegment(a, P) /\ P.req = r.req
         /\ r.state = "CHUNKLEN" => P.kind \in SizeKinds
         /\ r.state = "TRAILERS" => P.kind \in TrailerKinds
<1>1. r.state \in LineStates
  BY DEF LineStates
<1>2. \A kind \in StatusKinds \cup HeaderKinds \cup SizeKinds \cup TrailerKinds :
        /\ StateOf(kind) = "CHUNKLEN" <=> kind \in SizeKinds
        /\ StateOf(kind) = "TRAILERS" <=> kind \in TrailerKinds
  BY DEF StateOf, StatusKinds, HeaderKinds, SizeKinds, TrailerKinds
<1>3. (StatusKinds \cup HeaderKinds) \cap (SizeKinds \cup TrailerKinds) = {}
  BY DEF StatusKinds, HeaderKinds, SizeKinds, TrailerKinds
<1>4. ~InHead(r, a, g, P)
  BY <1>2, <1>3 DEF InHead, InLine
<1>5. ~AtChunkEnd(r, a, P)
  BY DEF AtChunkEnd
<1> QED
  BY <1>1, <1>2, <1>3, <1>4, <1>5, WholeLine DEF InChunkLine, InLine

(* ProcessChunkLenLine.                                                     *)
LEMMA ChunkLenLine ==
  ASSUME NEW r, NEW a, NEW g, NEW P, NEW x, Reader(r, a, g, P, x), r.state = "CHUNKLEN", x = LF,
         NEW n, n = ChunkLenRead(r)
  PROVE  Same(r, n) /\ n.state # "COMPLETE" /\ Matches(n, a, g, "pump", After(a, P))
<1> DEFINE R == After(a, P)
           s == NumberIn(r.lineBuf)
           state == IF s = 0 THEN "TRAILERS" ELSE "BODY"
           accum == IF s = 0 THEN <<>> ELSE r.headerAccum
<1>1. /\ Begun(r, a, g) /\ InChunkLine(r, a, P) /\ r.lineBuf = Words(a, P)
      /\ R = AfterSegment(a, P) /\ P.req = r.req /\ P.kind \in SizeKinds
  BY OfChunkLine
<1>2. r.chunked /\ r.bytesRead = IF P.kind = "size" THEN EndOf(a, P.k - 1) ELSE Total(a)
  BY <1>1 DEF InChunkLine
<1>3. P.kind = "size" => /\ P.k \in 1 .. Len(a.ends)
                         /\ s = Size(a, P.k) /\ s \in Nat \ {0}
                         /\ R = Place(r.req, "chunk", P.k, 0)
  <2>1. P.kind = "size" => r.lineBuf = <<Number(Size(a, P.k))>>
    BY <1>1 DEF Words
  <2>2. P.kind = "size" => s = Size(a, P.k)
    BY <2>1 DEF NumberIn, Number
  <2>3. P.kind = "size" => P.k \in 1 .. Len(a.ends)
    BY <1>1 DEF InChunkLine
  <2>4. P.kind = "size" => Size(a, P.k) \in Nat \ {0}
    BY <2>3, AnswerShape DEF Reader
  <2> QED
    BY <1>1, <2>2, <2>3, <2>4 DEF AfterSegment
<1>4. P.kind # "size" => s = 0 /\ R = Place(r.req, "trailer", 0, 0)
  <2>1. P.kind # "size" => P.kind = "noChunk"
    BY <1>1 DEF SizeKinds
  <2>2. P.kind = "noChunk" => r.lineBuf = <<Number(0)>>
    BY <1>1 DEF Words
  <2>3. P.kind = "noChunk" => s = 0
    BY <2>2 DEF NumberIn, Number
  <2> QED
    BY <1>1, <2>1, <2>3 DEF AfterSegment
<1> HIDE DEF s, R
<1>5. n = Response(r.req, r.method, state, <<>>, r.version, r.status, accum, r.headers,
                   r.bytesRead, r.chunked, s, r.length, r.willClose)
  <2>1. IsResponse(r)
    BY DEF Reader
  <2>2. CASE s = 0
    <3> DEFINE m == [r EXCEPT !.chunkLeft = s, !.state = state, !.headerAccum = accum]
    <3>1. n = [m EXCEPT !.lineBuf = <<>>]
      BY <2>2 DEF ChunkLenRead, s
    <3> HIDE DEF state, accum
    <3> DEFINE m1 == [r EXCEPT !.chunkLeft = s]
               m2 == [m1 EXCEPT !.state = state]
    <3>3. m1 = Response(r.req, r.method, r.state, r.lineBuf, r.version, r.status, r.headerAccum,
                        r.headers, r.bytesRead, r.chunked, s, r.length, r.willClose)
      BY <2>1 DEF IsResponse, Response
    <3>4. m = [m2 EXCEPT !.headerAccum = accum]
      OBVIOUS
    <3> HIDE DEF m1, m
    <3>5. m2 = Response(r.req, r.method, state, r.lineBuf, r.version, r.status, r.headerAccum,
                        r.headers, r.bytesRead, r.chunked, s, r.length, r.willClose)
      BY <3>3 DEF Response
    <3> HIDE DEF m2
    <3>2. m = Response(r.req, r.method, state, r.lineBuf, r.version, r.status, accum, r.headers,
                      r.bytesRead, r.chunked, s, r.length, r.willClose)
      BY <3>4, <3>5 DEF Response
    <3> QED
      BY <3>1, <3>2 DEF Response
  <2>3. CASE s # 0
    <3> DEFINE m == [r EXCEPT !.chunkLeft = s, !.state = state]
    <3>1. n = [m EXCEPT !.lineBuf = <<>>] /\ accum = r.headerAccum
      BY <2>3 DEF ChunkLenRead, s
    <3> HIDE DEF state, accum
    <3> DEFINE m1 == [r EXCEPT !.chunkLeft = s]
               m2 == [m1 EXCEPT !.state = state]
    <3>3. m1 = Response(r.req, r.method, r.state, r.lineBuf, r.version, r.status, r.headerAccum,
                        r.headers, r.bytesRead, r.chunked, s, r.length, r.willClose)
      BY <2>1 DEF IsResponse, Response
    <3>4. m = m2
      OBVIOUS
    <3> HIDE DEF m1, m
    <3>2. m = Response(r.req, r.method, state, r.lineBuf, r.version, r.status, accum, r.headers,
                      r.bytesRead, r.chunked, s, r.length, r.willClose)
      BY <3>1, <3>3, <3>4 DEF Response
    <3> HIDE DEF m2
    <3> QED
      BY <3>1, <3>2 DEF Response
  <2> QED
    BY <2>2, <2>3
<1> HIDE DEF accum
<1>6. /\ IsResponse(n) /\ n.req = r.req /\ n.method = r.method /\ n.state = state
      /\ n.lineBuf = <<>> /\ n.bytesRead = r.bytesRead /\ n.chunked = r.chunked
      /\ n.chunkLeft = s /\ n.length = r.length
  BY <1>5, ResponseIs
<1>7. Same(r, n) /\ n.state # "COMPLETE" /\ Begun(n, a, g)
  <2>1. Begun(n, a, g)
    BY <1>1, <1>6 DEF Begun
  <2>2. s \in Nat
    BY <1>3, <1>4
  <2> QED
    BY <1>6, <2>1, <2>2 DEF Same, Ends
<1>8. CASE P.kind = "size"
  <2>1. /\ R.k = P.k /\ R.w = 0 /\ R = Place(r.req, "chunk", R.k, R.w)
    BY <1>3, <1>8 DEF Place
  <2>2. EndOf(a, P.k - 1) + 0 = EndOf(a, P.k - 1)
    <3>1. P.k - 1 \in 0 .. Len(a.ends) /\ Len(a.ends) \in Nat
      BY <1>3, <1>8, AnswerShape DEF Reader
    <3>2. EndOf(a, P.k - 1) \in Nat
      BY <3>1, AnswerShape DEF Reader
    <3> QED
      BY <3>2
  <2>3. InChunk(n, a, "pump", R)
    BY <1>2, <1>3, <1>6, <1>8, <2>1, <2>2 DEF InChunk
  <2> QED
    BY <1>7, <2>3 DEF Matches, R
<1>9. CASE P.kind # "size"
  <2>1. R \in Places /\ R.kind = "trailer" /\ R.req = r.req /\ R.w = 0 /\ WithinChunks(a, R)
    BY <1>4, <1>9 DEF Places, Place, Kinds, LineKinds, TrailerKinds, WithinChunks, Reader
  <2>2. Words(a, R) \in Seq(Tokens)
    BY <2>1, WordsShape DEF Reader
  <2>3. StateOf(R.kind) = "TRAILERS"
    BY <2>1 DEF StateOf, StatusKinds, HeaderKinds, SizeKinds
  <2>4. InLine(n, a, R)
    BY <1>4, <1>6, <1>9, <2>1, <2>2, <2>3, LineBegins
  <2>5. InChunkLine(n, a, R)
    BY <1>2, <1>6, <1>9, <2>1, <2>4 DEF InChunkLine, TrailerKinds
  <2> QED
    BY <1>7, <2>5 DEF Matches, R
<1> QED
  BY <1>8, <1>9

ChunkEndRead(r) == [[r EXCEPT !.state = "CHUNKLEN"] EXCEPT !.lineBuf = <<>>]

(* ChunkEndLine.                                                            *)
LEMMA EndOfChunk ==
  ASSUME NEW r, NEW a, NEW g, NEW P, NEW x, Reader(r, a, g, P, x), r.state = "CHUNKEND", x = LF,
         NEW n, n = ChunkEndRead(r)
  PROVE  Same(r, n) /\ n.state # "COMPLETE" /\ Matches(n, a, g, "pump", After(a, P))
<1> DEFINE R == After(a, P)
<1>1. /\ Begun(r, a, g) /\ AtChunkEnd(r, a, P) /\ R = AfterSegment(a, P) /\ P.req = r.req
  <2>1. r.state \in LineStates
    BY DEF LineStates
  <2>2. \A kind \in StatusKinds \cup HeaderKinds \cup SizeKinds \cup TrailerKinds :
          StateOf(kind) # "CHUNKEND"
    BY DEF StateOf
  <2> QED
    BY <2>1, <2>2, WholeLine DEF InHead, InChunkLine, InLine
<1>2. n = Response(r.req, r.method, "CHUNKLEN", <<>>, r.version, r.status, r.headerAccum, r.headers,
                   r.bytesRead, r.chunked, r.chunkLeft, r.length, r.willClose)
  BY DEF Reader, IsResponse, Response, ChunkEndRead
<1>3. /\ IsResponse(n) /\ n.req = r.req /\ n.method = r.method /\ n.state = "CHUNKLEN"
      /\ n.lineBuf = <<>> /\ n.bytesRead = r.bytesRead /\ n.chunked = r.chunked
      /\ n.chunkLeft = r.chunkLeft /\ n.length = r.length
  BY <1>2, ResponseIs
<1>4. Same(r, n) /\ Begun(n, a, g)
  BY <1>1, <1>3 DEF Same, Ends, Begun, Reader
<1>5. /\ P.k \in 1 .. Len(a.ends) /\ P.kind = "chunk" /\ r.chunked /\ r.bytesRead = EndOf(a, P.k)
  BY <1>1 DEF AtChunkEnd, Place
<1>6. R = SizePlace(r.req, a, P.k + 1)
  BY <1>1, <1>5 DEF AfterSegment
<1> HIDE DEF R
<1>7. Len(a.ends) \in Nat /\ Total(a) = EndOf(a, Len(a.ends))
  BY AnswerShape DEF Reader
<1>8. /\ R \in Places /\ R.w = 0 /\ R.req = r.req /\ R.kind \in SizeKinds
      /\ R.kind = "size" => R.k = P.k + 1 /\ P.k + 1 <= Len(a.ends)
      /\ R.kind # "size" => P.k = Len(a.ends)
  BY <1>5, <1>6, <1>7 DEF SizePlace, Place, Places, SizeKinds, Kinds, LineKinds, Reader
<1>9. WithinChunks(a, R)
  BY <1>5, <1>7, <1>8 DEF WithinChunks, SizeKinds
<1>10. Words(a, R) \in Seq(Tokens)
  BY <1>8, <1>9, WordsShape DEF Reader
<1>11. StateOf(R.kind) = "CHUNKLEN"
  BY <1>8 DEF StateOf, SizeKinds, StatusKinds, HeaderKinds
<1>12. InLine(n, a, R)
  BY <1>3, <1>8, <1>10, <1>11, LineBegins
<1>13. n.bytesRead = IF R.kind = "size" THEN EndOf(a, R.k - 1) ELSE Total(a)
  <2>1. R.kind = "size" => R.k - 1 = P.k
    BY <1>5, <1>8
  <2> QED
    BY <1>3, <1>5, <1>7, <1>8, <2>1
<1>14. InChunkLine(n, a, R)
  BY <1>3, <1>5, <1>8, <1>9, <1>12, <1>13 DEF InChunkLine, WithinChunks
<1> QED
  BY <1>3, <1>4, <1>14 DEF Matches, R

TrailerRead(r) == [r EXCEPT !.lineBuf = <<>>]

(* ProcessTrailerLine.                                                      *)
LEMMA TrailerLine ==
  ASSUME NEW r, NEW a, NEW g, NEW P, NEW x, Reader(r, a, g, P, x), r.state = "TRAILERS", x = LF,
         r.lineBuf # <<>>, NEW n, n = TrailerRead(r)
  PROVE  Same(r, n) /\ n.state # "COMPLETE" /\ Matches(n, a, g, "pump", After(a, P))
<1> DEFINE R == After(a, P)
<1>1. /\ Begun(r, a, g) /\ InChunkLine(r, a, P) /\ r.lineBuf = Words(a, P)
      /\ R = AfterSegment(a, P) /\ P.req = r.req /\ P.kind \in TrailerKinds
  BY OfChunkLine
<1>2. P.kind = "trailer"
  BY <1>1 DEF TrailerKinds, Words
<1>3. R = Place(r.req, "trailersEnd", 0, 0)
  BY <1>1, <1>2 DEF AfterSegment
<1> HIDE DEF R
<1>4. n = Response(r.req, r.method, r.state, <<>>, r.version, r.status, r.headerAccum, r.headers,
                   r.bytesRead, r.chunked, r.chunkLeft, r.length, r.willClose)
  BY DEF Reader, IsResponse, Response, TrailerRead
<1>5. /\ IsResponse(n) /\ n.req = r.req /\ n.method = r.method /\ n.state = "TRAILERS"
      /\ n.lineBuf = <<>> /\ n.bytesRead = r.bytesRead /\ n.chunked = r.chunked
      /\ n.chunkLeft = r.chunkLeft /\ n.length = r.length
  BY <1>4, ResponseIs
<1>6. Same(r, n) /\ Begun(n, a, g)
  BY <1>1, <1>5 DEF Same, Ends, Begun, Reader
<1>7. R \in Places /\ R.kind = "trailersEnd" /\ R.req = r.req /\ R.w = 0 /\ WithinChunks(a, R)
  BY <1>3 DEF Places, Place, Kinds, LineKinds, TrailerKinds, WithinChunks, Reader
<1>8. Words(a, R) \in Seq(Tokens)
  BY <1>7, WordsShape DEF Reader
<1>9. StateOf(R.kind) = "TRAILERS"
  BY <1>7 DEF StateOf, StatusKinds, HeaderKinds, SizeKinds
<1>10. InLine(n, a, R)
  BY <1>5, <1>7, <1>8, <1>9, LineBegins
<1>11. InChunkLine(n, a, R)
  BY <1>1, <1>2, <1>5, <1>7, <1>10 DEF InChunkLine, TrailerKinds
<1> QED
  BY <1>5, <1>6, <1>11 DEF Matches, R

(* LastTrailerLine.                                                         *)
LEMMA LastTrailer ==
  ASSUME NEW r, NEW a, NEW g, NEW P, NEW x, Reader(r, a, g, P, x), r.state = "TRAILERS", x = LF,
         r.lineBuf = <<>>, NEW n, n = Finished(r)
  PROVE  Same(r, n) /\ Begun(r, a, g) /\ Matches(n, a, g, "complete", After(a, P))
         /\ r.bytesRead = Len(BodyOf(r.req, a))
<1>1. /\ Begun(r, a, g) /\ InChunkLine(r, a, P) /\ r.lineBuf = Words(a, P)
      /\ After(a, P) = AfterSegment(a, P) /\ P.req = r.req /\ P.kind \in TrailerKinds
  BY OfChunkLine
<1>2. P.kind = "trailersEnd"
  <2>1. P.kind = "trailer" => Words(a, P) # <<>>
    BY DEF Words
  <2> QED
    BY <1>1, <2>1 DEF TrailerKinds
<1>3. After(a, P) = First(r.req + 1)
  BY <1>1, <1>2 DEF AfterSegment
<1>4. /\ IsResponse(n) /\ n.req = r.req /\ n.method = r.method /\ n.state = "COMPLETE"
      /\ n.bytesRead = r.bytesRead /\ n.chunked = r.chunked
      /\ n.chunkLeft = r.chunkLeft /\ n.length = r.length
  BY FinishedIs, ResponseIs DEF Reader
<1>5. Same(r, n) /\ Begun(n, a, g)
  BY <1>1, <1>4 DEF Same, Ends, Begun, Reader
<1>6. r.bytesRead = Len(BodyOf(r.req, a))
  <2>1. r.bytesRead = Total(a) /\ SentInChunks(a)
    BY <1>1, <1>2 DEF InChunkLine, Begun
  <2> QED
    BY <2>1, BodyShape DEF SentInChunks, Reader
<1>7. IsComplete(n, a, After(a, P))
  BY <1>3, <1>4, <1>6 DEF IsComplete
<1> QED
  BY <1>1, <1>5, <1>6, <1>7 DEF Matches

(* The least of one number, or of two.                                      *)
LEMMA MinIs ==
  ASSUME NEW k \in Int, NEW l \in Int
  PROVE  Min({k}) = k /\ Min({k} \cup {l}) = IF k <= l THEN k ELSE l
<1>1. Min({k}) \in {k}
  BY DEF Min
<1>2. CASE k <= l
  <2>1. \A y \in {k} \cup {l} : k =< y
    BY <1>2
  <2>2. \A z \in {k} \cup {l} : (\A y \in {k} \cup {l} : z =< y) => z = k
    BY <1>2
  <2> QED
    BY <1>1, <1>2, <2>1, <2>2 DEF Min
<1>3. CASE ~(k <= l)
  <2>1. \A y \in {k} \cup {l} : l =< y
    BY <1>3
  <2>2. \A z \in {k} \cup {l} : (\A y \in {k} \cup {l} : z =< y) => z = l
    BY <1>3
  <2> QED
    BY <1>1, <1>3, <2>1, <2>2 DEF Min
<1> QED
  BY <1>2, <1>3

(* A cut in what was received, of all that is on its way.                   *)
LEMMA CutConcat ==
  ASSUME NEW s \in Seq(Tokens), NEW t \in Seq(Tokens), NEW n \in 0 .. Len(s)
  PROVE  /\ SubSeq(s \o t, 1, n) = SubSeq(s, 1, n)
         /\ SubSeq(s \o t, n + 1, Len(s \o t)) = SubSeq(s, n + 1, Len(s)) \o t
         /\ SubSeq(s, 1, n) \in Seq(Tokens) /\ SubSeq(s, n + 1, Len(s)) \in Seq(Tokens)
         /\ Len(SubSeq(s, 1, n)) = n /\ Len(SubSeq(s, n + 1, Len(s))) = Len(s) - n
<1> DEFINE v == s \o t
           ls == Len(s)
           lt == Len(t)
           x == SubSeq(s, n + 1, ls)
<1>1. ls \in Nat /\ lt \in Nat /\ n \in Nat /\ n <= ls
  BY LenProperties
<1>2. /\ v \in Seq(Tokens) /\ Len(v) = ls + lt
      /\ \A i \in 1 .. ls + lt : v[i] = IF i <= ls THEN s[i] ELSE t[i - ls]
  BY ConcatProperties
<1>3. /\ SubSeq(s, 0 + 1, n) \in Seq(Tokens) /\ Len(SubSeq(s, 0 + 1, n)) = n - 0
      /\ \A i \in 1 .. n - 0 : SubSeq(s, 0 + 1, n)[i] = s[0 + i]
  <2>1. 0 \in 0 .. Len(s) /\ n \in 0 .. Len(s)
    BY <1>1
  <2> QED
    BY <2>1, Slice
<1>4. /\ x \in Seq(Tokens) /\ Len(x) = ls - n
      /\ \A i \in 1 .. ls - n : x[i] = s[n + i]
  <2>1. ls \in n .. Len(s)
    BY <1>1
  <2> QED
    BY <2>1, Slice
<1>5. /\ SubSeq(v, 0 + 1, n) \in Seq(Tokens) /\ Len(SubSeq(v, 0 + 1, n)) = n - 0
      /\ \A i \in 1 .. n - 0 : SubSeq(v, 0 + 1, n)[i] = v[0 + i]
  <2>1. 0 \in 0 .. Len(v) /\ n \in 0 .. Len(v)
    BY <1>1, <1>2
  <2> HIDE DEF v
  <2> QED
    BY <1>2, <2>1, Slice
<1>6. /\ SubSeq(v, n + 1, ls + lt) \in Seq(Tokens) /\ Len(SubSeq(v, n + 1, ls + lt)) = (ls + lt) - n
      /\ \A i \in 1 .. (ls + lt) - n : SubSeq(v, n + 1, ls + lt)[i] = v[n + i]
  <2> DEFINE e == ls + lt
  <2>1. n \in 0 .. Len(v) /\ e \in n .. Len(v)
    BY <1>1, <1>2
  <2> HIDE DEF v, e
  <2>2. /\ SubSeq(v, n + 1, e) \in Seq(Tokens) /\ Len(SubSeq(v, n + 1, e)) = e - n
        /\ \A i \in 1 .. e - n : SubSeq(v, n + 1, e)[i] = v[n + i]
    BY <1>2, <2>1, Slice
  <2> QED
    BY <2>2 DEF e
<1>7. /\ x \o t \in Seq(Tokens) /\ Len(x \o t) = (ls - n) + lt
      /\ \A i \in 1 .. (ls - n) + lt : (x \o t)[i] = IF i <= ls - n THEN x[i] ELSE t[i - (ls - n)]
  <2> HIDE DEF x
  <2>1. /\ x \o t \in Seq(Tokens) /\ Len(x \o t) = Len(x) + Len(t)
        /\ \A i \in 1 .. Len(x) + Len(t) : (x \o t)[i] = IF i <= Len(x) THEN x[i] ELSE t[i - Len(x)]
    BY <1>4, ConcatProperties
  <2>2. Len(x) = ls - n /\ Len(t) = lt
    BY <1>4
  <2> HIDE DEF ls, lt
  <2> QED
    BY <2>1, <2>2
<1> HIDE DEF v, x, ls, lt
<1>8. SubSeq(v, 1, n) = SubSeq(s, 1, n)
  <2>1. 0 + 1 = 1 /\ n - 0 = n /\ \A i \in 1 .. n : 0 + i = i /\ i \in 1 .. ls + lt /\ i <= ls
    BY <1>1
  <2>2. \A i \in 1 .. n : SubSeq(v, 1, n)[i] = SubSeq(s, 1, n)[i]
    BY <1>2, <1>3, <1>5, <2>1
  <2> QED
    BY <1>3, <1>5, <2>1, <2>2, SeqEqual
<1>9. SubSeq(v, n + 1, ls + lt) = x \o t
  <2>1. (ls + lt) - n = (ls - n) + lt
    BY <1>1
  <2>2. ASSUME NEW i \in 1 .. (ls - n) + lt PROVE SubSeq(v, n + 1, ls + lt)[i] = (x \o t)[i]
    <3>1. SubSeq(v, n + 1, ls + lt)[i] = v[n + i] /\ n + i \in 1 .. ls + lt
      BY <1>1, <1>6, <2>1
    <3>2. CASE i <= ls - n
      <4>1. n + i <= ls /\ i \in 1 .. ls - n
        BY <1>1, <3>2
      <4> QED
        BY <1>2, <1>4, <1>7, <3>1, <3>2, <4>1
    <3>3. CASE ~(i <= ls - n)
      <4>1. ~(n + i <= ls) /\ (n + i) - ls = i - (ls - n)
        BY <1>1, <3>3
      <4> QED
        BY <1>2, <1>7, <3>1, <3>3, <4>1
    <3> QED
      BY <3>2, <3>3
  <2> QED
    BY <1>6, <1>7, <2>1, <2>2, SeqEqual
<1>10. SubSeq(s, 1, n) \in Seq(Tokens) /\ Len(SubSeq(s, 1, n)) = n
  <2>1. 0 + 1 = 1 /\ n - 0 = n
    BY <1>1
  <2> QED
    BY <1>3, <2>1
<1>11. SubSeq(v, n + 1, Len(v)) = x \o t
  BY <1>2, <1>9
<1> QED
  BY <1>4, <1>8, <1>10, <1>11 DEF v, x, ls

(* The first of what was received.                                          *)
LEMMA HeadConcat ==
  ASSUME NEW s \in Seq(Tokens), NEW t \in Seq(Tokens), s # <<>>
  PROVE  /\ s \o t \in Seq(Tokens) /\ s \o t # <<>>
         /\ Head(s \o t) = Head(s) /\ Tail(s \o t) = Tail(s) \o t
         /\ Tail(s) \in Seq(Tokens) /\ Head(s) \in Tokens
<1>1. Len(s) \in Nat \ {0} /\ Len(t) \in Nat
  BY LenProperties, EmptySeq
<1>2. 1 \in 0 .. Len(s) /\ 1 + 1 = 2 /\ 0 < Len(s)
  BY <1>1
<1>3. /\ s \o t \in Seq(Tokens) /\ Len(s \o t) = Len(s) + Len(t)
      /\ (s \o t)[1] = s[1]
  BY <1>1, ConcatProperties
<1>4. 0 < Len(s \o t)
  BY <1>1, <1>3
<1>5. s \o t # <<>> /\ Head(s \o t) = (s \o t)[1]
  BY <1>3, <1>4, FirstAndRest
<1>6. Head(s) = s[1] /\ Tail(s) \in Seq(Tokens) /\ Head(s) \in Tokens
  BY <1>2, FirstAndRest
<1>7. Tail(s \o t) = SubSeq(s \o t, 2, Len(s \o t)) /\ Tail(s) = SubSeq(s, 2, Len(s))
  BY <1>3, <1>5, TailIsSubSeq
<1>8. SubSeq(s \o t, 1 + 1, Len(s \o t)) = SubSeq(s, 1 + 1, Len(s)) \o t
  BY <1>2, CutConcat
<1> QED
  BY <1>2, <1>3, <1>5, <1>6, <1>7, <1>8

LimitOf(r) == IF r.chunked THEN {r.chunkLeft}
              ELSE IF r.length # -1 THEN {r.length - r.bytesRead}
              ELSE {}
Passed(r, b) == Min({Len(b)} \cup LimitOf(r))
DataRead(r, n) == [r EXCEPT !.bytesRead = @ + n, !.chunkLeft = IF r.chunked THEN @ - n ELSE @]
DataTold(g, d) == [g EXCEPT !.data = @ \o d]

(* The body that has been passed on, and more of it.                        *)
LEMMA BodyGrows ==
  ASSUME NEW method \in Methods, NEW a \in Answers[method], NEW q \in Nat,
         NEW k \in Nat, NEW n \in Nat, k + n <= Len(BodyOf(q, a))
  PROVE  SubSeq(BodyOf(q, a), 1, k) \o SubSeq(BodyOf(q, a), k + 1, k + n) =
           SubSeq(BodyOf(q, a), 1, k + n)
<1> DEFINE s == BodyOf(q, a)
           e == k + n
<1>1. s \in Seq(Tokens) /\ Len(s) \in Nat
  BY BodyShape, LenProperties
<1>2. 1 \in 1 .. Len(s) + 1 /\ k \in 1 - 1 .. Len(s) /\ e \in k .. Len(s)
  BY <1>1
<1> HIDE DEF s, e
<1>3. SubSeq(s, 1, k) \o SubSeq(s, k + 1, e) = SubSeq(s, 1, e)
  BY <1>1, <1>2, ConcatAdjacentSubSeq
<1> QED
  BY <1>3 DEF s, e

(* Slices with the same elements.                                           *)
LEMMA SameSlices ==
  ASSUME NEW s \in Seq(Tokens), NEW t \in Seq(Tokens), NEW w \in Nat, NEW n \in Nat,
         n <= Len(t), w + n <= Len(s), \A i \in 1 .. n : t[i] = s[w + i]
  PROVE  SubSeq(t, 1, n) = SubSeq(s, w + 1, w + n)
<1> DEFINE x == SubSeq(t, 1, n)
           y == SubSeq(s, w + 1, w + n)
<1>1. x \in Seq(Tokens) /\ Len(x) = n /\ \A i \in 1 .. n : x[i] = t[i]
  <2>1. 0 + 1 = 1 /\ 0 + n = n /\ \A i \in 1 .. n : 0 + i = i
    OBVIOUS
  <2>2. /\ SubSeq(t, 0 + 1, 0 + n) \in Seq(Tokens) /\ Len(SubSeq(t, 0 + 1, 0 + n)) = n
        /\ \A i \in 1 .. n : SubSeq(t, 0 + 1, 0 + n)[i] = t[0 + i]
    BY <2>1, SliceOf
  <2> QED
    BY <2>1, <2>2
<1>2. y \in Seq(Tokens) /\ Len(y) = n /\ \A i \in 1 .. n : y[i] = s[w + i]
  BY SliceOf
<1> HIDE DEF x, y
<1>3. x = y
  BY <1>1, <1>2, SeqEqual
<1> QED
  BY <1>3 DEF x, y

(* n tokens are part of the body, and those that follow lead on from R.     *)
Taken(ans, u, r, a, b, t, n, R, Q) ==
  /\ n \in 0 .. Len(b) /\ r.bytesRead + n <= Len(BodyOf(r.req, a))
  /\ SubSeq(b, 1, n) = SubSeq(BodyOf(r.req, a), r.bytesRead + 1, r.bytesRead + n)
  /\ R \in Places
  /\ Path(ans, u, SubSeq(b, n + 1, Len(b)) \o t, R, Q)

(* Bytes of a body that is not sent in chunks.                              *)
LEMMA InOnePiece ==
  ASSUME NEW ans, NEW u, NEW r, NEW a, NEW g, NEW P, NEW x, Reader(r, a, g, P, x), a = ans[r.req],
         Begun(r, a, g), InBody(r, a, "pump", P),
         NEW b \in Seq(Tokens), b # <<>>, NEW t \in Seq(Tokens), NEW Q, Path(ans, u, b \o t, P, Q),
         NEW n, n = Passed(r, b)
  PROVE  Taken(ans, u, r, a, b, t, n, BodyPlace(r.req, a, r.bytesRead + n), Q)
<1>0. SUFFICES
        /\ n \in 0 .. Len(b) /\ r.bytesRead + n <= Len(BodyOf(r.req, a))
        /\ SubSeq(b, 1, n) = SubSeq(BodyOf(r.req, a), r.bytesRead + 1, r.bytesRead + n)
        /\ BodyPlace(r.req, a, r.bytesRead + n) \in Places
        /\ Path(ans, u, SubSeq(b, n + 1, Len(b)) \o t, BodyPlace(r.req, a, r.bytesRead + n), Q)
  BY DEF Taken
<1> DEFINE q == r.req
           body == BodyOf(q, a)
           all == Len(body)
           k == r.bytesRead
           v == b \o t
<1>1. /\ body \in Seq(Tokens) /\ all \in Nat /\ k \in 0 .. all /\ k \in Nat
      /\ all = IF a.bodyless THEN 0 ELSE Total(a)
      /\ r.req \in Nat /\ r.method \in Methods /\ a \in Answers[r.method] /\ P \in Places
  <2>1. r.req \in Nat /\ r.method \in Methods /\ a \in Answers[r.method] /\ P \in Places
    BY DEF Reader
  <2>2. body \in Seq(Tokens) /\ all = IF a.bodyless THEN 0 ELSE Total(a)
    BY <2>1, BodyShape
  <2>3. all \in Nat
    BY <2>2, LenProperties
  <2>4. k \in 0 .. all
    BY DEF Begun
  <2> QED
    BY <2>1, <2>2, <2>3, <2>4
<1>2. /\ Len(b) \in Nat \ {0} /\ Len(t) \in Nat
      /\ v \in Seq(Tokens) /\ Len(v) = Len(b) + Len(t) /\ v # <<>>
  BY LenProperties, EmptySeq, ConcatProperties
<1>3. ~r.chunked /\ ~SentInChunks(a) /\ r.length = LengthGiven(a) /\ P = BodyPlace(q, a, k)
  BY DEF Begun, InBody
<1>4. r.length # -1 => r.length = all
  BY <1>1, <1>3, AnswerShape DEF LengthGiven
<1>5. n = IF r.length = -1 THEN Len(b) ELSE IF Len(b) <= all - k THEN Len(b) ELSE all - k
  <2>1. CASE r.length = -1
    <3>1. LimitOf(r) = {} /\ {Len(b)} \cup LimitOf(r) = {Len(b)}
      BY <1>3, <2>1 DEF LimitOf
    <3> QED
      BY <1>2, <2>1, <3>1, MinIs DEF Passed
  <2>2. CASE r.length # -1
    <3>1. LimitOf(r) = {all - k} /\ all - k \in Int
      BY <1>1, <1>3, <1>4, <2>2 DEF LimitOf
    <3> DEFINE l == all - k
    <3>2. {Len(b)} \cup LimitOf(r) = {Len(b)} \cup {l} /\ l \in Int
      BY <3>1
    <3> HIDE DEF l
    <3>3. Passed(r, b) = IF Len(b) <= l THEN Len(b) ELSE l
      <4>1. Min({Len(b)} \cup {l}) = IF Len(b) <= l THEN Len(b) ELSE l
        <5>1. Len(b) \in Int /\ l \in Int
          BY <1>2, <3>2
        <5> QED
          BY <5>1, MinIs, Zenon
      <4> QED
        BY <3>2, <4>1 DEF Passed
    <3> QED
      BY <2>2, <3>3 DEF l
  <2> QED
    BY <2>1, <2>2
<1> HIDE DEF q, body, all, k, v
<1>6. ASSUME k < all
      PROVE  /\ P = Place(q, "body", 0, k) /\ P.req = q /\ P.w = k /\ P.kind = "body" /\ P.k = 0
             /\ Segment(a, P) = body
             /\ \A i \in 0 .. all - k : SegPlace(a, P, i) = BodyPlace(q, a, k + i)
  <2>1. P = Place(q, "body", 0, k) /\ P.req = q /\ P.w = k /\ P.kind = "body" /\ P.k = 0
    BY <1>3, <1>6 DEF BodyPlace, Place, all, body
  <2>2. Segment(a, P) = body
    BY <2>1 DEF Segment, body
  <2>3. AfterSegment(a, P) = Done(q, a)
    BY <2>1 DEF AfterSegment
  <2>4. ASSUME NEW i \in 0 .. all - k PROVE SegPlace(a, P, i) = BodyPlace(q, a, k + i)
    BY <2>1, <2>2, <2>3 DEF SegPlace, BodyPlace, all, body
  <2> QED
    BY <2>1, <2>2, <2>4
<1>7. ASSUME r.length = -1
      PROVE  Done(q, a) = Place(q, "end", 0, 0)
  <2>1. ~a.bodyless /\ a.framing # "length"
    BY <1>1, <1>3, <1>7, AnswerShape DEF LengthGiven
  <2>2. a.framing = "none"
    BY <1>1, <1>3, <2>1, AnswerShape DEF SentInChunks
  <2>3. a.closes
    BY <1>1, <2>1, <2>2, SaidToClose DEF Begun
  <2> QED
    BY <2>1, <2>2, <2>3 DEF Done, UntilClose
<1>8. Len(Segment(a, Place(q, "end", 0, 0))) = 0 /\ \A c : Segment(c, Place(q, "end", 0, 0)) = <<>>
  BY DEF Segment, Place
<1>9. ASSUME r.length = -1
      PROVE  k < all /\ Len(b) <= all - k
  <2>1. k < all
    <3>1. SUFFICES ASSUME k = all PROVE FALSE
      BY <1>1 DEF k, all
    <3>2. P = Place(q, "end", 0, 0)
      BY <1>1, <1>3, <1>7, <1>9, <3>1 DEF BodyPlace, k, all, body
    <3>3. P.w = 0 /\ Len(Segment(a, P)) = 0
      BY <1>8, <3>2 DEF Place
    <3> QED
      BY <3>3 DEF Reader, NextToken
  <2>2. SUFFICES ASSUME ~(Len(b) <= all - k) PROVE FALSE
    BY <2>1
  <2> DEFINE m == all - k
             rest == SubSeq(v, m + 1, Len(v))
  <2>3. m \in 0 .. Len(v) /\ m < Len(v) /\ k + m = all
    BY <1>1, <1>2, <2>1, <2>2 DEF k, all
  <2>4. Path(ans, u, rest, SegPlace(a, P, m), Q)
    <3>1. a = ans[P.req] /\ Segment(a, P) \in Seq(Tokens) /\ P.w < Len(Segment(a, P))
          /\ P.w + m <= Len(Segment(a, P))
      BY <1>1, <1>6, <2>1, <2>3 DEF all, q, body, k
    <3>2. Path(ans, u, v, P, Q)
      BY DEF v
    <3> HIDE DEF m
    <3> QED
      BY <1>1, <1>2, <2>3, <3>1, <3>2, PathAlong
  <2>5. SegPlace(a, P, m) = Place(q, "end", 0, 0)
    <3>1. SegPlace(a, P, m) = BodyPlace(q, a, k + m)
      <4>1. m \in 0 .. all - k
        BY <1>1, <2>1, <2>3
      <4> HIDE DEF m
      <4> QED
        BY <1>6, <2>1, <4>1
    <3>2. BodyPlace(q, a, all) = Done(q, a)
      BY <1>1 DEF BodyPlace, all, body
    <3> QED
      BY <1>7, <1>9, <2>3, <3>1, <3>2
  <2>6. rest \in Seq(Tokens) /\ Len(rest) = Len(v) - m
    <3>1. Len(v) \in m .. Len(v)
      BY <1>2, <2>3
    <3> HIDE DEF m
    <3> QED
      BY <1>2, <2>3, <3>1, Slice
  <2>7. rest # <<>>
    <3>1. Len(rest) > 0
      BY <1>2, <2>3, <2>6
    <3> HIDE DEF rest
    <3> QED
      BY <2>6, <3>1, FirstAndRest
  <2> HIDE DEF rest, m
  <2>8. PICK R : Steps(ans, u, Place(q, "end", 0, 0), Head(rest), R)
    BY <2>4, <2>5, <2>6, <2>7, PathHead
  <2> QED
    BY <1>8, <2>8 DEF Steps, Place
<1>10. n \in 0 .. Len(b) /\ n \in Nat /\ k + n <= all /\ n <= Len(v)
  BY <1>1, <1>2, <1>5, <1>9 DEF k, all
<1>11. Path(ans, u, v, P, Q)
  BY DEF v
<1>12. SubSeq(v, 1, n) = SubSeq(b, 1, n) /\ SubSeq(v, n + 1, Len(v)) = SubSeq(b, n + 1, Len(b)) \o t
  BY <1>10, CutConcat DEF v
<1>13. BodyPlace(q, a, k + n) \in Places
  <2> DEFINE e == k + n
  <2>1. e \in Nat /\ q \in Nat
    BY <1>1, <1>10 DEF q
  <2> HIDE DEF e
  <2>2. BodyPlace(q, a, e) \in Places
    BY <2>1, NextPlaces
  <2> QED
    BY <2>2 DEF e
<1>14. CASE k < all
  <2>1. a = ans[P.req] /\ Segment(a, P) \in Seq(Tokens) /\ P.w < Len(Segment(a, P))
        /\ P.w + n <= Len(Segment(a, P)) /\ n \in 0 .. Len(v)
    BY <1>1, <1>2, <1>6, <1>10, <1>14 DEF all, q, body, k
  <2>2. /\ SubSeq(v, 1, n) = SubSeq(Segment(a, P), P.w + 1, P.w + n)
        /\ Path(ans, u, SubSeq(v, n + 1, Len(v)), SegPlace(a, P, n), Q)
    <3>1. P \in Places /\ v \in Seq(Tokens)
      BY <1>1, <1>2
    <3>2. Path(ans, u, SubSeq(v, n + 1, Len(v)), SegPlace(a, P, n), Q)
      BY <1>11, <2>1, <3>1, PathAlong
    <3>3. \A i \in 1 .. n : v[i] = Segment(a, P)[P.w + i]
      BY <1>11, <2>1, <3>1, PathAlong
    <3>4. SubSeq(v, 1, n) = SubSeq(Segment(a, P), P.w + 1, P.w + n)
      <4> DEFINE h == Segment(a, P)
                 w == P.w
      <4>1. w \in Nat /\ n \in Nat /\ n <= Len(v) /\ w + n <= Len(h) /\ h \in Seq(Tokens)
        BY <1>10, <2>1, <3>1 DEF Places
      <4>2. \A i \in 1 .. n : v[i] = h[w + i]
        BY <3>3
      <4> HIDE DEF h, w
      <4> QED
        <5>1. SubSeq(v, 1, n) = SubSeq(h, w + 1, w + n)
          BY <3>1, <4>1, <4>2, SameSlices
        <5> QED
          BY <5>1 DEF h, w
    <3> QED
      BY <3>2, <3>4
  <2>3. SegPlace(a, P, n) = BodyPlace(q, a, k + n)
    <3>1. n \in 0 .. all - k
      BY <1>1, <1>10 DEF k, all
    <3> QED
      BY <1>6, <1>14, <3>1
  <2>4. Segment(a, P) = body /\ P.w = k
    BY <1>6, <1>14
  <2> QED
    BY <1>10, <1>12, <1>13, <2>2, <2>3, <2>4 DEF q, body, all, k
<1>15. CASE ~(k < all)
  <2>1. k = all /\ r.length # -1 /\ n = 0 /\ k + n = k
    BY <1>1, <1>2, <1>5, <1>9, <1>15 DEF k, all
  <2>2. SubSeq(b, 1, n) = <<>> /\ SubSeq(body, k + 1, k + n) = <<>>
    BY <1>1, <2>1, SubSeqEmpty DEF k
  <2>3. SubSeq(b, n + 1, Len(b)) = b
    <3>1. n + 1 = 1
      BY <2>1
    <3> QED
      BY <3>1, SubSeqFull
  <2>4. BodyPlace(q, a, k + n) = P
    BY <1>3, <2>1 DEF q, k
  <2> QED
    BY <1>10, <1>11, <1>13, <2>2, <2>3, <2>4 DEF q, body, all, k, v
<1> QED
  BY <1>14, <1>15

(* Bytes of a chunk.                                                        *)
LEMMA InChunks ==
  ASSUME NEW ans, NEW u, NEW r, NEW a, NEW g, NEW P, NEW x, Reader(r, a, g, P, x), a = ans[r.req],
         Begun(r, a, g), InChunk(r, a, "pump", P),
         NEW b \in Seq(Tokens), b # <<>>, NEW t \in Seq(Tokens), NEW Q, Path(ans, u, b \o t, P, Q),
         NEW n, n = Passed(r, b)
  PROVE  /\ n <= r.chunkLeft
         /\ Taken(ans, u, r, a, b, t, n, Place(r.req, "chunk", P.k, P.w + n), Q)
<1>0. SUFFICES
        /\ n <= r.chunkLeft
        /\ n \in 0 .. Len(b) /\ r.bytesRead + n <= Len(BodyOf(r.req, a))
        /\ SubSeq(b, 1, n) = SubSeq(BodyOf(r.req, a), r.bytesRead + 1, r.bytesRead + n)
        /\ Place(r.req, "chunk", P.k, P.w + n) \in Places
        /\ Path(ans, u, SubSeq(b, n + 1, Len(b)) \o t, Place(r.req, "chunk", P.k, P.w + n), Q)
  BY DEF Taken
<1> DEFINE q == r.req
           body == BodyOf(q, a)
           all == Len(body)
           k == r.bytesRead
           v == b \o t
           w == P.w
           l == r.chunkLeft
           size == Size(a, P.k)
           e == EndOf(a, P.k - 1)
           h == Segment(a, P)
<1>1. r.req \in Nat /\ r.method \in Methods /\ a \in Answers[r.method] /\ P \in Places
  BY DEF Reader
<1>2. /\ r.chunked /\ P = Place(q, "chunk", P.k, w) /\ P.k \in 1 .. Len(a.ends)
      /\ l \in Nat /\ w + l = size /\ k = e + w /\ l > 0
  BY DEF InChunk
<1>3. P.req = q /\ P.kind = "chunk" /\ w \in Nat /\ P.k \in Nat
  BY <1>1, <1>2 DEF Place, Places
<1>4. /\ e \in Nat /\ size \in Nat \ {0} /\ e + size <= Total(a) /\ Total(a) \in Nat
  <2>1. /\ Len(a.ends) \in Nat
        /\ \A i \in 0 .. Len(a.ends) : EndOf(a, i) \in Nat /\ EndOf(a, i) <= Total(a)
        /\ \A i \in 1 .. Len(a.ends) : /\ Size(a, i) \in Nat \ {0}
                                       /\ EndOf(a, i - 1) + Size(a, i) = EndOf(a, i)
        /\ Total(a) \in Nat
    BY <1>1, AnswerShape
  <2>2. P.k \in 0 .. Len(a.ends) /\ P.k - 1 \in 0 .. Len(a.ends)
    BY <1>2, <2>1
  <2> QED
    BY <1>2, <2>1, <2>2
<1>5. /\ body \in Seq(Tokens) /\ all = Total(a) /\ all \in Nat
      /\ \A i \in 1 .. Total(a) : body[i] = Byte(q, i)
  <2>1. ~a.bodyless
    <3>1. r.chunked /\ r.chunked = SentInChunks(a)
      BY <1>2 DEF Begun
    <3>2. SentInChunks(a)
      BY <3>1, Zenon
    <3> QED
      BY <3>2 DEF SentInChunks
  <2> QED
    BY <1>1, <1>4, <2>1, BodyShape
<1>6. /\ h \in Seq(Tokens) /\ Len(h) = size + 2
      /\ \A i \in 1 .. size : h[i] = Byte(q, e + i)
  <2>1. WithinChunks(a, P)
    BY <1>2 DEF WithinChunks
  <2>2. /\ Len(Words(a, P)) = size
        /\ \A i \in 1 .. size : Words(a, P)[i] = Byte(q, e + i)
    BY <1>1, <1>3, <2>1, WordsShape
  <2>3. /\ h \in Seq(Tokens) /\ Len(h) = Len(Words(a, P)) + 2
        /\ \A i \in 1 .. Len(Words(a, P)) : h[i] = Words(a, P)[i]
    BY <1>1, <1>3, <2>1, SegmentShape
  <2> QED
    BY <2>2, <2>3
<1>7. /\ Len(b) \in Nat \ {0} /\ Len(t) \in Nat
      /\ v \in Seq(Tokens) /\ Len(v) = Len(b) + Len(t) /\ v # <<>>
  BY LenProperties, EmptySeq, ConcatProperties
<1>8. n = IF Len(b) <= l THEN Len(b) ELSE l
  <2>1. {Len(b)} \cup LimitOf(r) = {Len(b)} \cup {l}
    BY <1>2 DEF LimitOf
  <2>2. Len(b) \in Int /\ l \in Int
    BY <1>2, <1>7
  <2>3. Min({Len(b)} \cup {l}) = IF Len(b) <= l THEN Len(b) ELSE l
    <3> HIDE DEF l
    <3> QED
      BY <2>2, MinIs, Zenon
  <2> QED
    BY <2>1, <2>3 DEF Passed
<1>9. Path(ans, u, v, P, Q) /\ a = ans[P.req]
  BY <1>3
<1> HIDE DEF body, all, k, v, w, l, size, e, h
<1>10. /\ n \in Nat /\ n \in 0 .. Len(b) /\ n <= l /\ n <= Len(v) /\ n \in 0 .. Len(v)
       /\ w + n <= size /\ w + n < Len(h) /\ k + n <= all /\ k \in Nat
  <2>1. n \in Nat /\ n \in 0 .. Len(b) /\ n <= l /\ n <= Len(v) /\ n \in 0 .. Len(v)
    BY <1>2, <1>7, <1>8
  <2>2. w + n <= size /\ k \in Nat
    BY <2>1, <1>2, <1>3, <1>4
  <2>3. w + n < Len(h)
    BY <2>1, <2>2, <1>3, <1>4, <1>6
  <2>4. k + n <= all
    <3>1. k + n = e + (w + n)
      BY <1>2, <1>3, <1>4, <2>1
    <3>2. e + size <= all
      BY <1>4, <1>5
    <3> QED
      BY <1>3, <1>4, <1>5, <2>1, <2>2, <3>1, <3>2
  <2> QED
    BY <2>1, <2>2, <2>3, <2>4
<1>11. SubSeq(v, 1, n) = SubSeq(b, 1, n) /\ SubSeq(v, n + 1, Len(v)) = SubSeq(b, n + 1, Len(b)) \o t
  BY <1>10, CutConcat DEF v
<1>12. /\ \A i \in 1 .. n : v[i] = h[w + i]
       /\ Path(ans, u, SubSeq(v, n + 1, Len(v)), SegPlace(a, P, n), Q)
       /\ SegPlace(a, P, n) \in Places
  <2>1. P.w < Len(h) /\ P.w + n <= Len(h)
    BY <1>3, <1>6, <1>10, <1>2 DEF w
  <2>2. v \in Seq(Tokens) /\ P \in Places /\ h \in Seq(Tokens)
    BY <1>1, <1>6, <1>7
  <2> QED
    BY <1>9, <1>10, <2>1, <2>2, PathAlong DEF h, w
<1>13. SegPlace(a, P, n) = Place(q, "chunk", P.k, w + n)
  <2>1. P.w + n < Len(Segment(a, P))
    BY <1>10 DEF h, w
  <2> QED
    BY <1>3, <2>1 DEF SegPlace, w
<1>14. \A i \in 1 .. n : v[i] = body[k + i]
  <2> TAKE i \in 1 .. n
  <2>1. w + i \in 1 .. size /\ k + i \in 1 .. Total(a) /\ e + (w + i) = k + i
    <3>1. i \in Nat /\ 1 <= i /\ i <= n /\ n \in Nat
      BY <1>10
    <3>2. w + i \in 1 .. size
      BY <1>3, <1>4, <1>10, <3>1
    <3>3. k + i \in 1 .. Total(a)
      BY <1>5, <1>10, <3>1
    <3>4. e + (w + i) = k + i
      BY <1>2, <1>3, <1>4, <3>1
    <3> QED
      BY <3>2, <3>3, <3>4
  <2>2. v[i] = h[w + i]
    BY <1>12
  <2>3. h[w + i] = Byte(q, e + (w + i))
    BY <1>6, <2>1
  <2>4. body[k + i] = Byte(q, k + i)
    BY <1>5, <2>1
  <2> QED
    BY <2>1, <2>2, <2>3, <2>4
<1>15. SubSeq(v, 1, n) = SubSeq(body, k + 1, k + n)
  <2>1. k + n <= Len(body)
    BY <1>10 DEF all
  <2>2. body \in Seq(Tokens) /\ v \in Seq(Tokens) /\ k \in Nat /\ n \in Nat /\ n <= Len(v)
    BY <1>5, <1>7, <1>10
  <2> QED
    BY <1>14, <2>1, <2>2, SameSlices
<1> QED
  BY <1>10, <1>11, <1>12, <1>13, <1>15 DEF body, all, k, l, w, v, q

(* What is told of an answer whose body has begun.                          *)
LEMMA ToldOf ==
  ASSUME NEW r, NEW method \in Methods, NEW a \in Answers[method], r.req \in Nat, NEW g,
         Begun(r, a, g)
  PROVE  /\ g.begun = a.status /\ g.willClose = a.closes
         /\ IsPrefix(g.data, BodyOf(r.req, a))
         /\ r.bytesRead = Len(BodyOf(r.req, a)) => g.data = BodyOf(r.req, a)
<1> DEFINE s == BodyOf(r.req, a)
           k == r.bytesRead
<1>1. s \in Seq(Tokens) /\ Len(s) \in Nat
  BY BodyShape, LenProperties
<1>2. /\ g.begun = a.status /\ g.willClose = a.closes
      /\ g.data = SubSeq(s, 1, k) /\ k \in 0 .. Len(s)
  BY DEF Begun
<1> HIDE DEF s, k
<1>3. IsPrefix(SubSeq(s, 1, k), s)
  <2>1. /\ SubSeq(s, 0 + 1, 0 + k) \in Seq(Tokens) /\ Len(SubSeq(s, 0 + 1, 0 + k)) = k
        /\ \A i \in 1 .. k : SubSeq(s, 0 + 1, 0 + k)[i] = s[0 + i]
    BY <1>1, <1>2, SliceOf
  <2>2. 0 + 1 = 1 /\ 0 + k = k
    BY <1>2
  <2>3. SubSeq(s, 1, k) \in Seq(Tokens) /\ Len(SubSeq(s, 1, k)) = k
    BY <2>1, <2>2
  <2>4. SubSeq(SubSeq(s, 1, k), 1, k) = SubSeq(s, 1, k)
    BY <2>3, SubSeqFull
  <2> QED
    BY <1>1, <1>2, <2>3, <2>4 DEF IsPrefix
<1>4. k = Len(s) => SubSeq(s, 1, k) = s
  BY <1>1, SubSeqFull
<1> QED
  BY <1>2, <1>3, <1>4 DEF s, k

Onward(ans, u, r, a, g, t, Q) ==
  \E R \in Places : Matches(r, a, g, "data", R) /\ Path(ans, u, t, R, Q)
PassedOn(ans, u, r, a, g, b, t, Q, n, y, h) ==
  /\ n \in 0 .. Len(b) /\ Same(r, y) /\ y.state = "BODY"
  /\ Begun(y, a, h)
  /\ Onward(ans, u, y, a, h, SubSeq(b, n + 1, Len(b)) \o t, Q)

(* A piece of a body.                                                       *)
LEMMA DataPassed ==
  ASSUME NEW ans, NEW u, NEW r, NEW a, NEW g, NEW P, NEW x, Reader(r, a, g, P, x), a = ans[r.req],
         r.state = "BODY",
         NEW b \in Seq(Tokens), b # <<>>, NEW t \in Seq(Tokens), NEW Q, Path(ans, u, b \o t, P, Q)
  PROVE  PassedOn(ans, u, r, a, g, b, t, Q, Passed(r, b), DataRead(r, Passed(r, b)),
                  DataTold(g, SubSeq(b, 1, Passed(r, b))))
<1> DEFINE n == Passed(r, b)
           y == DataRead(r, n)
           h == DataTold(g, SubSeq(b, 1, n))
<1>20. n = Passed(r, b)
  OBVIOUS
<1>21. y = DataRead(r, n) /\ h = DataTold(g, SubSeq(b, 1, n))
  OBVIOUS
<1>0. SUFFICES
        /\ n \in 0 .. Len(b) /\ Same(r, y) /\ y.state = "BODY"
        /\ Begun(y, a, h)
        /\ \E R \in Places : /\ Matches(y, a, h, "data", R)
                            /\ Path(ans, u, SubSeq(b, n + 1, Len(b)) \o t, R, Q)
  BY DEF Onward, PassedOn
<1> HIDE DEF n, y, h
<1>1. /\ IsResponse(r) /\ r.req \in Nat /\ r.method \in Methods /\ a \in Answers[r.method]
      /\ Matches(r, a, g, "pump", P) /\ Ends(r)
  BY DEF Reader
<1>2. Begun(r, a, g) /\ (InBody(r, a, "pump", P) \/ InChunk(r, a, "pump", P))
  <2>1. ~InHead(r, a, g, P)
    BY DEF InHead, InLine, StateOf, StatusKinds, HeaderKinds
  <2>2. r # NewResponse(r.req, r.method)
    BY DEF NewResponse
  <2>3. ~InChunkLine(r, a, P)
    BY DEF InChunkLine, InLine, StateOf, StatusKinds, HeaderKinds, SizeKinds, TrailerKinds
  <2> QED
    BY <1>1, <2>1, <2>2, <2>3 DEF Matches, AtChunkEnd, IsComplete
<1> DEFINE k2 == r.bytesRead + n
           l2 == IF r.chunked THEN r.chunkLeft - n ELSE r.chunkLeft
           d == SubSeq(b, 1, n)
           rest == SubSeq(b, n + 1, Len(b)) \o t
           body == BodyOf(r.req, a)
<1>3. y = Response(r.req, r.method, r.state, r.lineBuf, r.version, r.status, r.headerAccum,
                   r.headers, k2, r.chunked, l2, r.length, r.willClose)
  BY <1>1, <1>21 DEF IsResponse, Response, DataRead
<1> HIDE DEF k2, l2
<1>4. /\ IsResponse(y) /\ y.req = r.req /\ y.method = r.method /\ y.state = r.state
      /\ y.lineBuf = r.lineBuf /\ y.bytesRead = k2 /\ y.chunked = r.chunked
      /\ y.chunkLeft = l2 /\ y.length = r.length
  BY <1>3, ResponseIs
<1>5. /\ n \in 0 .. Len(b) /\ k2 <= Len(body)
      /\ d = SubSeq(body, r.bytesRead + 1, k2)
      /\ r.chunked => n <= r.chunkLeft
  <2>1. CASE InBody(r, a, "pump", P)
    <3>0. Taken(ans, u, r, a, b, t, n, BodyPlace(r.req, a, r.bytesRead + n), Q)
      BY <1>2, <2>1, <1>20, InOnePiece
    <3>1. /\ n \in 0 .. Len(b) /\ r.bytesRead + n <= Len(body)
          /\ d = SubSeq(body, r.bytesRead + 1, r.bytesRead + n)
      BY <3>0 DEF Taken
    <3>2. ~r.chunked
      BY <2>1 DEF InBody
    <3> QED
      BY <3>1, <3>2 DEF k2
  <2>2. CASE InChunk(r, a, "pump", P)
    <3>0. /\ n <= r.chunkLeft
          /\ Taken(ans, u, r, a, b, t, n, Place(r.req, "chunk", P.k, P.w + n), Q)
      BY <1>2, <2>2, <1>20, InChunks
    <3>1. /\ n \in 0 .. Len(b) /\ r.bytesRead + n <= Len(body) /\ n <= r.chunkLeft
          /\ d = SubSeq(body, r.bytesRead + 1, r.bytesRead + n)
      BY <3>0 DEF Taken
    <3> QED
      BY <3>1 DEF k2
  <2> QED
    BY <1>2, <2>1, <2>2
<1>6. Len(b) \in Nat /\ n \in Nat /\ Len(body) \in Nat
  <2>1. body \in Seq(Tokens)
    BY <1>1, BodyShape
  <2> QED
    BY <1>5, <2>1, LenProperties
<1>7. Begun(y, a, h)
  <2>1. r.bytesRead \in 0 .. Len(body) /\ k2 \in 0 .. Len(body)
    <3> DEFINE k == r.bytesRead
    <3>1. k \in 0 .. Len(body)
      BY <1>2 DEF Begun
    <3>2. k2 = k + n
      BY DEF k2
    <3> HIDE DEF k, body
    <3>3. k2 \in 0 .. Len(body)
      BY <1>5, <1>6, <3>1, <3>2
    <3> QED
      BY <3>1, <3>3 DEF k
  <2>2. g = [begun |-> a.status, willClose |-> a.closes, data |-> SubSeq(body, 1, r.bytesRead)]
    BY <1>2 DEF Begun
  <2>3. SubSeq(body, 1, r.bytesRead) \o d = SubSeq(body, 1, k2)
    <3>1. r.bytesRead \in Nat /\ r.bytesRead + n <= Len(body)
      BY <1>6, <2>1, <1>5 DEF k2
    <3>2. SubSeq(body, 1, r.bytesRead) \o SubSeq(body, r.bytesRead + 1, r.bytesRead + n)
            = SubSeq(body, 1, r.bytesRead + n)
      <4> DEFINE k == r.bytesRead
                 q == r.req
      <4>1. k \in Nat /\ n \in Nat /\ k + n <= Len(BodyOf(q, a)) /\ q \in Nat
        BY <1>1, <1>6, <3>1
      <4> HIDE DEF k, q
      <4>2. SubSeq(BodyOf(q, a), 1, k) \o SubSeq(BodyOf(q, a), k + 1, k + n)
              = SubSeq(BodyOf(q, a), 1, k + n)
        BY <1>1, <4>1, BodyGrows
      <4> QED
        BY <4>2 DEF k, q
    <3> QED
      BY <1>5, <3>2 DEF k2
  <2>4. h = [begun |-> a.status, willClose |-> a.closes, data |-> SubSeq(body, 1, k2)]
    <3> DEFINE d1 == SubSeq(body, 1, r.bytesRead)
               d2 == SubSeq(body, 1, k2)
    <3>1. g = [begun |-> a.status, willClose |-> a.closes, data |-> d1] /\ d1 \o d = d2
      BY <2>2, <2>3
    <3> HIDE DEF d1, d2, d
    <3>2. h = [g EXCEPT !.data = @ \o d]
      BY <1>21 DEF DataTold, d
    <3>3. h = [begun |-> a.status, willClose |-> a.closes, data |-> d2]
      BY <3>1, <3>2
    <3> QED
      BY <3>3 DEF d2
  <2>5. /\ y.bytesRead \in 0 .. Len(BodyOf(y.req, a))
        /\ h = [begun |-> a.status, willClose |-> a.closes,
                data |-> SubSeq(BodyOf(y.req, a), 1, y.bytesRead)]
    BY <1>4, <2>1, <2>4
  <2>6. a.status \in 100 .. 999 /\ y.chunked = SentInChunks(a) /\ y.length = LengthGiven(a)
    BY <1>2, <1>4 DEF Begun
  <2> HIDE DEF d
  <2> QED
    BY <2>5, <2>6 DEF Begun
<1>8. Same(r, y) /\ y.state = "BODY"
  <2>1. Ends(y)
    <3>1. r.chunked => r.chunkLeft \in Nat
      BY <1>2 DEF InBody, InChunk
    <3> QED
      BY <1>4, <1>5, <1>6, <3>1 DEF Ends, l2
  <2> QED
    BY <1>4, <2>1 DEF Same
<1>9. CASE InBody(r, a, "pump", P)
  <2> DEFINE R == BodyPlace(r.req, a, k2)
  <2>1. R \in Places /\ Path(ans, u, rest, R, Q)
    <3>0. Taken(ans, u, r, a, b, t, n, BodyPlace(r.req, a, r.bytesRead + n), Q)
      BY <1>2, <1>9, <1>20, InOnePiece
    <3>1. /\ BodyPlace(r.req, a, r.bytesRead + n) \in Places
          /\ Path(ans, u, rest, BodyPlace(r.req, a, r.bytesRead + n), Q)
      BY <3>0 DEF Taken
    <3> QED
      BY <3>1 DEF k2
  <2>2. InBody(y, a, "data", R)
    BY <1>4, <1>8, <1>9 DEF InBody
  <2>3. Matches(y, a, h, "data", R)
    BY <1>7, <2>2 DEF Matches
  <2> QED
    BY <1>5, <1>7, <1>8, <2>1, <2>3
<1>10. CASE InChunk(r, a, "pump", P)
  <2> DEFINE w2 == P.w + n
             R == Place(r.req, "chunk", P.k, w2)
  <2>1. R \in Places /\ Path(ans, u, rest, R, Q)
    <3>0. Taken(ans, u, r, a, b, t, n, R, Q)
      BY <1>2, <1>10, <1>20, InChunks
    <3> QED
      BY <3>0 DEF Taken
  <2>2. /\ R.k = P.k /\ R.w = w2 /\ R = Place(r.req, "chunk", R.k, R.w)
    BY DEF Place
  <2>3. /\ l2 \in Nat /\ w2 + l2 = Size(a, P.k)
        /\ k2 = EndOf(a, P.k - 1) + w2 /\ r.chunked
    <3>1. /\ r.chunked /\ r.chunkLeft \in Nat /\ P.w + r.chunkLeft = Size(a, P.k)
          /\ r.bytesRead = EndOf(a, P.k - 1) + P.w /\ P.k \in 1 .. Len(a.ends)
      BY <1>10 DEF InChunk
    <3>2. n <= r.chunkLeft /\ l2 = r.chunkLeft - n
      BY <1>5, <3>1 DEF l2
    <3>3. P.w \in Nat
      BY DEF Reader, Places
    <3>4. EndOf(a, P.k - 1) \in Nat
      <4>1. Len(a.ends) \in Nat /\ \A i \in 0 .. Len(a.ends) : EndOf(a, i) \in Nat
        BY <1>1, AnswerShape
      <4>2. P.k - 1 \in 0 .. Len(a.ends)
        BY <3>1, <4>1
      <4> QED
        BY <4>1, <4>2
    <3> QED
      <4> DEFINE e == EndOf(a, P.k - 1)
                 w == P.w
                 l == r.chunkLeft
                 k == r.bytesRead
                 size == Size(a, P.k)
      <4>1. /\ l \in Nat /\ w + l = size /\ k = e + w /\ e \in Nat /\ w \in Nat /\ n \in Nat
            /\ n <= l /\ l2 = l - n
        BY <1>6, <3>1, <3>2, <3>3, <3>4
      <4> HIDE DEF e, w, l, k, size
      <4>2. l2 \in Nat /\ (w + n) + l2 = size /\ k + n = e + (w + n)
        BY <4>1
      <4> QED
        BY <3>1, <4>2 DEF k2, e, w, l, k, size
  <2> HIDE DEF w2, R
  <2>4. P.k \in 1 .. Len(a.ends)
    BY <1>10 DEF InChunk
  <2>5. r.lineBuf = <<>>
    BY <1>10 DEF InChunk
  <2>6. InChunk(y, a, "data", R)
    BY <1>4, <1>8, <2>2, <2>3, <2>4, <2>5 DEF InChunk
  <2>7. Matches(y, a, h, "data", R)
    BY <1>7, <2>6 DEF Matches
  <2> QED
    BY <1>5, <1>7, <1>8, <2>1, <2>7
<1> QED
  BY <1>2, <1>9, <1>10

(* The callback for data returns.                                           *)
LEMMA DataOver ==
  ASSUME NEW r, IsResponse(r), r.req \in Nat, r.method \in Methods, NEW a \in Answers[r.method],
         NEW g, NEW P \in Places, Matches(r, a, g, "data", P), Ends(r)
  PROVE  /\ Begun(r, a, g) /\ r.state = "BODY"
         /\ ~r.chunked /\ r.length # -1 /\ r.bytesRead = r.length =>
              /\ Same(r, Finished(r)) /\ Matches(Finished(r), a, g, "complete", P)
              /\ r.bytesRead = Len(BodyOf(r.req, a))
         /\ ~(~r.chunked /\ r.length # -1 /\ r.bytesRead = r.length) =>
              \A n : n = [r EXCEPT !.state = IF r.chunked /\ r.chunkLeft = 0 THEN "CHUNKEND" ELSE @]
                 => Same(r, n) /\ n.state # "COMPLETE" /\ Matches(n, a, g, "pump", P)
<1>1. Begun(r, a, g) /\ (InBody(r, a, "data", P) \/ InChunk(r, a, "data", P))
  BY DEF Matches
<1>2. r.state = "BODY"
  BY <1>1 DEF InBody, InChunk
<1> DEFINE body == BodyOf(r.req, a)
<1>3. /\ body \in Seq(Tokens) /\ Len(body) \in Nat
      /\ Len(body) = IF a.bodyless THEN 0 ELSE Total(a)
  BY BodyShape, LenProperties
<1>4. /\ r.bytesRead \in 0 .. Len(body) /\ r.length = LengthGiven(a)
      /\ r.chunked = SentInChunks(a)
  BY <1>1 DEF Begun
<1>5. r.length # -1 => r.length = Len(body) /\ ~UntilClose(a)
  <2>1. a.framing = "none" \/ a.framing = "length" \/ a.framing = "chunked"
    BY AnswerShape
  <2> QED
    BY <1>3, <1>4, <2>1, AnswerShape DEF LengthGiven, UntilClose
<1>6. ASSUME ~r.chunked, r.length # -1, r.bytesRead = r.length
      PROVE  /\ Same(r, Finished(r)) /\ Matches(Finished(r), a, g, "complete", P)
             /\ r.bytesRead = Len(BodyOf(r.req, a))
  <2>1. P = BodyPlace(r.req, a, r.bytesRead)
    BY <1>1, <1>6 DEF InBody, InChunk
  <2>2. r.bytesRead = Len(body) /\ P = First(r.req + 1)
    <3>1. r.bytesRead = Len(body) /\ ~(r.bytesRead < Len(body))
      BY <1>3, <1>5, <1>6
    <3> QED
      BY <2>1, <3>1, <1>5, <1>6 DEF BodyPlace, Done
  <2> DEFINE n == Finished(r)
  <2>3. n = Response(r.req, r.method, "COMPLETE", r.lineBuf, r.version, r.status, r.headerAccum,
                      r.headers, r.bytesRead, r.chunked, r.chunkLeft, r.length, r.willClose)
    BY FinishedIs
  <2> HIDE DEF n
  <2>4. /\ IsResponse(n) /\ n.req = r.req /\ n.method = r.method /\ n.state = "COMPLETE"
        /\ n.bytesRead = r.bytesRead /\ n.chunked = r.chunked
        /\ n.chunkLeft = r.chunkLeft /\ n.length = r.length
    BY <2>3, ResponseIs
  <2>5. Same(r, n)
    BY <2>4, <1>6 DEF Same, Ends
  <2>6. Begun(n, a, g)
    BY <1>1, <2>4 DEF Begun
  <2>7. IsComplete(n, a, P)
    BY <2>2, <2>4 DEF IsComplete
  <2>8. Matches(n, a, g, "complete", P)
    BY <2>6, <2>7 DEF Matches
  <2> QED
    BY <2>2, <2>5, <2>8 DEF n
<1>7. ASSUME ~(~r.chunked /\ r.length # -1 /\ r.bytesRead = r.length), NEW n,
             n = [r EXCEPT !.state = IF r.chunked /\ r.chunkLeft = 0 THEN "CHUNKEND" ELSE @]
      PROVE  Same(r, n) /\ n.state # "COMPLETE" /\ Matches(n, a, g, "pump", P)
  <2> DEFINE state == IF r.chunked /\ r.chunkLeft = 0 THEN "CHUNKEND" ELSE "BODY"
  <2>1. n = Response(r.req, r.method, state, r.lineBuf, r.version, r.status, r.headerAccum,
                     r.headers, r.bytesRead, r.chunked, r.chunkLeft, r.length, r.willClose)
    BY <1>2, <1>7 DEF IsResponse, Response
  <2> HIDE DEF state
  <2>2. /\ IsResponse(n) /\ n.req = r.req /\ n.method = r.method /\ n.state = state
        /\ n.lineBuf = r.lineBuf
        /\ n.bytesRead = r.bytesRead /\ n.chunked = r.chunked
        /\ n.chunkLeft = r.chunkLeft /\ n.length = r.length
    BY <2>1, ResponseIs
  <2>3. Same(r, n) /\ n.state # "COMPLETE"
    BY <2>2 DEF Same, Ends, state
  <2>4. Begun(n, a, g)
    BY <1>1, <2>2 DEF Begun
  <2>5. CASE InBody(r, a, "data", P)
    <3>1. ~r.chunked /\ n.state = "BODY" /\ P = BodyPlace(r.req, a, r.bytesRead)
      BY <2>2, <2>5 DEF InBody, state
    <3>2. r.length # -1 => r.bytesRead < r.length
      BY <1>3, <1>4, <1>5, <1>7, <3>1
    <3>3. InBody(n, a, "pump", P)
      BY <2>2, <3>1, <3>2 DEF InBody
    <3> QED
      BY <2>3, <2>4, <3>3 DEF Matches
  <2>6. CASE InChunk(r, a, "data", P)
    <3>1. /\ r.chunked /\ r.lineBuf = <<>> /\ P = Place(r.req, "chunk", P.k, P.w)
          /\ P.k \in 1 .. Len(a.ends)
          /\ r.chunkLeft \in Nat /\ P.w + r.chunkLeft = Size(a, P.k)
          /\ r.bytesRead = EndOf(a, P.k - 1) + P.w
      BY <2>6 DEF InChunk
    <3>2. CASE r.chunkLeft = 0
      <4>1. n.state = "CHUNKEND"
        BY <2>2, <3>1, <3>2 DEF state
      <4>2. P.w = Size(a, P.k) /\ EndOf(a, P.k - 1) + Size(a, P.k) = EndOf(a, P.k)
        <5>1. Size(a, P.k) \in Nat /\ EndOf(a, P.k - 1) + Size(a, P.k) = EndOf(a, P.k)
          BY <3>1, AnswerShape
        <5>2. P.w \in Nat
          BY DEF Places
        <5> QED
          BY <3>1, <3>2, <5>1, <5>2
      <4>3. AtChunkEnd(n, a, P)
        BY <2>2, <3>1, <4>1, <4>2 DEF AtChunkEnd
      <4> QED
        BY <2>3, <2>4, <4>3 DEF Matches
    <3>3. CASE r.chunkLeft # 0
      <4>1. n.state = "BODY" /\ r.chunkLeft > 0
        BY <2>2, <3>1, <3>3 DEF state
      <4>2. InChunk(n, a, "pump", P)
        BY <2>2, <3>1, <4>1 DEF InChunk
      <4> QED
        BY <2>3, <2>4, <4>2 DEF Matches
    <3> QED
      BY <3>2, <3>3
  <2> QED
    BY <1>1, <2>5, <2>6
<1> QED
  BY <1>1, <1>2, <1>6, <1>7

-----------------------------------------------------------------------------
(* A function on 1 .. n is a sequence.                                      *)
LEMMA AsSeq ==
  ASSUME NEW S, NEW n \in Nat, NEW t \in [1 .. n -> S]
  PROVE  t \in Seq(S) /\ Len(t) = n
  OBVIOUS

(* The responses that are outstanding, which are records of many kinds.     *)
LEMMA OwnSeqOf ==
  ASSUME NEW S, NEW s \in Seq(S)
  PROVE  OwnSeq(s) /\ Len(s) \in Nat /\ DOMAIN s = 1 .. Len(s)
<1>1. Len(s) \in Nat /\ DOMAIN s = 1 .. Len(s) /\ s \in [1 .. Len(s) -> S]
  BY LenProperties
<1>2. s \in [1 .. Len(s) -> {s[i] : i \in DOMAIN s}]
  BY <1>1
<1>3. s \in Seq({s[i] : i \in DOMAIN s})
  BY <1>1, <1>2, AsSeq
<1> QED
  BY <1>1, <1>3 DEF OwnSeq

(* The length of a sequence of anything.                                    *)
LEMMA OwnSeqShape ==
  ASSUME NEW s, OwnSeq(s)
  PROVE  /\ Len(s) \in Nat /\ DOMAIN s = 1 .. Len(s)
         /\ s # <<>> <=> Len(s) > 0
  BY LenProperties, EmptySeq DEF OwnSeq

WithLast(s, e) == Append(s, e)
(* One more at the end.                                                     *)
LEMMA OneMore ==
  ASSUME NEW s, OwnSeq(s), NEW e, NEW t, t = WithLast(s, e)
  PROVE  /\ OwnSeq(t) /\ Len(t) = Len(s) + 1 /\ t # <<>>
         /\ \A i \in 1 .. Len(s) : t[i] = s[i]
         /\ t[Len(s) + 1] = e
<1> DEFINE S == {s[i] : i \in DOMAIN s} \cup {e}
<1>1. s \in Seq(S) /\ e \in S
  <2>1. Len(s) \in Nat /\ DOMAIN s = 1 .. Len(s) /\ s \in [1 .. Len(s) -> {s[i] : i \in DOMAIN s}]
    BY LenProperties DEF OwnSeq
  <2>2. s \in [1 .. Len(s) -> S]
    BY <2>1
  <2> QED
    BY <2>1, <2>2
<1> HIDE DEF S
<1>2. /\ t \in Seq(S) /\ Len(t) = Len(s) + 1
      /\ \A i \in 1 .. Len(s) : t[i] = s[i]
      /\ t[Len(s) + 1] = e
  BY <1>1, AppendProperties DEF WithLast
<1>3. OwnSeq(t)
  BY <1>2, OwnSeqOf
<1>4. t # <<>>
  BY <1>2, <1>3, OwnSeqShape
<1> QED
  BY <1>2, <1>3, <1>4

(* One less at the start.                                                   *)
LEMMA OneLess ==
  ASSUME NEW s, OwnSeq(s), s # <<>>, NEW t, t = Tail(s)
  PROVE  /\ OwnSeq(t) /\ Len(t) = Len(s) - 1
         /\ \A i \in 1 .. Len(t) : t[i] = s[i + 1]
<1> DEFINE S == {s[i] : i \in DOMAIN s}
<1>1. s \in Seq(S)
  BY DEF OwnSeq
<1> HIDE DEF S
<1>2. t \in Seq(S) /\ Len(t) = Len(s) - 1 /\ \A i \in 1 .. Len(t) : t[i] = s[i + 1]
  BY <1>1, HeadTailProperties
<1> QED
  BY <1>2, OwnSeqOf

FirstIs(s, e) == [s EXCEPT ![1] = e]

(* The first one changed.                                                   *)
LEMMA OneChanged ==
  ASSUME NEW s, OwnSeq(s), s # <<>>, NEW e, NEW t, t = FirstIs(s, e)
  PROVE  /\ OwnSeq(t) /\ Len(t) = Len(s) /\ t # <<>> /\ t[1] = e
         /\ \A i \in 2 .. Len(s) : t[i] = s[i]
<1> DEFINE S == {s[i] : i \in DOMAIN s} \cup {e}
<1>1. /\ Len(s) \in Nat /\ Len(s) > 0 /\ DOMAIN s = 1 .. Len(s)
      /\ s \in [1 .. Len(s) -> {s[i] : i \in DOMAIN s}]
  BY LenProperties, OwnSeqShape DEF OwnSeq
<1>2. s \in [1 .. Len(s) -> S] /\ e \in S
  BY <1>1
<1> HIDE DEF S
<1>3. t \in [1 .. Len(s) -> S] /\ t[1] = e /\ \A i \in 2 .. Len(s) : t[i] = s[i]
  <2>1. 1 \in DOMAIN s /\ \A i \in 2 .. Len(s) : i # 1 /\ i \in DOMAIN s
    BY <1>1
  <2>2. t \in [1 .. Len(s) -> S]
    BY <1>2 DEF FirstIs
  <2>3. t[1] = e
    BY <2>1 DEF FirstIs
  <2>4. \A i \in 2 .. Len(s) : t[i] = s[i]
    BY <2>1 DEF FirstIs
  <2> QED
    BY <2>2, <2>3, <2>4
<1>4. t \in Seq(S) /\ Len(t) = Len(s)
  <2> DEFINE n == Len(s)
  <2>1. n \in Nat /\ t \in [1 .. n -> S]
    BY <1>1, <1>3
  <2> HIDE DEF n
  <2>2. t \in Seq(S) /\ Len(t) = n
    BY <2>1, AsSeq
  <2> QED
    BY <2>2 DEF n
<1>5. OwnSeq(t) /\ t # <<>>
  BY <1>1, <1>4, OwnSeqOf, OwnSeqShape
<1> QED
  BY <1>3, <1>4, <1>5

(* What a user sees between two calls of pump.                              *)
LEMMA InPump ==
  ASSUME NEW r, NEW a, NEW g, NEW P
  PROVE  /\ Matches(r, a, g, "user", P) => Matches(r, a, g, "pump", P)
         /\ Matches(r, a, g, "pump", P) /\ r.state # "COMPLETE" => Matches(r, a, g, "user", P)
         /\ Matches(r, a, g, "complete", P) => Matches(r, a, g, "pump", P)
<1>1. InBody(r, a, "user", P) <=> InBody(r, a, "pump", P)
  BY DEF InBody
<1>2. InChunk(r, a, "user", P) <=> InChunk(r, a, "pump", P)
  BY DEF InChunk
<1>3. Matches(r, a, g, "user", P) => Matches(r, a, g, "pump", P)
  BY <1>1, <1>2 DEF Matches
<1>4. Matches(r, a, g, "pump", P) /\ r.state # "COMPLETE" => Matches(r, a, g, "user", P)
  BY <1>1, <1>2 DEF Matches, IsComplete
<1>5. Matches(r, a, g, "complete", P) => Matches(r, a, g, "pump", P)
  BY DEF Matches
<1> QED
  BY <1>3, <1>4, <1>5

(* Of an answer of which nothing has come, nothing is known.                *)
LEMMA AtFirst ==
  ASSUME NEW r, NEW a, NEW g, NEW at, NEW P, P = First(r.req), Matches(r, a, g, at, P),
         r.req \in Nat
  PROVE  r = NewResponse(r.req, r.method) /\ g = Nothing /\ at \in {"user", "pump"}
<1>1. P.kind = "start" /\ P.req = r.req /\ r.req # r.req + 1
  BY DEF First, Place
<1>2. ~InHead(r, a, g, P)
  BY <1>1 DEF InHead, StatusKinds, HeaderKinds
<1>3. \A n : P # BodyPlace(r.req, a, n)
  BY <1>1 DEF BodyPlace, Done, First, Place
<1>4. P # AfterHeaders(r.req, a)
  BY <1>1, <1>3 DEF AfterHeaders, SizePlace, Place
<1>5. ~InChunk(r, a, at, P) /\ ~AtChunkEnd(r, a, P) /\ ~InChunkLine(r, a, P)
  BY <1>1 DEF InChunk, AtChunkEnd, InChunkLine, Place, SizeKinds, TrailerKinds
<1>6. ~IsComplete(r, a, P)
  BY <1>1 DEF IsComplete, First, Place
<1> QED
  BY <1>2, <1>3, <1>4, <1>5, <1>6 DEF Matches, AtBegin, InBody

(* A response of which nothing has come.                                    *)
LEMMA NewIs ==
  ASSUME NEW q, NEW method, NEW r, r = NewResponse(q, method)
  PROVE  /\ IsResponse(r) /\ r.req = q /\ r.method = method /\ r.state = "STATUSLINE" /\ Ends(r)
         /\ r = NewResponse(r.req, r.method)
         /\ \A a, at : at \in {"user", "pump"} => Matches(r, a, Nothing, at, First(q))
<1>1. r = Response(q, method, "STATUSLINE", <<>>, <<>>, 0, <<>>, [n \in {} |-> <<>>], 0, FALSE, 0,
                   -1, FALSE)
  BY DEF NewResponse, Response
<1>2. /\ IsResponse(r) /\ r.req = q /\ r.method = method /\ r.state = "STATUSLINE"
      /\ r.chunked = FALSE
  <2> DEFINE none == [n \in {} |-> <<>>]
  <2>1. r = Response(q, method, "STATUSLINE", <<>>, <<>>, 0, <<>>, none, 0, FALSE, 0, -1, FALSE)
    BY <1>1
  <2> HIDE DEF none
  <2>2. r.req = q /\ r.method = method /\ r.state = "STATUSLINE" /\ r.chunked = FALSE
    BY <2>1 DEF Response
  <2>3. IsResponse(r)
    BY <2>1 DEF IsResponse, Response
  <2> QED
    BY <2>2, <2>3
<1>3. Ends(r)
  BY <1>2 DEF Ends
<1> QED
  BY <1>2, <1>3 DEF Matches

(* Where the next token that has been sent takes a response.                *)
LEMMA NextOf ==
  ASSUME NEW ans, NEW u, NEW r, NEW a, NEW g, NEW P \in Places, NEW R, NEW x,
         Steps(ans, u, P, x, R),
         a = ans[r.req], a \in Answers[r.method], r.req \in Nat, r.method \in Methods,
         Matches(r, a, g, "pump", P)
  PROVE  /\ NextToken(a, P, x)
         /\ r.state \in LineStates => R = After(a, P)
<1>1. P.req = r.req \/ P.kind \in {"start", "end"}
  <2>1. InHead(r, a, g, P) => P.req = r.req
    BY DEF InHead, InLine
  <2>2. InBody(r, a, "pump", P) => P.req = r.req \/ P.kind \in {"start", "end"}
    BY DEF InBody, BodyPlace, Done, First, Place
  <2>3. InChunk(r, a, "pump", P) \/ AtChunkEnd(r, a, P) \/ InChunkLine(r, a, P) => P.req = r.req
    BY DEF InChunk, AtChunkEnd, InChunkLine, InLine, Place
  <2>4. IsComplete(r, a, P) => P.kind = "start"
    BY DEF IsComplete, First, Place
  <2>5. P = First(r.req) => P.kind = "start"
    BY DEF First, Place
  <2> QED
    BY <2>1, <2>2, <2>3, <2>4, <2>5 DEF Matches
<1>2. P.kind \in {"start", "end"} => Segment(ans[P.req], P) = Segment(a, P)
  BY DEF Segment
<1>3. Segment(ans[P.req], P) = Segment(a, P)
  BY <1>1, <1>2
<1>4. NextToken(a, P, x)
  BY <1>3 DEF Steps, NextToken
<1>5. r.state \in LineStates => P.req = r.req
  <2>1. InHead(r, a, g, P) => P.req = r.req
    BY DEF InHead, InLine
  <2>2. InBody(r, a, "pump", P) => r.state = "BODY"
    BY DEF InBody
  <2>3. InChunk(r, a, "pump", P) \/ AtChunkEnd(r, a, P) \/ InChunkLine(r, a, P) => P.req = r.req
    BY DEF InChunk, AtChunkEnd, InChunkLine, InLine, Place
  <2>4. IsComplete(r, a, P) => r.state = "COMPLETE"
    BY DEF IsComplete
  <2>5. P = First(r.req) => P.req = r.req
    BY DEF First, Place
  <2> QED
    BY <2>1, <2>2, <2>3, <2>4, <2>5 DEF Matches, LineStates
<1> QED
  BY <1>4, <1>5 DEF Steps

-----------------------------------------------------------------------------
(* Steps.                                                                   *)

(* What is known of a response that is outstanding.                         *)
LEMMA OfWaiting ==
  ASSUME NEW nx, NEW u, Counted(nx, u), NEW i \in 1 .. Len(m_Outstanding)
  PROVE  LET r == m_Outstanding[i]
         IN  /\ IsResponse(r) /\ r.req = FirstOf(nx) + i - 1 /\ r.method \in Methods
             /\ r.req \in Requests /\ r.req < nx /\ FirstOf(nx) \in Nat \ {0} /\ nx \in Nat
             /\ i > 1 => r = NewResponse(r.req, r.method)
             /\ fate[r.req] = IF i = 1 /\ r.state = "COMPLETE" THEN "complete" ELSE "open"
             /\ r.req < u => answer[r.req] \in Answers[r.method]
<1> DEFINE r == m_Outstanding[i]
           f == FirstOf(nx)
           l == Len(m_Outstanding)
<1>1. Waits(nx, i) /\ f >= 1 /\ nx \in 1 .. MaxRequests + 1
  BY DEF Counted, Issued
<1>2. l \in Nat
  BY OwnSeqShape DEF Counted, Types
<1>3. f = nx - l
  BY DEF FirstOf
<1>4. r.req = f + i - 1
  BY <1>1 DEF Waits
<1>5. MaxRequests \in Nat
  BY RequestsAssumption
<1>6. i \in 1 .. l
  OBVIOUS
<1> HIDE DEF f, l
<1>7. r.req \in 1 .. MaxRequests /\ r.req < nx /\ f \in Nat \ {0} /\ nx \in Nat
  BY <1>1, <1>2, <1>3, <1>4, <1>5, <1>6
<1>8. r.req < u => answer[r.req] \in Answers[r.method]
  BY DEF Counted, Answered
<1> QED
  BY <1>1, <1>7, <1>8 DEF Waits, Requests, f

(* The response that is read, and what is told of it, change.               *)
LEMMA CurrentMoves ==
  ASSUME NEW nx \in 1 .. MaxRequests + 1, NEW u \in 1 .. MaxRequests + 1, Counted(nx, u), AllTold,
         pc \in {"pump"} \cup Callbacks, pc' \in {"pump"} \cup Callbacks,
         m_Outstanding # <<>>, Current.state # "COMPLETE", Current.req < u,
         NEW n, Same(Current, n), Becomes(n), Untouched,
         buf' \in Seq(Tokens), eof => buf' = <<>>,
         NEW h, got' = [got EXCEPT ![Current.req] = h],
         fate' = IF n.state = "COMPLETE" THEN [fate EXCEPT ![Current.req] = "complete"] ELSE fate,
         NEW R \in Places, NEW Q \in Places, Path(answer, u, buf' \o wire, R, Q),
         up => Q = First(u),
         \/ Matches(n, answer[Current.req], h, pc', R)
         \/ eof /\ n.state = "COMPLETE" /\ pc' = "complete",
         Told(Current.req, answer[Current.req], h, fate'[Current.req])
  PROVE  IInv'
<1> DEFINE q == Current.req
           out == m_Outstanding'
           l == Len(m_Outstanding)
<1>1. /\ IsResponse(Current) /\ q = FirstOf(nx) /\ Current.method \in Methods
      /\ q \in Requests /\ q < nx /\ q \in Nat /\ nx \in Nat
      /\ fate[q] = "open" /\ answer[q] \in Answers[Current.method]
      /\ l \in Nat /\ l > 0 /\ 1 \in 1 .. l
  <2>1. l \in Nat /\ l > 0 /\ 1 \in 1 .. l
    BY OwnSeqShape DEF Counted, Types
  <2>2. /\ IsResponse(Current) /\ q = FirstOf(nx) + 1 - 1 /\ Current.method \in Methods
        /\ q \in Requests /\ q < nx /\ FirstOf(nx) \in Nat \ {0} /\ nx \in Nat
        /\ fate[q] = "open" /\ answer[q] \in Answers[Current.method]
    BY <2>1, OfWaiting DEF Current
  <2> QED
    BY <2>1, <2>2 DEF Requests
<1>2. /\ OwnSeq(out) /\ Len(out) = l /\ out # <<>> /\ out[1] = n
      /\ \A i \in 2 .. l : out[i] = m_Outstanding[i]
  <2>1. OwnSeq(m_Outstanding)
    BY DEF Counted, Types
  <2>2. out = [m_Outstanding EXCEPT ![1] = n]
    BY DEF Becomes
  <2> DEFINE s == m_Outstanding
             t == out
  <2>3. OwnSeq(s) /\ s # <<>> /\ t = FirstIs(s, n)
    BY <2>1, <2>2 DEF FirstIs
  <2> HIDE DEF s, t
  <2>4. /\ OwnSeq(t) /\ Len(t) = Len(s) /\ t # <<>> /\ t[1] = n
        /\ \A i \in 2 .. Len(s) : t[i] = s[i]
    BY <2>3, OneChanged
  <2> QED
    BY <2>4 DEF s, t
<1>3. /\ IsResponse(n) /\ n.req = q /\ n.method = Current.method /\ Ends(n)
  BY DEF Same
<1>4. FirstOf(nx)' = FirstOf(nx) /\ Current' = n
  BY <1>2 DEF FirstOf, Current
<1>5. /\ m_Sock' = m_Sock /\ caller' = caller /\ eof' = eof /\ up' = up
      /\ requests' = requests /\ wire' = wire /\ answer' = answer
  BY DEF Untouched, network
<1>6. At = pc /\ At' = pc' /\ pc # "request" /\ pc' # "request" /\ pc' # "thrown" /\ pc # "thrown"
      /\ pc # "user" /\ pc' # "user"
  BY DEF At, Callbacks
<1>7. /\ \A p \in Requests : p # q => fate'[p] = fate[p] /\ got'[p] = got[p]
      /\ fate'[q] = IF n.state = "COMPLETE" THEN "complete" ELSE "open"
      /\ got'[q] = h
      /\ fate' \in [Requests -> {"none", "open", "complete", "failed"}]
      /\ got' = [p \in Requests |-> got'[p]]
  <2>1. fate \in [Requests -> {"none", "open", "complete", "failed"}]
        /\ got = [p \in Requests |-> got[p]]
    BY DEF Counted, Types
  <2>2. /\ \A p \in Requests : p # q => got'[p] = got[p]
        /\ got'[q] = h
        /\ got' = [p \in Requests |-> got'[p]]
    <3> DEFINE q0 == q
    <3>1. q0 \in Requests /\ got' = [got EXCEPT ![q0] = h]
      BY <1>1
    <3> HIDE DEF q0
    <3>2. /\ \A p \in Requests : p # q0 => got'[p] = got[p]
          /\ got'[q0] = h
          /\ got' = [p \in Requests |-> got'[p]]
      BY <2>1, <3>1
    <3> QED
      BY <3>2 DEF q0
  <2>3. CASE n.state = "COMPLETE"
    <3> DEFINE q0 == q
    <3>1. q0 \in Requests /\ fate' = [fate EXCEPT ![q0] = "complete"]
      BY <1>1, <2>3
    <3> HIDE DEF q0
    <3>2. /\ \A p \in Requests : p # q0 => fate'[p] = fate[p]
          /\ fate'[q0] = "complete"
          /\ fate' \in [Requests -> {"none", "open", "complete", "failed"}]
      BY <2>1, <3>1
    <3> QED
      BY <2>2, <2>3, <3>2 DEF q0
  <2>4. CASE n.state # "COMPLETE"
    BY <1>1, <2>1, <2>2, <2>4
  <2> QED
    BY <2>3, <2>4
<1> HIDE DEF q, out, l
<1>8. Types'
  BY <1>2, <1>5, <1>7 DEF Types, Counted, out
<1>9. Issued(nx)'
  <2>1. \A p \in Requests : fate'[p] = "none" <=> p >= nx
    <3>1. \A p \in Requests : fate[p] = "none" <=> p >= nx
      BY DEF Counted, Issued
    <3>2. fate'[q] # "none" /\ ~(q >= nx)
      BY <1>1, <1>7
    <3> QED
      BY <1>7, <3>1, <3>2
  <2>2. \A p \in Requests : fate'[p] = "open" => p >= FirstOf(nx)
    <3>1. \A p \in Requests : fate[p] = "open" => p >= FirstOf(nx)
      BY DEF Counted, Issued
    <3>2. q >= FirstOf(nx)
      BY <1>1
    <3> QED
      BY <1>7, <3>1, <3>2
  <2>3. \A i \in 1 .. Len(out) : Waits(nx, i)'
    <3> TAKE i \in 1 .. Len(out)
    <3>0. i \in 1 .. l
      BY <1>2
    <3>1. CASE i = 1
      <4>1. n.req = FirstOf(nx) + 1 - 1
        BY <1>1, <1>3
      <4>2. n.method \in Methods
        BY <1>1, <1>3
      <4> QED
        BY <1>2, <1>3, <1>4, <1>7, <3>1, <4>1, <4>2 DEF Waits, out
    <3>2. CASE i # 1
      <4>1. out[i] = m_Outstanding[i]
        BY <1>1, <1>2, <3>0, <3>2
      <4>2. Waits(nx, i)
        BY <3>0 DEF Counted, Issued, l
      <4>3. m_Outstanding[i].req \in Requests /\ m_Outstanding[i].req # q
        <5>1. m_Outstanding[i].req = FirstOf(nx) + i - 1 /\ m_Outstanding[i].req \in Requests
          BY <3>0, OfWaiting DEF l
        <5> QED
          BY <1>1, <3>0, <3>2, <5>1
      <4>4. fate'[m_Outstanding[i].req] = fate[m_Outstanding[i].req]
        BY <1>7, <4>3
      <4> QED
        BY <1>4, <3>2, <4>1, <4>2, <4>4 DEF Waits, out
    <3> QED
      BY <3>1, <3>2
  <2>4. \A p \in Requests : p >= nx \/ p > FirstOf(nx) => got'[p] = Nothing
    <3>1. \A p \in Requests : p >= nx \/ p > FirstOf(nx) => got[p] = Nothing
      BY DEF Counted, Issued
    <3>2. ~(q >= nx) /\ ~(q > FirstOf(nx))
      BY <1>1
    <3> QED
      BY <1>7, <3>1, <3>2
  <2>5. FirstOf(nx) >= 1
    BY DEF Counted, Issued
  <2> QED
    BY <1>2, <1>3, <1>4, <1>6, <2>1, <2>2, <2>3, <2>4, <2>5 DEF Issued, out
<1>10. Answered(nx, u)'
  <2>1. /\ u \in 1 .. nx
        /\ \A p \in Requests : p >= u => answer[p] = NoAnswer
        /\ \A i \in 1 .. l :
             m_Outstanding[i].req < u
               => answer[m_Outstanding[i].req] \in Answers[m_Outstanding[i].method]
    BY DEF Counted, Answered, l
  <2>2. \A i \in 1 .. Len(out) : out[i].req < u => answer[out[i].req] \in Answers[out[i].method]
    <3> TAKE i \in 1 .. Len(out)
    <3>1. CASE i = 1
      BY <1>1, <1>2, <1>3, <3>1
    <3>2. CASE i # 1
      <4>1. i \in 2 .. l /\ i \in 1 .. l
        BY <1>1, <1>2, <3>2
      <4> QED
        BY <1>2, <2>1, <4>1
    <3> QED
      BY <3>1, <3>2
  <2> QED
    BY <1>5, <1>6, <2>1, <2>2 DEF Answered, out
<1>11. Sent(nx, u)'
  <2>1. Sent(nx, u)
    BY DEF Counted
  <2>2. CASE ~up
    BY <1>5, <2>1, <2>2 DEF Sent
  <2>3. CASE up
    <3>1. \A i \in 1 .. Len(requests) :
            m_Outstanding'[u + i - FirstOf(nx)].method = m_Outstanding[u + i - FirstOf(nx)].method
      <4> TAKE i \in 1 .. Len(requests)
      <4> DEFINE k == u + i - FirstOf(nx)
      <4>1. k \in 1 .. l
        <5>1. u >= FirstOf(nx) /\ u + Len(requests) = nx
          BY <1>6, <2>1, <2>3 DEF Sent
        <5>2. Len(requests) \in Nat
          BY LenProperties DEF Counted, Types
        <5>3. FirstOf(nx) = nx - l /\ FirstOf(nx) \in Nat
          BY <1>1 DEF FirstOf, l
        <5> QED
          BY <1>1, <5>1, <5>2, <5>3
      <4> HIDE DEF k
      <4>2. k = 1 \/ k \in 2 .. l
        BY <1>1, <4>1
      <4>3. out[k].method = m_Outstanding[k].method
        BY <1>2, <1>3, <4>2 DEF Current
      <4> QED
        BY <4>3 DEF k, out
    <3> QED
      BY <1>4, <1>5, <1>6, <2>1, <2>3, <3>1 DEF Sent
  <2> QED
    BY <2>2, <2>3
<1>12. Connection'
  <2>1. Connection
    BY DEF Counted
  <2>2. m_Sock # -1
    BY <1>6, <2>1 DEF Connection
  <2> QED
    BY <1>2, <1>5, <1>6, <2>1, <2>2 DEF Connection, out
<1>13. Reads(nx, u, R, Q)'
  <2>1. Path(answer, u, buf \o wire, R, Q)'
    BY <1>5
  <2>2. Current'.req < u
    BY <1>3, <1>4 DEF q
  <2>3. \/ Matches(n, answer[q], h, pc', R)
        \/ eof /\ n.state = "COMPLETE" /\ pc' = "complete"
    BY DEF q
  <2>4. got'[q] = h
    BY <1>7
  <2> QED
    BY <1>2, <1>3, <1>4, <1>5, <1>6, <2>1, <2>2, <2>3, <2>4 DEF Reads, out
<1>14. AllTold'
  <2> SUFFICES ASSUME NEW p \in Requests PROVE Told(p, answer'[p], got'[p], fate'[p])
    BY DEF AllTold
  <2>1. CASE p = q
    BY <1>5, <1>7, <2>1 DEF q
  <2>2. CASE p # q
    BY <1>5, <1>7, <2>2 DEF AllTold
  <2> QED
    BY <2>1, <2>2
<1> QED
  BY <1>8, <1>9, <1>10, <1>11, <1>12, <1>13, <1>14 DEF IInv, Counted

(* The next token for the response that is read.                            *)
LEMMA NextIsRead ==
  ASSUME NEW nx \in 1 .. MaxRequests + 1, NEW u \in 1 .. MaxRequests + 1, Counted(nx, u),
         NEW P \in Places, NEW Q \in Places, Reads(nx, u, P, Q),
         pc = "pump", ~eof, buf # <<>>, m_Outstanding # <<>>
  PROVE  \E R \in Places :
           /\ Reader(Current, answer[Current.req], got[Current.req], P, Head(buf))
           /\ Current.req < u
           /\ Tail(buf) \in Seq(Tokens) /\ Path(answer, u, Tail(buf) \o wire, R, Q)
           /\ Current.state \in LineStates => R = After(answer[Current.req], P)
<1> DEFINE r == Current
           a == answer[r.req]
           g == got[r.req]
           x == Head(buf)
<1>1. buf \in Seq(Tokens) /\ wire \in Seq(Tokens) /\ OwnSeq(m_Outstanding)
  BY DEF Counted, Types
<1>2. /\ buf \o wire \in Seq(Tokens) /\ buf \o wire # <<>>
      /\ Head(buf \o wire) = Head(buf) /\ Tail(buf \o wire) = Tail(buf) \o wire
      /\ Tail(buf) \in Seq(Tokens) /\ Head(buf) \in Tokens
  BY <1>1, HeadConcat
<1>3. PICK R \in Places : Steps(answer, u, P, x, R) /\ Path(answer, u, Tail(buf) \o wire, R, Q)
  <2> DEFINE t == buf \o wire
  <2>1. t \in Seq(Tokens) /\ t # <<>> /\ Path(answer, u, t, P, Q)
        /\ Head(t) = x /\ Tail(t) = Tail(buf) \o wire
    BY <1>2 DEF Reads
  <2> HIDE DEF t, x
  <2>2. \E R \in Places : Steps(answer, u, P, Head(t), R) /\ Path(answer, u, Tail(t), R, Q)
    BY <2>1, PathHead
  <2> QED
    BY <2>1, <2>2
<1>4. P.req < u
  BY <1>3 DEF Steps
<1>5. r.req < u
  <2>1. P = First(r.req) \/ r.req < u
    BY DEF Reads
  <2> QED
    BY <1>4, <2>1 DEF First, Place
<1>6. /\ IsResponse(r) /\ r.method \in Methods /\ r.req \in Nat /\ a \in Answers[r.method]
  <2>1. 1 \in 1 .. Len(m_Outstanding)
    BY <1>1, OwnSeqShape
  <2>2. IsResponse(r) /\ r.method \in Methods /\ r.req \in Requests
        /\ (r.req < u => answer[r.req] \in Answers[r.method])
    BY <2>1, OfWaiting DEF Current
  <2> QED
    BY <1>5, <2>2 DEF Requests
<1>7. Ends(r)
  BY DEF Counted, Issued, Current
<1>8. Matches(r, a, g, "pump", P)
  BY DEF Reads, At
<1> HIDE DEF r, a, g, x
<1>9. NextToken(a, P, x) /\ (r.state \in LineStates => R = After(a, P))
  <2>1. a = answer[r.req]
    BY DEF a
  <2> QED
    BY <1>3, <1>6, <1>8, <2>1, NextOf
<1>10. Reader(r, a, g, P, x)
  BY <1>6, <1>7, <1>8, <1>9 DEF Reader
<1> QED
  BY <1>2, <1>3, <1>5, <1>9, <1>10 DEF r, a, g, x

(* What is already told of a response is not changed by reading on.         *)
LEMMA StillTold ==
  ASSUME AllTold, NEW nx, NEW u, Counted(nx, u), m_Outstanding # <<>>, fate' = fate
  PROVE  Told(Current.req, answer[Current.req], got[Current.req], fate'[Current.req])
<1>1. 1 \in 1 .. Len(m_Outstanding)
  BY OwnSeqShape DEF Counted, Types
<1>2. Current.req \in Requests
  BY <1>1, OfWaiting DEF Current
<1> QED
  BY <1>2 DEF AllTold

(* Where nothing is told, the same is told of the response that is read.    *)
LEMMA SameGot ==
  ASSUME NEW nx, NEW u, Counted(nx, u), m_Outstanding # <<>>, got' = got
  PROVE  got' = [got EXCEPT ![Current.req] = got[Current.req]]
<1>1. got = [q \in Requests |-> got[q]]
  BY DEF Counted, Types
<1> QED
  BY <1>1

(* A line goes on, or ends, and nothing is told of it.                      *)
LEMMA LineMoves ==
  ASSUME NEW nx \in 1 .. MaxRequests + 1, NEW u \in 1 .. MaxRequests + 1, Counted(nx, u), AllTold,
         NEW P \in Places, NEW Q \in Places, Reads(nx, u, P, Q),
         pc = "pump", ~eof, buf # <<>>, m_Outstanding # <<>>, Current.state \in LineStates,
         pc' = "pump", UNCHANGED history, buf' = Tail(buf), Untouched,
         NEW n, Becomes(n),
         Reader(Current, answer[Current.req], got[Current.req], P, Head(buf)) =>
           /\ Same(Current, n) /\ n.state # "COMPLETE"
           /\ Matches(n, answer[Current.req], got[Current.req], "pump",
                      After(answer[Current.req], P))
  PROVE  IInv'
<1>1. PICK R \in Places :
           /\ Reader(Current, answer[Current.req], got[Current.req], P, Head(buf))
           /\ Current.req < u
           /\ Tail(buf) \in Seq(Tokens) /\ Path(answer, u, Tail(buf) \o wire, R, Q)
           /\ Current.state \in LineStates => R = After(answer[Current.req], P)
  BY NextIsRead
<1>2. Current.state # "COMPLETE"
  BY DEF LineStates
<1>3. got' = got /\ fate' = fate
  BY DEF history
<1> DEFINE h == got[Current.req]
<1>4. got' = [got EXCEPT ![Current.req] = h]
  BY <1>3, SameGot
<1>5. Told(Current.req, answer[Current.req], h, fate'[Current.req])
  BY <1>3, StillTold
<1>6. up => Q = First(u)
  BY DEF Reads
<1>7. Same(Current, n) /\ n.state # "COMPLETE" /\ Matches(n, answer[Current.req], h, pc', R)
  BY <1>1
<1>8. buf' \in Seq(Tokens) /\ Path(answer, u, buf' \o wire, R, Q)
  BY <1>1
<1>9. fate' = IF n.state = "COMPLETE" THEN [fate EXCEPT ![Current.req] = "complete"] ELSE fate
  BY <1>3, <1>7
<1>10. pc \in {"pump"} \cup Callbacks /\ pc' \in {"pump"} \cup Callbacks
  OBVIOUS
<1> HIDE DEF h
<1> QED
  BY <1>1, <1>2, <1>4, <1>5, <1>6, <1>7, <1>8, <1>9, <1>10, CurrentMoves

(* What the invariant says of numbers and places.                           *)
Situation(nx, u, P, Q) ==
  /\ nx \in 1 .. MaxRequests + 1 /\ u \in 1 .. MaxRequests + 1 /\ P \in Places /\ Q \in Places
  /\ Counted(nx, u) /\ Reads(nx, u, P, Q) /\ AllTold

(* In every state but after an exception.                                   *)
LEMMA SituationIs ==
  ASSUME IInv, pc # "thrown"
  PROVE  \E nx, u, P, Q : Situation(nx, u, P, Q)
  BY DEF IInv, Situation

(* Accumulate: the character is the next one of the line that the response  *)
(* is in.                                                                   *)
LEMMA AccumulateStep ==
  ASSUME IInv, Accumulate
  PROVE  IInv'
<1>1. /\ pc = "pump" /\ ~eof /\ buf # <<>> /\ m_Outstanding # <<>> /\ Current.state \in LineStates
      /\ Head(buf) # LF
      /\ pc' = "pump" /\ UNCHANGED history /\ buf' = Tail(buf) /\ Untouched
  BY DEF Accumulate, Reading
<1>2. PICK nx, u, P, Q : Situation(nx, u, P, Q)
  BY <1>1, SituationIs
<1> DEFINE x == Head(buf)
           n == [Current EXCEPT !.lineBuf = IF x = CR THEN @ ELSE Append(@, x)]
           a == answer[Current.req]
           g == got[Current.req]
<1>3. Becomes(n)
  BY DEF Accumulate
<1>4. ASSUME Reader(Current, a, g, P, x)
      PROVE  /\ Same(Current, n) /\ n.state # "COMPLETE"
             /\ Matches(n, a, g, "pump", After(a, P))
  <2>1. Same(Current, n) /\ n.state = Current.state /\ Matches(n, a, g, "pump", After(a, P))
    BY <1>1, <1>4, TokenOfLine
  <2> QED
    BY <1>1, <2>1 DEF LineStates
<1> HIDE DEF n
<1> QED
  BY <1>1, <1>2, <1>3, <1>4, LineMoves DEF Situation

(* ProcessStatusLine takes the status of the answer, or of the one before   *)
(* it.                                                                      *)
LEMMA StatusLineStep ==
  ASSUME IInv, ProcessStatusLine
  PROVE  IInv'
<1> DEFINE n == StatusRead(Current)
           x == Head(buf)
           a == answer[Current.req]
           g == got[Current.req]
<1>1. /\ pc = "pump" /\ ~eof /\ buf # <<>> /\ m_Outstanding # <<>> /\ Current.state = "STATUSLINE"
      /\ Head(buf) = LF /\ GoodStatusLine(Current)
      /\ pc' = "pump" /\ UNCHANGED history /\ buf' = Tail(buf) /\ Untouched
  BY DEF ProcessStatusLine, EndOfLine, Reading, GoesOn
<1>2. PICK nx, u, P, Q : Situation(nx, u, P, Q)
  BY <1>1, SituationIs
<1>3. Becomes(n)
  BY DEF ProcessStatusLine, EndOfLine, StatusRead
<1>4. ASSUME Reader(Current, a, g, P, x)
      PROVE  /\ Same(Current, n) /\ n.state # "COMPLETE"
             /\ Matches(n, a, g, "pump", After(a, P))
  BY <1>1, <1>4, StatusLine
<1>5. Current.state \in LineStates
  BY <1>1 DEF LineStates
<1> HIDE DEF n
<1> QED
  BY <1>1, <1>2, <1>3, <1>4, <1>5, LineMoves DEF Situation

(* HeaderLine keeps what the headers said so far.                           *)
LEMMA HeaderLineStep ==
  ASSUME IInv, HeaderLine
  PROVE  IInv'
<1> DEFINE n == HeaderRead(Current)
           x == Head(buf)
           a == answer[Current.req]
           g == got[Current.req]
<1>1. /\ pc = "pump" /\ ~eof /\ buf # <<>> /\ m_Outstanding # <<>> /\ Current.state = "HEADERS"
      /\ Head(buf) = LF /\ Current.lineBuf # <<>>
      /\ pc' = "pump" /\ UNCHANGED history /\ buf' = Tail(buf) /\ Untouched
  BY DEF HeaderLine, EndOfLine, Reading, GoesOn
<1>2. PICK nx, u, P, Q : Situation(nx, u, P, Q)
  BY <1>1, SituationIs
<1>3. Becomes(n)
  BY DEF HeaderLine, EndOfLine, HeaderRead
<1>4. ASSUME Reader(Current, a, g, P, x)
      PROVE  /\ Same(Current, n) /\ n.state # "COMPLETE"
             /\ Matches(n, a, g, "pump", After(a, P))
  BY <1>1, <1>4, NextHeader
<1>5. Current.state \in LineStates
  BY <1>1 DEF LineStates
<1> HIDE DEF n
<1> QED
  BY <1>1, <1>2, <1>3, <1>4, <1>5, LineMoves DEF Situation

(* EndOfInterim leaves nothing of an interim answer but its version.        *)
LEMMA EndOfInterimStep ==
  ASSUME IInv, EndOfInterim
  PROVE  IInv'
<1> DEFINE n == InterimRead(Current)
           x == Head(buf)
           a == answer[Current.req]
           g == got[Current.req]
<1>1. /\ pc = "pump" /\ ~eof /\ buf # <<>> /\ m_Outstanding # <<>> /\ Current.state = "HEADERS"
      /\ Head(buf) = LF /\ Current.lineBuf = <<>> /\ Current.status = 100
      /\ pc' = "pump" /\ UNCHANGED history /\ buf' = Tail(buf) /\ Untouched
  BY DEF EndOfInterim, EndOfLine, Reading, GoesOn
<1>2. PICK nx, u, P, Q : Situation(nx, u, P, Q)
  BY <1>1, SituationIs
<1>3. Becomes(n)
  BY DEF EndOfInterim, EndOfLine, InterimRead
<1>4. ASSUME Reader(Current, a, g, P, x)
      PROVE  /\ Same(Current, n) /\ n.state # "COMPLETE"
             /\ Matches(n, a, g, "pump", After(a, P))
  BY <1>1, <1>4, InterimEnds
<1>5. Current.state \in LineStates
  BY <1>1 DEF LineStates
<1> HIDE DEF n
<1> QED
  BY <1>1, <1>2, <1>3, <1>4, <1>5, LineMoves DEF Situation

(* ProcessChunkLenLine expects the bytes that the server put in the chunk.  *)
LEMMA ChunkLenStep ==
  ASSUME IInv, ProcessChunkLenLine
  PROVE  IInv'
<1> DEFINE n == ChunkLenRead(Current)
           x == Head(buf)
           a == answer[Current.req]
           g == got[Current.req]
<1>1. /\ pc = "pump" /\ ~eof /\ buf # <<>> /\ m_Outstanding # <<>> /\ Current.state = "CHUNKLEN"
      /\ Head(buf) = LF
      /\ pc' = "pump" /\ UNCHANGED history /\ buf' = Tail(buf) /\ Untouched
  BY DEF ProcessChunkLenLine, EndOfLine, Reading, GoesOn
<1>2. PICK nx, u, P, Q : Situation(nx, u, P, Q)
  BY <1>1, SituationIs
<1>3. Becomes(n)
  BY DEF ProcessChunkLenLine, EndOfLine, ChunkLenRead
<1>4. ASSUME Reader(Current, a, g, P, x)
      PROVE  /\ Same(Current, n) /\ n.state # "COMPLETE"
             /\ Matches(n, a, g, "pump", After(a, P))
  BY <1>1, <1>4, ChunkLenLine
<1>5. Current.state \in LineStates
  BY <1>1 DEF LineStates
<1> HIDE DEF n
<1> QED
  BY <1>1, <1>2, <1>3, <1>4, <1>5, LineMoves DEF Situation

(* ChunkEndLine: the next chunk begins, or the last line of the chunks.     *)
LEMMA ChunkEndStep ==
  ASSUME IInv, ChunkEndLine
  PROVE  IInv'
<1> DEFINE n == ChunkEndRead(Current)
           x == Head(buf)
           a == answer[Current.req]
           g == got[Current.req]
<1>1. /\ pc = "pump" /\ ~eof /\ buf # <<>> /\ m_Outstanding # <<>> /\ Current.state = "CHUNKEND"
      /\ Head(buf) = LF
      /\ pc' = "pump" /\ UNCHANGED history /\ buf' = Tail(buf) /\ Untouched
  BY DEF ChunkEndLine, EndOfLine, Reading, GoesOn
<1>2. PICK nx, u, P, Q : Situation(nx, u, P, Q)
  BY <1>1, SituationIs
<1>3. Becomes(n)
  BY DEF ChunkEndLine, EndOfLine, ChunkEndRead
<1>4. ASSUME Reader(Current, a, g, P, x)
      PROVE  /\ Same(Current, n) /\ n.state # "COMPLETE"
             /\ Matches(n, a, g, "pump", After(a, P))
  BY <1>1, <1>4, EndOfChunk
<1>5. Current.state \in LineStates
  BY <1>1 DEF LineStates
<1> HIDE DEF n
<1> QED
  BY <1>1, <1>2, <1>3, <1>4, <1>5, LineMoves DEF Situation

(* ProcessTrailerLine leaves the response as it was.                        *)
LEMMA TrailerStep ==
  ASSUME IInv, ProcessTrailerLine
  PROVE  IInv'
<1> DEFINE n == TrailerRead(Current)
           x == Head(buf)
           a == answer[Current.req]
           g == got[Current.req]
<1>1. /\ pc = "pump" /\ ~eof /\ buf # <<>> /\ m_Outstanding # <<>> /\ Current.state = "TRAILERS"
      /\ Head(buf) = LF /\ Current.lineBuf # <<>>
      /\ pc' = "pump" /\ UNCHANGED history /\ buf' = Tail(buf) /\ Untouched
  BY DEF ProcessTrailerLine, EndOfLine, Reading, GoesOn
<1>2. PICK nx, u, P, Q : Situation(nx, u, P, Q)
  BY <1>1, SituationIs
<1>3. Becomes(n)
  BY DEF ProcessTrailerLine, EndOfLine, TrailerRead
<1>4. ASSUME Reader(Current, a, g, P, x)
      PROVE  /\ Same(Current, n) /\ n.state # "COMPLETE"
             /\ Matches(n, a, g, "pump", After(a, P))
  BY <1>1, <1>4, TrailerLine
<1>5. Current.state \in LineStates
  BY <1>1 DEF LineStates
<1> HIDE DEF n
<1> QED
  BY <1>1, <1>2, <1>3, <1>4, <1>5, LineMoves DEF Situation

(* What is known of the response that is read.                              *)
LEMMA CurrentIs ==
  ASSUME NEW nx, NEW u, Counted(nx, u), m_Outstanding # <<>>
  PROVE  /\ IsResponse(Current) /\ Current.method \in Methods /\ Ends(Current)
         /\ Current.req \in Requests /\ Current.req \in Nat
         /\ Current.req < u => answer[Current.req] \in Answers[Current.method]
<1>1. 1 \in 1 .. Len(m_Outstanding)
  BY OwnSeqShape DEF Counted, Types
<1>2. Ends(Current)
  BY DEF Counted, Issued, Current
<1> QED
  BY <1>1, <1>2, OfWaiting DEF Current, Requests

(* BeginBody tells the status, and knows where the body ends.               *)
LEMMA BeginBodyStep ==
  ASSUME IInv, BeginBody
  PROVE  IInv'
<1> DEFINE f == Flushed(Current)
           n == BeginRead(f)
           x == Head(buf)
           a == answer[Current.req]
           g == got[Current.req]
           h == [begun |-> f.status, willClose |-> a.closes, data |-> <<>>]
<1>1. /\ pc = "pump" /\ ~eof /\ buf # <<>> /\ m_Outstanding # <<>> /\ Current.state = "HEADERS"
      /\ Head(buf) = LF /\ Current.lineBuf = <<>> /\ Current.status # 100
      /\ pc' = "begin" /\ UNCHANGED fate /\ buf' = Tail(buf) /\ Untouched
      /\ got' = [got EXCEPT ![f.req].begun = f.status, ![f.req].willClose = WillClose(f)]
  BY DEF BeginBody, EndOfLine, Reading, WillClose
<1>2. PICK nx, u, P, Q : Situation(nx, u, P, Q)
  BY <1>1, SituationIs
<1>3. Becomes(n)
  BY DEF BeginBody, EndOfLine, BeginRead, WillClose
<1>4. PICK R \in Places :
           /\ Reader(Current, a, g, P, x)
           /\ Current.req < u
           /\ Tail(buf) \in Seq(Tokens) /\ Path(answer, u, Tail(buf) \o wire, R, Q)
           /\ Current.state \in LineStates => R = After(a, P)
  BY <1>1, <1>2, NextIsRead DEF Situation
<1>5. R = After(a, P)
  BY <1>1, <1>4 DEF LineStates
<1>6. /\ Same(Current, n) /\ n.state = "HEADERS" /\ g = Nothing
      /\ f.req = Current.req /\ f.status = a.status /\ (WillClose(f) <=> a.closes)
      /\ Matches(n, a, h, "begin", R)
  <2> DEFINE r == Current
  <2>1. Reader(r, a, g, P, x) /\ r.state = "HEADERS" /\ x = LF /\ r.lineBuf = <<>> /\ r.status # 100
    BY <1>1, <1>4
  <2>2. f = Flushed(r)
    OBVIOUS
  <2> HIDE DEF r, f, x, a, g
  <2>3. n = BeginRead(f)
    OBVIOUS
  <2> HIDE DEF n
  <2>4. /\ Same(r, n) /\ n.state = "HEADERS" /\ g = Nothing
        /\ f.req = r.req /\ f.status = a.status /\ (WillClose(f) <=> a.closes)
        /\ \A m : m = [begun |-> f.status, willClose |-> a.closes, data |-> <<>>]
                     => Matches(n, a, m, "begin", After(a, P))
    BY <2>1, <2>2, <2>3, HeadersEnd
  <2> QED
    BY <1>5, <2>4 DEF r
<1>7. got' = [got EXCEPT ![Current.req] = h]
  <2> DEFINE q == Current.req
             c == a.closes
             y == f.status
  <2>1. /\ q \in Requests /\ got = [p \in Requests |-> got[p]] /\ got[q] = Nothing
        /\ (WillClose(f) <=> c) /\ WillClose(f) \in BOOLEAN /\ c \in BOOLEAN
        /\ got' = [got EXCEPT ![q].begun = y, ![q].willClose = WillClose(f)]
    <3>1. q \in Requests /\ a \in Answers[Current.method] /\ Current.method \in Methods
      BY <1>1, <1>2, <1>4, CurrentIs DEF Situation
    <3>2. c \in BOOLEAN
      BY <3>1, AnswerShape
    <3>3. got = [p \in Requests |-> got[p]]
      BY <1>2 DEF Situation, Counted, Types
    <3>4. WillClose(f) \in BOOLEAN
      BY DEF WillClose, CheckClose
    <3> QED
      BY <1>1, <1>6, <3>1, <3>2, <3>3, <3>4
  <2>2. WillClose(f) = c
    BY <2>1
  <2>3. got' = [got EXCEPT ![q].begun = y, ![q].willClose = c]
    BY <2>1, <2>2
  <2> HIDE DEF q, c, y
  <2>4. got' = [got EXCEPT ![q] = [begun |-> y, willClose |-> c, data |-> <<>>]]
    <3> DEFINE g1 == [got EXCEPT ![q].begun = y]
               g2 == [g1 EXCEPT ![q].willClose = c]
    <3>1. got' = g2
      BY <2>3
    <3>2. g1 = [got EXCEPT ![q] = [begun |-> y, willClose |-> FALSE, data |-> <<>>]]
      <4>1. [Nothing EXCEPT !.begun = y] = [begun |-> y, willClose |-> FALSE, data |-> <<>>]
        <5> DEFINE no == FALSE
                   none == <<>>
        <5>1. Nothing = [begun |-> 0, willClose |-> no, data |-> none]
          BY DEF Nothing
        <5> HIDE DEF no, none
        <5>2. [Nothing EXCEPT !.begun = y] = [begun |-> y, willClose |-> no, data |-> none]
          BY <5>1
        <5> QED
          BY <5>2 DEF no, none
      <4>2. g1 = [got EXCEPT ![q] = [got[q] EXCEPT !.begun = y]]
        OBVIOUS
      <4> QED
        BY <2>1, <4>1, <4>2
    <3>3. g1[q] = [begun |-> y, willClose |-> FALSE, data |-> <<>>]
      BY <2>1, <3>2
    <3>4. g1 = [p \in Requests |-> g1[p]] /\ \A p \in Requests : p # q => g1[p] = got[p]
      BY <2>1, <3>2
    <3> HIDE DEF g1
    <3>5. g2[q] = [begun |-> y, willClose |-> c, data |-> <<>>]
      BY <2>1, <3>3, <3>4
    <3>6. g2 = [p \in Requests |-> g2[p]] /\ \A p \in Requests : p # q => g2[p] = got[p]
      BY <2>1, <3>4
    <3> HIDE DEF g2
    <3> DEFINE h0 == [begun |-> y, willClose |-> c, data |-> <<>>]
               g3 == [got EXCEPT ![q] = h0]
    <3>7. g3[q] = h0 /\ g3 = [p \in Requests |-> g3[p]]
            /\ \A p \in Requests : p # q => g3[p] = got[p]
      <4> HIDE DEF h0
      <4> QED
        BY <2>1
    <3> HIDE DEF g3
    <3>8. \A p \in Requests : g2[p] = g3[p]
      BY <3>5, <3>6, <3>7
    <3>9. [p \in Requests |-> g2[p]] = [p \in Requests |-> g3[p]]
      BY <3>8
    <3>10. g2 = g3
      BY <3>6, <3>7, <3>9, Zenon
    <3> QED
      BY <3>1, <3>10 DEF g3
  <2> QED
    BY <2>4 DEF q, c, y
<1>8. Told(Current.req, a, h, fate'[Current.req])
  <2> DEFINE q == Current.req
  <2>1. q \in Requests /\ a \in Answers[Current.method] /\ Current.method \in Methods /\ q \in Nat
    BY <1>1, <1>2, <1>4, CurrentIs DEF Situation
  <2>2. fate'[q] # "complete"
    <3>1. 1 \in 1 .. Len(m_Outstanding)
      BY <1>1, <1>2, OwnSeqShape DEF Situation, Counted, Types
    <3>2. fate[q] = "open"
      BY <1>1, <1>2, <3>1, OfWaiting DEF Situation, Current
    <3> QED
      BY <1>1, <3>2
  <2>3. IsPrefix(<<>>, BodyOf(q, a))
    <3> DEFINE s == BodyOf(q, a)
    <3>1. s \in Seq(Tokens)
      BY <2>1, BodyShape
    <3> HIDE DEF s
    <3>2. Len(<<>>) = 0 /\ Len(s) \in Nat /\ SubSeq(s, 1, 0) = <<>>
      BY <3>1, LenProperties, SubSeqEmpty
    <3>3. SubSeq(<<>>, 1, 0) = <<>>
      BY SubSeqEmpty
    <3> QED
      BY <3>2, <3>3 DEF IsPrefix, s
  <2>4. h.begun = a.status /\ h.willClose = a.closes /\ h.data = <<>>
    BY <1>6
  <2> HIDE DEF h, q
  <2> QED
    BY <2>2, <2>3, <2>4 DEF Told, q
<1>9. pc \in {"pump"} \cup Callbacks /\ pc' \in {"pump"} \cup Callbacks
  BY <1>1 DEF Callbacks
<1>10. fate' = IF n.state = "COMPLETE" THEN [fate EXCEPT ![Current.req] = "complete"] ELSE fate
  BY <1>1, <1>6
<1>11. up => Q = First(u)
  BY <1>2 DEF Situation, Reads
<1>12. Current.state # "COMPLETE"
  BY <1>1
<1>13. buf' \in Seq(Tokens) /\ Path(answer, u, buf' \o wire, R, Q) /\ (eof => buf' = <<>>)
  BY <1>1, <1>4
<1>14. Matches(n, a, h, pc', R)
  BY <1>1, <1>6
<1> HIDE DEF n, h, f
<1> QED
  BY <1>1, <1>2, <1>3, <1>4, <1>6, <1>7, <1>8, <1>9, <1>10, <1>11, <1>12, <1>13, <1>14,
     CurrentMoves DEF Situation

(* A callback about an answer returns.                                      *)
LEMMA InCallback ==
  ASSUME NEW nx, NEW u, NEW P, NEW Q, Situation(nx, u, P, Q), pc \in {"begin", "data"}
  PROVE  /\ m_Outstanding # <<>> /\ Current.req < u
         /\ Matches(Current, answer[Current.req], got[Current.req], pc, P)
         /\ eof => buf = <<>>
         /\ buf \in Seq(Tokens) /\ Path(answer, u, buf \o wire, P, Q) /\ (up => Q = First(u))
<1>1. At = pc
  BY DEF At
<1>2. Reads(nx, u, P, Q)
  BY DEF Situation
<1>3. m_Outstanding # <<>>
  BY <1>1, <1>2 DEF Reads
<1>4. Matches(Current, answer[Current.req], got[Current.req], pc, P)
  BY <1>1, <1>2, <1>3 DEF Reads
<1>5. Current.req \in Nat
  BY <1>3, CurrentIs DEF Situation
<1>6. P # First(Current.req)
  BY <1>4, <1>5, AtFirst
<1>7. Current.req < u
  BY <1>2, <1>3, <1>6 DEF Reads
<1>8. eof => buf = <<>>
  BY DEF Situation, Counted, Connection
<1>9. buf \in Seq(Tokens)
  BY DEF Situation, Counted, Types
<1> QED
  BY <1>2, <1>3, <1>4, <1>7, <1>8, <1>9 DEF Reads

(* BeginReturns: reading goes on with the body.                             *)
LEMMA BeginReturnsStep ==
  ASSUME IInv, BeginReturns
  PROVE  IInv'
<1> DEFINE r == Current
           a == answer[r.req]
           h == got[r.req]
           n == [r EXCEPT !.state = IF r.chunked THEN "CHUNKLEN" ELSE "BODY"]
<1>1. /\ pc = "begin" /\ pc' = "pump" /\ Becomes(n) /\ buf' = buf /\ got' = got /\ fate' = fate
      /\ Untouched
  BY DEF BeginReturns, history
<1>2. PICK nx, u, P, Q : Situation(nx, u, P, Q)
  BY <1>1, SituationIs
<1>3. /\ m_Outstanding # <<>> /\ r.req < u /\ Matches(r, a, h, "begin", P)
      /\ eof => buf = <<>>
      /\ buf \in Seq(Tokens) /\ Path(answer, u, buf \o wire, P, Q) /\ (up => Q = First(u))
  BY <1>1, <1>2, InCallback
<1>4. /\ IsResponse(r) /\ r.method \in Methods /\ Ends(r) /\ r.req \in Nat
      /\ a \in Answers[r.method]
  BY <1>2, <1>3, CurrentIs DEF Situation
<1>5. Same(r, n) /\ n.state # "COMPLETE" /\ Matches(n, a, h, "pump", P)
  <2> DEFINE y == n
  <2>1. y = [r EXCEPT !.state = IF r.chunked THEN "CHUNKLEN" ELSE "BODY"]
    OBVIOUS
  <2> HIDE DEF r, a, h, y
  <2>2. Same(r, y) /\ y.state # "COMPLETE" /\ Matches(y, a, h, "pump", P)
    BY <1>3, <1>4, <2>1, BodyStarts
  <2> QED
    BY <2>2 DEF y
<1>6. r.state # "COMPLETE"
  BY <1>3 DEF Matches, AtBegin
<1>7. got' = [got EXCEPT ![r.req] = h]
  BY <1>1, <1>2, <1>3, SameGot DEF Situation
<1>8. Told(r.req, a, h, fate'[r.req])
  BY <1>1, <1>2, <1>3, StillTold DEF Situation
<1> HIDE DEF n, h
<1>9. /\ pc \in {"pump"} \cup Callbacks /\ pc' \in {"pump"} \cup Callbacks
      /\ buf' \in Seq(Tokens) /\ Path(answer, u, buf' \o wire, P, Q) /\ (eof => buf' = <<>>)
      /\ fate' = IF n.state = "COMPLETE" THEN [fate EXCEPT ![Current.req] = "complete"] ELSE fate
      /\ Matches(n, a, h, pc', P)
  BY <1>1, <1>3, <1>5 DEF Callbacks
<1> QED
  BY <1>1, <1>2, <1>3, <1>5, <1>6, <1>7, <1>8, <1>9, CurrentMoves DEF Situation

(* ProcessData passes on what comes next of the body, and no byte after it. *)
LEMMA ProcessDataStep ==
  ASSUME IInv, ProcessData
  PROVE  IInv'
<1> DEFINE r == Current
           a == answer[r.req]
           g == got[r.req]
           n == Passed(r, buf)
           d == SubSeq(buf, 1, n)
           y == DataRead(r, n)
           h == DataTold(g, d)
           rest == SubSeq(buf, n + 1, Len(buf))
<1>1. /\ pc = "pump" /\ pc' = "data" /\ ~eof /\ buf # <<>> /\ m_Outstanding # <<>>
      /\ r.state = "BODY" /\ fate' = fate /\ Untouched
  BY DEF ProcessData, Reading
<1>2. n = Min({Len(buf)} \cup Limit)
  BY DEF Passed, LimitOf, Limit
<1>3. buf' = rest /\ got' = [got EXCEPT ![r.req].data = @ \o d]
  BY <1>2 DEF ProcessData
<1>4. Becomes(y)
  BY <1>2 DEF ProcessData, DataRead
<1>5. PICK nx, u, P, Q : Situation(nx, u, P, Q)
  BY <1>1, SituationIs
<1>6. Reader(r, a, g, P, Head(buf)) /\ r.req < u
  BY <1>1, <1>5, NextIsRead DEF Situation
<1>7. /\ buf \in Seq(Tokens) /\ wire \in Seq(Tokens)
      /\ Path(answer, u, buf \o wire, P, Q) /\ (up => Q = First(u))
  BY <1>5 DEF Situation, Counted, Types, Reads
<1>8. /\ n \in 0 .. Len(buf) /\ Same(r, y) /\ y.state = "BODY" /\ Begun(y, a, h)
      /\ \E R \in Places : Matches(y, a, h, "data", R) /\ Path(answer, u, rest \o wire, R, Q)
  <2>1. /\ a = answer[r.req] /\ Reader(r, a, g, P, Head(buf)) /\ r.state = "BODY"
        /\ buf \in Seq(Tokens) /\ wire \in Seq(Tokens) /\ buf # <<>>
        /\ Path(answer, u, buf \o wire, P, Q)
    BY <1>1, <1>6, <1>7
  <2> HIDE DEF r, a, g
  <2>2. PassedOn(answer, u, r, a, g, buf, wire, Q, n, y, h)
    BY <2>1, DataPassed
  <2> HIDE DEF n, y, h
  <2> QED
    BY <2>2 DEF PassedOn, Onward
<1>9. PICK R \in Places : Matches(y, a, h, "data", R) /\ Path(answer, u, rest \o wire, R, Q)
  BY <1>8
<1>10. rest \in Seq(Tokens)
  BY <1>7, <1>8, CutConcat
<1>11. r.req \in Requests /\ a \in Answers[r.method] /\ r.method \in Methods /\ r.req \in Nat
       /\ y.req = r.req
  <2>1. y.req = r.req
    BY <1>8 DEF Same
  <2> HIDE DEF y
  <2> QED
    BY <1>1, <1>5, <1>6, <2>1, CurrentIs DEF Situation
<1>12. got' = [got EXCEPT ![r.req] = h]
  <2> DEFINE q == r.req
  <2>1. got = [p \in Requests |-> got[p]]
    BY <1>5 DEF Situation, Counted, Types
  <2>2. q \in Requests /\ got' = [got EXCEPT ![q].data = @ \o d]
          /\ h = [got[q] EXCEPT !.data = @ \o d]
    BY <1>3, <1>11 DEF DataTold
  <2> HIDE DEF q, d, h
  <2>3. got' = [got EXCEPT ![q] = h]
    BY <2>1, <2>2
  <2> QED
    BY <2>3 DEF q
<1>13. Told(r.req, a, h, fate'[r.req])
  <2>1. fate'[r.req] # "complete"
    <3>1. 1 \in 1 .. Len(m_Outstanding)
      BY <1>1, <1>5, OwnSeqShape DEF Situation, Counted, Types
    <3>2. fate[r.req] = "open"
      BY <1>1, <1>5, <3>1, OfWaiting DEF Situation, Current
    <3> QED
      BY <1>1, <3>2
  <2> HIDE DEF h, y
  <2>2. h.begun = a.status /\ h.willClose = a.closes /\ IsPrefix(h.data, BodyOf(r.req, a))
    <3>1. y.req \in Nat /\ Begun(y, a, h)
      BY <1>8, <1>11
    <3>2. h.begun = a.status /\ h.willClose = a.closes /\ IsPrefix(h.data, BodyOf(y.req, a))
      BY <1>11, <3>1, ToldOf
    <3> QED
      BY <1>11, <3>2
  <2> QED
    BY <2>1, <2>2 DEF Told
<1> HIDE DEF n, h, y, rest
<1>14. /\ pc \in {"pump"} \cup Callbacks /\ pc' \in {"pump"} \cup Callbacks
       /\ buf' \in Seq(Tokens) /\ Path(answer, u, buf' \o wire, R, Q) /\ (eof => buf' = <<>>)
       /\ fate' = IF y.state = "COMPLETE" THEN [fate EXCEPT ![Current.req] = "complete"] ELSE fate
       /\ Matches(y, a, h, pc', R) /\ r.state # "COMPLETE" /\ Same(r, y)
  BY <1>1, <1>3, <1>8, <1>9, <1>10 DEF Callbacks
<1> QED
  BY <1>1, <1>4, <1>5, <1>6, <1>7, <1>12, <1>13, <1>14, CurrentMoves DEF Situation

(* DataReturns completes the response when the body has been passed on.     *)
LEMMA DataReturnsStep ==
  ASSUME IInv, DataReturns
  PROVE  IInv'
<1> DEFINE r == Current
           a == answer[r.req]
           h == got[r.req]
           over == ~r.chunked /\ r.length # -1 /\ r.bytesRead = r.length
           y == [r EXCEPT !.state = IF r.chunked /\ r.chunkLeft = 0 THEN "CHUNKEND" ELSE @]
           f == Finished(r)
<1>1. pc = "data" /\ buf' = buf /\ got' = got /\ Untouched
  BY DEF DataReturns
<1>2. PICK nx, u, P, Q : Situation(nx, u, P, Q)
  BY <1>1, SituationIs
<1>3. /\ m_Outstanding # <<>> /\ r.req < u /\ Matches(r, a, h, "data", P)
      /\ eof => buf = <<>>
      /\ buf \in Seq(Tokens) /\ Path(answer, u, buf \o wire, P, Q) /\ (up => Q = First(u))
  BY <1>1, <1>2, InCallback
<1>4. /\ IsResponse(r) /\ r.method \in Methods /\ Ends(r) /\ r.req \in Nat
      /\ a \in Answers[r.method]
      /\ r.req \in Requests
  BY <1>2, <1>3, CurrentIs DEF Situation
<1>5. P \in Places
  BY <1>2 DEF Situation
<1>6. /\ Begun(r, a, h) /\ r.state = "BODY"
      /\ over => /\ Same(r, f) /\ Matches(f, a, h, "complete", P)
                 /\ r.bytesRead = Len(BodyOf(r.req, a))
      /\ ~over => Same(r, y) /\ y.state # "COMPLETE" /\ Matches(y, a, h, "pump", P)
  <2> DEFINE z == y
  <2>1. z = [r EXCEPT !.state = IF r.chunked /\ r.chunkLeft = 0 THEN "CHUNKEND" ELSE @]
    OBVIOUS
  <2> HIDE DEF r, a, h, z
  <2>2. /\ Begun(r, a, h) /\ r.state = "BODY"
        /\ over => /\ Same(r, f) /\ Matches(f, a, h, "complete", P)
                   /\ r.bytesRead = Len(BodyOf(r.req, a))
        /\ ~over =>
             \A n : n = [r EXCEPT !.state = IF r.chunked /\ r.chunkLeft = 0 THEN "CHUNKEND" ELSE @]
                      => Same(r, n) /\ n.state # "COMPLETE" /\ Matches(n, a, h, "pump", P)
    BY <1>3, <1>4, <1>5, DataOver
  <2>3. ~over => Same(r, z) /\ z.state # "COMPLETE" /\ Matches(z, a, h, "pump", P)
    BY <2>1, <2>2
  <2> QED
    BY <2>2, <2>3 DEF z
<1>7. got' = [got EXCEPT ![r.req] = h]
  BY <1>1, <1>2, <1>3, SameGot DEF Situation
<1> HIDE DEF h
<1>8. CASE over
  <2>1. pc' = "complete" /\ Becomes(f) /\ fate' = [fate EXCEPT ![r.req] = "complete"]
    BY <1>8 DEF DataReturns, AllRead, Finish, Finished
  <2>2. f.state = "COMPLETE"
    BY <1>4, FinishedIs DEF Response
  <2>3. Told(r.req, a, h, fate'[r.req])
    <3>1. h.begun = a.status /\ h.willClose = a.closes /\ IsPrefix(h.data, BodyOf(r.req, a))
          /\ h.data = BodyOf(r.req, a)
      BY <1>4, <1>6, <1>8, ToldOf
    <3> QED
      BY <3>1 DEF Told
  <2>4. /\ pc \in {"pump"} \cup Callbacks /\ pc' \in {"pump"} \cup Callbacks
        /\ buf' \in Seq(Tokens) /\ Path(answer, u, buf' \o wire, P, Q) /\ (eof => buf' = <<>>)
        /\ fate' = IF f.state = "COMPLETE" THEN [fate EXCEPT ![Current.req] = "complete"] ELSE fate
        /\ Matches(f, a, h, pc', P) /\ r.state # "COMPLETE" /\ Same(r, f)
    BY <1>1, <1>3, <1>6, <1>8, <2>1, <2>2 DEF Callbacks
  <2> HIDE DEF f
  <2> QED
    BY <1>1, <1>2, <1>3, <1>7, <2>1, <2>3, <2>4, CurrentMoves DEF Situation
<1>9. CASE ~over
  <2>1. pc' = "pump" /\ Becomes(y) /\ fate' = fate
    BY <1>9 DEF DataReturns, AllRead
  <2>2. Told(r.req, a, h, fate'[r.req])
    BY <1>2, <1>3, <2>1, StillTold DEF Situation, h
  <2> HIDE DEF y
  <2>3. /\ pc \in {"pump"} \cup Callbacks /\ pc' \in {"pump"} \cup Callbacks
        /\ buf' \in Seq(Tokens) /\ Path(answer, u, buf' \o wire, P, Q) /\ (eof => buf' = <<>>)
        /\ fate' = IF y.state = "COMPLETE" THEN [fate EXCEPT ![Current.req] = "complete"] ELSE fate
        /\ Matches(y, a, h, pc', P) /\ r.state # "COMPLETE" /\ Same(r, y)
    BY <1>1, <1>3, <1>6, <1>9, <2>1 DEF Callbacks
  <2> QED
    BY <1>1, <1>2, <1>3, <1>7, <2>1, <2>2, <2>3, CurrentMoves DEF Situation
<1> QED
  BY <1>8, <1>9

(* LastTrailerLine completes a response of which all chunks were passed on. *)
LEMMA LastTrailerStep ==
  ASSUME IInv, LastTrailerLine
  PROVE  IInv'
<1> DEFINE r == Current
           a == answer[r.req]
           h == got[r.req]
           f == Finished(r)
           x == Head(buf)
<1>1. /\ pc = "pump" /\ ~eof /\ buf # <<>> /\ m_Outstanding # <<>> /\ r.state = "TRAILERS"
      /\ x = LF /\ r.lineBuf = <<>>
      /\ pc' = "complete" /\ buf' = Tail(buf) /\ got' = got /\ Untouched
      /\ Becomes(f) /\ fate' = [fate EXCEPT ![r.req] = "complete"]
  BY DEF LastTrailerLine, Reading, Finish, Finished
<1>2. PICK nx, u, P, Q : Situation(nx, u, P, Q)
  BY <1>1, SituationIs
<1>3. PICK R \in Places :
           /\ Reader(r, a, h, P, x)
           /\ r.req < u
           /\ Tail(buf) \in Seq(Tokens) /\ Path(answer, u, Tail(buf) \o wire, R, Q)
           /\ r.state \in LineStates => R = After(a, P)
  BY <1>1, <1>2, NextIsRead DEF Situation
<1>4. R = After(a, P)
  BY <1>1, <1>3 DEF LineStates
<1>5. /\ Same(r, f) /\ Begun(r, a, h) /\ Matches(f, a, h, "complete", R)
      /\ r.bytesRead = Len(BodyOf(r.req, a))
  <2> HIDE DEF r, a, h
  <2> QED
    BY <1>1, <1>3, <1>4, LastTrailer
<1>6. /\ IsResponse(r) /\ r.method \in Methods /\ r.req \in Nat /\ a \in Answers[r.method]
  BY <1>1, <1>2, <1>3, CurrentIs DEF Situation
<1>7. got' = [got EXCEPT ![r.req] = h]
  BY <1>1, <1>2, SameGot DEF Situation
<1> HIDE DEF h
<1>8. f.state = "COMPLETE"
  BY <1>6, FinishedIs DEF Response
<1>9. Told(r.req, a, h, fate'[r.req])
  <2>1. h.begun = a.status /\ h.willClose = a.closes /\ IsPrefix(h.data, BodyOf(r.req, a))
        /\ h.data = BodyOf(r.req, a)
    BY <1>5, <1>6, ToldOf
  <2> QED
    BY <2>1 DEF Told
<1>10. /\ pc \in {"pump"} \cup Callbacks /\ pc' \in {"pump"} \cup Callbacks
       /\ buf' \in Seq(Tokens) /\ Path(answer, u, buf' \o wire, R, Q) /\ (eof => buf' = <<>>)
       /\ fate' = IF f.state = "COMPLETE" THEN [fate EXCEPT ![Current.req] = "complete"] ELSE fate
       /\ Matches(f, a, h, pc', R) /\ r.state # "COMPLETE" /\ Same(r, f) /\ (up => Q = First(u))
  <2>1. up => Q = First(u)
    BY <1>2 DEF Situation, Reads
  <2> QED
    BY <1>1, <1>3, <1>5, <1>8, <2>1 DEF Callbacks
<1>11. /\ nx \in 1 .. MaxRequests + 1 /\ u \in 1 .. MaxRequests + 1 /\ P \in Places /\ Q \in Places
       /\ Counted(nx, u) /\ AllTold /\ m_Outstanding # <<>> /\ r.req < u /\ Becomes(f) /\ Untouched
  BY <1>1, <1>2, <1>3 DEF Situation
<1> HIDE DEF f
<1> QED
  BY <1>3, <1>5, <1>7, <1>9, <1>10, <1>11, CurrentMoves

(* ClosedIsEnd completes only a body that the close of the connection ends. *)
LEMMA ClosedIsEndStep ==
  ASSUME IInv, ClosedIsEnd
  PROVE  IInv'
<1> DEFINE r == Current
           a == answer[r.req]
           h == got[r.req]
           f == Finished(r)
<1>1. /\ pc = "pump" /\ eof /\ r.state = "BODY" /\ ~r.chunked /\ r.length = -1
      /\ pc' = "complete" /\ buf' = buf /\ got' = got /\ Untouched
      /\ Becomes(f) /\ fate' = [fate EXCEPT ![r.req] = "complete"]
  BY DEF ClosedIsEnd, EndsAtClose, Finish, Finished
<1>2. PICK nx, u, P, Q : Situation(nx, u, P, Q)
  BY <1>1, SituationIs
<1>3. m_Outstanding # <<>> /\ buf = <<>>
  BY <1>1, <1>2 DEF Situation, Counted, Connection
<1>4. /\ IsResponse(r) /\ r.method \in Methods /\ r.req \in Nat /\ Ends(r)
      /\ r.req < u => a \in Answers[r.method]
  BY <1>2, <1>3, CurrentIs DEF Situation
<1>5. Reads(nx, u, P, Q) /\ At = "pump"
  BY <1>1, <1>2 DEF Situation, At
<1>6. Matches(r, a, h, "pump", P)
  BY <1>1, <1>3, <1>5 DEF Reads
<1>7. r.req < u
  <2>1. r # NewResponse(r.req, r.method)
    BY <1>1 DEF NewResponse
  <2>2. P # First(r.req)
    BY <1>4, <1>6, <2>1, AtFirst
  <2> QED
    BY <1>3, <1>5, <2>2 DEF Reads
<1>8. Begun(r, a, h)
  <2>1. ~InHead(r, a, h, P)
    BY <1>1 DEF InHead, InLine, StateOf, StatusKinds, HeaderKinds
  <2>2. r # NewResponse(r.req, r.method)
    BY <1>1 DEF NewResponse
  <2> QED
    BY <1>6, <2>1, <2>2 DEF Matches
<1>9. UntilClose(a)
  <2> HIDE DEF r, a, h
  <2>1. a \in Answers[r.method]
    BY <1>4, <1>7
  <2>2. LengthGiven(a) = -1 /\ ~SentInChunks(a)
    BY <1>1, <1>8 DEF Begun
  <2>3. ~a.bodyless /\ a.framing # "length"
    BY <1>4, <2>1, <2>2, AnswerShape DEF LengthGiven
  <2>4. a.framing # "chunked"
    BY <2>2, <2>3 DEF SentInChunks
  <2> QED
    BY <1>4, <2>1, <2>3, <2>4, AnswerShape DEF UntilClose
<1>10. Same(r, f) /\ f.state = "COMPLETE"
  <2> DEFINE y == f
  <2>1. y = Response(r.req, r.method, "COMPLETE", r.lineBuf, r.version, r.status, r.headerAccum,
                     r.headers, r.bytesRead, r.chunked, r.chunkLeft, r.length, r.willClose)
    BY <1>4, FinishedIs
  <2> HIDE DEF y, r
  <2>2. IsResponse(y) /\ y.req = r.req /\ y.method = r.method /\ y.state = "COMPLETE"
        /\ y.chunked = r.chunked /\ y.chunkLeft = r.chunkLeft
    BY <2>1, ResponseIs
  <2>3. Same(r, y)
    BY <1>1, <1>4, <2>2 DEF Same, Ends
  <2> QED
    BY <2>2, <2>3 DEF y
<1>11. got' = [got EXCEPT ![r.req] = h]
  BY <1>1, <1>2, <1>3, SameGot DEF Situation
<1> HIDE DEF h
<1>12. Told(r.req, a, h, fate'[r.req])
  <2>1. h.begun = a.status /\ h.willClose = a.closes /\ IsPrefix(h.data, BodyOf(r.req, a))
    BY <1>4, <1>7, <1>8, ToldOf
  <2> QED
    BY <1>9, <2>1 DEF Told
<1>13. /\ pc \in {"pump"} \cup Callbacks /\ pc' \in {"pump"} \cup Callbacks
       /\ buf' \in Seq(Tokens) /\ Path(answer, u, buf' \o wire, P, Q) /\ (eof => buf' = <<>>)
       /\ fate' = IF f.state = "COMPLETE" THEN [fate EXCEPT ![Current.req] = "complete"] ELSE fate
       /\ (eof /\ f.state = "COMPLETE" /\ pc' = "complete") /\ r.state # "COMPLETE"
       /\ (up => Q = First(u))
  <2>1. buf \in Seq(Tokens)
    BY <1>2 DEF Situation, Counted, Types
  <2> QED
    BY <1>1, <1>3, <1>5, <1>10, <2>1 DEF Callbacks, Reads
<1>14. /\ nx \in 1 .. MaxRequests + 1 /\ u \in 1 .. MaxRequests + 1 /\ P \in Places /\ Q \in Places
       /\ Counted(nx, u) /\ AllTold /\ m_Outstanding # <<>> /\ r.req < u /\ Becomes(f) /\ Untouched
  BY <1>1, <1>2, <1>3, <1>7 DEF Situation
<1> HIDE DEF f
<1> QED
  BY <1>10, <1>11, <1>12, <1>13, <1>14, CurrentMoves

(* Nothing of the responses, and of what is told of them, changes.          *)
LEMMA SameWaits ==
  ASSUME NEW nx, Issued(nx), UNCHANGED <<m_Outstanding, fate, got>>, pc' # "request"
  PROVE  Issued(nx)' /\ FirstOf(nx)' = FirstOf(nx) /\ Current' = Current
<1>1. FirstOf(nx)' = FirstOf(nx) /\ Current' = Current
  BY DEF FirstOf, Current
<1>2. \A i \in 1 .. Len(m_Outstanding) : Waits(nx, i)'
  <2> TAKE i \in 1 .. Len(m_Outstanding)
  <2>1. Waits(nx, i)
    BY DEF Issued
  <2> QED
    BY <1>1, <2>1 DEF Waits
<1> QED
  BY <1>1, <1>2 DEF Issued

(* Data arrive, or the user and pump go on with them.                       *)
LEMMA DataArrive ==
  ASSUME NEW nx, NEW u, NEW P, NEW Q, Situation(nx, u, P, Q),
         pc \in {"user", "pump"} \cup Callbacks, pc' \in {"user", "pump"} \cup Callbacks,
         UNCHANGED <<connVars, caller, up, requests, answer, history>>,
         buf' \in Seq(Tokens), wire' \in Seq(Tokens), eof' \in BOOLEAN,
         Path(answer, u, buf' \o wire', P, Q),
         Connection',
         m_Outstanding = <<>> => pc' \in {"user", "pump"},
         m_Outstanding # <<>> =>
           \/ Matches(Current, answer[Current.req], got[Current.req], pc', P)
           \/ eof' /\ Current.state = "COMPLETE" /\ pc' \in {"pump", "complete"}
  PROVE  IInv'
<1>1. /\ nx \in 1 .. MaxRequests + 1 /\ u \in 1 .. MaxRequests + 1 /\ P \in Places /\ Q \in Places
      /\ Types /\ Issued(nx) /\ Answered(nx, u) /\ Sent(nx, u) /\ Reads(nx, u, P, Q) /\ AllTold
  BY DEF Situation, Counted
<1>2. /\ m_Sock' = m_Sock /\ m_Outstanding' = m_Outstanding /\ caller' = caller /\ up' = up
      /\ requests' = requests /\ answer' = answer /\ got' = got /\ fate' = fate
  BY DEF connVars, history
<1>3. pc # "request" /\ pc' # "request" /\ At' = pc' /\ pc' # "thrown"
  BY DEF At, Callbacks
<1>4. Types'
  BY <1>1, <1>2 DEF Types
<1>5. Issued(nx)' /\ FirstOf(nx)' = FirstOf(nx) /\ Current' = Current
  BY <1>1, <1>2, <1>3, SameWaits
<1>6. Answered(nx, u)'
  BY <1>1, <1>2, <1>3 DEF Answered
<1>7. Sent(nx, u)'
  BY <1>1, <1>2, <1>3, <1>5 DEF Sent
<1>8. AllTold'
  BY <1>1, <1>2 DEF AllTold
<1>9. Reads(nx, u, P, Q)'
  BY <1>1, <1>2, <1>3, <1>5 DEF Reads
<1> QED
  BY <1>1, <1>4, <1>5, <1>6, <1>7, <1>8, <1>9 DEF IInv, Counted

(* Recv: what is cut off stays on the wire.                                 *)
LEMMA RecvStep ==
  ASSUME IInv, Recv
  PROVE  IInv'
<1>1. /\ pc = "user" /\ pc' = "pump" /\ m_Outstanding # <<>>
      /\ UNCHANGED <<connVars, caller, eof, up, requests, answer, history>>
  BY DEF Recv
<1>2. PICK n \in 1 .. Len(wire) :
        buf' = SubSeq(wire, 1, n) /\ wire' = SubSeq(wire, n + 1, Len(wire))
  BY DEF Recv
<1>3. PICK nx, u, P, Q : Situation(nx, u, P, Q)
  BY <1>1, SituationIs
<1>4. At = "user" /\ At' = "pump"
  BY <1>1 DEF At
<1>5. /\ buf \in Seq(Tokens) /\ wire \in Seq(Tokens) /\ eof \in BOOLEAN
      /\ buf = <<>> /\ ~eof /\ wire # <<>>
  <2>1. wire # <<>>
    BY <1>2
  <2> QED
    BY <1>3, <1>4, <2>1 DEF Situation, Counted, Types, Connection
<1>6. /\ buf' \in Seq(Tokens) /\ wire' \in Seq(Tokens) /\ buf' \o wire' = wire
  <2>1. n \in 0 .. Len(wire) /\ Len(wire) \in Nat
    BY <1>2, <1>5, LenProperties
  <2>2. wire \o <<>> = wire
    BY <1>5, ConcatEmptySeq
  <2>3. SubSeq(wire, 1, n) \in Seq(Tokens) /\ SubSeq(wire, n + 1, Len(wire)) \in Seq(Tokens)
    <3>1. n + 1 <= Len(wire) + 1
      BY <2>1
    <3> QED
      BY <1>5, <2>1, <2>2, CutConcat, EmptySeq
  <2>4. SubSeq(wire, 1, n) \o SubSeq(wire, n + 1, Len(wire)) = SubSeq(wire, 1, Len(wire))
    BY <1>5, <2>1, ConcatAdjacentSubSeq
  <2>5. SubSeq(wire, 1, Len(wire)) = wire
    BY <1>5, SubSeqFull
  <2> QED
    BY <1>2, <2>3, <2>4, <2>5
<1>7. Path(answer, u, buf' \o wire', P, Q)
  <2>1. buf \o wire = wire
    BY <1>5, ConcatEmptySeq
  <2> QED
    BY <1>3, <1>6, <2>1 DEF Situation, Reads
<1>8. Connection'
  <2>1. Connection
    BY <1>3 DEF Situation, Counted
  <2> QED
    BY <1>1, <1>4, <1>5, <2>1 DEF Connection, connVars
<1>9. Matches(Current, answer[Current.req], got[Current.req], "pump", P)
  <2>1. Matches(Current, answer[Current.req], got[Current.req], "user", P)
    BY <1>1, <1>3, <1>4 DEF Situation, Reads
  <2> QED
    BY <2>1, InPump
<1>10. eof' \in BOOLEAN
  BY <1>1, <1>5
<1> QED
  BY <1>1, <1>3, <1>6, <1>7, <1>8, <1>9, <1>10, DataArrive

(* RecvNothing: nothing is on its way any more.                             *)
LEMMA RecvNothingStep ==
  ASSUME IInv, RecvNothing
  PROVE  IInv'
<1>1. /\ pc = "user" /\ pc' = "pump" /\ m_Outstanding # <<>> /\ ~up /\ wire = <<>> /\ eof' = TRUE
      /\ UNCHANGED <<connVars, caller, buf, up, requests, wire, answer, history>>
  BY DEF RecvNothing, network
<1>2. PICK nx, u, P, Q : Situation(nx, u, P, Q)
  BY <1>1, SituationIs
<1>3. At = "user" /\ At' = "pump"
  BY <1>1 DEF At
<1>4. buf \in Seq(Tokens) /\ wire \in Seq(Tokens) /\ buf = <<>> /\ Connection
  BY <1>2, <1>3 DEF Situation, Counted, Types, Connection
<1>5. Connection'
  <2>1. m_Sock # -1
    <3>1. Len(m_Outstanding) > 0
      BY <1>1, <1>2, OwnSeqShape DEF Situation, Counted, Types
    <3> QED
      BY <1>1, <1>4, <3>1 DEF Connection
  <2> QED
    BY <1>1, <1>3, <1>4, <2>1 DEF Connection, connVars
<1>6. Matches(Current, answer[Current.req], got[Current.req], "pump", P)
  <2>1. Matches(Current, answer[Current.req], got[Current.req], "user", P)
    BY <1>1, <1>2, <1>3 DEF Situation, Reads
  <2> QED
    BY <2>1, InPump
<1>7. Path(answer, u, buf' \o wire', P, Q)
  BY <1>1, <1>2 DEF Situation, Reads
<1> QED
  BY <1>1, <1>2, <1>4, <1>5, <1>6, <1>7, DataArrive

(* CompleteReturns: the response is still there.                            *)
LEMMA CompleteReturnsStep ==
  ASSUME IInv, CompleteReturns
  PROVE  IInv'
<1>1. /\ pc = "complete" /\ pc' = "pump"
      /\ UNCHANGED <<connVars, caller, buf, eof, up, requests, wire, answer, history>>
  BY DEF CompleteReturns, network
<1>2. PICK nx, u, P, Q : Situation(nx, u, P, Q)
  BY <1>1, SituationIs
<1>3. At = "complete" /\ At' = "pump"
  BY <1>1 DEF At
<1>4. buf \in Seq(Tokens) /\ wire \in Seq(Tokens) /\ eof \in BOOLEAN /\ Connection
  BY <1>2 DEF Situation, Counted, Types
<1>5. Connection'
  BY <1>1, <1>3, <1>4 DEF Connection, connVars
<1>6. /\ m_Outstanding # <<>>
      /\ \/ Matches(Current, answer[Current.req], got[Current.req], "pump", P)
         \/ eof /\ Current.state = "COMPLETE"
  <2>1. Reads(nx, u, P, Q)
    BY <1>2 DEF Situation
  <2>2. m_Outstanding # <<>>
    BY <1>3, <2>1 DEF Reads
  <2>3. \/ Matches(Current, answer[Current.req], got[Current.req], "complete", P)
        \/ eof /\ Current.state = "COMPLETE"
    BY <1>3, <2>1, <2>2 DEF Reads
  <2> QED
    BY <2>2, <2>3, InPump
<1>7. Path(answer, u, buf' \o wire', P, Q)
  BY <1>1, <1>2 DEF Situation, Reads
<1>8. pc \in {"user", "pump"} \cup Callbacks
  BY <1>1 DEF Callbacks
<1> QED
  BY <1>1, <1>2, <1>4, <1>5, <1>6, <1>7, <1>8, DataArrive

(* PumpReturns: all that was received has been used.                        *)
LEMMA PumpReturnsStep ==
  ASSUME IInv, PumpReturns
  PROVE  IInv'
<1>1. /\ pc = "pump" /\ pc' = "user" /\ ~eof /\ buf = <<>>
      /\ m_Outstanding # <<>> => Current.state # "COMPLETE"
      /\ UNCHANGED <<connVars, caller, buf, eof, up, requests, wire, answer, history>>
  BY DEF PumpReturns, network
<1>2. PICK nx, u, P, Q : Situation(nx, u, P, Q)
  BY <1>1, SituationIs
<1>3. At = "pump" /\ At' = "user"
  BY <1>1 DEF At
<1>4. buf \in Seq(Tokens) /\ wire \in Seq(Tokens) /\ eof \in BOOLEAN /\ Connection
  BY <1>2 DEF Situation, Counted, Types
<1>5. Connection'
  BY <1>1, <1>3, <1>4 DEF Connection, connVars
<1>6. m_Outstanding # <<>> => Matches(Current, answer[Current.req], got[Current.req], "user", P)
  <2>1. m_Outstanding # <<>> => Matches(Current, answer[Current.req], got[Current.req], "pump", P)
    BY <1>1, <1>2, <1>3 DEF Situation, Reads
  <2> QED
    BY <1>1, <2>1, InPump
<1>7. Path(answer, u, buf' \o wire', P, Q)
  BY <1>1, <1>2 DEF Situation, Reads
<1> QED
  BY <1>1, <1>2, <1>4, <1>5, <1>6, <1>7, DataArrive

(* An exception leaves pump, or the user's call.                            *)
LEMMA Throws ==
  ASSUME IInv, Throw, UNCHANGED <<m_Outstanding, network, answer, history>>,
         m_Sock' = m_Sock \/ NotConnected, pc = "request" => ~up
  PROVE  IInv'
<1>1. PICK nx \in 1 .. MaxRequests + 1, u \in 1 .. MaxRequests + 1 : Counted(nx, u)
  BY DEF IInv
<1>2. Types /\ Issued(nx) /\ Answered(nx, u) /\ Sent(nx, u) /\ Connection /\ AllTold
  BY <1>1 DEF Counted, IInv
<1>3. /\ m_Outstanding' = m_Outstanding /\ up' = up /\ wire' = wire
      /\ requests' = requests /\ answer' = answer /\ got' = got /\ fate' = fate
      /\ pc' = "thrown" /\ caller' = "user" /\ buf' = <<>> /\ ~eof' /\ eof' \in BOOLEAN
      /\ At' = "thrown"
  BY DEF network, history, Throw, At
<1>4. /\ m_Sock' \in {-1, Socket} /\ (m_Sock' = -1 => m_Sock = -1)
      /\ up => m_Sock' = m_Sock
  <2>1. m_Sock \in {-1, Socket} /\ (m_Sock = -1 => ~up) /\ Socket # -1
    BY <1>2 DEF Types, Connection, Socket
  <2> QED
    BY <2>1 DEF NotConnected
<1>5. Types'
  BY <1>2, <1>3, <1>4, EmptySeq DEF Types
<1>6. Issued(nx)' /\ FirstOf(nx)' = FirstOf(nx)
  BY <1>2, <1>3, SameWaits
<1>7. Answered(nx, u)'
  BY <1>2, <1>3 DEF Answered
<1>8. Sent(nx, u)'
  BY <1>2, <1>3, <1>4, <1>6 DEF Sent
<1>9. Connection'
  BY <1>2, <1>3, <1>4 DEF Connection
<1>10. AllTold'
  BY <1>2, <1>3 DEF AllTold
<1> QED
  BY <1>3, <1>5, <1>6, <1>7, <1>8, <1>9, <1>10 DEF IInv, Counted

(* The four ways in which an exception arises.                              *)
LEMMA ThrowingSteps ==
  ASSUME IInv, ConnectFails \/ EndHeadersFails \/ BadStatusLine \/ ClosedUnexpectedly
  PROVE  IInv'
<1>1. CASE ConnectFails
  BY <1>1, Throws DEF ConnectFails
<1>2. CASE EndHeadersFails
  <2>1. pc = "request" => ~up
    <3>1. m_Sock = -1 => ~up
      BY DEF IInv, Counted, Connection
    <3> QED
      BY <1>2, <3>1 DEF EndHeadersFails, NotConnected
  <2> QED
    BY <1>2, <2>1, Throws DEF EndHeadersFails
<1>3. CASE BadStatusLine
  BY <1>3, Throws DEF BadStatusLine, Reading, connVars
<1>4. CASE ClosedUnexpectedly
  BY <1>4, Throws DEF ClosedUnexpectedly, connVars
<1> QED
  BY <1>1, <1>2, <1>3, <1>4

(* No request is outstanding, and none has an answer on the way.            *)
LEMMA AllForgotten ==
  ASSUME IInv, pc' = "user", m_Outstanding' = <<>>, buf' = <<>>, wire' = <<>>, requests' = <<>>,
         eof' = FALSE, caller' \in {"user"} \cup Callbacks, UNCHANGED <<answer, got>>,
         \/ m_Sock' = -1 /\ up' = FALSE
         \/ m_Sock' = Socket /\ up' = TRUE,
         \/ fate' = [q \in Requests |-> IF fate[q] = "open" THEN "failed" ELSE fate[q]]
         \/ fate' = fate /\ m_Outstanding = <<>>
  PROVE  IInv'
<1>1. PICK nx \in 1 .. MaxRequests + 1, u \in 1 .. MaxRequests + 1 : Counted(nx, u)
  BY DEF IInv
<1>2. Types /\ Issued(nx) /\ Answered(nx, u) /\ AllTold
  BY <1>1 DEF Counted, IInv
<1>3. nx \in Nat /\ u \in Nat /\ u <= nx /\ MaxRequests \in Nat
  BY <1>1, <1>2, RequestsAssumption DEF Answered
<1>4. FirstOf(nx)' = nx /\ At' = "user"
  <2>1. Len(m_Outstanding') = 0
    BY EmptySeq
  <2> QED
    BY <1>3, <2>1 DEF FirstOf, At
<1>5. /\ fate' \in [Requests -> {"none", "open", "complete", "failed"}]
      /\ \A q \in Requests : /\ fate'[q] = "none" <=> fate[q] = "none"
                             /\ fate'[q] = "complete" <=> fate[q] = "complete"
                             /\ fate'[q] # "open" \/ (fate' = fate /\ m_Outstanding = <<>>)
  <2>1. fate \in [Requests -> {"none", "open", "complete", "failed"}]
    BY <1>2 DEF Types
  <2> QED
    BY <2>1
<1>6. \A q \in Requests : fate'[q] # "open" \/ q >= nx
  <2> TAKE q \in Requests
  <2>1. CASE fate' = fate /\ m_Outstanding = <<>>
    <3>1. FirstOf(nx) = nx
      BY <1>3, <2>1, EmptySeq DEF FirstOf
    <3> QED
      BY <1>2, <2>1, <3>1 DEF Issued
  <2> QED
    BY <1>5, <2>1
<1>7. OwnSeq(m_Outstanding') /\ Len(m_Outstanding') = 0
  <2>1. <<>> \in Seq({}) /\ Len(<<>>) = 0
    BY EmptySeq
  <2> DEFINE s == m_Outstanding'
  <2>2. s \in Seq({}) /\ Len(s) = 0
    BY <2>1
  <2> HIDE DEF s
  <2>3. OwnSeq(s)
    BY <2>2, OwnSeqOf
  <2> QED
    BY <2>2, <2>3 DEF s
<1>8. Types'
  BY <1>2, <1>5, <1>7, EmptySeq DEF Types
<1>9. Issued(nx)'
  <2>1. \A q \in Requests : fate'[q] = "none" <=> q >= nx
    BY <1>2, <1>5 DEF Issued
  <2>2. \A q \in Requests : q >= nx \/ q > nx => got'[q] = Nothing
    BY <1>2, <1>3 DEF Issued, Requests
  <2> QED
    BY <1>1, <1>3, <1>4, <1>6, <1>7, <2>1, <2>2 DEF Issued
<1>10. Answered(nx, nx)'
  <2>1. \A q \in Requests : q >= nx => answer'[q] = NoAnswer
    BY <1>2, <1>3 DEF Answered, Requests
  <2>2. nx \in 1 .. nx
    BY <1>1, <1>3
  <2> QED
    BY <1>7, <2>1, <2>2 DEF Answered
<1>11. Sent(nx, nx)'
  <2>1. Len(requests') = 0 /\ nx + 0 = nx
    BY <1>3, EmptySeq
  <2> QED
    BY <1>3, <1>4, <2>1 DEF Sent
<1>12. Connection'
  BY <1>4, <1>7 DEF Connection, Socket
<1>13. AllTold'
  BY <1>2, <1>5 DEF AllTold, Told
<1>14. First(nx) \in Places /\ Reads(nx, nx, First(nx), First(nx))'
  <2>1. First(nx) \in Places
    BY <1>3, NextPlaces
  <2>2. Path(answer', nx, <<>>, First(nx), First(nx))
    BY <2>1, PathOfNothing
  <2>3. buf' \o wire' = <<>>
    BY EmptySeq, ConcatEmptySeq
  <2> QED
    BY <1>4, <2>1, <2>2, <2>3 DEF Reads
<1> QED
  BY <1>1, <1>8, <1>9, <1>10, <1>11, <1>12, <1>13, <1>14 DEF IInv, Counted

(* Close, after an exception or not.                                        *)
LEMMA CloseStep ==
  ASSUME IInv, Close
  PROVE  IInv'
<1>1. /\ buf = <<>> /\ ~eof /\ eof \in BOOLEAN /\ caller \in {"user"} \cup Callbacks
  <2>1. Connection /\ Types
    BY DEF IInv, Counted
  <2>2. At \in {"user", "thrown"}
    BY DEF Close, At
  <2> QED
    BY <2>1, <2>2 DEF Connection, Types
<1>2. eof' = FALSE
  BY <1>1 DEF Close
<1> QED
  BY <1>1, <1>2, AllForgotten DEF Close, Discard

(* DeleteAndClose: with the last answer the connection is gone.             *)
LEMMA DeleteAndCloseStep ==
  ASSUME IInv, DeleteAndClose
  PROVE  IInv'
<1>1. /\ buf = <<>> /\ caller \in {"user"} \cup Callbacks
  <2>1. Connection /\ Types
    BY DEF IInv, Counted
  <2> QED
    BY <2>1 DEF Connection, Types, DeleteAndClose
<1> QED
  BY <1>1, AllForgotten DEF DeleteAndClose, Discard

(* Connect: a new connection has nothing of the old one.                    *)
LEMMA ConnectStep ==
  ASSUME IInv, Connect
  PROVE  IInv'
<1>1. /\ pc = "user" /\ m_Sock = -1 /\ m_Sock' = Socket /\ up' = TRUE /\ wire' = <<>>
      /\ requests' = <<>> /\ m_Outstanding' = m_Outstanding /\ pc' = pc /\ caller' = caller
      /\ buf' = buf /\ eof' = eof /\ answer' = answer /\ got' = got /\ fate' = fate
  BY DEF Connect, Connected, pumpVars, history
<1>2. Types /\ Connection
  BY DEF IInv, Counted
<1>3. /\ m_Outstanding = <<>> /\ buf = <<>> /\ ~eof /\ eof \in BOOLEAN
      /\ caller \in {"user"} \cup Callbacks
  <2>1. At = "user"
    BY <1>1 DEF At
  <2>2. Len(m_Outstanding) = 0
    BY <1>1, <1>2 DEF Connection
  <2>3. m_Outstanding = <<>>
    BY <1>2, <2>2, OwnSeqShape DEF Types
  <2> QED
    BY <1>2, <2>1, <2>3 DEF Connection, Types
<1>4. eof' = FALSE
  BY <1>1, <1>3
<1> QED
  BY <1>1, <1>3, <1>4, AllForgotten

(* ServerCloses: what is not lost is still the start of the same texts.     *)
LEMMA ServerClosesStep ==
  ASSUME IInv, ServerCloses
  PROVE  IInv'
<1>1. /\ up /\ up' = FALSE /\ requests' = <<>>
      /\ UNCHANGED <<connVars, pumpVars, answer, history>>
  BY DEF ServerCloses
<1>2. /\ m_Sock' = m_Sock /\ m_Outstanding' = m_Outstanding /\ pc' = pc /\ caller' = caller
      /\ buf' = buf /\ eof' = eof /\ answer' = answer /\ got' = got /\ fate' = fate
  BY <1>1 DEF connVars, pumpVars, history
<1>3. PICK n \in 0 .. Len(wire) : wire' = SubSeq(wire, 1, n)
  BY DEF ServerCloses
<1>4. PICK nx \in 1 .. MaxRequests + 1, u \in 1 .. MaxRequests + 1 :
        /\ Counted(nx, u)
        /\ pc # "thrown" => \E P, Q \in Places : Reads(nx, u, P, Q)
  BY DEF IInv
<1>5. Types /\ Issued(nx) /\ Answered(nx, u) /\ Sent(nx, u) /\ Connection /\ AllTold
  BY <1>4 DEF Counted, IInv
<1>6. FirstOf(nx)' = FirstOf(nx) /\ Current' = Current /\ At' = At
  BY <1>2 DEF FirstOf, Current, At
<1>7. buf \in Seq(Tokens) /\ wire \in Seq(Tokens) /\ wire' \in Seq(Tokens) /\ ~eof /\ m_Sock # -1
  <2>1. n \in Nat /\ n <= Len(wire) /\ Len(wire) \in Nat /\ wire \in Seq(Tokens)
    BY <1>3, <1>5, LenProperties DEF Types
  <2>2. SubSeq(wire, 1, n) \in Seq(Tokens)
    BY <1>3, <2>1, CutConcat, EmptySeq
  <2> QED
    BY <1>1, <1>3, <1>5, <2>2 DEF Types, Connection, Sent
<1>8. Types'
  BY <1>1, <1>2, <1>5, <1>7, EmptySeq DEF Types
<1>9. Issued(nx)'
  <2>1. \A i \in 1 .. Len(m_Outstanding) : Waits(nx, i)'
    <3> TAKE i \in 1 .. Len(m_Outstanding)
    <3>1. Waits(nx, i)
      BY <1>5 DEF Issued
    <3> QED
      BY <1>2, <1>6, <3>1 DEF Waits
  <2> QED
    BY <1>2, <1>5, <1>6, <2>1 DEF Issued
<1>10. Answered(nx, u)'
  BY <1>2, <1>5 DEF Answered
<1>11. Sent(nx, u)'
  BY <1>1 DEF Sent
<1>12. Connection'
  BY <1>2, <1>5, <1>6, <1>7 DEF Connection
<1>13. AllTold'
  BY <1>2, <1>5 DEF AllTold
<1>14. ASSUME pc # "thrown" PROVE \E P, Q \in Places : Reads(nx, u, P, Q)'
  <2>1. PICK P \in Places, Q \in Places : Reads(nx, u, P, Q)
    BY <1>4, <1>14
  <2>2. \E R \in Places : Path(answer, u, buf \o wire', P, R)
    <3> DEFINE t == buf \o wire
               m == Len(buf) + n
    <3>1. /\ Len(buf) \in Nat /\ Len(wire) \in Nat /\ t \in Seq(Tokens)
          /\ Len(t) = Len(buf) + Len(wire)
      BY <1>7, LenProperties, ConcatProperties
    <3>2. m \in 0 .. Len(t)
      BY <1>3, <3>1
    <3>3. PICK p : Walk(answer, u, t, P, Q, p)
      BY <2>1 DEF Reads, Path
    <3>4. SubSeq(t, 1, m) = buf \o wire'
      <4>1. SubSeq(t, 1, m) \in Seq(Tokens) /\ Len(SubSeq(t, 1, m)) = m
            /\ \A i \in 1 .. m : SubSeq(t, 1, m)[i] = t[i]
        <5> HIDE DEF t, m
        <5>1. 0 \in 0 .. Len(t) /\ m \in 0 .. Len(t) /\ m - 0 = m
          BY <3>2
        <5>2. /\ SubSeq(t, 0 + 1, m) \in Seq(Tokens) /\ Len(SubSeq(t, 0 + 1, m)) = m - 0
              /\ \A i \in 1 .. m - 0 : SubSeq(t, 0 + 1, m)[i] = t[0 + i]
          BY <3>1, <5>1, Slice
        <5> QED
          BY <3>2, <5>1, <5>2
      <4>2. /\ Len(wire') = n /\ \A i \in 1 .. n : wire'[i] = wire[i]
        <5>1. 0 \in 0 .. Len(wire) /\ n \in 0 .. Len(wire) /\ n - 0 = n
          BY <1>3, <3>1
        <5>2. /\ Len(SubSeq(wire, 0 + 1, n)) = n - 0
              /\ \A i \in 1 .. n - 0 : SubSeq(wire, 0 + 1, n)[i] = wire[0 + i]
          BY <1>7, <5>1, Slice
        <5> QED
          BY <1>3, <5>1, <5>2
      <4>3. /\ buf \o wire' \in Seq(Tokens) /\ Len(buf \o wire') = m
            /\ \A i \in 1 .. m :
                 (buf \o wire')[i] = IF i <= Len(buf) THEN buf[i] ELSE wire'[i - Len(buf)]
        BY <1>7, <4>2, ConcatProperties
      <4>4. \A i \in 1 .. m : t[i] = IF i <= Len(buf) THEN buf[i] ELSE wire[i - Len(buf)]
        BY <1>3, <1>7, <3>1, ConcatProperties
      <4>5. \A i \in 1 .. m : (buf \o wire')[i] = t[i]
        <5> TAKE i \in 1 .. m
        <5>1. i <= Len(buf) \/ i - Len(buf) \in 1 .. n
          BY <1>3, <3>1
        <5> HIDE DEF t, m
        <5> QED
          BY <4>2, <4>3, <4>4, <5>1
      <4> DEFINE s1 == SubSeq(t, 1, m)
                 s2 == buf \o wire'
      <4>6. s1 \in Seq(Tokens) /\ s2 \in Seq(Tokens) /\ Len(s1) = Len(s2)
            /\ \A i \in 1 .. Len(s1) : s1[i] = s2[i]
        <5> HIDE DEF t, m
        <5> QED
          BY <4>1, <4>3, <4>5
      <4> HIDE DEF s1, s2
      <4>7. s1 = s2
        BY <4>6, SeqEqual
      <4> QED
        BY <4>7 DEF s1, s2
    <3> HIDE DEF t, m
    <3>5. p[m] \in Places /\ Path(answer, u, SubSeq(t, 1, m), P, p[m])
      BY <3>1, <3>2, <3>3, PathCut
    <3> QED
      BY <3>4, <3>5
  <2>3. PICK R \in Places : Path(answer, u, buf \o wire', P, R)
    BY <2>2
  <2>4. Reads(nx, u, P, R)'
    BY <1>1, <1>2, <1>6, <2>1, <2>3 DEF Reads
  <2> QED
    BY <2>4
<1> QED
  BY <1>2, <1>4, <1>8, <1>9, <1>10, <1>11, <1>12, <1>13, <1>14 DEF IInv, Counted

(* Delete: the next token is the first one for the next response.           *)
LEMMA DeleteStep ==
  ASSUME IInv, Delete
  PROVE  IInv'
<1>1. /\ pc = "pump" /\ ~eof /\ m_Outstanding # <<>> /\ Current.state = "COMPLETE"
      /\ m_Outstanding' = Tail(m_Outstanding)
      /\ m_Sock' = m_Sock /\ pc' = pc /\ caller' = caller /\ buf' = buf /\ eof' = eof /\ up' = up
      /\ requests' = requests /\ wire' = wire /\ answer' = answer /\ got' = got /\ fate' = fate
  BY DEF Delete, pumpVars, network, history
<1>2. PICK nx, u, P, Q : Situation(nx, u, P, Q)
  BY <1>1, SituationIs
<1>3. /\ nx \in 1 .. MaxRequests + 1 /\ u \in 1 .. MaxRequests + 1 /\ P \in Places /\ Q \in Places
      /\ Counted(nx, u) /\ Types /\ Issued(nx) /\ Answered(nx, u) /\ Sent(nx, u) /\ Connection
      /\ Reads(nx, u, P, Q) /\ AllTold
  BY <1>2 DEF Situation, Counted
<1> DEFINE l == Len(m_Outstanding)
           f == FirstOf(nx)
           out == m_Outstanding'
<1>4. /\ OwnSeq(out) /\ Len(out) = l - 1 /\ l \in Nat /\ l > 0 /\ (out # <<>> <=> l > 1)
      /\ \A i \in 1 .. l - 1 : out[i] = m_Outstanding[i + 1]
  <2>1. OwnSeq(m_Outstanding)
    BY <1>3 DEF Types
  <2> DEFINE s == m_Outstanding
             t == out
  <2>2. OwnSeq(s) /\ s # <<>> /\ t = Tail(s)
    BY <1>1, <2>1
  <2> HIDE DEF s, t
  <2>3. OwnSeq(t) /\ Len(t) = Len(s) - 1 /\ \A i \in 1 .. Len(t) : t[i] = s[i + 1]
    BY <2>2, OneLess
  <2>4. Len(s) \in Nat /\ Len(s) > 0 /\ (t # <<>> <=> Len(t) > 0)
    BY <2>2, <2>3, OwnSeqShape
  <2> QED
    BY <2>3, <2>4 DEF s, t
<1>5. nx \in Nat /\ u \in Nat /\ f = nx - l /\ f \in Nat \ {0}
  <2>1. nx \in Nat /\ u \in Nat /\ f = nx - l /\ f >= 1
    BY <1>3, RequestsAssumption DEF Issued, FirstOf
  <2> QED
    BY <1>4, <2>1
<1>6. FirstOf(nx)' = f + 1 /\ At' = "pump" /\ At = "pump"
  <2>1. FirstOf(nx)' = nx - Len(out)
    BY DEF FirstOf
  <2>2. nx - (l - 1) = nx - l + 1
    BY <1>4, <1>5
  <2> QED
    BY <1>1, <1>4, <1>5, <2>1, <2>2 DEF At
<1> HIDE DEF l, f, out
<1>7. Current.req = f /\ fate[f] = "complete" /\ f \in Requests
  <2>1. 1 \in 1 .. Len(m_Outstanding)
    BY <1>4 DEF l
  <2>2. /\ Current.req = FirstOf(nx) + 1 - 1
        /\ fate[Current.req] = "complete" /\ Current.req \in Requests
    BY <1>1, <1>3, <2>1, OfWaiting DEF Current
  <2> QED
    BY <1>5, <2>2 DEF f
<1>8. P = First(f + 1) /\ f < u
  <2>1. Matches(Current, answer[Current.req], got[Current.req], "pump", P)
    BY <1>1, <1>3, <1>6 DEF Reads
  <2>2. P = First(f + 1)
    <3> DEFINE r == Current
               a == answer[Current.req]
               g == got[Current.req]
    <3>1. r.state = "COMPLETE" /\ r.req = f
      BY <1>1, <1>7
    <3> HIDE DEF r, a, g
    <3>2. Matches(r, a, g, "pump", P)
      BY <2>1 DEF r, a, g
    <3>3. r # NewResponse(r.req, r.method)
      BY <3>1 DEF NewResponse
    <3>4. ~InHead(r, a, g, P) /\ ~AtChunkEnd(r, a, P) /\ ~InChunkLine(r, a, P)
          /\ ~InBody(r, a, "pump", P) /\ ~InChunk(r, a, "pump", P)
      BY <3>1 DEF InHead, InLine, AtChunkEnd, InChunkLine, InBody, InChunk, StateOf,
                  StatusKinds, HeaderKinds, SizeKinds, TrailerKinds
    <3>5. IsComplete(r, a, P)
      BY <3>2, <3>3, <3>4 DEF Matches
    <3> QED
      BY <3>1, <3>5 DEF IsComplete
  <2>3. P = First(Current.req) \/ Current.req < u
    BY <1>1, <1>3 DEF Reads
  <2> QED
    BY <1>5, <1>7, <2>2, <2>3 DEF First, Place
<1>9. \A i \in 1 .. l - 1 : /\ IsResponse(out[i]) /\ out[i].req = f + i /\ out[i].method \in Methods
                            /\ out[i] = NewResponse(out[i].req, out[i].method)
                            /\ fate[out[i].req] = "open" /\ out[i].state = "STATUSLINE"
                            /\ out[i].req < u => answer[out[i].req] \in Answers[out[i].method]
  <2> TAKE i \in 1 .. l - 1
  <2>1. i + 1 \in 1 .. l /\ i + 1 > 1 /\ out[i] = m_Outstanding[i + 1] /\ f + (i + 1) - 1 = f + i
    BY <1>4, <1>5
  <2> DEFINE j == i + 1
  <2>2. j \in 1 .. Len(m_Outstanding) /\ j > 1 /\ out[i] = m_Outstanding[j] /\ f + j - 1 = f + i
    BY <2>1 DEF l
  <2> HIDE DEF j
  <2>3. Waits(nx, j)
    BY <1>3, <2>2 DEF Issued
  <2>4. NewResponse(out[i].req, out[i].method).state = "STATUSLINE"
    BY DEF NewResponse
  <2>5. out[i].req < u => answer[out[i].req] \in Answers[out[i].method]
    BY <1>3, <2>2 DEF Answered
  <2> QED
    BY <2>2, <2>3, <2>4, <2>5 DEF Waits, f
<1>10. Types'
  BY <1>1, <1>3, <1>4 DEF Types, out
<1>11. Issued(nx)'
  <2>1. \A i \in 1 .. Len(out) : Waits(nx, i)'
    <3> TAKE i \in 1 .. Len(out)
    <3>1. i \in 1 .. l - 1 /\ f + 1 + i - 1 = f + i
      BY <1>4, <1>5
    <3> QED
      BY <1>1, <1>6, <1>9, <3>1 DEF Waits, out
  <2>2. \A q \in Requests : fate[q] = "open" => q >= f + 1
    <3> TAKE q \in Requests
    <3>1. fate[q] = "open" => q >= f /\ q # f
      BY <1>3, <1>7 DEF Issued, f
    <3> QED
      BY <1>5, <3>1 DEF Requests
  <2>3. out # <<>> => Ends(out[1])
    <3>1. out # <<>> => 1 \in 1 .. l - 1
      BY <1>4
    <3> QED
      BY <1>9, <3>1, NewIs
  <2>4. \A q \in Requests : q >= nx \/ q > f + 1 => got[q] = Nothing
    <3> TAKE q \in Requests
    <3>1. q >= nx \/ q > f => got[q] = Nothing
      BY <1>3 DEF Issued, f
    <3> QED
      BY <1>5, <3>1 DEF Requests
  <2> QED
    BY <1>1, <1>3, <1>5, <1>6, <2>1, <2>2, <2>3, <2>4 DEF Issued, out
<1>12. Answered(nx, u)'
  BY <1>1, <1>3, <1>4, <1>9 DEF Answered, out
<1>13. Sent(nx, u)'
  <2>1. CASE ~up
    BY <1>1, <1>3, <2>1 DEF Sent
  <2>2. CASE up
    <3>1. /\ m_Sock = Socket /\ u + Len(requests) = nx
          /\ \A i \in 1 .. Len(requests) :
               requests[i] = [req |-> u + i - 1, method |-> m_Outstanding[u + i - f].method]
      BY <1>1, <1>3, <2>2 DEF Sent, f
    <3>2. Len(requests) \in Nat
      BY <1>3, LenProperties DEF Types
    <3>3. u >= f + 1
      BY <1>5, <1>8
    <3>4. \A i \in 1 .. Len(requests) :
            requests[i] = [req |-> u + i - 1, method |-> out[u + i - (f + 1)].method]
      <4> TAKE i \in 1 .. Len(requests)
      <4>1. u + i - (f + 1) \in 1 .. l - 1 /\ u + i - (f + 1) + 1 = u + i - f
        <5> DEFINE k == Len(requests)
        <5>1. k \in Nat /\ u + k = nx /\ i \in 1 .. k
          BY <3>1, <3>2
        <5>2. l \in Nat /\ f = nx - l /\ nx \in Nat /\ u \in Nat /\ f \in Nat
          BY <1>4, <1>5
        <5> HIDE DEF k
        <5> QED
          BY <3>3, <5>1, <5>2
      <4>2. out[u + i - (f + 1)] = m_Outstanding[u + i - f]
        BY <1>4, <4>1
      <4> QED
        BY <3>1, <4>2
    <3> QED
      BY <1>1, <1>6, <2>2, <3>1, <3>3, <3>4 DEF Sent, out
  <2> QED
    BY <2>1, <2>2
<1>14. Connection'
  BY <1>1, <1>3, <1>6 DEF Connection
<1>15. Reads(nx, u, P, Q)'
  <2>1. CASE l = 1
    <3>1. out = <<>> /\ f + 1 = nx
      BY <1>4, <1>5, <2>1
    <3> QED
      BY <1>1, <1>3, <1>6, <1>8, <3>1 DEF Reads, out
  <2>2. CASE l # 1
    <3>1. out # <<>> /\ 1 \in 1 .. l - 1 /\ l > 1
      BY <1>4, <2>2
    <3>2. /\ Current' = out[1] /\ out[1].req = f + 1
          /\ out[1] = NewResponse(out[1].req, out[1].method)
      BY <1>9, <3>1 DEF Current, out
    <3>3. got[f + 1] = Nothing
      <4>1. f + 1 \in Requests
        <5>1. nx <= MaxRequests + 1 /\ MaxRequests \in Nat
          BY <1>3, RequestsAssumption
        <5>2. l \in Nat /\ l > 1 /\ f = nx - l /\ nx \in Nat /\ f \in Nat
          BY <1>4, <1>5, <3>1
        <5> QED
          BY <5>1, <5>2 DEF Requests
      <4>2. f + 1 > f
        BY <1>5
      <4> QED
        BY <1>3, <4>1, <4>2 DEF Issued, f
    <3>4. Matches(out[1], answer[f + 1], Nothing, "pump", P)
      BY <1>8, <3>2, NewIs
    <3> QED
      BY <1>1, <1>3, <1>6, <1>8, <3>1, <3>2, <3>3, <3>4 DEF Reads, out
  <2> QED
    BY <2>1, <2>2
<1>16. AllTold'
  BY <1>1, <1>3 DEF AllTold
<1> QED
  BY <1>3, <1>10, <1>11, <1>12, <1>13, <1>14, <1>15, <1>16 DEF IInv, Counted

(* The request that is answered next.                                       *)
LEMMA NextAnswered ==
  ASSUME NEW nx \in 1 .. MaxRequests + 1, NEW u \in 1 .. MaxRequests + 1, Counted(nx, u), up,
         requests # <<>>
  PROVE  /\ Head(requests).req = u /\ Head(requests).method \in Methods /\ u \in Requests
         /\ u + 1 \in 1 .. nx /\ (pc = "request" => u + 1 < nx) /\ u >= FirstOf(nx)
         /\ Tail(requests) \in Seq([req : Requests, method : Methods])
         /\ u + 1 + Len(Tail(requests)) = IF pc = "request" THEN nx - 1 ELSE nx
         /\ \A i \in 1 .. Len(Tail(requests)) :
              Tail(requests)[i] = [req |-> u + 1 + i - 1,
                                   method |-> m_Outstanding[u + 1 + i - FirstOf(nx)].method]
         /\ \A i \in 1 .. Len(m_Outstanding) :
              m_Outstanding[i].req = u => m_Outstanding[i].method = Head(requests).method
<1> DEFINE S == [req : Requests, method : Methods]
           f == FirstOf(nx)
           n == Len(requests)
<1>1. /\ u >= f
      /\ u + n = IF pc = "request" THEN nx - 1 ELSE nx
      /\ \A i \in 1 .. n :
           requests[i] = [req |-> u + i - 1, method |-> m_Outstanding[u + i - f].method]
  BY DEF Counted, Sent
<1>2. requests \in Seq(S)
  BY DEF Counted, Types
<1>3. n \in Nat /\ n > 0
  BY <1>2, LenProperties, EmptySeq
<1>4. nx \in Nat /\ u \in Nat /\ u > 0 /\ f \in Nat
  <2>1. Len(m_Outstanding) \in Nat /\ f >= 1
    BY OwnSeqShape DEF Counted, Types, Issued
  <2> QED
    BY <2>1, RequestsAssumption DEF FirstOf
<1>5. Head(requests) = requests[1] /\ Head(requests) \in S
  BY <1>2, <1>3, FirstAndRest
<1>6. /\ Tail(requests) \in Seq(S) /\ Len(Tail(requests)) = n - 1
      /\ \A i \in 1 .. n - 1 : Tail(requests)[i] = requests[i + 1]
  BY <1>2, HeadTailProperties
<1> HIDE DEF n, f, S
<1>7. Head(requests).req = u /\ Head(requests).method = m_Outstanding[u + 1 - f].method
  <2>1. 1 \in 1 .. n /\ u + 1 - 1 = u
    BY <1>3, <1>4
  <2>2. requests[1] = [req |-> u + 1 - 1, method |-> m_Outstanding[u + 1 - f].method]
    BY <1>1, <2>1
  <2> QED
    BY <1>5, <2>1, <2>2
<1>8. u + 1 \in 1 .. nx /\ (pc = "request" => u + 1 < nx)
  BY <1>1, <1>3, <1>4
<1>9. u \in Requests /\ Head(requests).method \in Methods
  BY <1>5, <1>7 DEF S
<1>10. \A i \in 1 .. n - 1 :
         Tail(requests)[i] = [req |-> u + 1 + i - 1, method |-> m_Outstanding[u + 1 + i - f].method]
  <2> TAKE i \in 1 .. n - 1
  <2>1. i + 1 \in 1 .. n /\ u + (i + 1) - 1 = u + 1 + i - 1 /\ u + (i + 1) - f = u + 1 + i - f
    BY <1>3, <1>4
  <2>2. requests[i + 1] = [req |-> u + (i + 1) - 1,
                           method |-> m_Outstanding[u + (i + 1) - f].method]
    BY <1>1, <2>1
  <2> QED
    BY <1>6, <2>1, <2>2
<1>11. \A i \in 1 .. Len(m_Outstanding) :
         m_Outstanding[i].req = u => m_Outstanding[i].method = Head(requests).method
  <2> TAKE i \in 1 .. Len(m_Outstanding)
  <2>1. m_Outstanding[i].req = f + i - 1
    BY OfWaiting DEF f
  <2>2. Len(m_Outstanding) \in Nat
    BY OwnSeqShape DEF Counted, Types
  <2>3. f + i - 1 = u => i = u + 1 - f
    BY <1>4, <2>2
  <2> QED
    BY <1>7, <2>1, <2>3
<1>12. u + 1 + (n - 1) = IF pc = "request" THEN nx - 1 ELSE nx
  BY <1>1, <1>3, <1>4
<1> QED
  BY <1>1, <1>6, <1>7, <1>8, <1>9, <1>10, <1>11, <1>12 DEF S, f, n

(* Serve: the answer follows the text of those before it.                   *)
LEMMA ServeStep ==
  ASSUME IInv, Serve
  PROVE  IInv'
<1> DEFINE q == Head(requests).req
<1>1. /\ up /\ requests # <<>> /\ UNCHANGED <<connVars, pumpVars, history>>
  BY DEF Serve
<1>2. PICK a \in Answers[Head(requests).method] :
           /\ answer' = [answer EXCEPT ![q] = a]
           /\ wire' = wire \o Text(q, a)
           /\ requests' = IF a.closes THEN <<>> ELSE Tail(requests)
           /\ up' = ~a.closes
  BY DEF Serve
<1>3. /\ m_Sock' = m_Sock /\ m_Outstanding' = m_Outstanding /\ pc' = pc /\ caller' = caller
      /\ buf' = buf /\ eof' = eof /\ got' = got /\ fate' = fate
  BY <1>1 DEF connVars, pumpVars, history
<1>4. PICK nx \in 1 .. MaxRequests + 1, u \in 1 .. MaxRequests + 1 :
        /\ Counted(nx, u)
        /\ pc # "thrown" => \E P, Q \in Places : Reads(nx, u, P, Q)
  BY DEF IInv
<1>5. Types /\ Issued(nx) /\ Answered(nx, u) /\ Sent(nx, u) /\ Connection /\ AllTold
  BY <1>4 DEF Counted, IInv
<1> DEFINE method == Head(requests).method
           v == u + 1
<1>6. /\ q = u /\ method \in Methods /\ u \in Requests
      /\ v \in 1 .. nx /\ (pc = "request" => v < nx) /\ u >= FirstOf(nx)
      /\ Tail(requests) \in Seq([req : Requests, method : Methods])
      /\ v + Len(Tail(requests)) = IF pc = "request" THEN nx - 1 ELSE nx
      /\ \A i \in 1 .. Len(Tail(requests)) :
           Tail(requests)[i] = [req |-> v + i - 1,
                                method |-> m_Outstanding[v + i - FirstOf(nx)].method]
      /\ \A i \in 1 .. Len(m_Outstanding) :
           m_Outstanding[i].req = u => m_Outstanding[i].method = method
  BY <1>1, <1>4, NextAnswered
<1>7. /\ nx \in Nat /\ u \in Nat /\ v \in Nat /\ u < v /\ v \in 1 .. MaxRequests + 1
      /\ \A p \in Int : p < v <=> p < u \/ p = u
  BY <1>6, RequestsAssumption
<1>8. FirstOf(nx)' = FirstOf(nx) /\ Current' = Current /\ At' = At /\ FirstOf(nx) \in Int
  <2>1. Len(m_Outstanding) \in Nat
    BY <1>5, OwnSeqShape DEF Types
  <2> QED
    BY <1>3, <1>7, <2>1 DEF FirstOf, Current, At
<1>9. a \in Answers[method] /\ a.closes \in BOOLEAN
  BY <1>2, <1>6, AnswerShape
<1>10. /\ answer' = [p \in Requests |-> answer'[p]]
       /\ answer'[u] = a /\ \A p \in Requests : p # u => answer'[p] = answer[p]
  BY <1>2, <1>5, <1>6 DEF Types
<1>11. wire' = wire \o Text(u, a) /\ answer' = [answer EXCEPT ![u] = a]
  BY <1>2, <1>6
<1> HIDE DEF q, method, v
<1>12. /\ Text(u, a) \in Seq(Tokens)
       /\ Path(answer', v, Text(u, a), First(u), TextEnd(u, a))
  <2> DEFINE ans == answer'
  <2>1. a = ans[u] /\ u \in Nat /\ u < v
    BY <1>7, <1>10
  <2> HIDE DEF ans
  <2>2. Text(u, a) \in Seq(Tokens) /\ Path(ans, v, Text(u, a), First(u), TextEnd(u, a))
    BY <1>6, <1>9, <2>1, PathOfText
  <2> QED
    BY <2>2 DEF ans
<1>13. buf \in Seq(Tokens) /\ wire \in Seq(Tokens) /\ wire' \in Seq(Tokens) /\ ~eof /\ m_Sock # -1
  BY <1>1, <1>5, <1>11, <1>12, ConcatProperties DEF Types, Connection
<1>14. TextEnd(u, a) \in Places /\ (up' => TextEnd(u, a) = First(v))
  <2>1. Done(u, a) \in Places /\ First(v) \in Places
    BY <1>7, NextPlaces
  <2>2. up' => ~a.closes
    BY <1>2, <1>9
  <2> QED
    BY <2>1, <2>2 DEF TextEnd, Done, v
<1>15. Types'
  <2>1. up' \in BOOLEAN
    BY <1>2, <1>9
  <2>2. requests' \in Seq([req : Requests, method : Methods])
    BY <1>2, <1>6, EmptySeq
  <2> QED
    BY <1>3, <1>5, <1>10, <1>13, <2>1, <2>2 DEF Types
<1>16. Issued(nx)'
  <2>1. \A i \in 1 .. Len(m_Outstanding) : Waits(nx, i)'
    <3> TAKE i \in 1 .. Len(m_Outstanding)
    <3>1. Waits(nx, i)
      BY <1>5 DEF Issued
    <3> QED
      BY <1>3, <1>8, <3>1 DEF Waits
  <2> QED
    BY <1>3, <1>5, <1>8, <2>1 DEF Issued
<1>17. Answered(nx, v)'
  <2>1. \A p \in Requests : p >= v => answer'[p] = NoAnswer
    <3> TAKE p \in Requests
    <3>1. p >= v => p >= u /\ p # u
      BY <1>7 DEF Requests
    <3> QED
      BY <1>5, <1>10, <3>1 DEF Answered
  <2>2. \A i \in 1 .. Len(m_Outstanding) :
          m_Outstanding[i].req < v
            => answer'[m_Outstanding[i].req] \in Answers[m_Outstanding[i].method]
    <3> TAKE i \in 1 .. Len(m_Outstanding)
    <3>1. /\ m_Outstanding[i].req \in Requests
          /\ m_Outstanding[i].req < u
               => answer[m_Outstanding[i].req] \in Answers[m_Outstanding[i].method]
      BY <1>4, OfWaiting
    <3>2. m_Outstanding[i].req < v => m_Outstanding[i].req < u \/ m_Outstanding[i].req = u
      BY <1>7, <3>1 DEF Requests
    <3>3. CASE m_Outstanding[i].req = u
      BY <1>6, <1>9, <1>10, <3>3
    <3>4. CASE m_Outstanding[i].req # u
      BY <1>10, <3>1, <3>2, <3>4
    <3> QED
      BY <3>3, <3>4
  <2> QED
    BY <1>3, <1>6, <2>1, <2>2 DEF Answered
<1>18. Sent(nx, v)'
  <2>1. CASE a.closes
    BY <1>2, <2>1 DEF Sent
  <2>2. CASE ~a.closes
    <3>1. v >= FirstOf(nx)
      BY <1>6, <1>7, <1>8
    <3>2. requests' = Tail(requests) /\ m_Sock = Socket
      BY <1>1, <1>2, <1>5, <2>2 DEF Sent
    <3>3. /\ v + Len(requests') = IF pc' = "request" THEN nx - 1 ELSE nx
          /\ \A i \in 1 .. Len(requests') :
               requests'[i] = [req |-> v + i - 1,
                               method |-> m_Outstanding'[v + i - FirstOf(nx)'].method]
      BY <1>3, <1>6, <1>8, <3>2
    <3>4. up' /\ m_Sock' = Socket /\ v >= FirstOf(nx)'
      BY <1>2, <1>3, <1>8, <2>2, <3>1, <3>2
    <3> QED
      BY <3>3, <3>4 DEF Sent
  <2> QED
    BY <2>1, <2>2
<1>19. Connection'
  BY <1>3, <1>5, <1>8, <1>13 DEF Connection
<1>20. AllTold'
  <2> SUFFICES ASSUME NEW p \in Requests PROVE Told(p, answer'[p], got'[p], fate'[p])
    BY DEF AllTold
  <2>1. CASE p = u
    <3>1. Told(u, NoAnswer, got[u], fate[u])
      <4>1. answer[u] = NoAnswer
        <5>1. u >= u
          BY <1>7
        <5> QED
          BY <1>5, <1>6, <5>1 DEF Answered
      <4> QED
        BY <1>5, <1>6, <4>1 DEF AllTold
    <3>2. got[u].begun = 0
      BY <3>1 DEF Told, NoAnswer
    <3> QED
      BY <1>3, <2>1, <3>2 DEF Told
  <2>2. CASE p # u
    BY <1>3, <1>5, <1>10, <2>2 DEF AllTold
  <2> QED
    BY <2>1, <2>2
<1>21. ASSUME pc # "thrown" PROVE \E P, Q \in Places : Reads(nx, v, P, Q)'
  <2>1. PICK P \in Places, Q \in Places : Reads(nx, u, P, Q)
    BY <1>4, <1>21
  <2>2. Path(answer', v, buf \o wire', P, TextEnd(u, a))
    <3> DEFINE ans == answer'
               t == buf \o wire
    <3>1. t \in Seq(Tokens) /\ Path(answer, u, t, P, First(u)) /\ u <= v
      BY <1>1, <1>7, <1>13, <2>1, ConcatProperties DEF Reads
    <3>2. \A p \in Nat : p < u => ans[p] = answer[p]
      <4> TAKE p \in Nat
      <4>1. CASE p \in Requests
        BY <1>7, <1>10, <4>1
      <4>2. CASE p \notin Requests
        <5>1. p < u => p = 0
          BY <1>6, <1>7, <4>2, RequestsAssumption DEF Requests
        <5>2. answer[0] = ans[0]
          <6>1. answer' = [answer EXCEPT ![u] = a] /\ u # 0 /\ 0 \notin Requests
            BY <1>6, <1>11, RequestsAssumption DEF Requests
          <6>2. answer = [k \in Requests |-> answer[k]]
            BY <1>5 DEF Types
          <6> QED
            BY <6>1, <6>2
        <5> QED
          BY <5>1, <5>2
      <4> QED
        BY <4>1, <4>2
    <3> HIDE DEF ans, t
    <3>3. Path(ans, v, t, P, First(u))
      BY <1>7, <3>1, <3>2, PathAgrees
    <3>4. Path(ans, v, t \o Text(u, a), P, TextEnd(u, a))
      BY <1>12, <3>1, <3>3, PathConcat DEF ans
    <3>5. t \o Text(u, a) = buf \o wire'
      <4>1. t \o Text(u, a) = buf \o (wire \o Text(u, a))
        BY <1>12, <1>13, ConcatAssociative DEF t
      <4> QED
        BY <1>11, <4>1
    <3> QED
      BY <3>4, <3>5 DEF ans
  <2>3. m_Outstanding # <<>> =>
          /\ P = First(Current.req) \/ Current.req < v
          /\ Matches(Current, answer'[Current.req], got[Current.req], At, P)
    <3> HAVE m_Outstanding # <<>>
    <3>1. Current.req \in Requests /\ Current.req \in Nat
      <4>1. 1 \in 1 .. Len(m_Outstanding)
        BY <1>5, OwnSeqShape DEF Types
      <4> QED
        BY <1>4, <4>1, OfWaiting DEF Current, Requests
    <3>2. /\ P = First(Current.req) \/ Current.req < u
          /\ Matches(Current, answer[Current.req], got[Current.req], At, P)
      BY <1>13, <2>1 DEF Reads
    <3>3. CASE Current.req = u
      <4>1. P = First(Current.req)
        BY <1>7, <3>2, <3>3
      <4>2. /\ Current = NewResponse(Current.req, Current.method) /\ got[Current.req] = Nothing
            /\ At \in {"user", "pump"}
        BY <3>1, <3>2, <4>1, AtFirst
      <4>3. Matches(Current, answer'[Current.req], Nothing, At, P)
        BY <4>1, <4>2, NewIs
      <4> QED
        BY <4>1, <4>2, <4>3
    <3>4. CASE Current.req # u
      BY <1>7, <1>10, <3>1, <3>2, <3>4
    <3> QED
      BY <3>3, <3>4
  <2>4. Reads(nx, v, P, TextEnd(u, a))'
    <3>1. m_Outstanding = <<>> => P = First(nx) /\ At \in {"user", "pump"}
      BY <2>1 DEF Reads
    <3> QED
      BY <1>3, <1>8, <1>14, <2>2, <2>3, <3>1 DEF Reads
  <2> QED
    BY <1>14, <2>4
<1> QED
  BY <1>3, <1>4, <1>7, <1>15, <1>16, <1>17, <1>18, <1>19, <1>20, <1>21 DEF IInv, Counted

(* PutRequest: the new response is the last one that waits.                 *)
LEMMA PutRequestStep ==
  ASSUME IInv, NEW q \in Requests, NEW method \in Methods, PutRequest(q, method)
  PROVE  IInv'
<1> DEFINE new == NewResponse(q, method)
           l == Len(m_Outstanding)
           out == m_Outstanding'
<1>1. /\ pc \in {"user"} \cup Callbacks /\ pc' = "request" /\ caller' = pc
      /\ fate[q] = "none" /\ \A p \in 1 .. q - 1 : fate[p] # "none"
      /\ out = Append(m_Outstanding, new)
      /\ fate' = [fate EXCEPT ![q] = "open"]
      /\ m_Sock' = m_Sock /\ buf' = buf /\ eof' = eof /\ up' = up /\ requests' = requests
      /\ wire' = wire /\ answer' = answer /\ got' = got
  BY DEF PutRequest, network
<1>2. pc # "thrown" /\ pc # "request" /\ At' = At /\ At = pc
  BY <1>1 DEF Callbacks, At
<1>3. PICK nx, u, P, Q : Situation(nx, u, P, Q)
  BY <1>2, SituationIs
<1>4. /\ nx \in 1 .. MaxRequests + 1 /\ u \in 1 .. MaxRequests + 1 /\ P \in Places /\ Q \in Places
      /\ Counted(nx, u) /\ Types /\ Issued(nx) /\ Answered(nx, u) /\ Sent(nx, u) /\ Connection
      /\ Reads(nx, u, P, Q) /\ AllTold
  BY <1>3 DEF Situation, Counted
<1> DEFINE f == FirstOf(nx)
           my == nx + 1
<1>5. q = nx /\ q \in Nat /\ my \in 1 .. MaxRequests + 1 /\ my \in Nat /\ u \in Nat /\ u \in 1 .. my
      /\ u <= nx
  <2>1. fate[q] = "none" <=> q >= nx
    BY <1>4 DEF Issued
  <2>2. nx \in Nat /\ u \in Nat /\ u <= nx /\ nx >= 1 /\ MaxRequests \in Nat
          /\ q \in 1 .. MaxRequests
    BY <1>4, RequestsAssumption DEF Answered, Requests
  <2>3. ASSUME q # nx PROVE FALSE
    <3>1. nx \in 1 .. q - 1 /\ nx \in Requests
      BY <1>1, <2>1, <2>2, <2>3 DEF Requests
    <3>2. fate[nx] # "none"
      BY <1>1, <3>1
    <3>3. fate[nx] = "none"
      BY <1>4, <2>2, <3>1 DEF Issued
    <3> QED
      BY <3>2, <3>3
  <2>4. q = nx
    BY <2>3
  <2>5. u >= 1
    BY <1>4, RequestsAssumption
  <2> QED
    BY <2>2, <2>4, <2>5
<1>6. /\ OwnSeq(out) /\ Len(out) = l + 1 /\ out # <<>> /\ l \in Nat /\ out[l + 1] = new
      /\ \A i \in 1 .. l : out[i] = m_Outstanding[i]
      /\ m_Outstanding = <<>> <=> l = 0
  <2> DEFINE s == m_Outstanding
             t == out
  <2>1. OwnSeq(s) /\ t = WithLast(s, new)
    BY <1>1, <1>4 DEF Types, WithLast
  <2> HIDE DEF s, t, new
  <2>2. /\ OwnSeq(t) /\ Len(t) = Len(s) + 1 /\ t # <<>> /\ t[Len(s) + 1] = new
        /\ \A i \in 1 .. Len(s) : t[i] = s[i]
    BY <2>1, OneMore
  <2>3. Len(s) \in Nat /\ (s # <<>> <=> Len(s) > 0)
    BY <2>1, OwnSeqShape
  <2> QED
    BY <2>2, <2>3 DEF s, t
<1>7. /\ IsResponse(new) /\ new.req = q /\ new.method = method /\ new.state = "STATUSLINE"
      /\ Ends(new)
      /\ new = NewResponse(new.req, new.method)
      /\ \A a, at : at \in {"user", "pump"} => Matches(new, a, Nothing, at, First(q))
  BY NewIs
<1> HIDE DEF new
<1>8. f = nx - l /\ f \in Nat \ {0} /\ f <= nx
  <2>1. f = nx - l
    BY DEF FirstOf
  <2>2. f >= 1
    BY <1>4 DEF Issued
  <2> HIDE DEF f
  <2> QED
    BY <1>5, <1>6, <2>1, <2>2
<1>9. FirstOf(my)' = f
  <2>1. FirstOf(my)' = my - Len(out)
    BY DEF FirstOf
  <2>2. nx + 1 - (l + 1) = nx - l /\ nx \in Nat
    BY <1>5, <1>6
  <2> HIDE DEF f, out
  <2> QED
    BY <1>6, <1>8, <2>1, <2>2
<1>10. /\ fate' \in [Requests -> {"none", "open", "complete", "failed"}]
       /\ fate'[q] = "open" /\ \A p \in Requests : p # q => fate'[p] = fate[p]
  BY <1>1, <1>4 DEF Types
<1> HIDE DEF f, l, out, my
<1>11. Types'
  BY <1>1, <1>4, <1>6, <1>10 DEF Types, out
<1>12. Issued(my)'
  <2>1. \A p \in Requests : fate'[p] = "none" <=> p >= my
    <3> TAKE p \in Requests
    <3>1. fate[p] = "none" <=> p >= nx
      BY <1>4 DEF Issued
    <3>2. p >= my <=> p >= nx /\ p # q
      BY <1>5 DEF my, Requests
    <3> QED
      BY <1>10, <3>1, <3>2
  <2>2. \A p \in Requests : fate'[p] = "open" => p >= f
    <3> TAKE p \in Requests
    <3>1. fate[p] = "open" => p >= f
      BY <1>4 DEF Issued, f
    <3> QED
      BY <1>5, <1>8, <1>10, <3>1
  <2>3. \A i \in 1 .. Len(out) : Waits(my, i)'
    <3> TAKE i \in 1 .. Len(out)
    <3>1. CASE i = l + 1
      <4>1. f + i - 1 = q
        BY <1>5, <1>6, <1>8, <3>1
      <4> QED
        BY <1>6, <1>7, <1>9, <1>10, <3>1, <4>1 DEF Waits, out
    <3>2. CASE i # l + 1
      <4>1. i \in 1 .. l /\ out[i] = m_Outstanding[i]
        BY <1>6, <3>2
      <4>2. Waits(nx, i) /\ m_Outstanding[i].req \in Requests /\ m_Outstanding[i].req < nx
        BY <1>4, <4>1, OfWaiting DEF Issued, l
      <4>3. fate'[m_Outstanding[i].req] = fate[m_Outstanding[i].req]
        <5>1. m_Outstanding[i].req # q
          BY <1>5, <4>2 DEF Requests
        <5> QED
          BY <1>10, <4>2, <5>1
      <4> QED
        BY <1>9, <4>1, <4>2, <4>3 DEF Waits, out, f
    <3> QED
      BY <3>1, <3>2
  <2>4. \A p \in Requests : p >= my \/ p > f => got'[p] = Nothing
    <3> TAKE p \in Requests
    <3>1. p >= nx \/ p > f => got[p] = Nothing
      BY <1>4 DEF Issued, f
    <3>2. p >= my => p >= nx
      BY <1>5 DEF my, Requests
    <3> QED
      BY <1>1, <3>1, <3>2
  <2>5. Ends(out[1])
    <3>1. CASE l = 0
      BY <1>6, <1>7, <3>1
    <3>2. CASE l # 0
      <4>1. out[1] = m_Outstanding[1] /\ m_Outstanding # <<>>
        BY <1>6, <3>2
      <4> QED
        BY <1>4, <4>1 DEF Issued
    <3> QED
      BY <3>1, <3>2
  <2> QED
    BY <1>5, <1>6, <1>8, <1>9, <2>1, <2>2, <2>3, <2>4, <2>5 DEF Issued, out
<1>13. Answered(my, u)'
  <2>1. u < my
    BY <1>5 DEF my
  <2>2. \A i \in 1 .. Len(out) : out[i].req < u => answer[out[i].req] \in Answers[out[i].method]
    <3> TAKE i \in 1 .. Len(out)
    <3>1. CASE i = l + 1
      BY <1>5, <1>6, <1>7, <3>1
    <3>2. CASE i # l + 1
      <4>1. i \in 1 .. l /\ out[i] = m_Outstanding[i]
        BY <1>6, <3>2
      <4> QED
        BY <1>4, <4>1 DEF Answered, l
    <3> QED
      BY <3>1, <3>2
  <2> QED
    BY <1>1, <1>4, <1>5, <2>1, <2>2 DEF Answered, out
<1>14. Sent(my, u)'
  <2>1. CASE ~up
    BY <1>1, <1>4, <2>1 DEF Sent
  <2>2. CASE up
    <3> DEFINE k == Len(requests)
    <3>1. /\ m_Sock = Socket /\ u >= f /\ u + k = nx
          /\ \A i \in 1 .. k :
               requests[i] = [req |-> u + i - 1, method |-> m_Outstanding[u + i - f].method]
      BY <1>2, <1>4, <2>2 DEF Sent, f
    <3>2. k \in Nat
      BY <1>4, LenProperties DEF Types
    <3> HIDE DEF k
    <3>3. \A i \in 1 .. k :
            requests[i] = [req |-> u + i - 1, method |-> out[u + i - f].method]
      <4> TAKE i \in 1 .. k
      <4>1. u + i - f \in 1 .. l
        <5>1. l \in Nat /\ f = nx - l /\ nx \in Nat /\ u \in Nat /\ f \in Nat
          BY <1>5, <1>6, <1>8
        <5>2. u + k = nx /\ u >= f
          BY <3>1
        <5> QED
          BY <3>2, <5>1, <5>2
      <4> QED
        BY <1>6, <3>1, <4>1
    <3>4. u + k = my - 1
      BY <1>5, <3>1 DEF my
    <3> QED
      BY <1>1, <1>9, <2>2, <3>1, <3>3, <3>4 DEF Sent, out, k
  <2> QED
    BY <2>1, <2>2
<1>15. Connection'
  <2>1. m_Sock = -1 => Len(out) = 1
    BY <1>2, <1>4, <1>6 DEF Connection, l
  <2> QED
    BY <1>1, <1>2, <1>4, <1>6, <2>1 DEF Connection, out
<1>16. AllTold'
  <2> SUFFICES ASSUME NEW p \in Requests PROVE Told(p, answer'[p], got'[p], fate'[p])
    BY DEF AllTold
  <2>1. CASE p = q
    BY <1>1, <1>4, <1>10, <2>1 DEF AllTold, Told
  <2>2. CASE p # q
    BY <1>1, <1>4, <1>10, <2>2 DEF AllTold
  <2> QED
    BY <2>1, <2>2
<1>17. Reads(my, u, P, Q)'
  <2>1. CASE l = 0
    <3>1. Current' = new
      BY <1>6, <2>1 DEF Current, out
    <3>2. P = First(q) /\ At \in {"user", "pump"}
      BY <1>4, <1>5, <1>6, <2>1 DEF Reads
    <3>3. got[q] = Nothing
      <4>1. q >= nx
        BY <1>5
      <4> QED
        BY <1>4, <4>1 DEF Issued
    <3>4. Matches(new, answer[q], got[q], At, P)
      BY <1>7, <3>2, <3>3
    <3> QED
      BY <1>1, <1>2, <1>4, <1>6, <1>7, <3>1, <3>2, <3>4 DEF Reads, out
  <2>2. CASE l # 0
    <3>1. Current' = Current /\ m_Outstanding # <<>>
      <4>1. 1 \in 1 .. l
        BY <1>6, <2>2
      <4> QED
        BY <1>6, <2>2, <4>1 DEF Current, out
    <3> QED
      BY <1>1, <1>2, <1>4, <1>6, <3>1 DEF Reads, out
  <2> QED
    BY <2>1, <2>2
<1> QED
  BY <1>4, <1>5, <1>11, <1>12, <1>13, <1>14, <1>15, <1>16, <1>17 DEF IInv, Counted

(* The request that is sent is the last one, and the next to be answered.   *)
LEMMA EndHeadersStep ==
  ASSUME IInv, EndHeaders
  PROVE  IInv'
<1> DEFINE l == Len(m_Outstanding)
           e == Last(m_Outstanding)
           sent == [req |-> e.req, method |-> e.method]
<1>1. /\ pc = "request" /\ pc' = caller /\ caller' = "user"
      /\ m_Outstanding' = m_Outstanding /\ buf' = buf /\ eof' = eof /\ answer' = answer
      /\ got' = got /\ fate' = fate
      /\ \/ /\ m_Sock = -1 /\ m_Sock' = Socket /\ up' = TRUE /\ wire' = <<>>
            /\ requests' = <<sent>>
         \/ /\ m_Sock # -1 /\ m_Sock' = m_Sock /\ up' = up /\ wire' = wire
            /\ requests' = IF up THEN Append(requests, sent) ELSE requests
  BY DEF EndHeaders, Connected, history
<1>2. PICK nx, u, P, Q : Situation(nx, u, P, Q)
  BY <1>1, SituationIs
<1>3. /\ nx \in 1 .. MaxRequests + 1 /\ u \in 1 .. MaxRequests + 1 /\ P \in Places /\ Q \in Places
      /\ Counted(nx, u) /\ Types /\ Issued(nx) /\ Answered(nx, u) /\ Sent(nx, u) /\ Connection
      /\ Reads(nx, u, P, Q) /\ AllTold
  BY <1>2 DEF Situation, Counted
<1> DEFINE f == FirstOf(nx)
           v == nx - 1
<1>4. /\ l \in Nat /\ l > 0 /\ m_Outstanding # <<>> /\ 1 \in 1 .. l /\ l \in 1 .. l
      /\ e = m_Outstanding[l]
  <2>1. m_Outstanding # <<>>
    BY <1>1, <1>3 DEF Issued
  <2>2. l \in Nat /\ l > 0
    BY <1>3, <2>1, OwnSeqShape DEF Types
  <2> QED
    BY <2>1, <2>2 DEF Last
<1>5. /\ nx \in Nat /\ u \in Nat /\ u >= 1 /\ u <= v /\ v \in Nat /\ f = nx - l /\ f \in Nat \ {0}
      /\ v \in 1 .. MaxRequests + 1 /\ v \in 1 .. nx /\ v >= f
  <2>1. nx \in Nat /\ u \in Nat /\ u >= 1 /\ nx <= MaxRequests + 1 /\ u < nx /\ MaxRequests \in Nat
    BY <1>1, <1>3, RequestsAssumption DEF Answered
  <2>2. f = nx - l
    BY DEF FirstOf
  <2>3. f >= 1
    BY <1>3 DEF Issued
  <2> HIDE DEF f
  <2> QED
    BY <1>4, <2>1, <2>2, <2>3
<1> HIDE DEF l, e, f
<1>6. e.req = v /\ e.method \in Methods /\ v \in Requests /\ Current.req = f
  <2>1. e.req = f + l - 1 /\ e.method \in Methods /\ e.req \in Requests
    BY <1>3, <1>4, OfWaiting DEF f, l
  <2>2. Current.req = f + 1 - 1
    BY <1>3, <1>4, OfWaiting DEF f, l, Current
  <2> QED
    BY <1>4, <1>5, <2>1, <2>2
<1>7. /\ caller \in {"user"} \cup Callbacks /\ pc' \in {"user"} \cup Callbacks /\ pc' # "request"
      /\ At = caller /\ At' = caller /\ pc' # "thrown"
  BY <1>1, <1>3 DEF Types, At, Callbacks
<1>8. sent \in [req : Requests, method : Methods] /\ sent.req = v /\ sent.method = e.method
  BY <1>6
<1>9. FirstOf(nx)' = f /\ Current' = Current /\ Issued(nx)'
  BY <1>1, <1>3, <1>7, SameWaits DEF f
<1>10. AllTold'
  BY <1>1, <1>3 DEF AllTold
<1> HIDE DEF sent
<1>11. CASE m_Sock = -1
  <2>1. /\ m_Sock' = Socket /\ up' = TRUE /\ wire' = <<>> /\ requests' = <<sent>>
    BY <1>1, <1>11
  <2>2. caller = "user" /\ l = 1 /\ buf = <<>> /\ ~eof
    BY <1>1, <1>3, <1>7, <1>11 DEF Connection, l
  <2>3. f = v
    BY <1>5, <2>2
  <2>4. Types'
    BY <1>1, <1>3, <1>8, <2>1, EmptySeq DEF Types
  <2>5. Answered(nx, v)'
    <3>1. \A p \in Requests : p >= v => answer[p] = NoAnswer
      <4> TAKE p \in Requests
      <4>1. p >= v => p >= u
        BY <1>5 DEF Requests
      <4> QED
        BY <1>3, <4>1 DEF Answered
    <3>2. \A i \in 1 .. Len(m_Outstanding) : ~ (m_Outstanding[i].req < v)
      <4> TAKE i \in 1 .. Len(m_Outstanding)
      <4>1. i = 1
        BY <2>2 DEF l
      <4>2. m_Outstanding[1].req = v
        BY <1>6, <2>3 DEF Current
      <4> QED
        BY <1>5, <4>1, <4>2
    <3> QED
      BY <1>1, <1>5, <1>7, <3>1, <3>2 DEF Answered
  <2>6. Sent(nx, v)'
    <3>1. Len(requests') = 1 /\ requests'[1] = sent /\ v + 1 = nx
      BY <1>5, <2>1
    <3>2. sent = [req |-> v + 1 - 1, method |-> m_Outstanding[v + 1 - f].method]
      <4>1. v + 1 - 1 = v /\ v + 1 - f = l
        BY <1>5, <2>2, <2>3
      <4> QED
        BY <1>4, <1>6, <4>1 DEF sent
    <3>3. \A i \in 1 .. Len(requests') :
            requests'[i] = [req |-> v + i - 1,
                            method |-> m_Outstanding'[v + i - FirstOf(nx)'].method]
      <4> TAKE i \in 1 .. Len(requests')
      <4>1. i = 1
        BY <3>1
      <4> QED
        BY <1>1, <1>9, <3>1, <3>2, <4>1
    <3>4. v + Len(requests') = nx
      BY <3>1
    <3> QED
      BY <1>5, <1>7, <1>9, <2>1, <3>3, <3>4 DEF Sent
  <2>7. Connection'
    BY <1>1, <1>7, <2>1, <2>2 DEF Connection, Socket
  <2>8. First(v) \in Places /\ Reads(nx, v, First(v), First(v))'
    <3>1. First(v) \in Places
      BY <1>5, NextPlaces
    <3>2. buf' \o wire' = <<>>
      BY <1>1, <2>1, <2>2, EmptySeq, ConcatEmptySeq
    <3>3. Path(answer', v, buf' \o wire', First(v), First(v))
      BY <3>1, <3>2, PathOfNothing
    <3>4. /\ P = First(Current.req) \/ Current.req < u
          /\ Matches(Current, answer[Current.req], got[Current.req], "user", P)
      BY <1>3, <1>4, <1>7, <2>2 DEF Reads
    <3>5. P = First(v) /\ Current.req = v
      BY <1>5, <1>6, <2>3, <3>4
    <3>6. Matches(Current', answer'[Current'.req], got'[Current'.req], At', First(v))
      BY <1>1, <1>7, <1>9, <2>2, <3>4, <3>5
    <3>7. Current'.req = v /\ m_Outstanding' # <<>>
      BY <1>1, <1>4, <1>9, <3>5
    <3> QED
      BY <3>1, <3>3, <3>6, <3>7 DEF Reads
  <2> QED
    BY <1>3, <1>5, <1>9, <1>10, <2>4, <2>5, <2>6, <2>7, <2>8 DEF IInv, Counted
<1>12. CASE m_Sock # -1
  <2>1. /\ m_Sock' = m_Sock /\ up' = up /\ wire' = wire
        /\ requests' = IF up THEN Append(requests, sent) ELSE requests
    BY <1>1, <1>12
  <2> DEFINE S == [req : Requests, method : Methods]
             k == Len(requests)
  <2>2. requests \in Seq(S) /\ sent \in S /\ k \in Nat
    BY <1>3, <1>8, LenProperties DEF Types
  <2> HIDE DEF S
  <2>3. /\ Append(requests, sent) \in Seq(S) /\ Len(Append(requests, sent)) = k + 1
        /\ \A i \in 1 .. k : Append(requests, sent)[i] = requests[i]
        /\ Append(requests, sent)[k + 1] = sent
    BY <2>2, AppendProperties
  <2>4. Types'
    <3>1. requests' \in Seq(S)
      BY <2>1, <2>2, <2>3
    <3> QED
      BY <1>1, <1>3, <1>7, <2>1, <3>1 DEF Types, S
  <2>5. Answered(nx, u)'
    BY <1>1, <1>3, <1>7 DEF Answered
  <2>6. Sent(nx, u)'
    <3>1. CASE ~up
      BY <1>3, <2>1, <3>1 DEF Sent
    <3>2. CASE up
      <4>1. /\ m_Sock = Socket /\ u >= f /\ u + k = v
            /\ \A i \in 1 .. k :
                 requests[i] = [req |-> u + i - 1, method |-> m_Outstanding[u + i - f].method]
        BY <1>1, <1>3, <3>2 DEF Sent, f
      <4> HIDE DEF k
      <4>2. /\ Len(requests') = k + 1 /\ requests'[k + 1] = sent
            /\ \A i \in 1 .. k : requests'[i] = requests[i]
        BY <2>1, <2>3, <3>2
      <4>3. sent = [req |-> u + (k + 1) - 1, method |-> m_Outstanding[u + (k + 1) - f].method]
        <5>1. u + (k + 1) - 1 = v /\ u + (k + 1) - f = l
          <6>1. u + k = v /\ v = nx - 1 /\ f = nx - l /\ k \in Nat
            BY <1>5, <2>2, <4>1
          <6> QED
            BY <1>4, <1>5, <6>1
        <5> QED
          BY <1>4, <1>6, <5>1 DEF sent
      <4>4. \A i \in 1 .. Len(requests') :
              requests'[i] = [req |-> u + i - 1,
                              method |-> m_Outstanding'[u + i - FirstOf(nx)'].method]
        <5> TAKE i \in 1 .. Len(requests')
        <5>1. i \in 1 .. k \/ i = k + 1
          BY <2>2, <4>2
        <5>2. CASE i \in 1 .. k
          BY <1>1, <1>9, <4>1, <4>2, <5>2
        <5>3. CASE i = k + 1
          BY <1>1, <1>9, <4>2, <4>3, <5>3
        <5> QED
          BY <5>1, <5>2, <5>3
      <4>5. u + Len(requests') = nx
        BY <1>5, <2>2, <4>1, <4>2
      <4> QED
        BY <1>7, <1>9, <2>1, <3>2, <4>1, <4>4, <4>5 DEF Sent
    <3> QED
      BY <3>1, <3>2
  <2>7. Connection'
    BY <1>1, <1>3, <1>7, <1>12, <2>1 DEF Connection
  <2>8. Reads(nx, u, P, Q)'
    BY <1>1, <1>3, <1>7, <1>9, <2>1 DEF Reads
  <2> QED
    BY <1>3, <1>9, <1>10, <2>4, <2>5, <2>6, <2>7, <2>8 DEF IInv, Counted
<1> QED
  BY <1>11, <1>12

(* The initial state: no request, and no token.                             *)
LEMMA InitHolds ==
  ASSUME Init
  PROVE  IInv
<1>1. 1 \in 1 .. MaxRequests + 1 /\ 1 \in Nat
  BY RequestsAssumption
<1>2. FirstOf(1) = 1 /\ At = "user" /\ Len(m_Outstanding) = 0 /\ Len(requests) = 0
  BY EmptySeq DEF Init, FirstOf, At
<1>3. Types
  <2>1. OwnSeq(<<>>)
    BY EmptySeq DEF OwnSeq
  <2> QED
    BY <2>1, EmptySeq DEF Init, Types
<1>4. Issued(1)
  <2>1. \A q \in Requests : q >= 1 /\ fate[q] = "none" /\ got[q] = Nothing
    BY RequestsAssumption DEF Init, Requests, Nothing
  <2> QED
    BY <1>1, <1>2, <2>1 DEF Issued, Init
<1>5. Answered(1, 1)
  BY <1>2 DEF Answered, Init
<1>6. Sent(1, 1) /\ Connection
  BY <1>2 DEF Sent, Connection, Init
<1>7. First(1) \in Places /\ Reads(1, 1, First(1), First(1))
  <2>1. First(1) \in Places
    BY <1>1, NextPlaces
  <2>2. Path(answer, 1, <<>>, First(1), First(1))
    BY <2>1, PathOfNothing
  <2>3. buf \o wire = <<>>
    BY EmptySeq, ConcatEmptySeq DEF Init
  <2>4. m_Outstanding = <<>> /\ At = "user"
    BY <1>2 DEF Init
  <2> QED
    BY <2>1, <2>2, <2>3, <2>4 DEF Reads
<1>8. AllTold
  BY DEF AllTold, Told, Init
<1> QED
  BY <1>1, <1>3, <1>4, <1>5, <1>6, <1>7, <1>8 DEF IInv, Counted

(* A step that changes nothing.                                             *)
LEMMA Stutters ==
  ASSUME IInv, UNCHANGED vars
  PROVE  IInv'
<1>1. /\ m_Sock' = m_Sock /\ m_Outstanding' = m_Outstanding /\ pc' = pc /\ caller' = caller
      /\ buf' = buf /\ eof' = eof /\ up' = up /\ requests' = requests /\ wire' = wire
      /\ answer' = answer /\ got' = got /\ fate' = fate
  BY DEF vars, connVars, pumpVars, network, history
<1>2. At' = At /\ Current' = Current /\ \A nx : FirstOf(nx)' = FirstOf(nx)
  BY <1>1 DEF At, Current, FirstOf
<1>3. Types => Types'
  BY <1>1 DEF Types
<1>4. Connection => Connection'
  BY <1>1, <1>2 DEF Connection
<1>5. ASSUME NEW nx, NEW u PROVE Counted(nx, u) => Counted(nx, u)'
  <2>1. \A i \in 1 .. Len(m_Outstanding) : Waits(nx, i) => Waits(nx, i)'
    BY <1>1, <1>2 DEF Waits
  <2>2. Issued(nx) => Issued(nx)'
    BY <1>1, <1>2, <2>1 DEF Issued
  <2>3. Answered(nx, u) => Answered(nx, u)'
    BY <1>1, <1>2 DEF Answered
  <2>4. Sent(nx, u) => Sent(nx, u)'
    BY <1>1, <1>2 DEF Sent
  <2> QED
    BY <1>3, <1>4, <2>2, <2>3, <2>4 DEF Counted
<1>6. ASSUME NEW nx, NEW u, NEW P, NEW Q PROVE Reads(nx, u, P, Q) => Reads(nx, u, P, Q)'
  BY <1>1, <1>2 DEF Reads
<1>7. AllTold => AllTold'
  BY <1>1 DEF AllTold
<1> QED
  BY <1>1, <1>5, <1>6, <1>7 DEF IInv

(* The invariant is inductive.                                              *)
LEMMA EveryStep ==
  ASSUME IInv, [Next]_vars
  PROVE  IInv'
<1>1. CASE UNCHANGED vars
  BY <1>1, Stutters
<1>2. CASE Pump
  <2>1. CASE Recv \/ RecvNothing \/ CompleteReturns \/ PumpReturns
    BY <2>1, RecvStep, RecvNothingStep, CompleteReturnsStep, PumpReturnsStep
  <2>2. CASE Accumulate \/ ProcessStatusLine \/ HeaderLine \/ EndOfInterim
    BY <2>2, AccumulateStep, StatusLineStep, HeaderLineStep, EndOfInterimStep
  <2>3. CASE BeginBody \/ BeginReturns \/ ProcessData \/ DataReturns
    BY <2>3, BeginBodyStep, BeginReturnsStep, ProcessDataStep, DataReturnsStep
  <2>4. CASE ProcessChunkLenLine \/ ChunkEndLine \/ ProcessTrailerLine \/ LastTrailerLine
    BY <2>4, ChunkLenStep, ChunkEndStep, TrailerStep, LastTrailerStep
  <2>5. CASE BadStatusLine \/ ClosedUnexpectedly
    BY <2>5, ThrowingSteps
  <2>6. CASE Delete \/ ClosedIsEnd \/ DeleteAndClose
    BY <2>6, DeleteStep, ClosedIsEndStep, DeleteAndCloseStep
  <2> QED
    BY <1>2, <2>1, <2>2, <2>3, <2>4, <2>5, <2>6 DEF Pump
<1>3. CASE Serve \/ ServerCloses
  BY <1>3, ServeStep, ServerClosesStep
<1>4. CASE Connect \/ EndHeaders \/ Close
  BY <1>4, ConnectStep, EndHeadersStep, CloseStep
<1>5. CASE ConnectFails \/ EndHeadersFails
  BY <1>5, ThrowingSteps
<1>6. CASE \E q \in Requests, method \in Methods : PutRequest(q, method)
  BY <1>6, PutRequestStep
<1> QED
  BY <1>1, <1>2, <1>3, <1>4, <1>5, <1>6 DEF Next

(* What is told is a conjunct of the invariant.                             *)
LEMMA ToldIsOwn ==
  ASSUME IInv
  PROVE  OwnAnswers
<1>1. AllTold
  BY DEF IInv
<1> QED
  BY <1>1 DEF AllTold, Told, OwnAnswers

(* A token that is left has a response that it is for: the invariant says   *)
(* which.                                                                   *)
LEMMA NothingLeftOver ==
  ASSUME IInv
  PROVE  AssertionsHold
<1>1. PICK nx \in 1 .. MaxRequests + 1, u \in 1 .. MaxRequests + 1 :
        /\ Counted(nx, u)
        /\ pc # "thrown" => \E P, Q \in Places : Reads(nx, u, P, Q)
  BY DEF IInv
<1>2. Types /\ Issued(nx) /\ Answered(nx, u) /\ Connection
  BY <1>1 DEF Counted
<1>3. ASSUME pc = "pump", buf # <<>> PROVE m_Outstanding # <<>>
  <2> SUFFICES ASSUME m_Outstanding = <<>> PROVE FALSE
    OBVIOUS
  <2>1. PICK P \in Places, Q \in Places : Reads(nx, u, P, Q)
    BY <1>1, <1>3
  <2>2. P = First(nx) /\ Path(answer, u, buf \o wire, P, Q)
    BY <2>1 DEF Reads
  <2>3. buf \o wire \in Seq(Tokens) /\ buf \o wire # <<>>
    BY <1>2, <1>3, HeadConcat DEF Types
  <2>4. PICK R \in Places : Steps(answer, u, P, Head(buf \o wire), R)
    BY <2>2, <2>3, PathHead
  <2>5. nx < u
    BY <2>2, <2>4 DEF Steps, First, Place
  <2> QED
    BY <1>1, <1>2, <2>5, RequestsAssumption DEF Answered
<1>4. ASSUME pc = "user", m_Outstanding # <<>> PROVE m_Sock > 0
  <2>1. Len(m_Outstanding) # 0
    BY <1>2, <1>4, OwnSeqShape DEF Types
  <2>2. m_Sock # -1
    BY <1>2, <1>4, <2>1 DEF Connection
  <2> QED
    BY <1>2, <2>2 DEF Types, Socket
<1>5. m_Outstanding # <<>> => Ends(Current)
  BY <1>2 DEF Issued, Current
<1> QED
  BY <1>3, <1>4, <1>5 DEF AssertionsHold, Ends

(* Where the place of a response that is read is before the next answer,    *)
(* the response is of an answer without a body, or with an empty one.       *)
LEMMA UnfinishedIsEmpty ==
  ASSUME NEW r, NEW method \in Methods, NEW a \in Answers[method], r.req \in Nat, NEW g,
         NEW u \in Nat,
         r.req < u, Matches(r, a, g, "user", First(u))
  PROVE  /\ u = r.req + 1
         /\ BodyOf(r.req, a) = <<>>
         /\ a.framing # "chunked" \/ a.bodyless
<1> DEFINE P == First(u)
<1>1. P.kind = "start" /\ P.req = u
  BY DEF First, Place
<1>2. P # First(r.req)
  BY <1>1 DEF First, Place
<1> HIDE DEF P
<1>3. /\ ~InHead(r, a, g, P) /\ ~InChunk(r, a, "user", P) /\ ~AtChunkEnd(r, a, P)
      /\ ~InChunkLine(r, a, P)
  BY <1>1 DEF InHead, InChunk, AtChunkEnd, InChunkLine, Place, StatusKinds, HeaderKinds, SizeKinds,
              TrailerKinds
<1>4. Matches(r, a, g, "user", P)
  BY DEF P
<1>5. Begun(r, a, g) /\ InBody(r, a, "user", P)
  BY <1>2, <1>3, <1>4 DEF Matches
<1> DEFINE body == BodyOf(r.req, a)
<1>6. /\ body \in Seq(Tokens) /\ Len(body) = (IF a.bodyless THEN 0 ELSE Total(a))
           /\ Len(body) \in Nat
  BY BodyShape, LenProperties
<1>7. /\ a.framing \in {"length", "chunked", "none"} /\ a.bodyless \in BOOLEAN
      /\ a.framing = "none" /\ ~a.bodyless => a.closes \/ a.status \notin 100 .. 999
  BY AnswerShape
<1>8. /\ a.status \in 100 .. 999 /\ ~SentInChunks(a) /\ r.length = LengthGiven(a)
      /\ r.bytesRead \in 0 .. Len(body)
      /\ P = BodyPlace(r.req, a, r.bytesRead)
      /\ r.length # -1 => r.bytesRead < r.length \/ r.length = 0
  BY <1>5 DEF Begun, InBody
<1>9. ~(r.bytesRead < Len(body)) /\ P = Done(r.req, a)
  <2>1. Place(r.req, "body", 0, r.bytesRead).kind = "body"
    BY DEF Place
  <2> QED
    BY <1>1, <1>8, <2>1 DEF BodyPlace
<1>10. r.bytesRead = Len(body)
  BY <1>6, <1>8, <1>9
<1>11. ~(UntilClose(a) /\ a.closes) /\ u = r.req + 1
  <2>1. Place(r.req, "end", 0, 0).kind = "end" /\ First(r.req + 1).req = r.req + 1
    BY DEF First, Place
  <2> QED
    BY <1>1, <1>9, <2>1 DEF Done
<1>12. ~UntilClose(a)
  BY <1>7, <1>8, <1>11 DEF UntilClose
<1>13. a.bodyless \/ a.framing = "length"
  BY <1>7, <1>8, <1>12 DEF UntilClose, SentInChunks
<1> HIDE DEF body
<1>14. Len(body) = 0
  <2>1. CASE a.bodyless
    BY <1>6, <2>1
  <2>2. CASE ~a.bodyless
    <3>1. r.length = Len(body)
      BY <1>6, <1>8, <1>13, <2>2 DEF LengthGiven
    <3> QED
      BY <1>6, <1>8, <1>10, <3>1
  <2> QED
    BY <2>1, <2>2
<1>15. body = <<>>
  BY <1>6, <1>14, EmptySeq
<1> QED
  BY <1>8, <1>11, <1>15 DEF SentInChunks, body

(* Where all tokens are used, the response that is open has no byte to wait *)
(* for.                                                                     *)
LEMMA WhatArrivedIsRead ==
  ASSUME IInv
  PROVE  ArrivedIsComplete
<1> SUFFICES ASSUME NEW q \in Requests, Arrived(q), fate[q] = "open"
             PROVE  Empty(q) /\ \A p \in q + 1 .. MaxRequests : ~Arrived(p)
  BY DEF ArrivedIsComplete
<1>1. answer[q] # NoAnswer /\ up /\ pc = "user" /\ wire = <<>>
  BY DEF Arrived
<1>2. PICK nx, u, P, Q : Situation(nx, u, P, Q)
  BY <1>1, SituationIs
<1>3. /\ nx \in 1 .. MaxRequests + 1 /\ u \in 1 .. MaxRequests + 1 /\ P \in Places
      /\ Counted(nx, u) /\ Types /\ Issued(nx) /\ Answered(nx, u) /\ Connection
      /\ Reads(nx, u, P, Q)
  BY <1>2 DEF Situation, Counted
<1> DEFINE l == Len(m_Outstanding)
           f == FirstOf(nx)
<1>4. /\ q \in Nat /\ nx \in Nat /\ u \in Nat /\ MaxRequests \in Nat /\ l \in Nat
      /\ f = nx - l
  BY <1>3, OwnSeqShape, RequestsAssumption DEF Requests, Types, FirstOf
<1>5. q < u
  <2>1. q >= u => answer[q] = NoAnswer
    BY <1>3 DEF Answered
  <2> QED
    BY <1>1, <1>4, <2>1
<1>6. q >= f /\ q < nx
  <2>1. fate[q] = "none" <=> q >= nx
    BY <1>3 DEF Issued
  <2>2. q >= f
    BY <1>3 DEF Issued
  <2> QED
    BY <1>4, <2>1, <2>2
<1> HIDE DEF l, f
<1>7. m_Outstanding # <<>> /\ l > 0
  <2>1. l > 0
    BY <1>4, <1>6
  <2> QED
    BY <1>3, <2>1, OwnSeqShape DEF l, Types
<1>8. /\ Current.req = f /\ Current.method \in Methods /\ f \in Nat
      /\ f < u => answer[f] \in Answers[Current.method]
  <2>1. 1 \in 1 .. Len(m_Outstanding)
    BY <1>4, <1>7 DEF l
  <2>2. /\ Current.req = f + 1 - 1 /\ Current.method \in Methods /\ f \in Nat \ {0}
        /\ Current.req < u => answer[Current.req] \in Answers[Current.method]
    BY <1>3, <2>1, OfWaiting DEF Current, f
  <2>3. Current.req = f
    BY <2>2
  <2> QED
    BY <2>2, <2>3
<1>9. f < u
  BY <1>4, <1>5, <1>6, <1>8
<1>10. P = First(u)
  <2>1. At = "user"
    BY <1>1 DEF At
  <2>2. buf = <<>>
    BY <1>3, <2>1 DEF Connection
  <2>3. buf \o wire = <<>>
    BY <1>1, <2>2, EmptySeq, ConcatEmptySeq
  <2>4. Path(answer, u, <<>>, P, Q) /\ Q = First(u)
    BY <1>1, <1>3, <2>3 DEF Reads
  <2> QED
    BY <1>3, <2>4, PathOfNothing
<1>11. Matches(Current, answer[f], got[f], "user", First(u))
  <2>1. At = "user"
    BY <1>1 DEF At
  <2>2. Matches(Current, answer[Current.req], got[Current.req], "user", P)
    BY <1>3, <1>7, <2>1 DEF Reads
  <2> QED
    BY <1>8, <1>10, <2>2
<1>12. /\ u = f + 1 /\ BodyOf(f, answer[f]) = <<>>
       /\ answer[f].framing # "chunked" \/ answer[f].bodyless
  <2> DEFINE r == Current
             a == answer[f]
             g == got[f]
  <2>1. /\ r.method \in Methods /\ a \in Answers[r.method] /\ r.req \in Nat /\ r.req < u
        /\ r.req = f
        /\ u \in Nat /\ Matches(r, a, g, "user", First(u))
    BY <1>4, <1>8, <1>9, <1>11
  <2> HIDE DEF r, a, g
  <2>2. u = r.req + 1 /\ BodyOf(r.req, a) = <<>> /\ (a.framing # "chunked" \/ a.bodyless)
    BY <2>1, UnfinishedIsEmpty
  <2> QED
    BY <2>1, <2>2 DEF a
<1>13. q = f
  BY <1>4, <1>5, <1>6, <1>8, <1>12
<1>14. Empty(q)
  BY <1>1, <1>12, <1>13 DEF Empty
<1>15. \A p \in q + 1 .. MaxRequests : ~Arrived(p)
  <2> TAKE p \in q + 1 .. MaxRequests
  <2>1. p \in Requests /\ p >= u
    BY <1>4, <1>12, <1>13 DEF Requests
  <2>2. answer[p] = NoAnswer
    BY <1>3, <2>1 DEF Answered
  <2> QED
    BY <2>2 DEF Arrived
<1> QED
  BY <1>14, <1>15

(* In every state, what is received and what is on the wire are the text of *)
(* the answers from the place on that the first outstanding response has    *)
(* come to.                                                                 *)
THEOREM InvariantTheorem == Spec => []IInv
<1>1. Init => IInv
  BY InitHolds
<1>2. IInv /\ [Next]_vars => IInv'
  BY EveryStep
<1> QED
  BY <1>1, <1>2, PTL DEF Spec

(* However the tokens are cut, and whenever requests are issued,            *)
(* connections close or exceptions leave pump: the callbacks tell a request *)
(* of its own answer, with its status, whether the connection closes, and   *)
(* its body in order; and of all of the body when it completes, unless only *)
(* the close ends it.                                                       *)
THEOREM OwnAnswersTheorem == Spec => []OwnAnswers
<1>1. IInv => OwnAnswers
  BY ToldIsOwn
<1> QED
  BY <1>1, InvariantTheorem, PTL

(* No assertion of pump and of Response fails: no byte is left over without *)
(* a response for it, what is outstanding has a connection, and chunks are  *)
(* only counted down to none.                                               *)
THEOREM AssertionsHoldTheorem == Spec => []AssertionsHold
<1>1. IInv => AssertionsHold
  BY NothingLeftOver
<1> QED
  BY <1>1, InvariantTheorem, PTL

(* When the server waits and pump has used all that arrived, a request      *)
(* whose answer came is still open only if the answer is empty and none     *)
(* came after it.                                                           *)
THEOREM ArrivedIsCompleteTheorem == Spec => []ArrivedIsComplete
<1>1. IInv => ArrivedIsComplete
  BY WhatArrivedIsRead
<1> QED
  BY <1>1, InvariantTheorem, PTL
=============================================================================
