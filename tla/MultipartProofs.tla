--------------------------- MODULE MultipartProofs ---------------------------
(* The parser of Multipart reports the data of every part byte by byte, in
   order and once: a proof for every boundary, every message and every way of
   cutting it. The invariant adds to NothingLost what lookbehind holds in each
   of the two states that may turn out not to be a boundary. *)
EXTENDS Multipart, SequenceTheorems, TLAPS

Char == STRING
Bytes == Seq(Char)
Callback == {"field", "value", "headers_complete", "data", "data_end", "body_end"}
Entry == Callback \X Bytes

Types ==
    /\ message \in Bytes
    /\ start \in Nat /\ len \in Nat /\ start + len <= Len(message)
    /\ i \in 0 .. len /\ mark \in 0 .. i
    /\ body \in Nat /\ index \in Nat
    /\ lookbehind \in Bytes
    /\ said \in Seq(Entry)

Held ==
    /\ Len(lookbehind) <= 2 + Len(Boundary)
    /\ state = "s_part_data_almost_boundary" => lookbehind = <<CR>>
    /\ state = "s_part_data_boundary" =>
          index < Len(Boundary) /\ Len(lookbehind) = 2 + index

Accounted ==
    state \in InData =>
        /\ said # <<>>
        /\ body <= Consumed
        /\ Told \o Untold = SubSeq(message, body + 1, Consumed)

IInv == Types /\ Held /\ Accounted

(* The last entry of a sequence replaced, and one added. *)
LEMMA LastReplaced ==
    ASSUME NEW S, NEW s \in Seq(S), s # <<>>, NEW e \in S
    PROVE  LET t == [s EXCEPT ![Len(s)] = e] IN
           t \in Seq(S) /\ t # <<>> /\ t[Len(t)] = e
<1>1. Len(s) \in 1 .. Len(s)
  OBVIOUS
<1> QED BY <1>1, ExceptSeq

LEMMA OneAdded ==
    ASSUME NEW S, NEW s \in Seq(S), NEW e \in S
    PROVE  LET t == Append(s, e) IN
           t \in Seq(S) /\ t # <<>> /\ t[Len(t)] = e
  BY AppendProperties

(* Bytes after bytes are bytes. *)
LEMMA BytesConcat ==
    ASSUME NEW b \in Bytes, NEW c \in Bytes
    PROVE  b \o c \in Bytes /\ <<>> \o c = c
  BY ConcatProperties, ConcatEmptySeq DEF Bytes

LEMMA EntryOf ==
    ASSUME NEW callback \in Callback, NEW b \in Bytes
    PROVE  <<callback, b>> \in Entry
  BY DEF Entry

(* A sequence and its next element, and what comes before the sequence. *)
LEMMA NextElement ==
    ASSUME NEW S, NEW s \in Seq(S), NEW m \in 0 .. Len(s), NEW k \in m .. Len(s),
           k < Len(s)
    PROVE  SubSeq(s, m + 1, k + 1) = SubSeq(s, m + 1, k) \o <<s[k + 1]>>
<1>1. m + 1 \in 1 .. Len(s) /\ k + 1 \in m + 1 .. Len(s) /\ k + 1 - 1 = k
  OBVIOUS
<1>2. SubSeq(s, m + 1, k + 1) = SubSeq(s, m + 1, k + 1 - 1) \o <<s[k + 1]>>
  BY <1>1, SubSeqRecursiveSecond
<1> QED BY <1>1, <1>2

LEMMA EmptySlice ==
    ASSUME NEW s, NEW k \in Nat
    PROVE  SubSeq(s, k + 1, k) = <<>>
<1>1. k + 1 \in Int /\ k \in Int /\ k < k + 1
  OBVIOUS
<1> QED BY <1>1, SubSeqEmpty

LEMMA AppendAfter ==
    ASSUME NEW s \in Bytes, NEW t \in Bytes, NEW e \in Char
    PROVE  s \o Append(t, e) = (s \o t) \o <<e>>
<1>1. Append(t, e) = t \o <<e>> /\ <<e>> \in Seq(Char)
  BY AppendIsConcat DEF Bytes
<1> QED BY <1>1, ConcatAssociative DEF Bytes

(* What a callback for data adds to what was told: its bytes, at the end. *)
LEMMA SaidData ==
    ASSUME said \in Seq(Entry), said # <<>>, NEW b \in Bytes
    PROVE  /\ Told \in Bytes
           /\ Said("data", b) \in Seq(Entry)
           /\ Said("data", b) # <<>>
           /\ Said("data", b)[Len(Said("data", b))] = <<"data", Told \o b>>
<1> DEFINE n == Len(said)
<1>1. n > 0 /\ said[n] \in Entry
  OBVIOUS
<1>2. said[n][2] \in Bytes /\ <<>> \in Bytes
  BY <1>1 DEF Entry, Bytes
<1>3. Told \in Bytes /\ Told \o b \in Bytes
  BY <1>2, BytesConcat DEF Told
<1>4. <<"data", Told \o b>> \in Entry /\ <<"data", b>> \in Entry
  <2>1. "data" \in Callback
    BY DEF Callback
  <2> QED BY <1>3, <2>1, EntryOf
<1>5. CASE said[n][1] = "data"
  <2>1. Said("data", b) = [said EXCEPT ![n] = <<"data", Told \o b>>]
    BY <1>1, <1>5 DEF Said, Told
  <2>2. /\ [said EXCEPT ![Len(said)] = <<"data", Told \o b>>] \in Seq(Entry)
        /\ [said EXCEPT ![Len(said)] = <<"data", Told \o b>>] # <<>>
        /\ LET t == [said EXCEPT ![Len(said)] = <<"data", Told \o b>>]
           IN  t[Len(t)] = <<"data", Told \o b>>
    BY <1>4, LastReplaced
  <2> QED BY <1>3, <2>1, <2>2
<1>6. CASE said[n][1] # "data"
  <2>1. Said("data", b) = Append(said, <<"data", b>>)
    BY <1>6 DEF Said
  <2>2. Told \o b = b
    BY <1>6, BytesConcat, <1>3 DEF Told
  <2> QED BY <1>3, <1>4, <2>1, <2>2, OneAdded
<1> QED BY <1>5, <1>6

(* Any callback keeps the log a log. *)
LEMMA SaidMore ==
    ASSUME said \in Seq(Entry), NEW callback \in Callback, NEW b \in Bytes
    PROVE  Said(callback, b) \in Seq(Entry)
<1> DEFINE n == Len(said)
<1>1. CASE n > 0 /\ said[n][1] = callback
  <2>1. said # <<>> /\ said[n] \in Entry
    BY <1>1
  <2>2. said[n][2] \o b \in Bytes
    BY <2>1, BytesConcat DEF Entry
  <2>3. <<callback, said[n][2] \o b>> \in Entry
    BY <2>2, EntryOf
  <2>4. Said(callback, b) = [said EXCEPT ![n] = <<callback, said[n][2] \o b>>]
    BY <1>1 DEF Said
  <2> QED BY <2>1, <2>3, <2>4, LastReplaced
<1>2. CASE ~(n > 0 /\ said[n][1] = callback)
  <2>1. Said(callback, b) = Append(said, <<callback, b>>)
    BY <1>2 DEF Said
  <2>2. <<callback, b>> \in Entry
    BY DEF Entry
  <2> QED BY <2>1, <2>2, OneAdded
<1> QED BY <1>1, <1>2

(* Slices of the piece are slices of the message, and grow at their end. *)
LEMMA Slices ==
    ASSUME Types, NEW from \in 0 .. i
    PROVE  /\ Slice(from, i) \in Bytes
           /\ i < len => /\ Slice(from, i + 1) \in Bytes
                         /\ Byte \in Char
                         /\ Slice(from, i + 1) = Append(Slice(from, i), Byte)
<1>1. Len(message) \in Nat /\ \A k \in 1 .. Len(message) : message[k] \in Char
  BY DEF Types, Bytes
<1>2. \A k \in start + from + 1 .. start + i : message[k] \in Char
  BY <1>1 DEF Types
<1>3. start + from + 1 \in Int /\ start + i \in Int
  BY DEF Types
<1>4. Slice(from, i) \in Bytes
  BY <1>2, <1>3, SubSeqProperties DEF Slice, Bytes
<1>5. ASSUME i < len
      PROVE  /\ Slice(from, i + 1) \in Bytes
             /\ Byte \in Char
             /\ Slice(from, i + 1) = Append(Slice(from, i), Byte)
  <2>1. /\ start + from \in 0 .. Len(message)
        /\ start + i \in start + from .. Len(message)
        /\ start + i < Len(message)
        /\ start + (i + 1) = start + i + 1
    BY <1>1, <1>5 DEF Types
  <2>2. SubSeq(message, start + from + 1, start + i + 1)
          = SubSeq(message, start + from + 1, start + i) \o <<message[start + i + 1]>>
    BY <2>1, NextElement DEF Types, Bytes
  <2>3. Slice(from, i + 1) = Slice(from, i) \o <<Byte>>
    BY <2>1, <2>2 DEF Slice, Byte, Consumed
  <2>4. Byte \in Char
    BY <1>1, <2>1 DEF Byte, Consumed
  <2>5. Slice(from, i + 1) = Append(Slice(from, i), Byte)
    BY <1>4, <2>3, <2>4, AppendIsConcat DEF Bytes
  <2> QED BY <1>4, <2>4, <2>5, AppendProperties DEF Bytes
<1> QED BY <1>4, <1>5

(* One more byte of the message. *)
LEMMA OneMore ==
    ASSUME Types, i < len, body <= Consumed, NEW t \in Bytes, NEW u \in Bytes,
           t \o u = SubSeq(message, body + 1, Consumed)
    PROVE  t \o Append(u, Byte) = SubSeq(message, body + 1, Consumed + 1)
<1>1. Byte \in Char
  <2>1. 0 \in 0 .. i
    BY DEF Types
  <2> QED BY <2>1, Slices
<1>2. body \in 0 .. Len(message) /\ Consumed \in body .. Len(message) /\ Consumed < Len(message)
  <2>1. Len(message) \in Nat
    BY DEF Types, Bytes
  <2> QED BY <2>1 DEF Types, Consumed
<1>3. SubSeq(message, body + 1, Consumed + 1)
        = SubSeq(message, body + 1, Consumed) \o <<Byte>>
  BY <1>2, NextElement DEF Types, Bytes, Byte
<1>4. t \o Append(u, Byte) = (t \o u) \o <<Byte>>
  BY <1>1, AppendAfter
<1> QED BY <1>3, <1>4

-----------------------------------------------------------------------------
(* Outside of the data of a part nothing but the types is at stake. *)
LEMMA Outside ==
    ASSUME IInv, i < len, call' = call, state' \notin InData, lookbehind' = lookbehind,
           body' = body, mark' \in {mark, i}, i' \in {i, i + 1}, index' \in Nat,
           said' \in Seq(Entry)
    PROVE  IInv'
<1>1. Types'
  BY DEF IInv, Types, call
<1>2. Held' /\ Accounted'
  BY DEF IInv, Held, Accounted, InData
<1> QED BY <1>1, <1>2 DEF IInv

(* `return i' changes nothing of the parser. *)
LEMMA ReturnKeeps == IInv /\ Return /\ call' = call /\ body' = body => IInv'
  BY DEF IInv, Types, Held, Accounted, Return, call, Told, Untold, Slice, Consumed

LEMMA HeadersKeep ==
    ASSUME IInv, call' = call, body' = body,
           \/ Start \/ StartBoundary \/ HeaderFieldStart \/ HeaderField
           \/ HeadersAlmostDone \/ HeaderValueStart \/ HeaderValue \/ HeaderValueAlmostDone
           \/ PartDataAlmostEnd \/ PartDataFinalHyphen \/ PartDataEnd \/ End
    PROVE  IInv'
<1> USE DEF InLoop, Break, InData
<1>0. said \in Seq(Entry) /\ index \in Nat /\ mark \in 0 .. i /\ i \in Nat
  BY DEF IInv, Types
<1>1. CASE Start
  BY <1>1, <1>0, Outside DEF Start
<1>2. CASE StartBoundary
  BY <1>2, <1>0, Outside, ReturnKeeps DEF StartBoundary
<1>3. CASE HeaderFieldStart
  BY <1>3, <1>0, Outside DEF HeaderFieldStart
<1>4. CASE HeaderField
  <2>1. i < len => /\ Said("field", Slice(mark, i)) \in Seq(Entry)
                   /\ Said("field", Slice(mark, i + 1)) \in Seq(Entry)
    BY <1>0, Slices, SaidMore DEF IInv, Callback
  <2> QED BY <1>4, <1>0, <2>1, Outside, ReturnKeeps DEF HeaderField, Report
<1>5. CASE HeadersAlmostDone
  BY <1>5, <1>0, Outside, ReturnKeeps DEF HeadersAlmostDone, Expect
<1>6. CASE HeaderValueStart
  BY <1>6, <1>0, Outside DEF HeaderValueStart
<1>7. CASE HeaderValue
  <2>1. i < len => /\ Said("value", Slice(mark, i)) \in Seq(Entry)
                   /\ Said("value", Slice(mark, i + 1)) \in Seq(Entry)
    BY <1>0, Slices, SaidMore DEF IInv, Callback
  <2> QED BY <1>7, <1>0, <2>1, Outside DEF HeaderValue, Report
<1>8. CASE HeaderValueAlmostDone
  BY <1>8, <1>0, Outside, ReturnKeeps DEF HeaderValueAlmostDone, Expect
<1>9. CASE PartDataAlmostEnd
  BY <1>9, <1>0, Outside, ReturnKeeps DEF PartDataAlmostEnd
<1>10. CASE PartDataFinalHyphen
  <2>1. Append(said, <<"body_end", <<>> >>) \in Seq(Entry)
    <3>1. <<>> \in Bytes /\ "body_end" \in Callback
      BY DEF Bytes, Callback
    <3> QED BY <1>0, <3>1, EntryOf, OneAdded
  <2> QED BY <1>10, <1>0, <2>1, Outside, ReturnKeeps DEF PartDataFinalHyphen, Notify
<1>11. CASE PartDataEnd
  BY <1>11, <1>0, Outside, ReturnKeeps DEF PartDataEnd, Expect
<1>12. CASE End
  BY <1>12, <1>0, Outside DEF End
<1> QED BY <1>1, <1>2, <1>3, <1>4, <1>5, <1>6, <1>7, <1>8, <1>9, <1>10, <1>11, <1>12

(* The data begin with nothing told and nothing to tell. *)
LEMMA PartDataStartKeeps == IInv /\ PartDataStart /\ call' = call => IInv'
<1> SUFFICES ASSUME IInv, PartDataStart, call' = call
             PROVE  IInv'
  OBVIOUS
<1> USE DEF InLoop
<1>1. said' \in Seq(Entry) /\ said' # <<>> /\ said'[Len(said')] = <<"headers_complete", <<>> >>
  <2>1. <<>> \in Bytes /\ "headers_complete" \in Callback
    BY DEF Bytes, Callback
  <2>2. said' = Append(said, <<"headers_complete", <<>> >>)
    BY DEF PartDataStart, Notify
  <2>3. <<"headers_complete", <<>> >> \in Entry /\ said \in Seq(Entry)
    BY <2>1, EntryOf DEF IInv, Types
  <2> QED BY <2>2, <2>3, OneAdded
<1>2. Types'
  BY <1>1 DEF PartDataStart, IInv, Types, call, Consumed
<1>3. Held'
  BY DEF PartDataStart, IInv, Held
<1>4. Told' = <<>>
  BY <1>1 DEF Told
<1>5. Untold' = <<>> /\ body' = Consumed' /\ body' \in Nat
  <2>1. /\ state' = "s_part_data" /\ i' < len' /\ body' = start' + i' /\ body' \in Nat
        /\ mark' = i' /\ i' \in Nat /\ start' \in Nat
    BY DEF PartDataStart, IInv, Types, call, Consumed
  <2>2. SubSeq(message', start' + i' + 1, start' + i') = <<>>
    BY <2>1, EmptySlice, start' + i' \in Nat
  <2>3. Slice(mark, i)' = <<>>
    BY <2>1, <2>2 DEF Slice
  <2> QED BY <2>1, <2>3 DEF Untold, Consumed
<1>6. SubSeq(message', body' + 1, Consumed') = <<>>
  BY <1>5, EmptySlice
<1>7. (Told \o Untold)' = SubSeq(message', body' + 1, Consumed')
  <2>1. <<>> \in Bytes
    BY DEF Bytes
  <2>2. <<>> \o <<>> = <<>>
    BY <2>1, BytesConcat
  <2> QED BY <1>4, <1>5, <1>6, <2>2
<1>8. Accounted'
  <2>1. (body <= Consumed)'
    BY <1>5
  <2>2. (said # <<>>)'
    BY <1>1
  <2> QED BY <2>1, <2>2, <1>7 DEF Accounted
<1> QED BY <1>2, <1>3, <1>8 DEF IInv

(* What a step within the data must show: the byte it consumes, if any, is told
   or kept. *)
LEMMA DataKeeps ==
    ASSUME IInv, state \in InData, call' = call, body' = body, said' # <<>>,
           \/ /\ i' = i
              /\ (Told \o Untold)' = Told \o Untold
           \/ /\ i < len /\ i' = i + 1
              /\ \E t, u \in Bytes : /\ t \o u = Told \o Untold
                                     /\ (Told \o Untold)' = t \o Append(u, Byte)
    PROVE  Accounted'
<1>1. /\ Types /\ body <= Consumed /\ Consumed \in Nat /\ body \in Nat
      /\ Told \o Untold = SubSeq(message, body + 1, Consumed)
  BY DEF IInv, Accounted, Types, Consumed
<1>2. message' = message /\ start' = start
  BY DEF call
<1>3. CASE i' = i /\ (Told \o Untold)' = Told \o Untold
  BY <1>1, <1>2, <1>3 DEF Accounted, Consumed
<1>4. CASE /\ i < len /\ i' = i + 1
           /\ \E t, u \in Bytes : /\ t \o u = Told \o Untold
                                  /\ (Told \o Untold)' = t \o Append(u, Byte)
  <2>1. (Told \o Untold)' = SubSeq(message, body + 1, Consumed + 1)
    BY <1>1, <1>4, OneMore
  <2>2. Consumed' = Consumed + 1 /\ (body <= Consumed)'
    BY <1>1, <1>2, <1>4 DEF Consumed, Types
  <2>3. (Told \o Untold = SubSeq(message, body + 1, Consumed))'
    BY <1>2, <2>1, <2>2
  <2> QED BY <2>2, <2>3 DEF Accounted
<1> QED BY <1>3, <1>4

(* What a data callback does to the log. *)
LEMMA ReportData ==
    ASSUME said \in Seq(Entry), said # <<>>, NEW b \in Bytes, Report("data", b)
    PROVE  /\ Told \in Bytes
           /\ said' \in Seq(Entry) /\ said' # <<>>
           /\ Told' = Told \o b
<1>1. said' = Said("data", b)
  BY DEF Report
<1>2. said'[Len(said')] = <<"data", Told \o b>>
  BY <1>1, SaidData
<1>3. Told' = Told \o b
  BY <1>2 DEF Told
<1> QED BY <1>1, <1>3, SaidData

LEMMA EmptyBytes ==
    /\ <<>> \in Bytes
    /\ \A b \in Bytes : <<>> \o b = b /\ b \o <<>> = b
  BY ConcatEmptySeq DEF Bytes

LEMMA OneByte ==
    ASSUME NEW b \in Char
    PROVE  SubSeq(<<b>>, 1, 1) = <<b>> /\ <<b>> = Append(<<>>, b)
<1>1. <<b>> \in Seq(Char) /\ Len(<<b>>) = 1
  OBVIOUS
<1>2. SubSeq(<<b>>, 1, 1) = <<b>>
  BY <1>1, SubSeqFull
<1>3. <<b>> = Append(<<>>, b)
  OBVIOUS
<1> QED BY <1>2, <1>3

LEMMA PartDataKeeps == IInv /\ PartData /\ call' = call /\ body' = body => IInv'
<1> SUFFICES ASSUME IInv, PartData, call' = call, body' = body
             PROVE  IInv'
  OBVIOUS
<1> USE DEF InLoop, Break
<1>1. /\ state = "s_part_data" /\ state \in InData /\ i < len
      /\ Types /\ said \in Seq(Entry) /\ said # <<>> /\ mark \in 0 .. i
      /\ body <= Consumed
  BY DEF PartData, IInv, Types, Accounted, InData
<1>2. Untold = Slice(mark, i)
  BY <1>1 DEF Untold
<1>3. /\ Slice(mark, i) \in Bytes /\ Slice(mark, i + 1) \in Bytes /\ Byte \in Char
      /\ Slice(mark, i + 1) = Append(Slice(mark, i), Byte)
  BY <1>1, Slices
<1>4. Told \in Bytes
  BY <1>1, <1>3, SaidData
<1>5. CASE Byte = CR
  <2>1. /\ Report("data", Slice(mark, i)) /\ lookbehind' = <<CR>>
        /\ state' = "s_part_data_almost_boundary" /\ i' = i + 1 /\ mark' = i
        /\ index' = index
    BY <1>5 DEF PartData
  <2>2. said' \in Seq(Entry) /\ said' # <<>> /\ Told' = Told \o Slice(mark, i)
    BY <1>1, <1>3, <2>1, ReportData
  <2>3. Untold' = <<Byte>> /\ <<Byte>> = Append(<<>>, Byte)
    BY <1>3, <1>5, <2>1, OneByte DEF Untold
  <2>4. Told' \in Bytes /\ Told' \o <<>> = Told'
    BY <1>3, <1>4, <2>2, BytesConcat, EmptyBytes
  <2>5. Types'
    BY <1>1, <1>3, <1>5, <2>1, <2>2 DEF Types, call, Bytes
  <2>6. Held'
    BY <2>1, BoundaryAssumption DEF IInv, Held
  <2>7. Accounted'
    <3>1. Told' \o <<>> = Told \o Untold /\ (Told \o Untold)' = Told' \o Append(<<>>, Byte)
      BY <1>2, <2>2, <2>3, <2>4
    <3> QED BY <1>1, <2>1, <2>2, <2>4, <3>1, EmptyBytes, DataKeeps
  <2> QED BY <2>5, <2>6, <2>7 DEF IInv
<1>6. CASE Byte # CR /\ IsLast
  <2>1. /\ Report("data", Slice(mark, i + 1)) /\ lookbehind' = lookbehind
        /\ state' = "s_part_data" /\ i' = i + 1 /\ mark' = mark /\ index' = index /\ i' = len
    BY <1>6 DEF PartData, IsLast
  <2>2. said' \in Seq(Entry) /\ said' # <<>> /\ Told' = Told \o Slice(mark, i + 1)
    BY <1>1, <1>3, <2>1, ReportData
  <2>3. Untold' = <<>>
    <3>1. len' = len /\ ~(i' < len')
      BY <1>1, <2>1 DEF call, Types
    <3> QED BY <2>1, <3>1 DEF Untold
  <2>4. (Told \o Untold)' = Told \o Append(Untold, Byte)
    <3>1. Told \o Slice(mark, i + 1) \in Bytes
      BY <1>3, <1>4, BytesConcat
    <3> QED BY <1>2, <1>3, <2>2, <2>3, <3>1, EmptyBytes
  <2>5. Types'
    BY <1>1, <2>1, <2>2 DEF Types, call
  <2>6. Held'
    BY <2>1 DEF IInv, Held
  <2>7. Accounted'
    BY <1>1, <1>2, <1>3, <1>4, <2>1, <2>2, <2>4, DataKeeps
  <2> QED BY <2>5, <2>6, <2>7 DEF IInv
<1>7. CASE Byte # CR /\ ~IsLast
  <2>1. /\ said' = said /\ lookbehind' = lookbehind
        /\ state' = "s_part_data" /\ i' = i + 1 /\ mark' = mark /\ index' = index
        /\ start' = start /\ message' = message /\ len' = len /\ i' < len'
    BY <1>7, <1>1 DEF PartData, IsLast, call, Types
  <2>2. Told' = Told /\ Untold' = Slice(mark, i + 1)
    BY <2>1 DEF Told, Untold, Slice
  <2>3. (Told \o Untold)' = Told \o Append(Untold, Byte)
    BY <1>2, <1>3, <2>2
  <2>4. Types'
    BY <1>1, <2>1 DEF Types
  <2>5. Held'
    BY <2>1 DEF IInv, Held
  <2>6. Accounted'
    BY <1>1, <1>2, <1>3, <1>4, <2>1, <2>3, DataKeeps
  <2> QED BY <2>4, <2>5, <2>6 DEF IInv
<1> QED BY <1>5, <1>6, <1>7

(* What was kept was no boundary: it is told, and nothing is left to tell. *)
LEMMA NotBoundaryKeeps ==
    ASSUME IInv, state \in InData, i < len, call' = call, body' = body, NEW n,
           NotBoundary(n), Untold = SubSeq(lookbehind, 1, n), Untold \in Bytes
    PROVE  IInv'
<1>1. /\ Types /\ said \in Seq(Entry) /\ said # <<>> /\ i \in 0 .. len
  BY DEF IInv, Types, Accounted
<1>2. /\ Report("data", Untold) /\ mark' = i /\ state' = "s_part_data"
      /\ index' = index /\ lookbehind' = lookbehind /\ i' = i
      /\ len' = len /\ start' = start /\ message' = message
  BY DEF NotBoundary, call
<1>3. Told \in Bytes /\ said' \in Seq(Entry) /\ said' # <<>> /\ Told' = Told \o Untold
  BY <1>1, <1>2, ReportData
<1>4. Untold' = <<>>
  <2>1. SubSeq(message, start + i + 1, start + i) = <<>>
    BY <1>1, EmptySlice, start + i \in Nat DEF Types
  <2> QED BY <1>2, <2>1 DEF Untold, Slice
<1>5. (Told \o Untold)' = Told \o Untold
  BY <1>3, <1>4, BytesConcat, EmptyBytes
<1>6. Types'
  BY <1>1, <1>2, <1>3 DEF Types
<1>7. Held'
  BY <1>2 DEF IInv, Held
<1>8. Accounted'
  BY <1>2, <1>3, <1>5, DataKeeps
<1> QED BY <1>6, <1>7, <1>8 DEF IInv

LEMMA AlmostBoundaryKeeps ==
    IInv /\ PartDataAlmostBoundary /\ call' = call /\ body' = body => IInv'
<1> SUFFICES ASSUME IInv, PartDataAlmostBoundary, call' = call, body' = body
             PROVE  IInv'
  OBVIOUS
<1> USE DEF InLoop, Break
<1>1. /\ state = "s_part_data_almost_boundary" /\ state \in InData /\ i < len
      /\ Types /\ said \in Seq(Entry) /\ said # <<>> /\ lookbehind = <<CR>>
      /\ i \in Nat /\ mark \in 0 .. i
  BY DEF PartDataAlmostBoundary, IInv, Types, Held, Accounted, InData
<1>2. /\ Byte \in Char /\ Told \in Bytes
  BY <1>1, Slices, SaidData, EmptyBytes
<1>3. /\ CR \in Char /\ <<CR>> \in Bytes
  <2>1. lookbehind \in Seq(Char)
    BY <1>1 DEF Types, Bytes
  <2> QED BY <1>1, <2>1 DEF Bytes
<1>4. Untold = <<CR>> /\ Untold = SubSeq(lookbehind, 1, 1)
  BY <1>1, <1>3, OneByte DEF Untold
<1>5. CASE Byte = LF
  <2>1. /\ lookbehind' = <<CR, LF>> /\ index' = 0 /\ state' = "s_part_data_boundary"
        /\ i' = i + 1 /\ mark' = mark /\ said' = said
    BY <1>1, <1>5 DEF PartDataAlmostBoundary
  <2>2. <<CR, LF>> = Append(<<CR>>, Byte) /\ <<CR, LF>> \in Bytes /\ Len(<<CR, LF>>) = 2
    BY <1>2, <1>3, <1>5 DEF Bytes
  <2>3. Untold' = <<CR, LF>>
    <3>1. SubSeq(<<CR, LF>>, 1, 2) = <<CR, LF>>
      BY <2>2, SubSeqFull DEF Bytes
    <3> QED BY <2>1, <3>1 DEF Untold
  <2>4. (Told \o Untold)' = Told \o Append(Untold, Byte)
    BY <1>4, <2>1, <2>2, <2>3 DEF Told
  <2>5. Types'
    BY <1>1, <2>1, <2>2 DEF Types, call
  <2>6. Held'
    <3>1. Len(Boundary) \in Nat \ {0}
      BY BoundaryAssumption
    <3> QED BY <2>1, <2>2, <3>1 DEF Held
  <2>7. Accounted'
    BY <1>1, <1>2, <1>3, <1>4, <2>1, <2>4, DataKeeps
  <2> QED BY <2>5, <2>6, <2>7 DEF IInv
<1>6. CASE Byte # LF
  BY <1>1, <1>3, <1>4, <1>6, NotBoundaryKeeps DEF PartDataAlmostBoundary
<1> QED BY <1>5, <1>6

LEMMA BoundaryKeeps ==
    IInv /\ PartDataBoundary /\ call' = call /\ body' = body => IInv'
<1> SUFFICES ASSUME IInv, PartDataBoundary, call' = call, body' = body
             PROVE  IInv'
  OBVIOUS
<1> USE DEF InLoop, Break
<1>1. /\ state = "s_part_data_boundary" /\ state \in InData /\ i < len
      /\ Types /\ said \in Seq(Entry) /\ said # <<>> /\ i \in Nat /\ mark \in 0 .. i
      /\ index \in Nat /\ index < Len(Boundary) /\ Len(lookbehind) = 2 + index
      /\ lookbehind \in Bytes /\ Len(Boundary) \in Nat
  BY BoundaryAssumption DEF PartDataBoundary, IInv, Types, Held, Accounted, InData
<1>2. /\ Byte \in Char /\ Told \in Bytes
  BY <1>1, Slices, SaidData, EmptyBytes
<1>3. Untold = lookbehind /\ Untold = SubSeq(lookbehind, 1, 2 + index)
  BY <1>1, SubSeqFull DEF Untold, Bytes
<1>4. CASE Byte = Boundary[index + 1]
  <2>1. /\ lookbehind' = Append(lookbehind, Byte) /\ index' = index + 1
        /\ i' = i + 1 /\ mark' = mark
    BY <1>1, <1>4 DEF PartDataBoundary
  <2>2. /\ lookbehind' \in Bytes /\ Len(lookbehind') = 2 + index'
    BY <1>1, <1>2, <2>1, AppendProperties DEF Bytes
  <2>3. CASE index' = Len(Boundary)
    <3>1. said' = Append(said, <<"data_end", <<>> >>) /\ state' = "s_part_data_almost_end"
      BY <1>1, <1>4, <2>3 DEF PartDataBoundary, Notify
    <3>2. said' \in Seq(Entry)
      <4>1. <<>> \in Bytes /\ "data_end" \in Callback
        BY EmptyBytes DEF Callback
      <4> QED BY <1>1, <3>1, <4>1, EntryOf, OneAdded
    <3>3. Types'
      BY <1>1, <2>1, <2>2, <3>2 DEF Types, call
    <3>4. Held' /\ Accounted'
      BY <1>1, <2>2, <2>3, <3>1 DEF Held, Accounted, InData
    <3> QED BY <3>3, <3>4 DEF IInv
  <2>4. CASE index' # Len(Boundary)
    <3>1. said' = said /\ state' = "s_part_data_boundary"
      BY <1>1, <1>4, <2>4 DEF PartDataBoundary
    <3>2. Untold' = Append(Untold, Byte)
      <4>1. SubSeq(lookbehind', 1, 2 + index') = lookbehind'
        BY <2>2, SubSeqFull DEF Bytes
      <4> QED BY <1>3, <2>1, <3>1, <4>1 DEF Untold
    <3>3. (Told \o Untold)' = Told \o Append(Untold, Byte)
      BY <3>1, <3>2 DEF Told
    <3>4. Types'
      BY <1>1, <2>1, <2>2, <3>1 DEF Types, call
    <3>5. Held'
      BY <1>1, <2>1, <2>2, <2>4, <3>1 DEF Held
    <3>6. Accounted'
      BY <1>1, <1>2, <1>3, <2>1, <3>1, <3>3, DataKeeps
    <3> QED BY <3>4, <3>5, <3>6 DEF IInv
  <2> QED BY <2>3, <2>4
<1>5. CASE Byte # Boundary[index + 1]
  BY <1>1, <1>3, <1>5, NotBoundaryKeeps DEF PartDataBoundary
<1> QED BY <1>4, <1>5

(* A new call has told all of the piece before, and nothing yet of its own. *)
LEMMA ExecuteKeeps ==
    ASSUME IInv, NEW n \in Nat, n > 0, start + len + n <= Len(message), Execute(n)
    PROVE  IInv'
<1>1. Types /\ i = len /\ start' = start + len /\ len' = n /\ i' = 0 /\ mark' = 0
  BY DEF IInv, Execute
<1>2. Types'
  BY <1>1 DEF Types, Execute
<1>3. Held'
  BY DEF IInv, Held, Execute
<1>4. Consumed' = Consumed
  BY <1>1 DEF Consumed, Types
<1>5. Told' = Told
  BY DEF Told, Execute
<1>6. Untold' = Untold
  <2>1. CASE state = "s_part_data"
    <3>1. SubSeq(message', start' + 0 + 1, start' + 0) = <<>>
      BY <1>1, <1>2, EmptySlice, start' + 0 \in Nat DEF Types
    <3> QED BY <1>1, <2>1, <3>1 DEF Untold, Slice, Execute, Types
  <2>2. CASE state # "s_part_data"
    BY <2>2 DEF Untold, Execute
  <2> QED BY <2>1, <2>2
<1>7. Accounted'
  BY <1>4, <1>5, <1>6 DEF IInv, Accounted, Execute
<1> QED BY <1>2, <1>3, <1>7 DEF IInv

LEMMA InitKeeps == Init => IInv
  BY MessagesAssumption DEF Init, IInv, Types, Held, Accounted, InData, Char, Bytes

LEMMA NextKeeps == IInv /\ [Next]_vars => IInv'
<1> SUFFICES ASSUME IInv, [Next]_vars
             PROVE  IInv'
  OBVIOUS
<1>1. CASE Step
  BY <1>1, HeadersKeep, PartDataStartKeeps, PartDataKeeps, AlmostBoundaryKeeps, BoundaryKeeps
     DEF Step
<1>2. CASE \E n \in 1 .. Len(message) : start + len + n <= Len(message) /\ Execute(n)
  <2>1. Len(message) \in Nat
    BY DEF IInv, Types, Bytes
  <2> QED BY <1>2, <2>1, ExecuteKeeps
<1>3. CASE Done \/ UNCHANGED vars
  BY <1>3 DEF Done, vars, IInv, Types, Held, Accounted, Told, Untold, Slice, Consumed
<1> QED BY <1>1, <1>2, <1>3 DEF Next

(* However a message is cut and whatever it holds, the data of a part that was
   consumed were told in order, once, or are at hand to be told: in the caller's
   piece, or in lookbehind, which is never written past its end. *)
THEOREM NothingLostTheorem == Spec => []NothingLost
<1>1. IInv => NothingLost
  BY DEF IInv, Held, Accounted, NothingLost
<1> QED BY <1>1, InitKeeps, NextKeeps, PTL DEF Spec
=============================================================================
