------------------------------ MODULE Multipart ------------------------------
(* The parser of multipart bodies of http_chunk_data_decode/multipart_parser.c:
   the caller hands it a message in pieces, cut anywhere, one for each call of
   multipart_parser_execute, and it calls back for the names and the values of
   the headers and for the data of the parts. A callback is given a piece of
   the caller's buffer, so it must come before the call returns; what may turn
   out to be the beginning of a boundary is copied to `lookbehind' instead, and
   reported later if it was not one.

   A byte is a string; "cr" and "lf" stand for the two control characters. The
   callbacks return 0, as those of main.c do, so the parser never stops for
   one of them. *)
EXTENDS Naturals, Sequences

CONSTANTS Boundary,   \* the boundary, a sequence of bytes
          Letter,     \* the bytes that tolower maps into 'a'..'z'
          Messages    \* what callers may feed: records with a field `bytes'

CR == "cr"
LF == "lf"

ASSUME BoundaryAssumption == Boundary \in Seq(STRING) /\ Boundary # <<>>
ASSUME MessagesAssumption == \A m \in Messages : m.bytes \in Seq(STRING)

VARIABLES
    state,        \* p->state
    index,        \* p->index
    lookbehind,   \* the bytes written to p->lookbehind since its first was
    message,      \* what the caller feeds
    start, len,   \* the piece of this call: where in the message, how long
    i, mark,      \* locals of multipart_parser_execute
    stopped,      \* the call has returned before the end of the piece
    said,         \* what the callbacks were told, see Report
    body          \* history: where in the message the data of the part begin

parser == <<state, index, lookbehind>>
call == <<message, start, len>>
vars == <<state, index, lookbehind, message, start, len, i, mark, stopped, said, body>>

(* The message up to the byte the loop is at. *)
Consumed == start + i

(* Bytes `from' to `to' - 1 of the piece. *)
Slice(from, to) == SubSeq(message, start + from + 1, start + to)

(* buf[i] and is_last. *)
Byte == message[Consumed + 1]
IsLast == i + 1 = len

InLoop(s) == state = s /\ i < len /\ ~stopped

(* The calls of a data callback one after another continue one another, so the
   log keeps them as one entry <<callback, bytes>>. *)
Said(callback, bytes) ==
    LET n == Len(said) IN
    IF n > 0 /\ said[n][1] = callback
    THEN [said EXCEPT ![n] = <<callback, @[2] \o bytes>>]
    ELSE Append(said, <<callback, bytes>>)
Report(callback, bytes) == said' = Said(callback, bytes)
Notify(callback) == said' = Append(said, <<callback, <<>>>>)

(* `break' out of the switch, and `return i'. *)
Break(next) == state' = next /\ i' = i + 1 /\ UNCHANGED stopped
Return == stopped' = TRUE /\ UNCHANGED <<state, index, lookbehind, i, mark, said>>

-----------------------------------------------------------------------------
(* s_start falls through to s_start_boundary. *)
Start ==
    /\ InLoop("s_start")
    /\ index' = 0
    /\ state' = "s_start_boundary"
    /\ UNCHANGED <<lookbehind, i, mark, stopped, said>>

(* Mutant: at a wrong byte it starts again, with the same byte. *)
StartBoundaryAgain ==
    LET opening == Boundary \o <<CR, LF>> IN
    /\ InLoop("s_start_boundary")
    /\ \/ /\ Byte = opening[index + 1]
          /\ IF index + 1 = Len(opening)
             THEN index' = 0 /\ Break("s_header_field_start")
             ELSE index' = index + 1 /\ Break("s_start_boundary")
          /\ UNCHANGED <<lookbehind, mark, said>>
       \/ /\ Byte # opening[index + 1]
          /\ state' = "s_start"
          /\ UNCHANGED <<index, lookbehind, i, mark, stopped, said>>

(* The line that opens the first part. There is no callback for
   on_part_data_begin in main.c. *)
StartBoundary ==
    LET opening == Boundary \o <<CR, LF>> IN
    /\ InLoop("s_start_boundary")
    /\ \/ /\ Byte = opening[index + 1]
          /\ IF index + 1 = Len(opening)
             THEN index' = 0 /\ Break("s_header_field_start")
             ELSE index' = index + 1 /\ Break("s_start_boundary")
          /\ UNCHANGED <<lookbehind, mark, said>>
       \/ /\ Byte # opening[index + 1]
          /\ Return

HeaderFieldStart ==
    /\ InLoop("s_header_field_start")
    /\ mark' = i
    /\ state' = "s_header_field"
    /\ UNCHANGED <<index, lookbehind, i, stopped, said>>

HeaderField ==
    /\ InLoop("s_header_field")
    /\ \/ /\ Byte = CR
          /\ Break("s_headers_almost_done")
          /\ UNCHANGED <<index, lookbehind, mark, said>>
       \/ /\ Byte = ":"
          /\ Report("field", Slice(mark, i))
          /\ Break("s_header_value_start")
          /\ UNCHANGED <<index, lookbehind, mark>>
       \/ /\ Byte \in Letter \cup {"-"}
          /\ IF IsLast THEN Report("field", Slice(mark, i + 1)) ELSE UNCHANGED said
          /\ Break("s_header_field")
          /\ UNCHANGED <<index, lookbehind, mark>>
       \/ /\ Byte \notin Letter \cup {"-", CR, ":"}
          /\ Return

(* Mutant: the byte is not looked at. *)
ExpectAny(s, byte, next) ==
    /\ InLoop(s)
    /\ Break(next)
    /\ UNCHANGED <<index, lookbehind, mark, said>>

(* The states that admit one byte and say nothing: where they lead to. *)
Expect(s, byte, next) ==
    /\ InLoop(s)
    /\ \/ /\ Byte = byte
          /\ Break(next)
          /\ UNCHANGED <<index, lookbehind, mark, said>>
       \/ /\ Byte # byte
          /\ Return

HeadersAlmostDone == Expect("s_headers_almost_done", LF, "s_part_data_start")
HeaderValueAlmostDone == Expect("s_header_value_almost_done", LF, "s_header_field_start")
PartDataEnd == Expect("s_part_data_end", LF, "s_header_field_start")

HeaderValueStart ==
    /\ InLoop("s_header_value_start")
    /\ \/ /\ Byte = " "
          /\ Break("s_header_value_start")
          /\ UNCHANGED mark
       \/ /\ Byte # " "
          /\ mark' = i
          /\ state' = "s_header_value"
          /\ UNCHANGED <<i, stopped>>
    /\ UNCHANGED <<index, lookbehind, said>>

(* Mutant: what the piece ends with is not reported. *)
HeaderValueUnflushed ==
    /\ InLoop("s_header_value")
    /\ \/ /\ Byte = CR
          /\ Report("value", Slice(mark, i))
          /\ Break("s_header_value_almost_done")
       \/ /\ Byte # CR
          /\ Break("s_header_value")
          /\ UNCHANGED said
    /\ UNCHANGED <<index, lookbehind, mark>>

HeaderValue ==
    /\ InLoop("s_header_value")
    /\ \/ /\ Byte = CR
          /\ Report("value", Slice(mark, i))
          /\ Break("s_header_value_almost_done")
       \/ /\ Byte # CR
          /\ IF IsLast THEN Report("value", Slice(mark, i + 1)) ELSE UNCHANGED said
          /\ Break("s_header_value")
    /\ UNCHANGED <<index, lookbehind, mark>>

PartDataStart ==
    /\ InLoop("s_part_data_start")
    /\ Notify("headers_complete")
    /\ mark' = i
    /\ body' = Consumed
    /\ state' = "s_part_data"
    /\ UNCHANGED <<index, lookbehind, i, stopped>>

PartData ==
    /\ InLoop("s_part_data")
    /\ \/ /\ Byte = CR
          /\ Report("data", Slice(mark, i))
          /\ mark' = i
          /\ lookbehind' = <<CR>>
          /\ Break("s_part_data_almost_boundary")
       \/ /\ Byte # CR
          /\ IF IsLast THEN Report("data", Slice(mark, i + 1)) ELSE UNCHANGED said
          /\ Break("s_part_data")
          /\ UNCHANGED <<mark, lookbehind>>
    /\ UNCHANGED index

(* Mutant: the line feed is not counted among what was kept. *)
NotBoundaryShort(n) ==
    /\ Report("data", SubSeq(lookbehind, 1, IF n = 1 THEN 1 ELSE n - 1))
    /\ mark' = i
    /\ state' = "s_part_data"
    /\ UNCHANGED <<index, lookbehind, i, stopped>>

(* `mark = i --', and the `++ i' of the loop: the byte is looked at again. *)
NotBoundary(n) ==
    /\ Report("data", SubSeq(lookbehind, 1, n))
    /\ mark' = i
    /\ state' = "s_part_data"
    /\ UNCHANGED <<index, lookbehind, i, stopped>>

PartDataAlmostBoundary ==
    /\ InLoop("s_part_data_almost_boundary")
    /\ \/ /\ Byte = LF
          /\ lookbehind' = Append(lookbehind, LF)
          /\ index' = 0
          /\ Break("s_part_data_boundary")
          /\ UNCHANGED <<mark, said>>
       \/ /\ Byte # LF
          /\ NotBoundary(1)

PartDataBoundary ==
    /\ InLoop("s_part_data_boundary")
    /\ \/ /\ Byte = Boundary[index + 1]
          /\ lookbehind' = Append(lookbehind, Byte)
          /\ index' = index + 1
          /\ IF index' = Len(Boundary)
             THEN Notify("data_end") /\ Break("s_part_data_almost_end")
             ELSE UNCHANGED said /\ Break("s_part_data_boundary")
          /\ UNCHANGED mark
       \/ /\ Byte # Boundary[index + 1]
          /\ NotBoundary(2 + index)

PartDataAlmostEnd ==
    /\ InLoop("s_part_data_almost_end")
    /\ \/ /\ \/ Byte = "-" /\ Break("s_part_data_final_hyphen")
             \/ Byte = CR /\ Break("s_part_data_end")
          /\ UNCHANGED <<index, lookbehind, mark, said>>
       \/ /\ Byte \notin {"-", CR}
          /\ Return

PartDataFinalHyphen ==
    /\ InLoop("s_part_data_final_hyphen")
    /\ \/ /\ Byte = "-"
          /\ Notify("body_end")
          /\ Break("s_end")
          /\ UNCHANGED <<index, lookbehind, mark>>
       \/ /\ Byte # "-"
          /\ Return

End ==
    /\ InLoop("s_end")
    /\ Break("s_end")
    /\ UNCHANGED <<index, lookbehind, mark, said>>

(* One turn of the loop, or the half of it before a case falls through. *)
Step ==
    /\ \/ PartDataStart
       \/ /\ \/ Start \/ StartBoundary \/ HeaderFieldStart \/ HeaderField
             \/ HeadersAlmostDone \/ HeaderValueStart \/ HeaderValue
             \/ HeaderValueAlmostDone \/ PartData
             \/ PartDataAlmostBoundary \/ PartDataBoundary \/ PartDataAlmostEnd
             \/ PartDataFinalHyphen \/ PartDataEnd \/ End
          /\ UNCHANGED body
    /\ UNCHANGED call

(* multipart_parser_init, and a message to feed. *)
Init ==
    /\ state = "s_start"
    /\ index = 0
    /\ lookbehind = <<>>
    /\ message \in {m.bytes : m \in Messages}
    /\ start = 0 /\ len = 0
    /\ i = 0 /\ mark = 0
    /\ stopped = FALSE
    /\ said = <<>>
    /\ body = 0

(* The caller hands over the next piece, whatever its size. *)
Execute(n) ==
    /\ i = len /\ ~stopped
    /\ start' = start + len
    /\ len' = n
    /\ i' = 0 /\ mark' = 0
    /\ UNCHANGED <<state, index, lookbehind, message, stopped, said, body>>

(* The message is parsed, or found wrong. *)
Finished == stopped \/ Consumed = Len(message)
Done == Finished /\ UNCHANGED vars

Next ==
    \/ \E n \in 1 .. Len(message) : start + len + n <= Len(message) /\ Execute(n)
    \/ Step
    \/ Done

Spec == Init /\ [][Next]_vars

(* A call runs to its end. *)
FairSpec == Spec /\ WF_vars(Step)

-----------------------------------------------------------------------------
(* Every call of multipart_parser_execute returns: looking at a byte again
   never repeats for ever. *)
ExecuteReturns == []<>(i = len \/ stopped)

(* Nothing of the data of a part is lost or reported twice: what the callbacks
   were told of it, then what this call has still to tell of its piece, and then
   what the parser keeps in lookbehind is what the message held since the
   headers; and lookbehind is not written beyond the boundary's length. *)
Told == IF said[Len(said)][1] = "data" THEN said[Len(said)][2] ELSE <<>>
InData == {"s_part_data", "s_part_data_almost_boundary", "s_part_data_boundary"}
Untold ==
    CASE state = "s_part_data" -> IF i < len THEN Slice(mark, i) ELSE <<>>
      [] state = "s_part_data_almost_boundary" -> SubSeq(lookbehind, 1, 1)
      [] OTHER -> SubSeq(lookbehind, 1, 2 + index)
NothingLost ==
    /\ state \in InData => Told \o Untold = SubSeq(message, body + 1, Consumed)
    /\ Len(lookbehind) <= 2 + Len(Boundary)
=============================================================================
