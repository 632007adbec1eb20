----------------------------- MODULE MCMultipart -----------------------------
(* Messages of up to two parts, as written and with one byte changed, for the
   parser of Multipart; and what a reader of each should be told. *)
EXTENDS Multipart, SequencesExt

MCBoundary == <<"-", "-", "b">>
MCLetter == {"n", "b"}

(* The data of the parts, with what looks like the beginning of a boundary in
   all places: at the start, at the end, broken off at each of its bytes and
   begun again at once. *)
Data == { <<>>, <<"x">>, <<CR>>, <<CR, CR>>, <<LF>>, <<CR, LF>>,
          <<"x", CR, LF, "-", "x">>, <<CR, LF, "-", "-", CR, LF, "-">>,
          <<"-", "-", "b">>, <<CR, LF, CR>>, <<CR, "-", "-", "b">> }

Headers == { <<>>,
             << <<"n">>, <<>> >>,
             << <<"n", "-", "b">>, <<"v", ":", " ">> >>,
             << <<"b">>, <<"v">>, <<"n">>, <<"v", LF, "v">> >> }

(* Headers are names and values by turns. *)
HeaderLines(h) ==
    FlattenSeq([k \in 1 .. Len(h) |->
        IF k % 2 = 1 THEN h[k] \o <<":", " ">> ELSE h[k] \o <<CR, LF>>])
HeaderLog(h) == [k \in 1 .. Len(h) |-> <<IF k % 2 = 1 THEN "field" ELSE "value", h[k]>>]

(* A message: bytes, what is told of it, and the first byte that is wrong. *)
PartBytes(p) == <<CR, LF>> \o HeaderLines(p.headers) \o <<CR, LF>> \o p.data
                    \o <<CR, LF>> \o MCBoundary
PartLog(p) == HeaderLog(p.headers)
                \o << <<"headers_complete", <<>> >>, <<"data", p.data>>, <<"data_end", <<>> >> >>

Written(parts, trailer) ==
    [ bytes |-> MCBoundary \o FlattenSeq([k \in 1 .. Len(parts) |-> PartBytes(parts[k])])
                   \o <<"-", "-">> \o trailer,
      log   |-> FlattenSeq([k \in 1 .. Len(parts) |-> PartLog(parts[k])])
                   \o << <<"body_end", <<>> >> >>,
      wrong |-> 0 ]

Part(h, d) == [headers |-> h, data |-> d]

(* A byte no header name and no boundary has, in the place of one that the
   parser must not admit it for. *)
Spoilt(m, k) == [m EXCEPT !.bytes[k] = "?", !.wrong = k]
Whole == Written(<<Part(<< <<"n">>, <<"v">> >>, <<"x">>), Part(<<>>, <<>>)>>, <<>>)
(* The bytes of Whole which are not of a value, of data, or of a boundary line
   that becomes data when it is spoilt. *)
Fixed == (1 .. 7) \cup (11 .. 13) \cup (20 .. 23) \cup {29, 30}

MCMessages ==
    { Written(<<Part(<< <<"n">>, <<"v">> >>, d)>>, <<>>) : d \in Data }
    \cup { Written(<<Part(h, <<"x">>), Part(<<>>, d)>>, <<CR, LF>>) :
          h \in Headers, d \in {<<>>, <<CR, LF, "-">>} }
    \cup { Spoilt(Whole, k) : k \in Fixed }

-----------------------------------------------------------------------------
(* However the message is cut into pieces, the callbacks are told the same: at
   every moment the beginning of what a reader of the whole message would say,
   and when it has been fed, all of it. *)
IsBeginning(log, whole) ==
    \/ log = <<>>
    \/ LET n == Len(log) IN
       /\ n <= Len(whole)
       /\ Front(log) = SubSeq(whole, 1, n - 1)
       /\ log[n][1] = whole[n][1]
       /\ IsPrefix(log[n][2], whole[n][2])
AsWhole ==
    \A m \in Messages : m.bytes = message =>
        /\ IsBeginning(said, m.log)
        /\ Consumed = Len(message) => said = m.log

(* The value that multipart_parser_execute returns is where the message is
   first wrong, however it is cut, and a good message is never stopped at. *)
StopsAtWrong ==
    \A m \in Messages : m.bytes = message =>
        /\ stopped => Consumed + 1 = m.wrong
        /\ m.wrong # 0 => Consumed < m.wrong
=============================================================================
