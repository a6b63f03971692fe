-------------------------- MODULE MCHttp3PeerStreams --------------------------
(***************************************************************************)
(* Http3PeerStreams with bytes of eight values: integers below 2 take one  *)
(* byte, those below 16 two and those below 1024 four.                     *)
(***************************************************************************)
EXTENDS Http3PeerStreams

Header(type, push, widths) == [type |-> type, push |-> push, widths |-> widths]
Typed(type, numbers, data) ==
    [type |-> type, numbers |-> numbers, data |-> data, widths |-> <<>>]
Foreign(type, data, widths) ==
    [type |-> type, numbers |-> <<>>, data |-> data, widths |-> widths]

MCStreams == {2, 3, 6}

MCHeaders ==
    {Header(CONTROL, 0, <<2, 1>>), Header(PUSH, 20, <<>>), Header(QPACK_ENCODER, 0, <<4, 1>>),
     Header(QPACK_DECODER, 0, <<>>), Header(9, 0, <<>>)}

MCFrames ==
    {Typed(SETTINGS, <<7, 20, 1, 1>>, <<>>),
     Typed(SETTINGS, <<6, 0, 9, 1>>, <<>>),
     Typed(GOAWAY, <<0>>, <<>>), Typed(GOAWAY, <<4>>, <<>>),
     Typed(MAX_PUSH_ID, <<0>>, <<>>), Typed(MAX_PUSH_ID, <<16>>, <<>>),
     Typed(CANCEL_PUSH, <<2>>, <<>>),
     Typed(PUSH_PROMISE, <<1>>, <<5>>),
     Typed(DATA, <<>>, <<1, 2>>),
     Foreign(6, <<>>, <<2, 4>>),
     \* an unknown type, its payload above the maximum
     Foreign(15, <<1, 2, 3, 4, 5, 6, 7, 0, 1>>, <<2, 2>>),
     \* a setting without its value, one given twice
     Foreign(SETTINGS, <<1>>, <<2, 1>>),
     Foreign(SETTINGS, <<1, 0, 2, 1, 1>>, <<2, 2>>),
     \* integers in more bytes than they need, one with a byte behind it
     Foreign(GOAWAY, <<4, 0, 0, 1>>, <<2, 2>>),
     Foreign(MAX_PUSH_ID, <<1, 0>>, <<8, 8>>)}
=============================================================================
