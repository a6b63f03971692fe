------------------------------ MODULE MCQuicPath ------------------------------
(***************************************************************************)
(* QuicPath with bytes of 256 values on the link and of 16 in a payload:   *)
(* integers below 4 take one byte, those below 64 two, those below 16384   *)
(* four, and 2^62 becomes 2^30.                                            *)
(*                                                                         *)
(* A scenario says what the two users do:                                  *)
(*   version                  the version of every packet                  *)
(*   retry                    whether the server asks for a Retry          *)
(*   initials, shorts         how many Initials, and packets of each end's *)
(*                            Application space, may be sent               *)
(*   behind                   what follows the Initial in its datagram     *)
(*   widths                   of the lengths in long headers               *)
(*   clientList, serverList   the bytes of the transport parameters, and   *)
(*   clientLegal, serverLegal whether the other may accept them            *)
(*   frames                   what the server sends besides ACKs           *)
(*   carrier                  the lower layers                             *)
(*   damaged                  whether the link damages the first datagram  *)
(* Each group below varies one of these around Usual.                      *)
(***************************************************************************)
EXTENDS QuicPath

N(value) == Frames!Number(value, 0)
Bytes(n) == [k \in 1 .. n |-> k % 16]

Parameter(id, value) == N(id).bytes \o Frames!Sized(value, 0).bytes
List(values) == Frames!Joined(values)

ClientBase == List(<<Parameter(15, ClientCid)>>)
ServerBase == List(<<Parameter(0, OriginalCid), Parameter(15, ServerCid)>>)

Carrier4 ==
    [version |-> 4, address |-> [Client |-> <<10, 0, 0, 1>>, Server |-> <<10, 0, 0, 2>>],
     fragment |-> 16384, options |-> <<>>, extensions |-> <<>>, checked |-> TRUE,
     balanced |-> FALSE, fragmented |-> FALSE]

Carrier6 ==
    [Carrier4 EXCEPT
        !.version = 6, !.fragment = 0,
        !.address = [Client |-> <<254, 128>> \o [k \in 1 .. 14 |-> 1],
                     Server |-> <<254, 128>> \o [k \in 1 .. 14 |-> 2]]]

Usual ==
    [version |-> Packets!V1, retry |-> FALSE, initials |-> 1, shorts |-> [Client |-> 1, Server |-> 1], behind |-> "Nothing",
     widths |-> <<>>, clientList |-> ClientBase, serverList |-> ServerBase,
     clientLegal |-> TRUE, serverLegal |-> TRUE, frames |-> <<PingFrame>>,
     carrier |-> Carrier4, damaged |-> FALSE]

----------------------------------------------------------------------------

Extension(type, bytes) == [type |-> type, bytes |-> bytes]

FragmentHeader(third, fourth) ==
    Extension(44, <<17, 9, third, fourth, 0, 0, 0, 7>>)
HopByHop == Extension(0, <<60, 0, 1, 4, 0, 0, 0, 0>>)
Destination == Extension(60, <<44, 0, 1, 4, 0, 0, 0, 0>>)
Authentication == Extension(51, <<17, 1>> \o [k \in 1 .. 10 |-> 51])

\* The reserved bits of a fragment header are set in the first, which is atomic.
Carriers ==
    {Carrier4,
     [Carrier4 EXCEPT !.options = <<1, 1, 1, 0>>, !.balanced = TRUE],
     [Carrier4 EXCEPT !.checked = FALSE],
     [Carrier4 EXCEPT !.fragment = 8192, !.fragmented = TRUE],
     [Carrier4 EXCEPT !.fragment = 1, !.fragmented = TRUE],
     Carrier6,
     [Carrier6 EXCEPT !.balanced = TRUE],
     [Carrier6 EXCEPT !.extensions = <<HopByHop, Destination, FragmentHeader(0, 6)>>],
     [Carrier6 EXCEPT !.extensions = <<Authentication>>],
     [Carrier6 EXCEPT !.extensions = <<FragmentHeader(0, 1)>>, !.fragmented = TRUE],
     [Carrier6 EXCEPT !.extensions = <<FragmentHeader(1, 0)>>, !.fragmented = TRUE]}

CarrierScenarios ==
    {[Usual EXCEPT !.carrier = c, !.damaged = c.checked] : c \in Carriers}

----------------------------------------------------------------------------

WithRetry(list, legal) ==
    [Usual EXCEPT !.retry = TRUE, !.serverList = list, !.serverLegal = legal]

RetryBase == ServerBase \o Parameter(16, RetryCid)

PacketScenarios ==
    {[Usual EXCEPT !.initials = 3],
     [Usual EXCEPT !.shorts = [Client |-> 2, Server |-> 2]],
     [Usual EXCEPT !.behind = "ZeroRtt", !.version = Packets!V2,
                     !.shorts = [Client |-> 3, Server |-> 1]],
     [Usual EXCEPT !.behind = "Zeros", !.initials = 2, !.widths = <<4, 8>>],
     [Usual EXCEPT !.version = <<0, 0, 0, 9>>],
     [WithRetry(RetryBase, TRUE) EXCEPT !.initials = 3, !.version = Packets!V2],
     [WithRetry(RetryBase, TRUE) EXCEPT !.initials = 2, !.carrier = Carrier6],
     [WithRetry(ServerBase, FALSE) EXCEPT !.initials = 2],
     [WithRetry(ServerBase \o Parameter(16, ServerCid), FALSE) EXCEPT !.initials = 2],
     [WithRetry(List(<<Parameter(0, RetryCid), Parameter(15, ServerCid),
                       Parameter(16, RetryCid)>>), FALSE) EXCEPT !.initials = 2]}

----------------------------------------------------------------------------

Preferred(length) == Bytes(24) \o <<length>> \o Bytes(length + 16)

LegalParameters ==
    List(<<Parameter(1, N(0).bytes), Parameter(2, Bytes(16)), Parameter(3, N(1200).bytes),
           Parameter(4, N(1000000000).bytes), Parameter(8, N(268435456).bytes),
           Parameter(9, <<>> \o Frames!Number(1, 8).bytes), Parameter(10, N(20).bytes),
           Parameter(11, N(16383).bytes), Parameter(12, <<>>), Parameter(13, Preferred(1)),
           Parameter(14, N(2).bytes), Parameter(33, Bytes(3))>>)

IllegalForBoth ==
    {Parameter(3, N(1199).bytes), Parameter(8, N(268435457).bytes),
     Parameter(9, N(1073741823).bytes), Parameter(10, N(21).bytes),
     Parameter(11, N(16384).bytes), Parameter(12, <<0>>), Parameter(14, N(1).bytes),
     \* not one integer, no integer, a value that is cut short
     Parameter(5, N(5).bytes \o <<0>>), Parameter(6, <<>>),
     <<7, 5, 1>>, <<4>>,
     \* an identifier that is there already, once in another width
     Parameter(15, ServerCid), Frames!Number(15, 4).bytes \o <<0>>}

IllegalForServer ==
    IllegalForBoth \cup
    {Parameter(2, Bytes(15)), Parameter(13, Preferred(0)),
     Parameter(13, Preferred(1) \o <<0>>), Parameter(13, Bytes(24)),
     Parameter(16, RetryCid)}

IllegalForClient ==
    IllegalForBoth \cup
    {Parameter(0, OriginalCid), Parameter(2, Bytes(16)), Parameter(13, Preferred(1)),
     Parameter(16, <<>>)}

ServerLists ==
    {ServerBase \o more : more \in IllegalForServer}
        \cup {Parameter(0, OriginalCid), Parameter(15, ServerCid), <<>>,
              List(<<Parameter(0, ServerCid), Parameter(15, ServerCid)>>),
              List(<<Parameter(0, OriginalCid), Parameter(15, OriginalCid)>>)}

ClientLists ==
    {ClientBase \o more : more \in IllegalForClient}
        \cup {<<>>, Parameter(15, OriginalCid), Parameter(1, N(3).bytes)}

ParameterScenarios ==
    {[Usual EXCEPT !.serverList = ServerBase \o LegalParameters]}
        \cup {[Usual EXCEPT !.serverList = list, !.serverLegal = FALSE] : list \in ServerLists}
        \cup {[Usual EXCEPT !.clientList = list, !.clientLegal = FALSE] : list \in ClientLists}

----------------------------------------------------------------------------

F(type, integers, data) ==
    [type |-> type, width |-> 0, integers |-> [k \in DOMAIN integers |-> N(integers[k])],
     data |-> data, legal |-> TRUE]
SizedBytes(n) == <<Frames!Sized(Bytes(n), 0)>>
Plain(bytes) == <<Frames!Raw(bytes)>>

Greatest30 == 1073741823        \* 2^62 - 1 in the code
Limit28 == 268435456            \* 2^60 in the code

LegalFrames ==
    <<F(0, <<>>, <<>>), [F(1, <<>>, <<>>) EXCEPT !.width = 8],
      F(2, <<9, 3, 2, 1, 0, 2, 1, 1>>, <<>>), F(3, <<5, 3, 0, 5, 1, 2, Greatest30>>, <<>>),
      F(4, <<0, 3, Greatest30>>, <<>>), F(5, <<4, 70>>, <<>>),
      F(6, <<Greatest30 - 2>>, SizedBytes(2)), F(7, <<>>, SizedBytes(1)),
      F(10, <<1>>, SizedBytes(3)), F(11, <<1>>, SizedBytes(0)), F(14, <<1, 0>>, SizedBytes(1)),
      F(15, <<1, Greatest30 - 1>>, SizedBytes(1)),
      F(16, <<Greatest30>>, <<>>), F(17, <<8, 20000>>, <<>>), F(18, <<Limit28>>, <<>>),
      F(19, <<0>>, <<>>), F(20, <<63>>, <<>>), F(21, <<3, 64>>, <<>>),
      F(22, <<Limit28>>, <<>>), F(23, <<1>>, <<>>),
      F(24, <<2, 2>>, <<Frames!Counted(<<8>>), Frames!Raw(Bytes(16))>>),
      F(24, <<9, 2>>, <<Frames!Counted(Bytes(15)), Frames!Raw(Bytes(16))>>),
      F(25, <<4>>, <<>>), F(26, <<>>, Plain(Bytes(8))), F(27, <<>>, Plain(Bytes(8))),
      F(28, <<16383, 6>>, SizedBytes(0)), F(29, <<0>>, SizedBytes(2)), F(30, <<>>, <<>>)>>

\* A STREAM frame without a length takes what is left.
LastFrames ==
    {F(8, <<3>>, Plain(<<>>)), F(9, <<3>>, Plain(<<14, 1>>)),
     F(12, <<3, Greatest30 - 2>>, Plain(<<1, 1>>)), F(13, <<3, Greatest30>>, Plain(<<>>))}

IllegalFrames ==
    {F(31, <<>>, <<>>), F(6, <<Greatest30 - 1>>, SizedBytes(2)), F(6, <<0>>, Plain(<<3, 1>>)),
     F(7, <<>>, SizedBytes(0)), F(7, <<>>, Plain(<<3, 1>>)),
     F(14, <<1, Greatest30>>, SizedBytes(1)), F(13, <<1, Greatest30>>, Plain(<<1>>)),
     F(10, <<1>>, Plain(<<2, 0>>)), F(12, <<1>>, <<>>),
     F(18, <<Limit28 + 1>>, <<>>), F(23, <<Limit28 + 1>>, <<>>),
     F(24, <<2, 3>>, <<Frames!Counted(<<8>>), Frames!Raw(Bytes(16))>>),
     F(24, <<2, 2>>, <<Frames!Counted(<<>>), Frames!Raw(Bytes(16))>>),
     F(24, <<2, 2>>, <<Frames!Counted(<<8>>), Frames!Raw(Bytes(15))>>),
     F(24, <<2, 2>>, <<>>),
     F(26, <<>>, Plain(Bytes(7))), F(4, <<1, 2>>, <<>>), F(28, <<1, 2>>, Plain(<<1>>)),
     F(29, <<1>>, <<>>), F(5, <<1>>, Plain(<<8, 1>>)),
     \* ranges below zero, ranges and counts that are not there
     F(2, <<3, 0, 0, 4>>, <<>>), F(2, <<3, 0, 1, 0, 1, 1>>, <<>>),
     F(2, <<3, 0, 1, 0, 2, 0>>, <<>>), F(2, <<3, 0, 2, 0, 0, 1>>, <<>>),
     F(2, <<3, 0, Greatest30, 0, 0, 1>>, <<>>), F(3, <<3, 0, 0, 0, 1, 1>>, <<>>)}

FrameScenarios ==
    {[Usual EXCEPT !.frames = LegalFrames \o <<last>>] : last \in LastFrames}
        \cup {[Usual EXCEPT !.frames = <<PingFrame, [f EXCEPT !.legal = FALSE]>>] :
                 f \in IllegalFrames}
        \cup {[Usual EXCEPT !.frames = <<>>]}

MCScenarios ==
    CarrierScenarios \cup PacketScenarios \cup ParameterScenarios \cup FrameScenarios

=============================================================================
