------------------------- MODULE MCHttp2HeaderBlocks -------------------------
(***************************************************************************)
(* Http2HeaderBlocks with bytes of four values: payloads up to 63 bytes,   *)
(* streams up to 127, the reserved bit at 128.                             *)
(***************************************************************************)
EXTENDS Http2HeaderBlocks

MCStreams == {0, 5}
MCForeignStreams == {128 + 5}
MCFlagChoices == {0, END_HEADERS, PADDED + PRIORITY_FLAG}
MCPlainFlags == {0, ACK}
MCFragments == {<<1, 3>>}
MCPads == {<<>>, <<3>>}
MCPrioritySections == {<<2, 0, 0, 1, 3>>}
MCQuads == {<<0, 0, 1, 2>>}
MCSettingLists == {<<>>, <<Setting(5, 20)>>, <<Setting(4, 127), Setting(2, 1)>>}
MCRawStreams == {0, 70}
MCRawTypes == {HEADERS, CONTINUATION}
MCRawFlags == {PADDED + PRIORITY_FLAG}
\* Too much padding; exactly a priority section between the pad length and
\* one byte of padding, which is also a promise of stream 1 and a fragment.
MCRawPayloads == {<<3, 0, 0>>, <<1, 0, 0, 0, 1, 2, 0>>}
=============================================================================
