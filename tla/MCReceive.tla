----------------------------- MODULE MCReceive ------------------------------
(* Instances of Receive for TLC: every kind of frame on the first channel, two
   of them cut short, and bytes that are no frame. *)
EXTENDS Receive

OnePeer == {0}
BothLabels == {"primary", "control"}

sha == [i \in 1 .. 32 |-> 7 * i]
metadata(version, codec, size) ==
  [version |-> version, codec |-> codec, size |-> size, sha |-> sha]
Zstd == metadata(1, CodecZstd, 1)

Sent ==
  {OnMetadata(Zstd), OnMetadata(metadata(1, CodecNone, 0)),
   OnMetadata(metadata(2, CodecNone, 1)), OnData(0, <<5>>), OnEOF, OnAbort(<<65>>),
   OnAddPeer("OnAddPeerOffer", 0, <<8, 9>>),
   OnAddPeer("OnAddPeerAnswer", 0, <<8>>), OnTransferComplete}

MCMessages ==
  {Encoded(c, <<>>) : c \in Sent}
  \cup {SubSeq(EncodeMetadata(Zstd), 1, 42), SubSeq(EncodeAddPeerOffer(0, <<8, 9>>), 1, 7),
        <<>>, <<99>>}

MCDataMessages ==
  {EncodeData(0, <<5>>), EncodeData(1, <<5>>), EncodeEOF, SubSeq(EncodeData(0, <<>>), 1, 8)}
-----------------------------------------------------------------------------
(* Frames of every length the fields allow around their boundaries, and the
   buffers earlier, longer or shorter frames left. *)
Payloads == {<<>>, <<0>>, <<1, 2, 3>>, [i \in 1 .. 300 |-> i % 256]}
Offsets == {0, 1, 255, 256, 65536, 16777216, 2147483647}
MCCalls ==
  Sent
  \cup {OnData(o, d) : o \in Offsets, d \in Payloads}
  \cup {OnAddPeer(call, 255, d) : call \in {"OnAddPeerOffer", "OnAddPeerAnswer"}, d \in Payloads}
  \cup {OnMetadata(metadata(1, 1, o)) : o \in Offsets} \cup {OnAbort(d) : d \in Payloads}
MCBuffers == {<<>>, [i \in 1 .. 12 |-> 9], [i \in 1 .. 400 |-> 200]}
=============================================================================
