-------------------------------- MODULE Wire --------------------------------
(* The frames of internal/protocol: how each is laid out in one message of a
   data channel, and which handler Dispatch calls with what for a message that
   arrives.  A message is a sequence of bytes.  x_Flaw is x with one plausible
   mistake. *)
EXTENDS Integers, Sequences

Byte == 0 .. 255
Bytes == Seq(Byte)

FrameTypeMetadata == 1
FrameTypeData == 2
FrameTypeEOF == 3
FrameTypeAbort == 4
FrameTypeAddPeerOffer == 5
FrameTypeAddPeerAnswer == 6
FrameTypeTransferComplete == 7

from(s, i) == SubSeq(s, i, Len(s))
-----------------------------------------------------------------------------
(* encoding/binary, big endian, in words of two bytes; a value is reduced
   modulo its width. *)
PutWord(n) == <<(n \div 256) % 256, n % 256>>
Word(b, i) == b[i] * 256 + b[i + 1]

High(n) == n \div 65536

PutUint32(n) == PutWord(High(n)) \o PutWord(n)
Uint32(b) == Word(b, 1) * 65536 + Word(b, 3)

PutUint64(n) ==
  PutWord(High(High(High(n)))) \o PutWord(High(High(n))) \o PutWord(High(n)) \o PutWord(n)
Uint64(b) ==
  ((Word(b, 1) * 65536 + Word(b, 3)) * 65536 + Word(b, 5)) * 65536 + Word(b, 7)

IsUint32(n) == n \in Nat /\ High(n) < 65536
IsUint64(n) == n \in Nat /\ High(High(High(n))) < 65536
-----------------------------------------------------------------------------
(* Encoding. *)
EncodeMetadata(meta) ==
  <<FrameTypeMetadata, meta.version, meta.codec>> \o PutUint64(meta.size) \o meta.sha

\* The array behind the slice keeps what an earlier frame left beyond this one.
frameArray(dst, offset, payload) ==
  LET total == 9 + Len(payload)
      cap == IF Len(dst) < total THEN total ELSE Len(dst)
  IN [i \in 1 .. cap |->
        IF i = 1 THEN FrameTypeData
        ELSE IF i <= 9 THEN PutUint64(offset)[i - 1]
        ELSE IF i <= total THEN payload[i - 9] ELSE dst[i]]

AppendData_WholeArray(dst, offset, payload) == frameArray(dst, offset, payload)

AppendData(dst, offset, payload) ==
  SubSeq(frameArray(dst, offset, payload), 1, 9 + Len(payload))

EncodeData(offset, payload) == AppendData(<<>>, offset, payload)

EncodeEOF == <<FrameTypeEOF>>
EncodeAbort(reason) == <<FrameTypeAbort>> \o reason

encodePeerSDP(type, id, sdp) == <<type, id>> \o PutUint32(Len(sdp)) \o sdp
EncodeAddPeerOffer(id, sdp) == encodePeerSDP(FrameTypeAddPeerOffer, id, sdp)
EncodeAddPeerAnswer(id, sdp) == encodePeerSDP(FrameTypeAddPeerAnswer, id, sdp)

EncodeTransferComplete == <<FrameTypeTransferComplete>>
-----------------------------------------------------------------------------
(* What Dispatch calls, with the decoded body, or the error it returns. *)
Truncated == [call |-> "ErrTruncatedFrame"]
Unknown == [call |-> "ErrUnknownFrameType"]
Refused == {Truncated, Unknown}

OnMetadata(meta) == [call |-> "OnMetadata", meta |-> meta]
OnData(offset, payload) == [call |-> "OnData", offset |-> offset, payload |-> payload]
OnEOF == [call |-> "OnEOF"]
OnAbort(reason) == [call |-> "OnAbort", reason |-> reason]
OnAddPeer(call, id, sdp) == [call |-> call, id |-> id, sdp |-> sdp]
OnTransferComplete == [call |-> "OnTransferComplete"]

metadataBodyLen == 42

DecodeMetadata(body) ==
  IF Len(body) # metadataBodyLen THEN Truncated
  ELSE OnMetadata([version |-> body[1], codec |-> body[2],
                   size |-> Uint64(SubSeq(body, 3, 10)), sha |-> SubSeq(body, 11, 42)])

DecodeData(body) ==
  IF Len(body) < 8 THEN Truncated
  ELSE OnData(Uint64(SubSeq(body, 1, 8)), from(body, 9))

\* The announced length may be less than what follows; the rest is dropped.
decodePeerSDP(call, body) ==
  IF Len(body) < 5 THEN Truncated
  ELSE LET sdpLen == Uint32(SubSeq(body, 2, 5))
       IN IF Len(body) - 5 < sdpLen THEN Truncated
          ELSE OnAddPeer(call, body[1], SubSeq(body, 6, 5 + sdpLen))

Dispatch(msg) ==
  IF Len(msg) < 1 THEN Truncated
  ELSE LET type == Head(msg)
           body == Tail(msg)
       IN CASE type = FrameTypeMetadata -> DecodeMetadata(body)
            [] type = FrameTypeData -> DecodeData(body)
            [] type = FrameTypeEOF -> OnEOF
            [] type = FrameTypeAbort -> OnAbort(body)
            [] type = FrameTypeAddPeerOffer -> decodePeerSDP("OnAddPeerOffer", body)
            [] type = FrameTypeAddPeerAnswer -> decodePeerSDP("OnAddPeerAnswer", body)
            [] type = FrameTypeTransferComplete -> OnTransferComplete
            [] OTHER -> Unknown
-----------------------------------------------------------------------------
(* The calls a gfile can mean by a frame it encodes, and the frame: DATA goes
   into the array of an earlier frame. *)
IsMetadata(md) ==
  /\ md = [version |-> md.version, codec |-> md.codec, size |-> md.size,
             sha |-> md.sha]
  /\ md.version \in Byte /\ md.codec \in Byte /\ IsUint64(md.size)
  /\ md.sha \in Bytes /\ Len(md.sha) = 32

IsCall(c) ==
  \/ c = OnEOF \/ c = OnTransferComplete
  \/ c.call = "OnMetadata" /\ c = OnMetadata(c.meta) /\ IsMetadata(c.meta)
  \/ /\ c.call = "OnData" /\ c = OnData(c.offset, c.payload)
     /\ IsUint64(c.offset) /\ c.payload \in Bytes
  \/ c.call = "OnAbort" /\ c = OnAbort(c.reason) /\ c.reason \in Bytes
  \/ /\ c.call \in {"OnAddPeerOffer", "OnAddPeerAnswer"}
     /\ c = OnAddPeer(c.call, c.id, c.sdp)
     /\ c.id \in Byte /\ c.sdp \in Bytes /\ IsUint32(Len(c.sdp))

Encoded(c, buf) ==
  CASE c.call = "OnMetadata" -> EncodeMetadata(c.meta)
    [] c.call = "OnData" -> AppendData(buf, c.offset, c.payload)
    [] c.call = "OnEOF" -> EncodeEOF
    [] c.call = "OnAbort" -> EncodeAbort(c.reason)
    [] c.call = "OnAddPeerOffer" -> EncodeAddPeerOffer(c.id, c.sdp)
    [] c.call = "OnAddPeerAnswer" -> EncodeAddPeerAnswer(c.id, c.sdp)
    [] c.call = "OnTransferComplete" -> EncodeTransferComplete
=============================================================================
