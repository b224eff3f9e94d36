---------------------------- MODULE MCWebSocket ----------------------------
(* WebSocketProtocol for TLC: a message of each longer length; fragments   *)
(* and control frames are of the short one.  The longest message makes the *)
(* key wrap around and the buffer move.                                    *)
EXTENDS WebSocketProtocol, Codec

SomePayloads == {<<1, 0>>, <<1, 1, 0, 1, 0>>}
SomeKeys     == {<<0, 1, 1, 0>>, <<1, 0, 0, 0>>}

(* startAsClient makes the key with the encoder of Codec. *)
EncodedKeySize == Len(base64Encode([i \in 1 .. 16 |-> 0]))

(* The codecs do not depend on the state: they are checked once. *)
AtStart == status = [e \in Ends |-> "DETACHED"]

(* base64 and url decode what they encode, and the digests are those of    *)
(* the padded message (codec/), over the inputs, lengths and cuts of       *)
(* Codec.                                                                  *)
CodecsFaithful == AtStart => Base64RoundTrip /\ UrlRoundTrip /\ DigestOfPieces
=============================================================================
