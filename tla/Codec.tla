------------------------------- MODULE Codec -------------------------------
(***************************************************************************)
(* The codecs of src/brickred/codec, on sequences of bytes: base64 and url *)
(* both ways, and the digests, whose block function is left open.          *)
(*                                                                         *)
(* The functions for C++ strings are modelled.  They call those for        *)
(* buffers with a buffer of a size of their own, and make every error, a   *)
(* buffer that is too small included, an empty string.                     *)
(***************************************************************************)
EXTENDS Integers, Sequences, Bitwise

LOCAL INSTANCE SequencesExt
LOCAL INSTANCE FiniteSetsExt

Byte == 0 .. 255

(* A char is signed: a byte from 128 on is less than any letter. *)
Char(byte) == IF byte < 128 THEN byte ELSE byte - 256

At(s, i) == IF i <= Len(s) THEN s[i] ELSE 0

Groups(s, n) == (Len(s) + n - 1) \div n

----------------------------------------------------------------------------
(* base64                                                                  *)

s_encode_table(v) ==
    CASE v < 26 -> 65 + v [] v \in 26 .. 51 -> 71 + v [] v \in 52 .. 61 -> v - 4
      [] v = 62 -> 43     [] v = 63         -> 47

(* -1 and -2 are kept in an unsigned char. *)
s_decode_table(c) ==
    CASE c \in 65 .. 90 -> c - 65 [] c \in 97 .. 122 -> c - 71
      [] c \in 48 .. 57 -> c + 4  [] c = 43 -> 62 [] c = 47 -> 63
      [] c = 61         -> 254    [] OTHER  -> 255

PAD == 61

(* The four letters for the bytes of s from 3 * g + 1 on. *)
EncodeGroup(s, g) ==
    LET b(i)  == At(s, 3 * g + i)
        b_len == Len(s) - 3 * g
    IN <<s_encode_table(b(1) \div 4),
         s_encode_table(((b(1) & 3) * 16) | (b(2) \div 16)),
         IF b_len > 1 THEN s_encode_table(((b(2) & 15) * 4) | (b(3) \div 64)) ELSE PAD,
         IF b_len > 2 THEN s_encode_table(b(3) & 63) ELSE PAD>>

base64Encode(s) ==
    LET out_size == IF 2 * Len(s) < 5 THEN 5 ELSE 2 * Len(s)
    IN IF 4 * Groups(s, 3) > out_size THEN <<>>
       ELSE FlattenSeq([g \in 1 .. Groups(s, 3) |-> EncodeGroup(s, g - 1)])

Padding(byte) == Char(byte) < 43 \/ Char(byte) > 122 \/ byte = PAD

DecodeLength(s, g) ==
    Len(SelectSeq(SubSeq(s, 4 * g + 1, 4 * g + 4), LAMBDA c : ~ Padding(c)))

(* The bytes for the letters of s from 4 * g + 1 on. *)
DecodeGroup(s, g) ==
    LET b(i) == LET c == s[4 * g + i] IN IF Padding(c) THEN 0 ELSE s_decode_table(c)
    IN SubSeq(<<((b(1) * 4) % 256) | (b(2) \div 16),
                ((b(2) * 16) % 256) | (b(3) \div 4),
                ((b(3) * 64) % 256) | b(4)>>,
              1, DecodeLength(s, g) - 1)

(* The buffer, of the size of the letters, is always large enough. *)
base64Decode(s) ==
    IF Len(s) % 4 # 0 \/ \E g \in 0 .. Groups(s, 4) - 1 : DecodeLength(s, g) < 2
    THEN <<>>
    ELSE FlattenSeq([g \in 1 .. Groups(s, 4) |-> DecodeGroup(s, g - 1)])

----------------------------------------------------------------------------
(* url                                                                     *)

PERCENT == 37

isUnreservedChar(c) ==
    c \in (48 .. 57) \cup (97 .. 122) \cup (65 .. 90) \cup {45, 46, 95, 126}

s_hex_to_letter(v) == IF v < 10 THEN 48 + v ELSE 55 + v

letterToHex(c) ==
    CASE c \in 48 .. 57  -> c - 48
      [] c \in 97 .. 102 -> c - 87
      [] c \in 65 .. 70  -> c - 55
      [] OTHER           -> -1

UrlChar(c) ==
    IF isUnreservedChar(c) THEN <<c>>
    ELSE <<PERCENT, s_hex_to_letter(c \div 16), s_hex_to_letter(c & 15)>>

urlEncode(s) ==
    LET out == FlattenSeq([i \in 1 .. Len(s) |-> UrlChar(s[i])])
    IN IF Len(out) > (IF s = <<>> THEN 1 ELSE 3 * Len(s)) THEN <<>> ELSE out

(* What the loop of urlDecode does from here on: [ok, out]. *)
RECURSIVE UrlDecodeFrom(_)
UrlDecodeFrom(s) ==
    LET escape == s # <<>> /\ s[1] = PERCENT
        wrong  == \/ escape /\ (Len(s) < 3 \/ letterToHex(s[2]) < 0
                                          \/ letterToHex(s[3]) < 0)
                  \/ s # <<>> /\ ~ escape /\ ~ isUnreservedChar(s[1])
        rest   == UrlDecodeFrom(SubSeq(s, IF escape THEN 4 ELSE 2, Len(s)))
        byte   == IF escape THEN letterToHex(s[2]) * 16 + letterToHex(s[3]) ELSE s[1]
    IN CASE s = <<>> -> [ok |-> TRUE, out |-> <<>>]
         [] wrong    -> [ok |-> FALSE, out |-> <<>>]
         [] OTHER    -> [ok |-> rest.ok, out |-> <<byte>> \o rest.out]

urlDecode(s) == LET d == UrlDecodeFrom(s) IN IF d.ok THEN d.out ELSE <<>>

----------------------------------------------------------------------------
(* sha1 and sha256.  The state of a digest is the blocks it has processed, *)
(* so two digests are equal here if they are for every block function.     *)

sha1ProcessBlock(hash, block) == Append(hash, block)

(* work_block_ is not initialized. *)
reset == [hash |-> <<>>, work_block |-> [i \in 1 .. 64 |-> -1], message_size |-> 0]

(* memcpy(work_block_ + n, s, Len(s)) *)
Fill(block, n, s) ==
    [i \in 1 .. 64 |-> IF i \in n + 1 .. n + Len(s) THEN s[i - n] ELSE block[i]]

(* The last part of update: whole blocks, and what is left of s. *)
UpdateBlocks(ctx, s) ==
    LET n == Len(s) \div 64
    IN [ctx EXCEPT
          !.hash = FoldLeft(LAMBDA hash, k :
                              sha1ProcessBlock(hash, SubSeq(s, 64 * k - 63, 64 * k)),
                            @, [k \in 1 .. n |-> k]),
          !.work_block = Fill(@, 0, SubSeq(s, 64 * n + 1, Len(s)))]

(* Faulty variant: a block that has just become full is not processed. *)
update_FullWaits(ctx, s) ==
    LET wb_size == ctx.message_size % 64
        left    == 64 - wb_size
        counted == [ctx EXCEPT !.message_size = @ + Len(s)]
        filled  == [counted EXCEPT !.work_block =
                       Fill(@, wb_size, SubSeq(s, 1, Min({left, Len(s)})))]
    IN CASE wb_size = 0       -> UpdateBlocks(counted, s)
         [] Len(s) <= left    -> filled
         [] OTHER -> UpdateBlocks(
                        [filled EXCEPT !.hash = sha1ProcessBlock(@, filled.work_block)],
                        SubSeq(s, left + 1, Len(s)))

update(ctx, s) ==
    LET wb_size == ctx.message_size % 64
        left    == 64 - wb_size
        counted == [ctx EXCEPT !.message_size = @ + Len(s)]
        filled  == [counted EXCEPT !.work_block =
                       Fill(@, wb_size, SubSeq(s, 1, Min({left, Len(s)})))]
    IN CASE wb_size = 0                 -> UpdateBlocks(counted, s)
         [] wb_size > 0 /\ Len(s) < left -> filled
         [] OTHER -> UpdateBlocks(
                        [filled EXCEPT !.hash = sha1ProcessBlock(@, filled.work_block)],
                        SubSeq(s, left + 1, Len(s)))

pad == [i \in 1 .. 64 |-> IF i = 1 THEN 128 ELSE 0]

(* The length in bits, below 2^31 here, as two big endian words. *)
pad_len(size) ==
    <<0, 0, 0, 0>> \o [i \in 1 .. 4 |-> ((8 * size) \div 256 ^ (4 - i)) % 256]

(* The pad is read up to its end, not further: SubSeq is defined. *)
digest(ctx) ==
    LET wb_size == ctx.message_size % 64
        size    == IF wb_size > 55 THEN 64 - wb_size + 56 ELSE 56 - wb_size
    IN update(update(ctx, SubSeq(pad, 1, size)), pad_len(ctx.message_size)).hash

(* Sha256 has the same lines, with another block function and eight words. *)
sha256Binary(s) == <<"sha256", digest(update(reset, s))>>

sha1Binary(s) == <<"sha1", digest(update(reset, s))>>

----------------------------------------------------------------------------
(* The inputs: every length of a group, with bits that are set and not set *)
(* at every place; a digest gets different bytes, up to two blocks of them *)
(* and a few.                                                              *)
Inputs == UNION {[1 .. n -> {0, 90, 165, 255}] : n \in 0 .. 4}

Message(n) == [i \in 1 .. n |-> i]

(* What is encoded in base64 is decoded to itself, whatever its length;    *)
(* the room the wrappers make is enough, and a text cut within a group is  *)
(* refused.                                                                *)
Base64RoundTrip ==
    \A s \in Inputs :
        LET text == base64Encode(s)
        IN /\ Len(text) = 4 * Groups(s, 3)
           /\ base64Decode(text) = s
           /\ \A i \in 1 .. Len(text) : i % 4 # 0 => base64Decode(SubSeq(text, 1, i)) = <<>>

(* A url is decoded to what was encoded; the code has no reserved letters. *)
UrlRoundTrip ==
    \A s \in Inputs :
        LET text == urlEncode(s)
        IN /\ urlDecode(text) = s
           /\ \A i \in 1 .. Len(text) : isUnreservedChar(text[i]) \/ text[i] = PERCENT

(* The message, a bit, zeros up to the length, which ends a block *)
Padded(s) ==
    LET zeros == CHOOSE z \in 0 .. 63 : (Len(s) + 1 + z + 8) % 64 = 0
    IN s \o <<128>> \o [i \in 1 .. zeros |-> 0] \o pad_len(Len(s))

(* A digest is that of the padded message, however the message was cut     *)
(* into calls of update: the bytes of a partial block are kept in order,   *)
(* and the padding takes a block more exactly when there is no room.       *)
DigestOfPieces ==
    \A n \in 0 .. 130 :
        LET padded == Padded(Message(n))
            blocks == [k \in 1 .. Len(padded) \div 64 |->
                         SubSeq(padded, 64 * k - 63, 64 * k)]
        IN \A i \in 0 .. n, j \in {0, 1, 64} :
              i + j <= n =>
                digest(update(update(update(reset, SubSeq(Message(n), 1, i)),
                                     SubSeq(Message(n), i + 1, i + j)),
                              SubSeq(Message(n), i + j + 1, n))) = blocks
=============================================================================
