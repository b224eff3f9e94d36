---------------------------- MODULE HttpProtocol ----------------------------
(***************************************************************************)
(* Reading HTTP messages from a connection (http_protocol.cc, with the     *)
(* headers of http_message.cc): the bytes arrive cut in any way, and       *)
(* recvMessage is called with all that has arrived and is not read yet,    *)
(* until it waits for more.  An action is one handler call of its loop.    *)
(*                                                                         *)
(* A byte is CR, LF or a token that stands for a run of text: a start      *)
(* line, a header line, the hexadecimal number at the head of a chunk.  A  *)
(* cut inside a run is one before it, since nothing is looked at until the *)
(* end of the line has been found.                                         *)
(***************************************************************************)
EXTENDS StringUtil, FiniteSets

CONSTANTS
    NULL,
    Data,        \* the bytes of bodies, CR and LF among them or not, no NUL
    Hex,         \* Hex[n]: the number n at the head of a chunk
    Length,      \* Length[n]: the header that says that the body has n bytes
    Good,        \* the messages peers send, records [type, head, chunks, body]
    Bad,         \* input no message starts with, as sequences of bytes
    Trailer,     \* header lines some peers send behind the last chunk
    MaxMessages  \* bound: messages on a connection

CRLF == <<"CR", "LF">>

HeaderNames == {"TE", "HDR"} \cup {Length[n] : n \in DOMAIN Length}

Byte == Data \cup {"CR", "LF", "NUL", "GET", "HTTP"} \cup HeaderNames
             \cup {Hex[n] : n \in DOMAIN Hex}

VARIABLES
    status,      \* status_
    message,     \* message_: NULL, or [type, length, chunked, body]
    chunk_buffer,
    buffer,      \* what has arrived and is not read
    wire,        \* what has not arrived
    sent,        \* the messages the peer sends
    full,        \* for each, whether its body just filled the peer's buffer
    bad,         \* what follows them that is not such a message
    got,         \* the messages the application has retrieved
    pc           \* where the application is, see TypeOK

protoVars == <<status, message, chunk_buffer>>
vars == <<protoVars, buffer, wire, sent, full, bad, got, pc>>

----------------------------------------------------------------------------
(* What peers send.                                                        *)

(* The sequences of ss from the i-th on, one after the other. *)
ConcatFrom(ss, i) ==
    LET from[k \in 1 .. Len(ss) + 1] ==
            IF k > Len(ss) THEN <<>> ELSE ss[k] \o from[k + 1]
    IN  from[i]

Concat(ss) == ConcatFrom(ss, 1)

(* snprintf needs room for a NUL behind the text: when there is just room  *)
(* for the text, the NUL takes its last place.                             *)
snprintf(text, just) ==
    IF just /\ text # <<>> THEN [text EXCEPT ![Len(text)] = "NUL"] ELSE text

(* writeMessage: start line, header lines, empty line, body.  The size of  *)
(* each is reserved before it is written, and for a start or header line   *)
(* so much more (64 and 32 bytes for what is around the text, which takes  *)
(* 23 and 4 at most) that the empty line always has room to spare.  The    *)
(* room for the body may be just its size.  The bodies have no NUL.        *)
writeMessage(m, just_full) ==
    <<m.type>> \o CRLF
    \o Concat([i \in 1 .. Len(m.head) |-> <<m.head[i]>> \o CRLF])
    \o CRLF
    \o snprintf(m.body, just_full)

(* A body in chunks, as other peers send it. *)
Chunked(chunks) ==
    Concat([i \in 1 .. Len(chunks) |->
              <<Hex[Len(chunks[i])]>> \o CRLF \o chunks[i] \o CRLF])
    \o <<Hex[0]>> \o CRLF \o CRLF

InChunks(m) == \E i \in 1 .. Len(m.head) : m.head[i] = "TE"

(* The text of the body that is handed to writeMessage. *)
Handed(m) == IF InChunks(m) THEN [m EXCEPT !.body = Chunked(m.chunks)] ELSE m

Encode(m, just_full) == writeMessage(Handed(m), just_full)

(* The messages from the i-th on. *)
EncodeFrom(ms, fs, i) == ConcatFrom([k \in 1 .. Len(ms) |-> Encode(ms[k], fs[k])], i)

(* A NUL in a body announced by its length changes that body only; one     *)
(* behind the last chunk hides where the message ends.                     *)
MayFill(m) == ~ InChunks(m) /\ m.body # <<>>

Spoilt == {Encode(m, TRUE) : m \in {k \in Good : InChunks(k)}}

(* A proper message in chunks that ends with a trailer. *)
Trailed(m, lines) ==
    LET body == Chunked(m.chunks)
    IN  writeMessage([m EXCEPT !.body =
            SubSeq(body, 1, Len(body) - 2)
            \o Concat([i \in 1 .. Len(lines) |-> <<lines[i]>> \o CRLF]) \o CRLF],
            FALSE)

WithTrailer == {Trailed(m, Trailer) : m \in {k \in Good : InChunks(k)}}

(* What an application should get, and what it gets of a body that filled  *)
(* its sender's buffer.                                                    *)
Value(m) == [type |-> m.type,
             body |-> IF InChunks(m) THEN Concat(m.chunks) ELSE m.body]

Arrived(m, just_full) == [Value(m) EXCEPT !.body = snprintf(@, just_full)]

----------------------------------------------------------------------------
Init ==
    /\ status = "READING_START_LINE"
    /\ message = NULL
    /\ chunk_buffer = <<>>
    /\ buffer = <<>>
    /\ sent \in UNION {[1 .. n -> Good] : n \in 0 .. MaxMessages}
    /\ full \in [1 .. Len(sent) -> BOOLEAN]
    /\ \A i \in 1 .. Len(sent) : full[i] => MayFill(sent[i])
    /\ bad \in {<<>>} \cup Bad \cup Spoilt \cup WithTrailer
    /\ wire = EncodeFrom(sent, full, 1) \o bad
    /\ got = <<>>
    /\ pc = "wait"

Arrive(n) ==
    /\ pc = "wait"
    /\ buffer' = buffer \o SubSeq(wire, 1, n)
    /\ wire' = SubSeq(wire, n + 1, Len(wire))
    /\ pc' = "recvMessage"
    /\ UNCHANGED <<protoVars, sent, full, bad, got>>

(* buffer->read *)
Read(n) == buffer' = SubSeq(buffer, n + 1, Len(buffer))

Handler(s) ==
    /\ pc = "recvMessage"
    /\ status = s
    /\ UNCHANGED <<wire, sent, full, bad, got>>

(* A handler returned 0: the application waits for data. *)
MoreData ==
    /\ pc' = "wait"
    /\ UNCHANGED <<protoVars, buffer>>

Error ==
    /\ status' = "PENDING_ERROR"
    /\ pc' = "error"
    /\ UNCHANGED <<message, chunk_buffer, buffer>>

----------------------------------------------------------------------------
NewMessage(type) == [type |-> type, length |-> 0, chunked |-> FALSE, body |-> <<>>]

(* The kind of message a start line begins, if any.  Text before the       *)
(* method, or after the version of a request, makes them unknown.          *)
StartLineType(line) ==
    CASE line = <<"GET">>                       -> "GET"
      [] line # <<>> /\ line[1] = "HTTP"        -> "HTTP"
      [] OTHER                                  -> NULL

readStartLine ==
    LET crlf == find(buffer, CRLF)
        type == StartLineType(SubSeq(buffer, 1, crlf - 1))
    IN /\ Handler("READING_START_LINE")
       /\ \/ crlf = 0 /\ MoreData
          \/ crlf # 0 /\ type = NULL /\ Error
          \/ /\ crlf # 0 /\ type # NULL
             /\ Read(crlf + 1)
             /\ message' = NewMessage(type)
             /\ status' = "READING_HEADER"
             /\ UNCHANGED <<chunk_buffer, pc>>

HasColon(line) == \E i \in 1 .. Len(line) : line[i] \in HeaderNames

(* setHeader for each line: a header that is repeated replaces the earlier *)
(* one.                                                                    *)
setHeaders(m, lines) ==
    LET lengths == {i \in 1 .. Len(lines) :
                       \E n \in DOMAIN Length : lines[i] = <<Length[n]>>}
        last == CHOOSE i \in lengths : \A j \in lengths : j <= i
    IN  [m EXCEPT
            !.length = IF lengths = {} THEN @
                       ELSE CHOOSE n \in DOMAIN Length : lines[last] = <<Length[n]>>,
            !.chunked = @ \/ \E i \in 1 .. Len(lines) : lines[i] = <<"TE">>]

(* The headers of m announce its body: a Content-Length that is right, or  *)
(* chunks and none but 0, since a Content-Length wins over chunks.         *)
WellFramed(m) ==
    LET announced == setHeaders(NewMessage(m.type), [i \in 1 .. Len(m.head) |-> <<m.head[i]>>])
    IN  announced.length = IF InChunks(m) THEN 0 ELSE Len(m.body)

(* Texts differ from each other and from a line's end; peers send what     *)
(* they announce, and no chunk of 0 bytes before the last.                 *)
ASSUME HttpAssumption ==
    /\ MaxMessages \in Nat
    /\ NULL \notin {"GET", "HTTP"}
    /\ DOMAIN Hex \subseteq Nat /\ 0 \in DOMAIN Hex
    /\ \A n \in DOMAIN Hex : Hex[n] # "CR" /\ \A k \in DOMAIN Hex : Hex[k] = Hex[n] => k = n
    /\ DOMAIN Length \subseteq Nat
    /\ \A n \in DOMAIN Length : Length[n] \notin {"CR", "TE"}
    /\ Good \subseteq [type: {"GET", "HTTP"}, head: Seq(HeaderNames),
                       chunks: Seq(Seq(Data)), body: Seq(Data)]
    /\ \A m \in Good :
          /\ WellFramed(m)
          /\ \A i \in 1 .. Len(m.chunks) : Len(m.chunks[i]) \in DOMAIN Hex \ {0}
    /\ Bad \subseteq Seq(Byte)
    /\ Trailer \in Seq(HeaderNames)

(* The end of a message without headers, or of one with chunks; else all   *)
(* the headers at once.                                                    *)
readHeader ==
    LET end   == find(buffer, CRLF \o CRLF)
        lines == split(SubSeq(buffer, 1, end - 1), CRLF)
        wrong == \E i \in 1 .. Len(lines) : ~ HasColon(lines[i])
    IN /\ Handler("READING_HEADER")
       /\ IF OccursAt(buffer, CRLF, 1)
          THEN /\ Read(2)
               /\ status' = "FINISHED"
               /\ pc' = "ready"
               /\ UNCHANGED <<message, chunk_buffer>>
          ELSE \/ end = 0 /\ MoreData
               \/ end # 0 /\ wrong /\ Error
               \/ /\ end # 0 /\ ~ wrong
                  /\ Read(end + 3)
                  /\ message' = setHeaders(message, lines)
                  /\ status' = "READING_BODY"
                  /\ UNCHANGED <<chunk_buffer, pc>>

(* Faulty variant: one byte more than the body is waited for. *)
readBodyLength_Strict ==
    /\ Handler("READING_BODY")
    /\ message.length > 0
    /\ IF Len(buffer) <= message.length
       THEN MoreData
       ELSE /\ message' = [message EXCEPT !.body = SubSeq(buffer, 1, message.length)]
            /\ Read(message.length)
            /\ status' = "FINISHED"
            /\ pc' = "ready"
            /\ UNCHANGED chunk_buffer

(* readBody: Content-Length, which wins over Transfer-Encoding *)
readBodyLength ==
    /\ Handler("READING_BODY")
    /\ message.length > 0
    /\ IF Len(buffer) < message.length
       THEN MoreData
       ELSE /\ message' = [message EXCEPT !.body = SubSeq(buffer, 1, message.length)]
            /\ Read(message.length)
            /\ status' = "FINISHED"
            /\ pc' = "ready"
            /\ UNCHANGED chunk_buffer

ChunkSize(line) ==
    IF line # <<>> /\ \E n \in DOMAIN Hex : line[1] = Hex[n]
    THEN CHOOSE n \in DOMAIN Hex : line[1] = Hex[n]
    ELSE -1

(* memcmp(p, "\r\n", 2) with p past i bytes of the buffer.  The bytes      *)
(* behind those that have arrived are whatever the memory holds.           *)
CrlfAfter(i) ==
    CASE \E k \in 1 .. 2 : i + k <= Len(buffer) /\ buffer[i + k] # CRLF[k] -> {FALSE}
      [] i + 2 <= Len(buffer)                                              -> {TRUE}
      [] OTHER                                                             -> BOOLEAN

(* Faulty variant: the CRLF behind the chunk is not waited for. *)
TotalChunkSize_NoCrlf(line, size) == Len(line) + 2 + size

(* The CRLF behind the last chunk is left for readHeader, which takes it   *)
(* for the end of the trailer, and is not waited for.                      *)
TotalChunkSize(line, size) ==
    IF size = 0 THEN Len(line) + 2 ELSE Len(line) + 2 + size + 2

(* readBody: one chunk.  The last one gives the message its body, its      *)
(* Content-Length, and takes its Transfer-Encoding away.                   *)
readBodyChunk ==
    LET crlf  == find(buffer, CRLF)
        line  == SubSeq(buffer, 1, crlf - 1)
        size  == ChunkSize(line)
        total == TotalChunkSize(line, size)
    IN /\ Handler("READING_BODY")
       /\ message.length = 0 /\ message.chunked
       /\ \/ crlf = 0 /\ MoreData
          \/ crlf # 0 /\ size = -1 /\ Error
          \/ crlf # 0 /\ size >= 0 /\ Len(buffer) < total /\ MoreData
          \/ /\ crlf # 0 /\ size >= 0 /\ Len(buffer) >= total
             /\ \E match \in CrlfAfter(crlf + 1 + size) :
                   \/ ~ match /\ Error
                   \/ /\ match /\ size > 0
                      /\ chunk_buffer' = chunk_buffer
                                         \o SubSeq(buffer, crlf + 2, crlf + 1 + size)
                      /\ Read(total)
                      /\ UNCHANGED <<status, message, pc>>
                   \/ /\ match /\ size = 0
                      /\ message' = [message EXCEPT !.body = chunk_buffer,
                                                   !.length = Len(chunk_buffer),
                                                   !.chunked = FALSE]
                      /\ Read(total)
                      /\ status' = "READING_HEADER"
                      /\ UNCHANGED <<chunk_buffer, pc>>

(* readBody: neither header *)
readBodyNone ==
    /\ Handler("READING_BODY")
    /\ message.length = 0 /\ ~ message.chunked
    /\ status' = "FINISHED"
    /\ pc' = "ready"
    /\ UNCHANGED <<message, chunk_buffer, buffer>>

----------------------------------------------------------------------------
(* Faulty variant: the chunks read are kept. *)
reset_KeepsChunks ==
    /\ message' = NULL
    /\ chunk_buffer' = chunk_buffer
    /\ status' = "READING_START_LINE"

reset ==
    /\ message' = NULL
    /\ chunk_buffer' = <<>>
    /\ status' = "READING_START_LINE"

(* retrieveRequest and retrieveResponse.  The application goes on with the *)
(* rest of the buffer; it gives up on a message of the other kind.         *)
Retrieve(type) ==
    /\ pc = "ready"
    /\ IF message.type = type
       THEN /\ got' = Append(got, [type |-> message.type, body |-> message.body])
            /\ reset
            /\ pc' = "recvMessage"
       ELSE pc' = "refused" /\ UNCHANGED <<protoVars, got>>
    /\ UNCHANGED <<buffer, wire, sent, full, bad>>

(* The connection is over: nothing arrives, or the application closed it. *)
Over ==
    /\ pc \in {"error", "refused"} \/ (pc = "wait" /\ wire = <<>>)
    /\ UNCHANGED vars

recvMessage ==
    readStartLine \/ readHeader \/ readBodyLength \/ readBodyChunk \/ readBodyNone

Next ==
    \/ \E n \in 1 .. Len(wire) : Arrive(n)
    \/ recvMessage
    \/ \E type \in {"GET", "HTTP"} : Retrieve(type)
    \/ Over

Spec == Init /\ [][Next]_vars

----------------------------------------------------------------------------
(* The variables have their types, a handler that needs message_ has one,  *)
(* and nothing of a message is left when the next one begins.              *)
TypeOK ==
    /\ status \in {"READING_START_LINE", "READING_HEADER", "READING_BODY",
                   "FINISHED", "PENDING_ERROR"}
    /\ pc \in {"wait", "recvMessage", "ready", "error", "refused"}
    /\ status \in {"READING_HEADER", "READING_BODY", "FINISHED"} => message # NULL
    /\ status = "READING_START_LINE" => message = NULL /\ chunk_buffer = <<>>
    /\ pc = "ready" => status = "FINISHED"

(* The bytes of a message that has been read are exactly its own: what is  *)
(* left when the next one begins is what the peer sent after it.           *)
MessageBoundaries ==
    status = "READING_START_LINE" =>
        buffer \o wire = EncodeFrom(sent, full, Len(got) + 1) \o bad

(* The messages that were sent come first, with their bodies put together, *)
(* and between two of them nothing of the stream is lost or read twice,    *)
(* however the bytes were cut and whatever follows.  A body that filled    *)
(* the buffer of its sender arrives with a NUL for its last byte.          *)
SentComesFirst ==
    /\ \A i \in 1 .. Len(got) : i <= Len(sent) => got[i] = Arrived(sent[i], full[i])
    /\ Len(got) <= Len(sent) => MessageBoundaries

(* The application gets the messages that were sent, and no other, but for *)
(* one with a trailer: it is read when the input is cut where memcmp reads *)
(* what has not arrived and happens to find a CRLF there.                  *)
RetrievesWhatWasSent ==
    /\ SentComesFirst
    /\ Len(got) > Len(sent) => bad \in WithTrailer

(* The last bytes that have arrived are the head of the last chunk without *)
(* the CRLF that ends the message.                                         *)
CutAfterLastChunk ==
    \E i \in 1 .. Len(buffer) :
        /\ buffer[i] = Hex[0]
        /\ SubSeq(buffer, i + 1, Len(buffer)) \in {CRLF, CRLF \o <<"CR">>}

(* A connection ends in an error only when all messages have been read and *)
(* what follows them is none, was spoilt by its writer or has a trailer,   *)
(* or when the input was cut right after the head of a last chunk (where   *)
(* memcmp reads what has not arrived).                                     *)
ErrorComesAfterSent ==
    status = "PENDING_ERROR" =>
        (bad # <<>> /\ Len(got) >= Len(sent)) \/ CutAfterLastChunk

(* A message with a trailer is read, as the "read tailer header" of        *)
(* readBody (http_protocol.cc:305) says.                                   *)
TrailerIsRead == bad \in WithTrailer => status # "PENDING_ERROR"

(* Nothing complete is left lying: when everything has arrived and the     *)
(* application waits, it has every message.                                *)
NothingLeftLying ==
    pc = "wait" /\ wire = <<>> /\ bad = <<>> => Len(got) = Len(sent)
=============================================================================
