---------------------------- MODULE ChunkParser ----------------------------
(***************************************************************************)
(* The incremental frame parser of the client, class ChunkParser of        *)
(* src/client/grpc-web/src/ChunkParser.ts, fed a response in arbitrary     *)
(* pieces.                                                                 *)
(*                                                                         *)
(* A response is a list of frames, encoded byte by byte as the server does *)
(* (copyTrailersToPayload of grpc_web_response.go; messages have the same  *)
(* header with the top bit clear).  The network cuts it anywhere, also     *)
(* inside a header, and may stop early.  Bytes are numbers 0..255.         *)
(*                                                                         *)
(* Bound: FrameLists, the responses that are tried.                        *)
(***************************************************************************)
EXTENDS Integers, Sequences, SequencesExt

CONSTANTS
  FrameLists,   \* the responses: sequences of frames [type, data]
  Null          \* buffer before the first chunk

Byte == 0..255
FrameTypes == {"message", "trailers"}

ASSUME FramesAssumption ==
  \A frames \in FrameLists : \A i \in DOMAIN frames :
    frames[i].type \in FrameTypes /\ frames[i].data \in Seq(Byte)

VARIABLES
  buffer, position,   \* the fields of the parser
  frames,             \* the response that is being received
  fed,                \* how many of its bytes have been given to parse
  out,                \* what the calls of parse have returned, concatenated
  threw               \* some call of parse threw

vars == <<buffer, position, frames, fed, out, threw>>

-----------------------------------------------------------------------------
(* The wire *)

HEADER_SIZE == 5

PutUint32(n) == [i \in 1..4 |-> (n \div 256 ^ (4 - i)) % 256]

Encode(f) ==
  <<IF f.type = "trailers" THEN 128 ELSE 0>> \o PutUint32(Len(f.data)) \o f.data

\* The bytes of the first n frames.
Wire(n) == FlattenSeq([i \in 1..n |-> Encode(frames[i])])

-----------------------------------------------------------------------------
(* The parser.  Positions count from 0, as in the code. *)

At(buf, pos) == buf[pos + 1]

\* Mutant of HasEnoughBytes: off by one.
HasMoreBytes(buf, pos, byteCount) == Len(buf) - pos > byteCount

HasEnoughBytes(buf, pos, byteCount) == Len(buf) - pos >= byteCount

ReadLengthFromHeader(buf, pos) ==
  256 ^ 3 * At(buf, pos + 1) + 256 ^ 2 * At(buf, pos + 2)
    + 256 * At(buf, pos + 3) + At(buf, pos + 4)

IsTrailerHeader(buf, pos) == At(buf, pos) \div 128 = 1

IsValidHeaderAscii(b) == b \in {9, 10, 13} \/ b \in 32..126

\* Mutant of DecodesAsAscii: empty trailers are refused.
DecodesIfAny(data) == data # <<>> /\ \A i \in DOMAIN data : IsValidHeaderAscii(data[i])

DecodesAsAscii(data) == \A i \in DOMAIN data : IsValidHeaderAscii(data[i])

\* Mutant of Accumulate: what is left of the buffer is dropped.
AccumulateFresh(bytes) == bytes

\* The buffer once the new bytes are in; parse resets position to 0.
Accumulate(bytes) ==
  IF buffer = Null THEN bytes
  ELSE SubSeq(buffer, position + 1, Len(buffer)) \o bytes

\* The while loop from each position: the chunks it returns, where it leaves
\* position, and whether it throws.
Scan(buf) ==
  LET scan[pos \in 0..Len(buf)] ==
        LET length == ReadLengthFromHeader(buf, pos)
            next == pos + HEADER_SIZE + length
            data == SubSeq(buf, pos + HEADER_SIZE + 1, next)
        IN  IF \/ ~HasEnoughBytes(buf, pos, HEADER_SIZE)
               \/ ~HasEnoughBytes(buf, pos, HEADER_SIZE + length)
              THEN [chunks |-> <<>>, position |-> pos, throws |-> FALSE]
            ELSE IF IsTrailerHeader(buf, pos)
              THEN [chunks |-> <<[type |-> "trailers", data |-> data]>>,
                    position |-> next, throws |-> ~DecodesAsAscii(data)]
            ELSE [scan[next] EXCEPT !.chunks = <<[type |-> "message", data |-> data]>> \o @]
  IN  scan[0]

\* Mutant of Parse: position is not reset for the new buffer.
ParseNoReset(bytes) ==
  LET buf == Accumulate(bytes)
      result == Scan(buf)
  IN  /\ buffer' = buf
      /\ position' = position + result.position
      /\ threw' = (threw \/ result.throws)
      /\ out' = IF result.throws THEN out ELSE out \o result.chunks

Parse(bytes) ==
  LET buf == Accumulate(bytes)
      result == Scan(buf)
  IN  /\ buffer' = buf
      /\ position' = result.position
      /\ threw' = (threw \/ result.throws)
      /\ out' = IF result.throws THEN out ELSE out \o result.chunks

-----------------------------------------------------------------------------
Init ==
  /\ buffer = Null /\ position = 0
  /\ frames \in FrameLists
  /\ fed = 0
  /\ out = <<>>
  /\ threw = FALSE

\* The transport hands over the next bytes of the response, possibly none.
Receive(n) ==
  /\ Parse(SubSeq(Wire(Len(frames)), fed + 1, fed + n))
  /\ fed' = fed + n
  /\ UNCHANGED frames

Next == \E n \in 0 .. (Len(Wire(Len(frames))) - fed) : Receive(n)

Spec == Init /\ [][Next]_vars

-----------------------------------------------------------------------------
(* Properties *)

\* The frames of which every byte has been fed.
Complete == { k \in 0..Len(frames) : Len(Wire(k)) <= fed }
CompleteCount == CHOOSE k \in Complete : \A j \in Complete : j <= k

\* The parser's fields have their types and position is inside the buffer.
TypeOK ==
  /\ buffer = Null \/ buffer \in Seq(Byte)
  /\ position \in 0 .. (IF buffer = Null THEN 0 ELSE Len(buffer))
  /\ threw \in BOOLEAN
  /\ \A i \in DOMAIN out : out[i].type \in FrameTypes /\ out[i].data \in Seq(Byte)

\* However the response is cut, parse returns the frames that were sent, in
\* order and whole, as soon as their last byte has arrived; only what follows
\* a trailers frame may be held back until the next chunk.
DeliversFrames ==
  ~threw =>
    /\ Len(out) <= CompleteCount
    /\ out = SubSeq(frames, 1, Len(out))
    /\ Len(out) < CompleteCount => \E i \in DOMAIN out : out[i].type = "trailers"

\* Only trailers that are not printable ASCII make parse throw: no way to cut
\* the response does, and no content of a message.
ThrowsOnBadTrailersOnly ==
  threw => \E i \in 1..CompleteCount :
             /\ frames[i].type = "trailers"
             /\ \E b \in ToSet(frames[i].data) : b > 126 \/ b < 32

\* Between calls the parser stands at a frame boundary of the response and has
\* kept every byte after it, also after a call that threw.
StandsAtFrame ==
  buffer # Null =>
    \E k \in 0..Len(frames) :
      /\ Len(Wire(k)) <= fed
      /\ SubSeq(buffer, position + 1, Len(buffer)) = SubSeq(Wire(Len(frames)), Len(Wire(k)) + 1, fed)

=============================================================================
