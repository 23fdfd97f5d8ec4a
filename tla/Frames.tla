------------------------------- MODULE Frames -------------------------------
(***************************************************************************)
(* WebSocketHandler's framing, and the way from a client to the handler:   *)
(* the client's frames are a stream of bytes, recv takes a chunk of it, and*)
(* decodeFrames is applied to every chunk on its own.                      *)
(*                                                                         *)
(* A byte may have fewer values than 256: the upper half of them has the   *)
(* top bit set, and the two largest lengths of seven bits, 126 and 127,    *)
(* are the codes for a length of two and of eight bytes, as in the code.   *)
(* Lengths stay below 2^63, as RFC 6455 wants it of a client: the sums in  *)
(* decodeFrames do not wrap.                                               *)
(***************************************************************************)
EXTENDS Integers, Sequences, SequencesExt

CONSTANTS
  Top,         \* 128: the mask bit, half the number of values of a byte
  Opcodes,     \* 16: the opcode is the first byte modulo this
  XorBytes(_, _),   \* of two bytes
  Arrivals,    \* how many bytes recv may return, at most 4096
  Inputs,      \* frames that clients send, see IsFrame
  MaxFrames    \* bound: frames sent before one of them is read

VARIABLES
  unread,      \* sequence of frames of the stream that have not been read whole
  skip,        \* bytes of the first of them that have been read
  payloads     \* what decodeFrames returned, when the last step read a chunk

framesVars == <<unread, skip, payloads>>

Byte == 2 * Top
ByteValues == 0 .. (Byte - 1)
Code16 == Top - 2     \* 126
Code64 == Top - 1     \* 127

\* The decimal value of a sequence of bytes, most significant first.
BigEndian(bytes) ==
  LET value[k \in 0 .. Len(bytes)] == IF k = 0 THEN 0 ELSE value[k - 1] * Byte + bytes[k]
  IN  value[Len(bytes)]

Unmask(bytes, mask) ==
  IF mask = <<>> THEN bytes
  ELSE [k \in 1 .. Len(bytes) |-> XorBytes(bytes[k], mask[((k - 1) % 4) + 1])]

\* Faulty: sends 126 itself as a short length.
encodeShort(message) ==
  LET n == Len(message)
  IN  (IF n <= Code16 THEN <<Top + 1, n>>
       ELSE <<Top + 1, Code16, (n \div Byte) % Byte, n % Byte>>) \o message

\* encodeFrame: FIN and text; lengths over 125 go into two bytes, whatever they are.
encodeFrame(message) ==
  LET n == Len(message)
  IN  (IF n < Code16 THEN <<Top + 1, n>>
       ELSE <<Top + 1, Code16, (n \div Byte) % Byte, n % Byte>>) \o message

\* What the second byte of a frame says of its header.
LengthBytes(second) ==
  IF second % Top = Code16 THEN 2 ELSE IF second % Top = Code64 THEN 8 ELSE 0
MaskBytes(second) == IF second >= Top THEN 4 ELSE 0
HeaderLen(second) == 2 + LengthBytes(second) + MaskBytes(second)

\* The length in the frame after the first index bytes, once its header is there.
PayloadLen(buffer, index) ==
  LET second == buffer[index + 2]
  IN  IF LengthBytes(second) = 0 THEN second % Top
      ELSE BigEndian(SubSeq(buffer, index + 3, index + 2 + LengthBytes(second)))

\* The bytes of that frame from the end of its header to last, unmasked.
Unmasked(buffer, index, last) ==
  LET second == buffer[index + 2]
      header == index + HeaderLen(second)
  IN  Unmask(SubSeq(buffer, header + 1, last),
             SubSeq(buffer, header - MaskBytes(second) + 1, header))

\* Faulty: leaves the loop at a frame that is neither text nor binary.
TurnStops(buffer, s) ==
  LET left == Len(buffer) - s.index
      header == HeaderLen(buffer[s.index + 2])
      size == header + PayloadLen(buffer, s.index)
  IN  IF left < 2 \/ left < header \/ left < size \/ buffer[s.index + 1] % Opcodes \notin {1, 2}
      THEN s
      ELSE [index |-> s.index + size,
            payloads |-> Append(s.payloads, Unmasked(buffer, s.index, s.index + size))]

\* One turn of decodeFrames' loop, which leaves s alone where the loop ends: the
\* payloads of text and binary frames, up to a frame that is incomplete.
Turn(buffer, s) ==
  LET left == Len(buffer) - s.index
      header == HeaderLen(buffer[s.index + 2])
      size == header + PayloadLen(buffer, s.index)
  IN  IF left < 2 \/ left < header \/ left < size THEN s
      ELSE [index |-> s.index + size,
            payloads |-> IF buffer[s.index + 1] % Opcodes \in {1, 2}
                         THEN Append(s.payloads, Unmasked(buffer, s.index, s.index + size))
                         ELSE s.payloads]

\* A turn that goes on takes two bytes and more: so many turns are enough.
Turns(buffer) == Len(buffer) \div 2

decodeFrames(buffer) ==
  LET after[n \in 0 .. Turns(buffer)] ==
        IF n = 0 THEN [index |-> 0, payloads |-> <<>>] ELSE Turn(buffer, after[n - 1])
  IN  after[Turns(buffer)].payloads

\* decodeFrame, for a whole frame that ends with the buffer: its length is not
\* looked at.
decodeFrame(frame) == IF Len(frame) < 2 THEN <<>> ELSE Unmasked(frame, 0, Len(frame))

-----------------------------------------------------------------------------
(* The stream *)

\* A client's frame: its first byte, the bytes of a length of 126 and more, the
\* mask or <<>>, and the payload.
IsFrame(f) ==
  /\ f.first \in ByteValues /\ f.payload \in Seq(ByteValues)
  /\ f.mask \in Seq(ByteValues) /\ Len(f.mask) \in {0, 4}
  /\ f.length \in Seq(ByteValues)
  /\ IF Len(f.payload) < Code16 THEN f.length = <<>>
     ELSE Len(f.length) \in {2, 8} /\ BigEndian(f.length) = Len(f.payload)

SecondByte(f) ==
  (IF f.mask = <<>> THEN 0 ELSE Top)
    + (IF f.length = <<>> THEN Len(f.payload) ELSE IF Len(f.length) = 2 THEN Code16 ELSE Code64)

Bytes(f) == <<f.first, SecondByte(f)>> \o f.length \o f.mask \o Unmask(f.payload, f.mask)

Stream(frames) == FlattenSeq([k \in DOMAIN frames |-> Bytes(frames[k])])

ASSUME FramesAssumption ==
  /\ Top \in Nat /\ Top > 2
  /\ Opcodes \in Nat \ {0} /\ (Top + 1) % Opcodes = 1
  /\ \A b, k \in ByteValues : XorBytes(b, k) \in ByteValues /\ XorBytes(XorBytes(b, k), k) = b
  /\ Arrivals \subseteq Nat
  /\ \A f \in Inputs : IsFrame(f)

FramesInit == unread = <<>> /\ skip = 0 /\ payloads = <<>>

SendFrame(f) ==
  /\ Len(unread) < MaxFrames
  /\ unread' = Append(unread, f)
  /\ payloads' = <<>>
  /\ UNCHANGED skip

\* The poll loop reads n bytes, as many as have arrived or as its buffer holds.
Receive(n) ==
  LET stream == Stream(unread)
      \* the first k frames of the stream have been read when this is at most skip + n
      End(k) == Len(Stream(SubSeq(unread, 1, k)))
  IN  /\ skip + n <= Len(stream)
      /\ payloads' = decodeFrames(SubSeq(stream, skip + 1, skip + n))
      /\ \E whole \in 0 .. Len(unread) :
            /\ End(whole) <= skip + n
            /\ whole < Len(unread) => skip + n < End(whole + 1)
            /\ unread' = SubSeq(unread, whole + 1, Len(unread))
            /\ skip' = skip + n - End(whole)

FramesNext ==
  \/ \E f \in Inputs : SendFrame(f)
  \/ \E n \in Arrivals : Receive(n)

-----------------------------------------------------------------------------
(* Properties *)

\* The payloads of the text and binary ones among these frames.
Payloads(frames) ==
  FlattenSeq([k \in DOMAIN frames |->
                IF frames[k].first % Opcodes \in {1, 2} THEN <<frames[k].payload>> ELSE <<>>])

\* A chunk that starts where a frame starts gives the payloads of exactly the
\* text and binary frames it holds whole, in order, whatever is masked, of which
\* length and cut off where (decodeFrames).  The rest of a frame that is cut off
\* is the start of the next chunk, of which nothing is promised.
WholeFrames ==
  [][skip = 0 /\ Len(unread') <= Len(unread) =>
        payloads' = Payloads(SubSeq(unread, 1, Len(unread) - Len(unread')))]_framesVars

\* What encodeFrame makes of a payload is decoded as that payload by both
\* decoders, for lengths that two bytes can hold.
EncodedIsDecoded ==
  \A k \in DOMAIN payloads : Len(payloads[k]) < Byte * Byte =>
     /\ decodeFrames(encodeFrame(payloads[k])) = <<payloads[k]>>
     /\ decodeFrame(encodeFrame(payloads[k])) = payloads[k]
=============================================================================
