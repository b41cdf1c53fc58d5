------------------------------ MODULE Bytecode -------------------------------
(****************************************************************************)
(* ISA v1 and v1.1: the frames the host encodes                             *)
(* (src/control/bytecode_compiler.ts) and the checksums the two sides of    *)
(* the link compute.  A frame on the wire is a sequence of bytes.           *)
(****************************************************************************)
EXTENDS Integers, Sequences

FRAME_START   == 170
FRAME_END     == 255
FRAME_SIZE    == 6
FRAME_SIZE_V2 == 8
ACK_FLAG      == 1
ACK_OPCODE    == 253

Opcode == [MOVE_FORWARD |-> 1, MOVE_BACKWARD |-> 2, TURN_LEFT |-> 3,
           TURN_RIGHT |-> 4, ROTATE_CW |-> 5, ROTATE_CCW |-> 6, STOP |-> 7,
           GET_STATUS |-> 8, SET_SPEED |-> 9, MOVE_STEPS |-> 10,
           MOVE_STEPS_R |-> 11, LED_SET |-> 16, RESET |-> 254]

KnownOpcodes == {Opcode[name] : name \in DOMAIN Opcode} \cup {ACK_OPCODE}

\* What a decoder answers for a buffer it refuses.
Null == [opcode |-> -1]

-----------------------------------------------------------------------------
\* a ^ b & 0xFF: a bit of it is set where just one of the two has it.
ByteXor(a, b) ==
  LET Bit(w) == w * ((a \div w + b \div w) % 2)
  IN Bit(1) + Bit(2) + Bit(4) + Bit(8) + Bit(16) + Bit(32) + Bit(64) + Bit(128)

(* The host: XOR over the bytes between the start marker and the checksum. *)

\* A slip: the right byte left out.
ChecksumOfTwo(op, left, right) == ByteXor(op, left)

calculateChecksum(op, left, right) == ByteXor(ByteXor(op, left), right)

encodeFrame(op, left, right) ==
  <<FRAME_START, op % 256, left % 256, right % 256,
    calculateChecksum(op, left, right), FRAME_END>>

decodeFrame(b) ==
  IF /\ Len(b) >= FRAME_SIZE
     /\ b[1] = FRAME_START /\ b[6] = FRAME_END
     /\ b[5] = calculateChecksum(b[2], b[3], b[4])
    THEN [opcode |-> b[2], left |-> b[3], right |-> b[4]]
    ELSE Null

\* The repair of a frame a language model wrote: right markers, a known
\* opcode, any checksum.
tryRepairChecksum(b) ==
  IF /\ Len(b) >= FRAME_SIZE
     /\ b[1] = FRAME_START /\ b[6] = FRAME_END
     /\ b[2] \in KnownOpcodes
    THEN encodeFrame(b[2], b[3], b[4])
    ELSE <<>>

calculateChecksumV2(seq, op, left, right, flags) ==
  ByteXor(ByteXor(ByteXor(ByteXor(seq, op), left), right), flags)

encodeFrameV2(seq, op, left, right, flags) ==
  <<FRAME_START, seq % 256, op % 256, left % 256, right % 256, flags % 256,
    calculateChecksumV2(seq % 256, op, left, right, flags % 256), FRAME_END>>

decodeFrameV2(b) ==
  IF /\ Len(b) >= FRAME_SIZE_V2
     /\ b[1] = FRAME_START /\ b[8] = FRAME_END
     /\ b[7] = calculateChecksumV2(b[2], b[3], b[4], b[5], b[6])
    THEN [opcode |-> b[3], left |-> b[4], right |-> b[5],
          seq |-> b[2], flags |-> b[6]]
    ELSE Null

FromV1(b) ==
  LET v1 == decodeFrame(b)
  IN IF v1 = Null THEN Null
     ELSE [opcode |-> v1.opcode, left |-> v1.left, right |-> v1.right,
           seq |-> 0, flags |-> 0]

\* V2 where it fits and decodes, V1 for whatever else is long enough.
decodeFrameAuto(b) ==
  IF Len(b) >= FRAME_SIZE_V2 /\ decodeFrameV2(b) # Null
    THEN decodeFrameV2(b)
    ELSE FromV1(b)

-----------------------------------------------------------------------------
(* The firmware: what each board recomputes over bytes 1..3. *)

\* roclaw_unified adds, in a uint8_t.
SumChecksum(op, left, right) == (op + left + right) % 256

\* roclaw_egocentric and esp32_s3_spinal_cord exclusive-or.
XorChecksum(op, left, right) == ByteXor(ByteXor(op, left), right)

\* A frame of ours as the datagram the motor task reads.
AsDatagram(b) ==
  [len |-> Len(b), start |-> b[1], op |-> b[2], left |-> b[3], right |-> b[4],
   chk |-> b[5], stop |-> b[6]]
=============================================================================
