---------------------------- MODULE BytecodeWire -----------------------------
(****************************************************************************)
(* One frame on its way from encodeFrame / encodeFrameV2 to a decoder, with *)
(* at most one byte garbled underway.                                       *)
(****************************************************************************)
EXTENDS Bytecode

CONSTANTS
  Commands,  \* records [op, left, right] a host encodes
  SeqNumbers, \* sequence numbers, before & 0xFF
  Garbage    \* what a garbled byte can read

ASSUME CommandsAssumption ==
  Commands \subseteq [op : KnownOpcodes, left : Nat, right : Nat]
ASSUME BytesAssumption == SeqNumbers \subseteq Nat /\ Garbage \subseteq 0 .. 255

VARIABLES
  cmd,     \* the command encoded
  seq,     \* its sequence number in a V2 frame, -1 in a V1 frame
  wire,    \* the bytes
  garbled  \* the index of the byte changed, 0 if none

wireVars == <<cmd, seq, wire, garbled>>

WireTypeOK ==
  /\ cmd \in Commands
  /\ seq \in SeqNumbers \cup {-1}
  /\ wire \in Seq(0 .. 255) /\ Len(wire) \in {FRAME_SIZE, FRAME_SIZE_V2}
  /\ garbled \in 0 .. Len(wire)

WireInit ==
  /\ cmd \in Commands
  /\ seq \in SeqNumbers \cup {-1}
  /\ wire = IF seq = -1 THEN encodeFrame(cmd.op, cmd.left, cmd.right)
            ELSE encodeFrameV2(seq, cmd.op, cmd.left, cmd.right, ACK_FLAG)
  /\ garbled = 0

Garble ==
  /\ garbled = 0
  /\ \E i \in 1 .. Len(wire), g \in Garbage :
       /\ wire[i] # g
       /\ wire' = [wire EXCEPT ![i] = g]
       /\ garbled' = i
  /\ UNCHANGED <<cmd, seq>>

WireNext == Garble

WireSpec == WireInit /\ [][WireNext]_wireVars

-----------------------------------------------------------------------------
(* PROPERTIES *)

\* The frame f is the command, its parameters modulo 256.
Carries(f) ==
  /\ f # Null
  /\ f.opcode = cmd.op
  /\ f.left = cmd.left % 256
  /\ f.right = cmd.right % 256

\* An intact frame decodes to the command encoded, its parameters
\* and its sequence number modulo 256; a V1 decoder makes a command of no intact V2 frame.
RoundTrip ==
  garbled = 0 =>
    /\ Carries(decodeFrameAuto(wire))
    /\ seq # -1 => /\ decodeFrameAuto(wire).seq = seq % 256
                   /\ decodeFrameAuto(wire).flags = ACK_FLAG
                   /\ decodeFrame(wire) = Null

\* One garbled byte never turns a V1 frame into a command, nor a V2 frame into
\* a V2 command.
GarbledIsRefused ==
  garbled # 0 => IF seq = -1 THEN decodeFrame(wire) = Null
                             ELSE decodeFrameV2(wire) = Null

\* Repairing a frame whose checksum is wrong restores the command, and what a
\* repair returns is always a frame the decoder takes.
RepairRestores ==
  seq = -1 =>
    /\ garbled \in {0, 5} => Carries(decodeFrame(tryRepairChecksum(wire)))
    /\ tryRepairChecksum(wire) # <<>> => decodeFrame(tryRepairChecksum(wire)) # Null

\* What the codec promises: frames survive the wire, are refused when garbled, and are
\* repaired only into what was meant.
CodecHolds == RoundTrip /\ GarbledIsRefused /\ RepairRestores
=============================================================================
