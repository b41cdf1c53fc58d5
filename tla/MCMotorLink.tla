----------------------------- MODULE MCMotorLink -----------------------------
(****************************************************************************)
(* One cruise and one rotation of the 'slow' tier of ReactiveController,    *)
(* written out as the datagrams the host's encoder makes of them.           *)
(****************************************************************************)
EXTENDS MotorLink

B == INSTANCE Bytecode

Frame(op, left, right, chk) ==
  [len |-> 6, start |-> 170, op |-> op, left |-> left, right |-> right,
   chk |-> chk, stop |-> 255]

MCStop    == Frame(7, 0, 0, 7)
MCStatus  == Frame(8, 0, 0, 8)
MCCruise  == Frame(1, 90, 90, 1)
MCRotate  == Frame(5, 64, 50, 119)
MCCruises == {MCCruise}
MCMotions == {MCCruise, MCRotate}

ASSUME EncodedAssumption ==
  LET Encode(op, left, right) == B!AsDatagram(B!encodeFrame(op, left, right))
  IN /\ MCStop   = Encode(B!Opcode.STOP, 0, 0)
     /\ MCStatus = Encode(B!Opcode.GET_STATUS, 0, 0)
     /\ MCCruise = Encode(B!Opcode.MOVE_FORWARD, 90, 90)
     /\ MCRotate = Encode(B!Opcode.ROTATE_CW, 64, 50)

MCXor(op, left, right) == B!XorChecksum(op, left, right)
MCSum(op, left, right) == B!SumChecksum(op, left, right)
=============================================================================
