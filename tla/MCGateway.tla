------------------------------ MODULE MCGateway ------------------------------
(****************************************************************************)
(* The two ways in: the cartridge's WebSockets, where two clients with two  *)
(* ids between them make three requests, and the frames on the wire.  A     *)
(* behaviour is of one of them.                                             *)
(****************************************************************************)
EXTENDS Cartridge, BytecodeWire, TLC

CONSTANTS left, right, i1, i2, r1, r2, r3
VARIABLE part

MCSockets  == {left, right}
MCIds      == {i1, i2}
MCRequests == {r1, r2, r3}
\* Sockets, ids and requests are each told apart by nothing but what they do.
MCAlike    == Permutations(MCSockets) \cup Permutations(MCIds)
                \cup Permutations(MCRequests)

\* Cruises of ReactiveController, an uneven forward, a rotation, STOP, STATUS.
Command(op, l, r) == [op |-> op, left |-> l, right |-> r]
MCCommands == {Command(1, 200, 200), Command(10, 4, 300), Command(6, 45, 70),
               Command(7, 0, 0), Command(8, 0, 0), Command(254, 0, 0)}
MCSequences == {0, 1, 7, 255, 256, 263}
MCGarbage   == {0, 1, 2, 7, 8, 100, 129, 170, 200, 254, 255}

GatewayInit ==
  /\ part \in {"cartridge", "wire"}
  /\ Init /\ WireInit
  /\ part # "cartridge" => from = [r \in Requests |-> left] /\ id = [r \in Requests |-> i1]
  /\ part # "wire" => cmd.op = 7 /\ seq = -1

GatewayNext ==
  \/ part = "cartridge" /\ Next /\ UNCHANGED <<part, wireVars>>
  \/ part = "wire" /\ WireNext /\ UNCHANGED <<part, vars>>

GatewaySpec == GatewayInit /\ [][GatewayNext]_<<part, vars, wireVars>>
=============================================================================
