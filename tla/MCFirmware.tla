----------------------------- MODULE MCFirmware -----------------------------
(****************************************************************************)
(* The robot's programs, one of them per behaviour since they share no      *)
(* state: the motor task against host frames (a cruise, a rotation, a STOP, *)
(* a status query, an opcode of the other table) and datagrams it must      *)
(* drop, the older board, the camera stream with its client, the link to    *)
(* the gateway, and the host's program from its start to its end.           *)
(****************************************************************************)
EXTENDS UnifiedFirmware, SpinalCord, CameraStream, GatewayClient, Application

VARIABLE part
boardVars == <<part, vars, cordVars, camVars, gatewayVars, appVars>>

B == INSTANCE Bytecode

\* A forward of speed 16 and a rotation: sums and exclusive-ors agree on the
\* first, on STOP and on GET_STATUS only.
MCFrames == {B!encodeFrame(1, 16, 32), B!encodeFrame(5, 64, 0),
             B!encodeFrame(7, 0, 0), B!encodeFrame(8, 0, 0),
             B!encodeFrame(11, 0, 16)}

MCDatagrams ==
  {B!AsDatagram(f) : f \in MCFrames}
    \cup {[B!AsDatagram(B!encodeFrame(7, 0, 0)) EXCEPT !.chk = 0],
          [B!AsDatagram(B!encodeFrame(1, 16, 32)) EXCEPT !.len = 8]}

MCSum(op, left, right) == B!SumChecksum(op, left, right)

BoardInit ==
  /\ part \in {"motor", "cord", "camera", "gateway", "app"}
  /\ Init /\ CordInit /\ CameraInit /\ GatewayInit /\ AppInit
  /\ part # "cord" => layerQuiet = 0
  /\ part # "gateway" => gatewayUp
  /\ part # "app" => open /\ joined = {}

BoardNext ==
  /\ UNCHANGED part
  /\ \/ part = "motor" /\ Next /\ UNCHANGED <<cordVars, camVars, gatewayVars, appVars>>
     \/ part = "cord" /\ CordNext /\ UNCHANGED <<vars, camVars, gatewayVars, appVars>>
     \/ part = "camera" /\ CameraNext /\ UNCHANGED <<vars, cordVars, gatewayVars, appVars>>
     \/ part = "gateway" /\ GatewayClientNext /\ UNCHANGED <<vars, cordVars, camVars, appVars>>
     \/ part = "app" /\ AppNext /\ UNCHANGED <<vars, cordVars, camVars, gatewayVars>>

\* The fairness of each program, for as long as it is the one that runs.
BoardFairness ==
  /\ WF_vars(part = "motor" /\ MotorTask)
  /\ WF_vars(part = "motor" /\ Tick)
  /\ SF_vars(part = "motor" /\ motor = Braking /\ TargetReached)
  /\ WF_camVars(part = "camera" /\ ReconnectTimerFires)
  /\ WF_camVars(part = "camera" /\ LeaveHandler)
  /\ \A c \in Conns : /\ WF_camVars(part = "camera" /\ DestroyReported(c))
                      /\ SF_camVars(part = "camera" /\ ServeStream(c))
  /\ WF_gatewayVars(part = "gateway" /\ RetryTimer)
  /\ \A s \in Links : WF_gatewayVars(part = "gateway" /\ Opened(s))
  /\ WF_appVars(part = "app" /\ ServerCloses) /\ WF_appVars(part = "app" /\ Exits)

BoardSpec == BoardInit /\ [][BoardNext]_boardVars /\ BoardFairness

\* Whoever lost a connection gets it back: the camera stream that was left alone, the
\* gateway that stays up; and a program going down lets go of all of them, once the
\* clients of its server have left.
LinksRecover == Recovers /\ Rejoins /\ ShutdownEnds
=============================================================================
