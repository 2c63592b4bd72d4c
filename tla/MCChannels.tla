------------------------------ MODULE MCChannels ------------------------------
(***************************************************************************)
(* TLC instance of the four message channels.  The build (JB_LIB_OS) and   *)
(* the application choose one of them, and the others are never made.      *)
(***************************************************************************)
EXTENDS UdpVoidChannel, UdpTaskChannel, UdpChannel, WsChannel

VARIABLE channel \* which one it is

vars == <<voidVars, taskVars, udpVars, wsVars, channel>>

\* Two hosts, on different ports.
MCPeers == {<<1, 1>>, <<2, 2>>}

\* Ports whose bytes differ.
MCPorts == {<<0, 1>>, <<2, 3>>}

Init ==
  /\ VoidInit /\ TaskInit /\ UdpInit /\ WsInit
  /\ channel \in {"void", "task", "udp", "ws"}

Next ==
  /\ \/ channel = "void" /\ VoidNext /\ UNCHANGED <<taskVars, udpVars, wsVars>>
     \/ channel = "task" /\ TaskNext /\ UNCHANGED <<voidVars, udpVars, wsVars>>
     \/ channel = "udp" /\ UdpNext /\ UNCHANGED <<voidVars, taskVars, wsVars>>
     \/ channel = "ws" /\ WsNext /\ UNCHANGED <<voidVars, taskVars, udpVars>>
  /\ UNCHANGED channel

Spec == Init /\ [][Next]_vars /\ VoidFairness

TypeOK == VoidTypeOK /\ TaskTypeOK /\ UdpTypeOK /\ WsTypeOK

=============================================================================
