-------------------------- MODULE MCPacketHandoff --------------------------
EXTENDS PacketHandoff
=============================================================================
