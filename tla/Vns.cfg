SPECIFICATION FairSpec
CONSTANTS
  IfaceName = {eth1, eth2, eth3}
  Iface = {eth1, eth2}
  Setups <- FiveSetups
  Word = 2
  MAX_COMMAND = 4
  Size <- Sizes
  Packets = {"frame", "arp_not_for_us", "short", "jumbo"}
  Unsolicited = {"RTABLE", "CLOSE", "BANNER"}
  MaxPackets = 2
  None = None
INVARIANTS VnsInv FramesIntact InterfacesMatch HandledWhenReady
PROPERTIES SessionReady
CHECK_DEADLOCK FALSE
