------------------------------- MODULE MCWire -------------------------------
(***************************************************************************)
(* One connection of each kind.  The serverConfig is that of two servers,  *)
(* one of them given twice.  Addresses have as few characters as an        *)
(* address can have, and numbers have four different bytes.                *)
(***************************************************************************)
EXTENDS Wire

MCAddress(last) == [ip |-> <<49, 46, 48, 46, 48, 46, last>>, port |-> 12345]
MCOneServer == SetServer(NoConfig, 3, MCAddress(49))
MCConfigs ==
  {SetServer(SetServer(MCOneServer, 1, MCAddress(50)), 3, MCAddress(51))}
MCNumbers == {66051}
=============================================================================
