--------------------------- MODULE MCNatDiscovery ---------------------------
EXTENDS NatDiscovery

(* Basic mode, a server that lacks one socket, and full mode.              *)
MCSocketSets == {{RolePP}, {RolePP, RolePA, RoleAA}, Roles}
=============================================================================
