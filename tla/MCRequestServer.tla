-------------------------- MODULE MCRequestServer --------------------------
EXTENDS RequestServer, FiniteSets

(* Basic mode, two sockets of either kind, three, and full mode.           *)
MCSocketSets == {{RolePP}, {RolePP, RolePA}, {RolePP, RoleAA}, {RolePP, RolePA, RoleAA}, Roles}

(* Nothing, the alternate interface's own address, or another one.         *)
MCAdvertisedIPs == {ZeroIP, "A", "public"}
=============================================================================
