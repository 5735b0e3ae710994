---------------------------- MODULE MCSSHBridge ----------------------------
(* SSHBridge on small instances: the cfg file gives the constants.         *)
EXTENDS SSHBridge
=============================================================================
