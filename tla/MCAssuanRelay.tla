--------------------------- MODULE MCAssuanRelay ---------------------------
(* AssuanRelay on small instances: the cfg files give the constants.       *)
EXTENDS AssuanRelay
=============================================================================
