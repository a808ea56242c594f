--------------------------- MODULE MCActionRunner ---------------------------
(* Instances of ActionRunner for TLC: what is asked for, and symmetry.      *)
EXTENDS ActionRunner, TLC

OnlyScript == {Want("script", "all", FALSE)}
OnlyInstall == {Want("patch_install", "all", TRUE)}

SocketSymmetry == Permutations(Sockets)
=============================================================================
