--------------------------- MODULE MCLockRegistry ---------------------------
(***************************************************************************)
(* Instances of LockRegistry for TLC.  Three tasks give a holder, a woken  *)
(* waiter and a late arrival.  One Lock object more than the keys need     *)
(* lets a registry that drops an entry create a second lock for a key.     *)
(***************************************************************************)
EXTENDS LockRegistry
CONSTANTS t1, t2, t3, k1, k2, k3, o1, o2, o3, o4

Tasks == {t1, t2, t3}
TwoKeys == {k1, k2}
ThreeKeys == {k1, k2, k3}
Objects == {o1, o2, o3, o4}
=============================================================================
