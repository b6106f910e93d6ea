------------------------------ MODULE Reflock ------------------------------
(***************************************************************************)
(* wepoll's reflock: one 32-bit word that counts the threads using an      *)
(* object in its low 28 bits and says in the high ones whether the object  *)
(* is being destroyed.  Each operator is one interlocked instruction.      *)
(***************************************************************************)
EXTENDS Naturals

_REF     == 1
_DESTROY == 268435456   \* 0x10000000
_POISON  == 806203088   \* 0x300DEAD0

RefCount(state) == state % _DESTROY
Destroy(state)  == state \div _DESTROY

reflock_init == 0

reflock_ref(state)   == state + _REF
reflock_unref(state) == state - _REF

\* The thread that dropped the last reference wakes the one that destroys.
Signals(state) == reflock_unref(state) = _DESTROY

reflock_unref_and_destroy(state) == state + _DESTROY - _REF
=============================================================================
