------------------------------ MODULE MCCkvfs ------------------------------
(* Ckvfs for TLC: the payloads and the symmetry of the small instances.    *)
EXTENDS Ckvfs, TLC

CONSTANTS x, y     \* two bytes

\* With MAX_BLOCK = 5: one that only fits in a file of the root (and is refused
\* there when strlen runs on), one that never fits, and one that fits in any file
\* of the first two levels, since strlen stops at its second byte, though it is
\* longer than the block.
MCPayloads == {<<y, y, y>>, <<x, x, x, x, x, x>>, <<x, NUL, y, y, y, y>>}

\* The last reply is an output: no action reads it.  Under this view TLC takes
\* every step from every store, and checks the properties of steps on them.
StoreView == <<store, mounted>>

\* A draw may return any free key, and no action tells two keys apart.
Symmetry == Permutations(Ids)
============================================================================
