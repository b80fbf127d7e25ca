---------------------------- MODULE MCContainer ----------------------------
(* Container for TLC: a file system of a few entries, on a device with more  *)
(* containers than one start deletes.                                        *)
EXTENDS Container, TLC

CONSTANT x         \* a byte

MCPayloads == {<<x>>}
============================================================================
