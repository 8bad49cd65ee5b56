---------------------------- MODULE MCLazyLoader ----------------------------
(* Three readers and two unloaders.                                        *)
EXTENDS LazyLoader

MCReader   == {"r1", "r2", "r3"}
MCUnloader == {"u1", "u2"}
=============================================================================
