----------------------------- MODULE MCExt4Crypt -----------------------------
(* Constants for Ext4Crypt: the right descriptor length and a wrong one.   *)
EXTENDS Ext4Crypt

MCLengths == {EXT4_KEY_DESCRIPTOR_SIZE, 16}
=============================================================================
