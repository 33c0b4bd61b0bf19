------------------------------- MODULE Bytes -------------------------------
(***************************************************************************)
(* UINT8 values and the bit operations BootApp.c applies to them:          *)
(* byte & (1 << n), byte | (1 << n), byte & ~(1 << n).                     *)
(***************************************************************************)
EXTENDS Integers

Byte == 0 .. 255

Bit(byte, n) == (byte \div 2^n) % 2
SetBit(byte, n) == IF Bit(byte, n) = 1 THEN byte ELSE byte + 2^n
ClearBit(byte, n) == IF Bit(byte, n) = 0 THEN byte ELSE byte - 2^n

\* (INT8) of a byte.
SignedByte(byte) == IF byte < 128 THEN byte ELSE byte - 256

=============================================================================
