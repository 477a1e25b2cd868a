---------------------------- MODULE RegisterBits ----------------------------
(* Registers as sets of bit numbers, and the numbers they stand for: a      *)
(* masked write is set algebra, and 32-bit values need no 32-bit arithmetic *)
(* of the checker.                                                          *)
EXTENDS Integers

BitsOf(n) == {i \in 0..15 : (n \div 2^i) % 2 = 1}
\* The value of the low sixteen bits.
Number(bits) ==
    LET sum[n \in 0..16] == IF n = 0 THEN 0 ELSE sum[n - 1] + (IF n - 1 \in bits THEN 2^(n - 1) ELSE 0)
    IN  sum[16]

\* The bits of `size` bytes at `reg`; a value placed there and taken from there.
Lanes(reg, size) == (8 * reg)..(8 * (reg + size) - 1)
Place(value, reg) == {b + 8 * reg : b \in value}
Take(bits, reg, size) == {b - 8 * reg : b \in bits \cap Lanes(reg, size)}
=============================================================================
