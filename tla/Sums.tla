-------------------------------- MODULE Sums --------------------------------
(***************************************************************************)
(* The numbers of game.c: those of 32 bits, and the loops of game.c and    *)
(* dealer.c that only add up.                                              *)
(***************************************************************************)
EXTENDS Integers

CONSTANT INT32_MAX      \* the largest int32_t; 2^31 - 1 in the code

ASSUME Int32Assumption == INT32_MAX \in Nat \ {0}

Int32s == -(INT32_MAX + 1) .. INT32_MAX

\* What is left of a result in an int32_t.  For C an overflow is undefined; what
\* is built of it wraps around.
Int32(n) == ((n + INT32_MAX + 1) % (2 * (INT32_MAX + 1))) - (INT32_MAX + 1)

\* f[1] + ... + f[n], as a recursive function and not a fold: theorems unfold it
\* entry by entry.
SumTo(f, n) ==
    LET sum[i \in 0 .. n] == IF i = 0 THEN 0 ELSE sum[i - 1] + f[i]
    IN sum[n]

=============================================================================
