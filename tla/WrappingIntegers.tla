-------------------------- MODULE WrappingIntegers --------------------------
(***************************************************************************)
(* libsponge/wrapping_integers.{hh,cc}: 32-bit sequence numbers that wrap  *)
(* around, and their translation to and from absolute 64-bit positions.    *)
(*                                                                         *)
(* The width is the parameter Base (2^32 in the code), so that wrapping    *)
(* happens on small instances too.  Absolute positions are unbounded here: *)
(* a 64-bit counter of bytes does not reach its end.                       *)
(***************************************************************************)
EXTENDS Integers

CONSTANT Base   \* the number of relative sequence numbers

ASSUME WrappingAssumption == Base \in Nat \ {0}

\* WrappingInt32::raw_value()
WrappingInt32 == 0 .. (Base - 1)

\* operator+ and operator- with a step count: unsigned arithmetic on the
\* raw value.
plus(a, b) == (a + b) % Base

minus(a, b) == (a - b) % Base

wrap(n, isn) == plus(isn, n % Base)

\* Plausible bug: always the wrap the checkpoint is in.
unwrap_same_wrap(n, isn, checkpoint) ==
    LET cp_mod  == checkpoint % Base
        n_mod   == minus(n, isn)
    IN  (checkpoint - cp_mod) + n_mod

unwrap(n, isn, checkpoint) ==
    LET mod0    == checkpoint % Base
        shift   == mod0 = 0 /\ checkpoint >= Base
        cp_mod  == IF shift THEN Base ELSE mod0
        cp_base == checkpoint - cp_mod
        n_mod   == minus(n, isn)
    IN  IF n_mod > cp_mod
        THEN IF cp_base >= Base /\ Base - n_mod + cp_mod <= n_mod - cp_mod
             THEN cp_base - Base + n_mod
             ELSE cp_base + n_mod
        ELSE IF cp_mod - n_mod <= n_mod + Base - cp_mod
             THEN cp_base + n_mod
             ELSE cp_base + Base + n_mod
=============================================================================
