-------------------------------- MODULE Sums --------------------------------
(* What a list of numbers adds up to.                                      *)
EXTENDS Integers, SequencesExt

Total(numbers) == FoldLeft(LAMBDA sum, x : sum + x, 0, numbers)
=============================================================================
