----------------------------- MODULE MCDispatch -----------------------------
(* Instances of Dispatch for TLC. *)
EXTENDS Dispatch, TLC

\* The first of two steps is gated; and both.
FirstGated == {1}
BothGated  == {1, 2}

\* Engine processes are interchangeable (safety runs only).
SymmetricProcs == Permutations(Procs)

=============================================================================
