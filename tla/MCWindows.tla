----------------------------- MODULE MCWindows ------------------------------
(***************************************************************************)
(* Windows for TLC: counts that are usual (low) and odd (high, and more    *)
(* than the rate allows).                                                  *)
(***************************************************************************)
EXTENDS Windows

Usual == [total |-> 1, score |-> 0]
Odd == [total |-> 2, score |-> 9]

Drifting == {Usual, Odd}

=============================================================================
