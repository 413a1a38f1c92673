------------------------------ MODULE MCDebouncer ------------------------------
(***************************************************************************)
(* Debouncer for TLC.                                                      *)
(***************************************************************************)
EXTENDS Debouncer

\* Two servers that change mode, or are removed, independently.
Policies == {[mode |-> "off", window |-> 0], [mode |-> "trailing", window |-> 1]}
=============================================================================
