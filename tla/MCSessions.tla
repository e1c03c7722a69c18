---------------------------- MODULE MCSessions ----------------------------
(* Instances of Sessions for TLC.                                          *)
EXTENDS Sessions, TLC

\* Connections, UINs and cookies are interchangeable (safety runs only).
Symmetry == Permutations(Conns) \cup Permutations(Uins) \cup Permutations(Cookies)

===========================================================================
