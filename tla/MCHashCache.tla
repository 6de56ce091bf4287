----------------------------- MODULE MCHashCache -----------------------------
(***************************************************************************)
(* A small instance of HashCache for TLC: values whose probes collide and  *)
(* wrap around, and lengths that fill the memory before the table in some  *)
(* orders and after it in others.                                          *)
(***************************************************************************)
EXTENDS HashCache

MCData == {"d1", "d2", "d3", "d4", "d5", "d6"}

MCHash == [d \in MCData |-> CASE d = "d1" -> 0 [] d = "d2" -> 4 [] d = "d3" -> 3
                              [] d = "d4" -> 7 [] d = "d5" -> 1 [] d = "d6" -> 2]

MCLength == [d \in MCData |-> IF d = "d5" THEN 4 ELSE 1]
=============================================================================
