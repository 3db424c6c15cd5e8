------------------------------ MODULE MCRoutes ------------------------------
(***************************************************************************)
(* TLC instances of Routes.                                                *)
(***************************************************************************)
EXTENDS Routes, TLC

CONSTANTS home, code, table, picture, secret

Wants(n) == [name |-> n, q |-> "absent"]
Refuses(n) == [name |-> n, q |-> "zero"]

\* Headers of a browser and of a client that takes anything but brotli.
MCAccepts == {<<Wants("gzip"), Wants("br")>>, <<Refuses("br"), Wants("*")>>}

MCFileOf == [p \in Paths |->
    CASE p \in {code, home, secret} -> [kind |-> "script", big |-> TRUE, packs |-> TRUE]
      [] p = table -> [kind |-> "table", big |-> TRUE, packs |-> TRUE]
      [] OTHER -> [kind |-> "picture", big |-> TRUE, packs |-> FALSE]]

\* Two ticks a second.
MCSecondOf == [t \in Times |-> t \div 2]
=============================================================================
