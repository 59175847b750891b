--------------------------- MODULE MCModuleLoader ---------------------------
(* The entry and three packages of up to two imports each; two of the three *)
(* have one header name, as a/x/y and b/x/y do.                             *)
EXTENDS ModuleLoader
CONSTANTS p1, p2, p3

Packages == {Entry, p1, p2, p3}
Files == {<<>>} \union Packages \X Packages \union {<<p>> : p \in Packages}
Names == [p \in Packages |-> IF p \in {p1, p2} THEN "x_y" ELSE IF p = p3 THEN "z" ELSE "main"]

=============================================================================
