------------------------------ MODULE MCMachines ------------------------------
(* The packages that keep state between calls: container/list, database/sql,
   archive/zip and archive/tar.  A behaviour is a sequence of calls on one of
   them, chosen at the start; the others stay as they were made.              *)
EXTENDS SqlDb, LinkedList, Archives

VARIABLE unit    \* the package that is called

(* One name is a prefix of the other; one content is empty. *)
MCNames == {<<"a">>, <<"a", "b">>}
MCChunks == {<<>>, <<1>>, <<2, 2>>}

vars == <<listVars, sqlVars, zipVars, tarVars, unit>>

Init == /\ unit \in {"list", "sql", "zip", "tar"}
        /\ ListInit
        /\ SqlInit
        /\ unit # "sql" => ~fast.exec /\ ~fast.query
        /\ ZipInit
        /\ TarInit

Next == /\ unit' = unit
        /\ \/ unit = "list" /\ ListNext /\ UNCHANGED <<sqlVars, zipVars, tarVars>>
           \/ unit = "sql" /\ SqlNext /\ UNCHANGED <<listVars, zipVars, tarVars>>
           \/ unit = "zip" /\ ZipNext /\ UNCHANGED <<listVars, sqlVars, tarVars>>
           \/ unit = "tar" /\ TarNext /\ UNCHANGED <<listVars, sqlVars, zipVars>>

Spec == Init /\ [][Next]_vars
=============================================================================
