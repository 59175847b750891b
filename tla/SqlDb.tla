--------------------------------- MODULE SqlDb ---------------------------------
(* database/sql over a driver: one DB, its connection, and the statements, rows
   and transactions made on it.  The driver is external: any call of it may
   fail.  Driver objects are numbered in the order they are made; closes counts
   the Close calls a driver statement or driver rows got.                      *)
EXTENDS Naturals, Sequences

CONSTANTS MaxConns, MaxStmts, MaxRows, MaxTxs

VARIABLES fast,    \* whether the driver's Conn is an Execer, and a Queryer
          conns,   \* the driver's connections, TRUE while open
          conn,    \* DB.conn, 0 for nil
          stmts,   \* the driver's statements: [conn, stmt, closes], stmt for a Stmt of the caller
          rows,    \* Rows and Row: [stmt, closed, closes, single, scanned, lastErr]
          txs      \* Tx: [conn, done, ends]
sqlVars == <<fast, conns, conn, stmts, rows, txs>>

SqlInit == /\ fast \in [exec : BOOLEAN, query : BOOLEAN]
           /\ conns = <<>> /\ conn = 0 /\ stmts = <<>> /\ rows = <<>> /\ txs = <<>>

-----------------------------------------------------------------------------
(* getConn: opened on first use, and again after Close; when that fails the
   operation returns the error and nothing changes.                           *)
GetConn(c) ==
    IF conn # 0 THEN c = conn /\ UNCHANGED <<conns, conn>>
    ELSE /\ Len(conns) < MaxConns
         /\ c = Len(conns) + 1
         /\ conns' = Append(conns, TRUE) /\ conn' = c

Ping == \E c \in 1..MaxConns : GetConn(c) /\ conn = 0 /\ UNCHANGED <<fast, stmts, rows, txs>>

CloseDB ==
    /\ conn # 0
    /\ conns' = [conns EXCEPT ![conn] = FALSE]
    /\ conn' = 0
    /\ UNCHANGED <<fast, stmts, rows, txs>>

(* A statement of the package's own, closed so many times already. *)
NewStmt(c, closes) ==
    /\ Len(stmts) < MaxStmts
    /\ stmts' = Append(stmts, [conn |-> c, stmt |-> FALSE, closes |-> closes])
NewRows(stmt, single) ==
    /\ Len(rows) < MaxRows
    /\ rows' = Append(rows, [stmt |-> stmt, closed |-> FALSE, closes |-> 0, single |-> single,
                             scanned |-> FALSE, lastErr |-> ""])

(* Exec of DB and of Tx: the driver's own, or a statement that is prepared,
   executed and closed whether or not the execution failed.                   *)
ExecOn(c) ==
    /\ ~fast.exec
    /\ NewStmt(c, 1)
    /\ UNCHANGED rows

(* Query and QueryRow: failed says that the query failed after the statement
   was prepared.                                                              *)
QueryOn_LeaksOnError(c, single, failed) ==
    \/ fast.query /\ ~failed /\ NewRows(0, single) /\ UNCHANGED stmts
    \/ ~fast.query /\ failed /\ NewStmt(c, 0) /\ UNCHANGED rows
    \/ ~fast.query /\ ~failed /\ NewStmt(c, 0) /\ NewRows(Len(stmts) + 1, single)

QueryOn(c, single, failed) ==
    \/ fast.query /\ ~failed /\ NewRows(0, single) /\ UNCHANGED stmts
    \/ ~fast.query /\ failed /\ NewStmt(c, 1) /\ UNCHANGED rows
    \/ ~fast.query /\ ~failed /\ NewStmt(c, 0) /\ NewRows(Len(stmts) + 1, single)

PrepareOn(c) ==
    /\ Len(stmts) < MaxStmts
    /\ stmts' = Append(stmts, [conn |-> c, stmt |-> TRUE, closes |-> 0])
    /\ UNCHANGED rows

DBExec == \E c \in 1..MaxConns : GetConn(c) /\ ExecOn(c) /\ UNCHANGED <<fast, txs>>
DBQuery(single, failed) ==
    \E c \in 1..MaxConns : GetConn(c) /\ QueryOn(c, single, failed) /\ UNCHANGED <<fast, txs>>
DBPrepare == \E c \in 1..MaxConns : GetConn(c) /\ PrepareOn(c) /\ UNCHANGED <<fast, txs>>

Begin ==
    \E c \in 1..MaxConns :
      /\ GetConn(c)
      /\ Len(txs) < MaxTxs
      /\ txs' = Append(txs, [conn |-> c, done |-> FALSE, ends |-> 0])
      /\ UNCHANGED <<fast, stmts, rows>>

-----------------------------------------------------------------------------
(* Tx: done is set before the driver is asked, so a failed Commit ends it too. *)
EndTx(t) ==
    /\ t \in DOMAIN txs /\ ~txs[t].done
    /\ txs' = [txs EXCEPT ![t].done = TRUE, ![t].ends = @ + 1]
    /\ UNCHANGED <<fast, conns, conn, stmts, rows>>

TxOp(t, Op(_)) == /\ t \in DOMAIN txs /\ ~txs[t].done
                  /\ Op(txs[t].conn)
                  /\ UNCHANGED <<fast, conns, conn, txs>>
TxExec(t) == TxOp(t, ExecOn)
TxQuery(t, single, failed) == TxOp(t, LAMBDA c : QueryOn(c, single, failed))
TxPrepare(t) == TxOp(t, PrepareOn)

-----------------------------------------------------------------------------
(* Stmt: its rows do not own it. *)
StmtQuery(s, single) ==
    /\ s \in DOMAIN stmts /\ stmts[s].stmt
    /\ NewRows(0, single)
    /\ UNCHANGED <<fast, conns, conn, stmts, txs>>
StmtClose(s) ==
    /\ s \in DOMAIN stmts /\ stmts[s].stmt /\ stmts[s].closes < 2
    /\ stmts' = [stmts EXCEPT ![s].closes = @ + 1]
    /\ UNCHANGED <<fast, conns, conn, rows, txs>>

(* Rows.Close and what it does to the statement the rows own. *)
Closed(r, e) ==
    /\ rows' = [rows EXCEPT ![r].closed = TRUE, ![r].lastErr = e, ![r].scanned = @ \/ rows[r].single,
                            ![r].closes = @ + 1]
    /\ stmts' = IF rows[r].stmt = 0 THEN stmts
                ELSE [stmts EXCEPT ![rows[r].stmt].closes = @ + 1]

RowsClose(r) ==
    /\ r \in DOMAIN rows /\ ~rows[r].single /\ ~rows[r].closed
    /\ Closed(r, rows[r].lastErr)
    /\ UNCHANGED <<fast, conns, conn, txs>>

(* The driver has a row, no more rows, or an error. *)
RowsNext(r, e) ==
    /\ r \in DOMAIN rows /\ ~rows[r].single /\ ~rows[r].closed
    /\ rows' = [rows EXCEPT ![r].lastErr = IF e = "" THEN @ ELSE e]
    /\ UNCHANGED <<fast, conns, conn, stmts, txs>>

(* Row.Scan: closes the rows on every way out; a second Scan finds them so. *)
RowScan(r, e) ==
    /\ r \in DOMAIN rows /\ rows[r].single /\ ~rows[r].closed
    /\ Closed(r, e)
    /\ UNCHANGED <<fast, conns, conn, txs>>

Errors == {"", "EOF", "failed"}
SqlNext ==
    \/ Ping \/ CloseDB \/ DBExec \/ DBPrepare \/ Begin
    \/ \E single, failed \in BOOLEAN : DBQuery(single, failed)
    \/ \E t \in 1..MaxTxs : EndTx(t) \/ TxExec(t) \/ TxPrepare(t)
    \/ \E t \in 1..MaxTxs, single, failed \in BOOLEAN : TxQuery(t, single, failed)
    \/ \E s \in 1..MaxStmts, single \in BOOLEAN : StmtQuery(s, single)
    \/ \E s \in 1..MaxStmts : StmtClose(s)
    \/ \E r \in 1..MaxRows : RowsClose(r)
    \/ \E r \in 1..MaxRows, e \in Errors : RowsNext(r, e) \/ RowScan(r, e)

SqlSpec == SqlInit /\ [][SqlNext]_sqlVars

-----------------------------------------------------------------------------
(* database/sql releases what it takes from the driver: a statement it prepared
   by itself is closed once, and is open only while the rows it gave are; the
   driver's rows are closed once; a Row that was scanned is closed.            *)
Owner(s) == {r \in DOMAIN rows : rows[r].stmt = s}
DriverObjectsReleased ==
    /\ \A s \in DOMAIN stmts :
         ~stmts[s].stmt =>
           /\ stmts[s].closes <= 1
           /\ stmts[s].closes = 0 => \E r \in Owner(s) : ~rows[r].closed
    /\ \A r \in DOMAIN rows :
         /\ rows[r].closes = (IF rows[r].closed THEN 1 ELSE 0)
         /\ rows[r].closed /\ rows[r].stmt # 0 => stmts[rows[r].stmt].closes = 1

(* A DB holds at most one open connection of the driver, and none once it is
   closed; a transaction is ended at most once, on the connection it began on. *)
OneConnection ==
    /\ {c \in DOMAIN conns : conns[c]} = IF conn = 0 THEN {} ELSE {conn}
    /\ \A t \in DOMAIN txs : txs[t].ends = (IF txs[t].done THEN 1 ELSE 0)

(* database/sql gives back what it takes from the driver: a statement the package
   prepared by itself is closed once, and is open only while its rows are; the
   driver's rows are closed once; no connection but DB.conn is left open.       *)
DbReleases == DriverObjectsReleased /\ OneConnection
=============================================================================
