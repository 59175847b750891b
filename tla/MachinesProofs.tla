----------------------------- MODULE MachinesProofs -----------------------------
(* Theorems about SqlDb, LinkedList and Archives, the packages that keep state
   between calls, for any bounds and any sequence of calls.                      *)
EXTENDS SqlDb, LinkedList, Archives, SequenceTheorems, FiniteSetTheorems, WellFoundedInduction,
        NaturalsInduction, TLAPS

-----------------------------------------------------------------------------
(* database/sql.

   That a statement of the package's own is closed once depends on who owns it:
   the rows a query returned, alone, and nobody once a query or an execution has
   failed or ended.  So the inductive invariant says whose each statement is, and
   that the rows and the statement they own have been closed equally often.      *)

Stmt == [conn : Nat, stmt : BOOLEAN, closes : Nat]
Rows == [stmt : Nat, closed : BOOLEAN, closes : Nat, single : BOOLEAN, scanned : BOOLEAN,
         lastErr : Errors]
Tx == [conn : Nat, done : BOOLEAN, ends : Nat]

Connected ==
  /\ conns \in Seq(BOOLEAN) /\ conn \in Nat
  /\ {c \in DOMAIN conns : conns[c]} = IF conn = 0 THEN {} ELSE {conn}

Transacted ==
  /\ txs \in Seq(Tx)
  /\ \A t \in DOMAIN txs : txs[t].ends = (IF txs[t].done THEN 1 ELSE 0)

\* The statement that rows own is one of the package's own, and theirs alone.
Owned ==
  \A r \in DOMAIN rows :
    /\ rows[r].closes = (IF rows[r].closed THEN 1 ELSE 0)
    /\ rows[r].stmt # 0 =>
         /\ rows[r].stmt \in DOMAIN stmts
         /\ ~stmts[rows[r].stmt].stmt
         /\ stmts[rows[r].stmt].closes = rows[r].closes
         /\ \A q \in DOMAIN rows : rows[q].stmt = rows[r].stmt => q = r

\* A statement of the package's own that nobody owns has been closed.
Released ==
  \A s \in DOMAIN stmts : ~stmts[s].stmt =>
    \/ stmts[s].closes = 1
    \/ stmts[s].closes = 0 /\ \E r \in DOMAIN rows : rows[r].stmt = s

Held ==
  /\ stmts \in Seq(Stmt) /\ rows \in Seq(Rows)
  /\ Owned /\ Released

SqlInvariant == Connected /\ Transacted /\ Held

LEMMA SqlInvariantReleases == SqlInvariant => DbReleases
<1> SUFFICES ASSUME SqlInvariant PROVE DbReleases
  OBVIOUS
<1>1. OneConnection
  BY DEF SqlInvariant, Connected, Transacted, OneConnection
<1>2. ASSUME NEW s \in DOMAIN stmts, ~stmts[s].stmt
      PROVE  /\ stmts[s].closes <= 1
             /\ stmts[s].closes = 0 => \E r \in Owner(s) : ~rows[r].closed
  <2>1. CASE stmts[s].closes = 1
    BY <2>1
  <2>2. CASE stmts[s].closes = 0 /\ \E r \in DOMAIN rows : rows[r].stmt = s
    <3>1. PICK r \in DOMAIN rows : rows[r].stmt = s
      BY <2>2
    <3>2. s # 0
      <4>1. DOMAIN stmts = 1..Len(stmts)
        BY LenProperties DEF SqlInvariant, Held
      <4> QED BY <4>1
    <3>3. rows[r].closes = 0 /\ ~rows[r].closed
      BY <2>2, <3>1, <3>2 DEF SqlInvariant, Held, Owned
    <3>4. r \in Owner(s)
      BY <3>1 DEF Owner
    <3> QED BY <2>2, <3>3, <3>4
  <2> QED BY <1>2, <2>1, <2>2 DEF SqlInvariant, Held, Released
<1>3. ASSUME NEW r \in DOMAIN rows
      PROVE  /\ rows[r].closes = (IF rows[r].closed THEN 1 ELSE 0)
             /\ rows[r].closed /\ rows[r].stmt # 0 => stmts[rows[r].stmt].closes = 1
  BY DEF SqlInvariant, Held, Owned
<1> QED BY <1>1, <1>2, <1>3 DEF DbReleases, DriverObjectsReleased

-----------------------------------------------------------------------------
(* Connections and transactions.                                           *)

LEMMA GetConnKeeps ==
  ASSUME Connected, NEW c, GetConn(c)
  PROVE  Connected' /\ c \in Nat
<1>1. DOMAIN conns = 1..Len(conns) /\ Len(conns) \in Nat /\ conns \in Seq(BOOLEAN)
  BY LenProperties DEF Connected
<1>2. CASE conn # 0
  BY <1>2 DEF GetConn, Connected
<1>3. CASE conn = 0
  <2>1. c = Len(conns) + 1 /\ conns' = Append(conns, TRUE) /\ conn' = c
    BY <1>3 DEF GetConn
  <2>2. /\ conns' \in Seq(BOOLEAN) /\ DOMAIN conns' = 1..(Len(conns) + 1) /\ conns'[Len(conns) + 1] = TRUE
        /\ \A i \in 1..Len(conns) : conns'[i] = conns[i]
    BY <1>1, <2>1, AppendProperties, LenProperties
  <2>3. \A i \in 1..Len(conns) : conns[i] = FALSE
    <3>1. \A i \in 1..Len(conns) : conns[i] \in BOOLEAN /\ ~conns[i]
      BY <1>1, <1>3, ElementOfSeq DEF Connected
    <3> QED BY <3>1
  <2>4. {i \in DOMAIN conns' : conns'[i]} = {Len(conns) + 1}
    <3>1. \A i \in 1..(Len(conns) + 1) : i = Len(conns) + 1 \/ i \in 1..Len(conns)
      BY <1>1
    <3>2. Len(conns) + 1 \in 1..(Len(conns) + 1)
      BY <1>1
    <3> QED BY <2>2, <2>3, <3>1, <3>2
  <2> QED BY <1>1, <2>1, <2>2, <2>4 DEF Connected
<1> QED BY <1>2, <1>3

LEMMA CloseDBKeeps ==
  ASSUME Connected, CloseDB
  PROVE  Connected'
<1>1. /\ conns' = [conns EXCEPT ![conn] = FALSE] /\ conn' = 0 /\ conn # 0
      /\ DOMAIN conns = 1..Len(conns) /\ Len(conns) \in Nat /\ conns \in Seq(BOOLEAN)
  BY LenProperties DEF CloseDB, Connected
<1>2. conns' \in Seq(BOOLEAN)
  <2>1. conn \in {c \in DOMAIN conns : conns[c]}
    BY <1>1 DEF Connected
  <2>2. conn \in 1..Len(conns)
    BY <1>1, <2>1
  <2> QED BY <1>1, <2>2, ExceptSeq
<1>3. \A i \in DOMAIN conns' : i \in DOMAIN conns /\ conns'[i] = IF i = conn THEN FALSE ELSE conns[i]
  BY <1>1
<1>4. \A i \in DOMAIN conns : conns[i] => i = conn
  BY <1>1 DEF Connected
<1>5. {i \in DOMAIN conns' : conns'[i]} = {}
  BY <1>3, <1>4
<1> QED BY <1>1, <1>2, <1>5 DEF Connected

LEMMA BeginKeeps ==
  ASSUME Transacted, NEW c \in Nat, txs' = Append(txs, [conn |-> c, done |-> FALSE, ends |-> 0])
  PROVE  Transacted'
<1>1. [conn |-> c, done |-> FALSE, ends |-> 0] \in Tx /\ txs \in Seq(Tx)
  BY DEF Tx, Transacted
<1>2. /\ txs' \in Seq(Tx) /\ DOMAIN txs' = 1..(Len(txs) + 1) /\ DOMAIN txs = 1..Len(txs) /\ Len(txs) \in Nat
      /\ txs'[Len(txs) + 1] = [conn |-> c, done |-> FALSE, ends |-> 0]
      /\ \A i \in 1..Len(txs) : txs'[i] = txs[i]
  BY <1>1, AppendProperties, LenProperties
<1>3. ASSUME NEW t \in DOMAIN txs' PROVE txs'[t].ends = (IF txs'[t].done THEN 1 ELSE 0)
  <2>1. CASE t = Len(txs) + 1
    BY <1>2, <2>1
  <2>2. CASE t # Len(txs) + 1
    <3>1. t \in 1..Len(txs)
      BY <1>2, <2>2
    <3> QED BY <1>2, <3>1 DEF Transacted
  <2> QED BY <2>1, <2>2
<1> QED BY <1>2, <1>3 DEF Transacted

LEMMA EndTxKeeps ==
  ASSUME Transacted, NEW t, EndTx(t)
  PROVE  Transacted'
<1>1. /\ t \in DOMAIN txs /\ ~txs[t].done /\ txs \in Seq(Tx)
      /\ txs' = [txs EXCEPT ![t].done = TRUE, ![t].ends = @ + 1]
  BY DEF EndTx, Transacted
<1>2. txs[t] \in Tx /\ txs[t].ends = 0
  BY <1>1, ElementOfSeq, LenProperties DEF Transacted
<1>3. DOMAIN txs' = DOMAIN txs /\ \A i \in DOMAIN txs : i # t => txs'[i] = txs[i]
  BY <1>1
<1>4. txs'[t] = [txs[t] EXCEPT !.done = TRUE, !.ends = @ + 1]
  BY <1>1
<1>5. txs'[t] \in Tx /\ txs'[t].done = TRUE /\ txs'[t].ends = 1
  <2>1. txs[t].conn \in Nat /\ txs[t] = [conn |-> txs[t].conn, done |-> txs[t].done, ends |-> 0]
    BY <1>2 DEF Tx
  <2>2. 0 + 1 = 1 /\ 1 \in Nat
    OBVIOUS
  <2>3. txs'[t] = [conn |-> txs[t].conn, done |-> TRUE, ends |-> 1]
    BY <1>2, <1>4, <2>1, <2>2
  <2> QED BY <2>1, <2>2, <2>3 DEF Tx
<1>6. txs' \in Seq(Tx)
  <2>1. txs' = [txs EXCEPT ![t] = txs'[t]]
    BY <1>1
  <2>2. t \in 1..Len(txs)
    BY <1>1, LenProperties
  <2> QED BY <1>1, <1>5, <2>1, <2>2, ExceptSeq
<1> QED BY <1>3, <1>5, <1>6 DEF Transacted

-----------------------------------------------------------------------------
(* Statements and rows.                                                    *)

\* A new statement: of the caller, or of the package and closed again.
LEMMA NewStmtKeeps ==
  ASSUME Held, NEW s \in Stmt, stmts' = Append(stmts, s), rows' = rows, s.stmt \/ s.closes = 1
  PROVE  Held'
<1>1. PICK n \in Nat : n = Len(stmts) /\ DOMAIN stmts = 1..n
  BY LenProperties DEF Held
<1>2. /\ stmts' \in Seq(Stmt) /\ DOMAIN stmts' = 1..(n + 1) /\ stmts'[n + 1] = s
      /\ \A i \in 1..n : stmts'[i] = stmts[i]
  BY <1>1, AppendProperties, LenProperties DEF Held
<1>3. \A i \in 1..n : i \in 1..(n + 1)
  OBVIOUS
<1>4. Owned'
  BY <1>1, <1>2, <1>3 DEF Held, Owned
<1>5. Released'
  <2>1. \A i \in 1..(n + 1) : i = n + 1 \/ i \in 1..n
    OBVIOUS
  <2> QED BY <1>1, <1>2, <2>1 DEF Held, Released
<1> QED BY <1>2, <1>4, <1>5 DEF Held

\* New rows own nothing, or the statement that was just prepared for them.
LEMMA NewRowsKeeps ==
  ASSUME Held, NEW single \in BOOLEAN, NEW stmt, NewRows(stmt, single),
         \/ stmt = 0 /\ stmts' = stmts
         \/ \E c \in Nat : NewStmt(c, 0) /\ stmt = Len(stmts) + 1
  PROVE  Held'
<1>1. PICK n \in Nat, m \in Nat : /\ n = Len(stmts) /\ DOMAIN stmts = 1..n
                                  /\ m = Len(rows) /\ DOMAIN rows = 1..m
  BY LenProperties DEF Held
<1> DEFINE row == [stmt |-> stmt, closed |-> FALSE, closes |-> 0, single |-> single,
                   scanned |-> FALSE, lastErr |-> ""]
<1>2. stmt \in Nat /\ row \in Rows
  BY <1>1 DEF Rows, Errors
<1>3. rows' = Append(rows, row)
  BY DEF NewRows
<1>4. /\ row.stmt = stmt /\ ~row.closed /\ row.closes = 0
  OBVIOUS
<1> HIDE DEF row
<1>5. /\ rows' \in Seq(Rows) /\ DOMAIN rows' = 1..(m + 1) /\ rows'[m + 1] = row
      /\ \A i \in 1..m : rows'[i] = rows[i]
  BY <1>1, <1>2, <1>3, AppendProperties, LenProperties DEF Held
<1>6. /\ \A i \in 1..(m + 1) : i = m + 1 \/ i \in 1..m
      /\ \A i \in 1..m : i \in 1..(m + 1) /\ i # m + 1
      /\ m + 1 \in 1..(m + 1)
  OBVIOUS
<1>7. CASE stmt = 0 /\ stmts' = stmts
  <2>1. Owned'
    BY <1>1, <1>4, <1>5, <1>6, <1>7 DEF Held, Owned
  <2>2. Released'
    BY <1>1, <1>5, <1>6, <1>7 DEF Held, Released
  <2> QED BY <1>5, <1>7, <2>1, <2>2 DEF Held
<1>8. CASE \E c \in Nat : NewStmt(c, 0) /\ stmt = n + 1
  <2>1. PICK s \in Stmt : stmts' = Append(stmts, s) /\ ~s.stmt /\ s.closes = 0
    <3>1. PICK c \in Nat : stmts' = Append(stmts, [conn |-> c, stmt |-> FALSE, closes |-> 0])
      BY <1>8 DEF NewStmt
    <3>2. [conn |-> c, stmt |-> FALSE, closes |-> 0] \in Stmt
      BY DEF Stmt
    <3> QED BY <3>1, <3>2
  <2>2. /\ stmts' \in Seq(Stmt) /\ DOMAIN stmts' = 1..(n + 1) /\ stmts'[n + 1] = s
        /\ \A i \in 1..n : stmts'[i] = stmts[i]
    BY <1>1, <2>1, AppendProperties, LenProperties DEF Held
  <2>3. /\ \A i \in 1..(n + 1) : i = n + 1 \/ i \in 1..n
        /\ \A i \in 1..n : i \in 1..(n + 1) /\ i # n + 1
        /\ n + 1 \in 1..(n + 1) /\ n + 1 # 0
    OBVIOUS
  <2>4. stmt = n + 1 /\ \A i \in 1..m : rows[i].stmt # 0 => rows[i].stmt \in 1..n
    BY <1>1, <1>8 DEF Held, Owned
  <2>5. ASSUME NEW r \in 1..m, rows[r].stmt # 0
        PROVE  /\ rows[r].stmt \in 1..n /\ ~stmts[rows[r].stmt].stmt
               /\ stmts[rows[r].stmt].closes = rows[r].closes
               /\ \A q \in 1..m : rows[q].stmt = rows[r].stmt => q = r
    BY <1>1, <2>5 DEF Held, Owned
  <2>6. Owned'
    <3> SUFFICES ASSUME NEW r \in 1..(m + 1)
                 PROVE  /\ rows'[r].closes = (IF rows'[r].closed THEN 1 ELSE 0)
                        /\ rows'[r].stmt # 0 =>
                             /\ rows'[r].stmt \in 1..(n + 1)
                             /\ ~stmts'[rows'[r].stmt].stmt
                             /\ stmts'[rows'[r].stmt].closes = rows'[r].closes
                             /\ \A q \in 1..(m + 1) : rows'[q].stmt = rows'[r].stmt => q = r
      BY <1>5, <2>2 DEF Owned
    <3>1. CASE r = m + 1
      BY <1>4, <1>5, <1>6, <2>1, <2>2, <2>3, <2>4, <3>1
    <3>2. CASE r \in 1..m
      <4>1. rows'[r] = rows[r] /\ rows[r].closes = (IF rows[r].closed THEN 1 ELSE 0)
        BY <1>1, <1>5, <3>2 DEF Held, Owned
      <4>2. ASSUME rows[r].stmt # 0, NEW q \in 1..(m + 1), rows'[q].stmt = rows[r].stmt PROVE q = r
        <5>1. rows[r].stmt \in 1..n
          BY <2>5, <3>2, <4>2
        <5>2. q \in 1..m
          BY <1>4, <1>5, <1>6, <2>3, <2>4, <4>2, <5>1
        <5> QED BY <1>5, <2>5, <3>2, <4>2, <5>2
      <4> QED BY <2>2, <2>3, <2>5, <3>2, <4>1, <4>2
    <3> QED BY <1>6, <3>1, <3>2
  <2>7. Released'
    <3> SUFFICES ASSUME NEW i \in 1..(n + 1), ~stmts'[i].stmt
                 PROVE  \/ stmts'[i].closes = 1
                        \/ stmts'[i].closes = 0 /\ \E r \in 1..(m + 1) : rows'[r].stmt = i
      BY <1>5, <2>2 DEF Released
    <3>1. CASE i = n + 1
      BY <1>4, <1>5, <1>6, <2>1, <2>2, <2>4, <3>1
    <3>2. CASE i \in 1..n
      <4>1. stmts[i].closes = 1 \/ (stmts[i].closes = 0 /\ \E r \in 1..m : rows[r].stmt = i)
        BY <1>1, <2>2, <3>2 DEF Held, Released
      <4> QED BY <1>5, <1>6, <2>2, <3>2, <4>1
    <3> QED BY <2>3, <3>1, <3>2
  <2> QED BY <1>5, <2>2, <2>6, <2>7 DEF Held
<1> QED BY <1>1, <1>7, <1>8

\* Stmt.Close, of a statement of the caller.
LEMMA StmtCloseKeeps ==
  ASSUME Held, NEW s, StmtClose(s)
  PROVE  Held'
<1>1. /\ s \in DOMAIN stmts /\ stmts[s].stmt /\ stmts \in Seq(Stmt) /\ rows' = rows
      /\ stmts' = [stmts EXCEPT ![s].closes = @ + 1]
  BY DEF StmtClose, Held
<1>2. stmts[s] \in Stmt
  BY <1>1, ElementOfSeq, LenProperties
<1>3. DOMAIN stmts' = DOMAIN stmts /\ \A i \in DOMAIN stmts : i # s => stmts'[i] = stmts[i]
  BY <1>1
<1>4. stmts'[s] = [stmts[s] EXCEPT !.closes = @ + 1]
  BY <1>1
<1>5. stmts'[s] \in Stmt /\ stmts'[s].stmt
  BY <1>1, <1>2, <1>4 DEF Stmt
<1>6. stmts' \in Seq(Stmt)
  <2>1. stmts' = [stmts EXCEPT ![s] = stmts'[s]]
    BY <1>1
  <2>2. s \in 1..Len(stmts)
    BY <1>1, LenProperties
  <2> QED BY <1>1, <1>5, <2>1, <2>2, ExceptSeq
<1>7. Owned'
  BY <1>1, <1>3 DEF Held, Owned
<1>8. Released'
  BY <1>1, <1>3, <1>5 DEF Held, Released
<1> QED BY <1>1, <1>6, <1>7, <1>8 DEF Held

\* Rows.Next: only the error is written.
LEMMA RowsNextKeeps ==
  ASSUME Held, NEW r, NEW e \in Errors, RowsNext(r, e)
  PROVE  Held'
<1>1. /\ r \in DOMAIN rows /\ rows \in Seq(Rows) /\ stmts' = stmts
      /\ rows' = [rows EXCEPT ![r].lastErr = IF e = "" THEN @ ELSE e]
  BY DEF RowsNext, Held
<1>2. rows[r] \in Rows
  BY <1>1, ElementOfSeq, LenProperties
<1>3. rows'[r] = [rows[r] EXCEPT !.lastErr = IF e = "" THEN @ ELSE e]
  BY <1>1
<1>4. rows'[r] \in Rows
  BY <1>2, <1>3 DEF Rows
<1>5. rows' \in Seq(Rows)
  <2>1. rows' = [rows EXCEPT ![r] = rows'[r]]
    BY <1>1
  <2>2. r \in 1..Len(rows)
    BY <1>1, LenProperties
  <2> QED BY <1>1, <1>4, <2>1, <2>2, ExceptSeq
<1>6. /\ DOMAIN rows' = DOMAIN rows
      /\ \A i \in DOMAIN rows : /\ rows'[i].stmt = rows[i].stmt /\ rows'[i].closes = rows[i].closes
                                /\ rows'[i].closed = rows[i].closed
  <2>1. rows'[r].stmt = rows[r].stmt /\ rows'[r].closes = rows[r].closes /\ rows'[r].closed = rows[r].closed
    BY <1>2, <1>3 DEF Rows
  <2>2. DOMAIN rows' = DOMAIN rows /\ \A i \in DOMAIN rows : i # r => rows'[i] = rows[i]
    BY <1>1
  <2>3. ASSUME NEW i \in DOMAIN rows
        PROVE  /\ rows'[i].stmt = rows[i].stmt /\ rows'[i].closes = rows[i].closes
               /\ rows'[i].closed = rows[i].closed
    <3>1. CASE i = r
      BY <2>1, <3>1
    <3>2. CASE i # r
      BY <2>2, <3>2
    <3> QED BY <3>1, <3>2
  <2> QED BY <2>2, <2>3
<1>u. stmts' = stmts
  BY <1>1
<1>7. Owned'
  BY <1>u, <1>6 DEF Held, Owned
<1>8. Released'
  BY <1>u, <1>6 DEF Held, Released
<1> QED BY <1>1, <1>5, <1>7, <1>8 DEF Held

LEMMA RowsUpdate ==
  ASSUME NEW w \in Rows, NEW v, NEW scan \in BOOLEAN, NEW e \in Errors,
         v = [w EXCEPT !.closed = TRUE, !.lastErr = e, !.scanned = scan, !.closes = 1]
  PROVE  v \in Rows /\ v.closed /\ v.closes = 1 /\ v.stmt = w.stmt
BY DEF Rows

\* Rows.Close and Row.Scan close the rows and, once, the statement they own.
LEMMA ClosedKeeps ==
  ASSUME Held, NEW r \in DOMAIN rows, ~rows[r].closed, NEW e \in Errors, Closed(r, e)
  PROVE  Held'
<1>1. /\ rows \in Seq(Rows) /\ stmts \in Seq(Stmt) /\ rows[r] \in Rows
      /\ DOMAIN rows = 1..Len(rows) /\ DOMAIN stmts = 1..Len(stmts)
  BY ElementOfSeq, LenProperties DEF Held
<1>2. PICK own : own = rows[r].stmt
  OBVIOUS
<1>3. /\ rows' = [rows EXCEPT ![r].closed = TRUE, ![r].lastErr = e, ![r].scanned = @ \/ rows[r].single,
                              ![r].closes = @ + 1]
      /\ stmts' = IF own = 0 THEN stmts ELSE [stmts EXCEPT ![own].closes = @ + 1]
  BY <1>2 DEF Closed
<1>4. rows'[r] = [rows[r] EXCEPT !.closed = TRUE, !.lastErr = e, !.scanned = @ \/ rows[r].single,
                                 !.closes = @ + 1]
  BY <1>3
<1>5. /\ rows[r].closes = 0
      /\ own # 0 => /\ own \in DOMAIN stmts /\ ~stmts[own].stmt /\ stmts[own].closes = 0
                    /\ \A q \in DOMAIN rows : rows[q].stmt = own => q = r
  BY <1>2 DEF Held, Owned
<1>6. rows'[r] \in Rows /\ rows'[r].closed /\ rows'[r].closes = 1 /\ rows'[r].stmt = own
  <2> DEFINE scan == rows[r].scanned \/ rows[r].single
  <2>1. scan \in BOOLEAN
    OBVIOUS
  <2>2. 0 + 1 = 1 /\ 1 \in Nat /\ TRUE \in BOOLEAN
    OBVIOUS
  <2>3. rows'[r] = [rows[r] EXCEPT !.closed = TRUE, !.lastErr = e, !.scanned = scan, !.closes = 1]
    BY <1>4, <1>5, <2>2
  <2> HIDE DEF scan
  <2>4. /\ rows'[r] \in Rows /\ rows'[r].closed /\ rows'[r].closes = 1
        /\ rows'[r].stmt = rows[r].stmt
    <3> DEFINE v == rows'[r]
    <3>1. rows[r] \in Rows /\ v = [rows[r] EXCEPT !.closed = TRUE, !.lastErr = e, !.scanned = scan, !.closes = 1]
      BY <1>1, <2>3
    <3> HIDE DEF v
    <3>2. v \in Rows /\ v.closed /\ v.closes = 1 /\ v.stmt = rows[r].stmt
      BY <2>1, <3>1, RowsUpdate, Zenon
    <3> QED BY <3>2 DEF v
  <2> QED BY <1>2, <2>4
<1>7. DOMAIN rows' = DOMAIN rows /\ \A i \in DOMAIN rows : i # r => rows'[i] = rows[i]
  BY <1>3
<1>8. rows' \in Seq(Rows)
  <2>1. rows' = [rows EXCEPT ![r] = rows'[r]]
    BY <1>3
  <2> QED BY <1>1, <1>6, <2>1, ExceptSeq
<1>9. /\ DOMAIN stmts' = DOMAIN stmts
      /\ \A i \in DOMAIN stmts : i # own => stmts'[i] = stmts[i]
  BY <1>3
<1>10. ASSUME own # 0 PROVE stmts'[own] \in Stmt /\ ~stmts'[own].stmt /\ stmts'[own].closes = 1
  <2>1. stmts'[own] = [stmts[own] EXCEPT !.closes = @ + 1]
    BY <1>3, <1>5, <1>10
  <2>2. stmts[own] \in Stmt
    BY <1>1, <1>5, <1>10, ElementOfSeq
  <2> QED BY <1>5, <1>10, <2>1, <2>2 DEF Stmt
<1>11. stmts' \in Seq(Stmt)
  <2>1. CASE own = 0
    BY <1>1, <1>3, <2>1
  <2>2. CASE own # 0
    <3>1. stmts' = [stmts EXCEPT ![own] = stmts'[own]]
      BY <1>3, <1>5, <2>2
    <3> QED BY <1>1, <1>5, <1>10, <2>2, <3>1, ExceptSeq
  <2> QED BY <2>1, <2>2
<1>12. Owned'
  <2> SUFFICES ASSUME NEW i \in DOMAIN rows
               PROVE  /\ rows'[i].closes = (IF rows'[i].closed THEN 1 ELSE 0)
                      /\ rows'[i].stmt # 0 =>
                           /\ rows'[i].stmt \in DOMAIN stmts
                           /\ ~stmts'[rows'[i].stmt].stmt
                           /\ stmts'[rows'[i].stmt].closes = rows'[i].closes
                           /\ \A q \in DOMAIN rows : rows'[q].stmt = rows'[i].stmt => q = i
    BY <1>7, <1>9 DEF Owned
  <2>1. \A q \in DOMAIN rows : rows'[q].stmt = rows[q].stmt
    BY <1>2, <1>6, <1>7
  <2>2. CASE i = r
    BY <1>5, <1>6, <1>10, <2>1, <2>2
  <2>3. CASE i # r
    <3>1. rows'[i] = rows[i] /\ (rows[i].stmt # 0 => rows[i].stmt # own)
      BY <1>5, <1>7, <2>3
    <3> QED BY <1>9, <2>1, <3>1 DEF Held, Owned
  <2> QED BY <2>2, <2>3
<1>13. Released'
  <2> SUFFICES ASSUME NEW i \in DOMAIN stmts, ~stmts'[i].stmt
               PROVE  \/ stmts'[i].closes = 1
                      \/ stmts'[i].closes = 0 /\ \E q \in DOMAIN rows : rows'[q].stmt = i
    BY <1>7, <1>9 DEF Released
  <2>1. \A q \in DOMAIN rows : rows'[q].stmt = rows[q].stmt
    BY <1>2, <1>6, <1>7
  <2>2. i # 0
    BY <1>1
  <2>3. CASE i = own
    BY <1>10, <2>2, <2>3
  <2>4. CASE i # own
    BY <1>9, <2>1, <2>4 DEF Held, Released
  <2> QED BY <2>3, <2>4
<1> QED BY <1>8, <1>11, <1>12, <1>13 DEF Held

-----------------------------------------------------------------------------

LEMMA ExecKeeps ==
  ASSUME Held, NEW c \in Nat, ExecOn(c)
  PROVE  Held'
<1>1. PICK s \in Stmt : stmts' = Append(stmts, s) /\ s.closes = 1
  <2>1. [conn |-> c, stmt |-> FALSE, closes |-> 1] \in Stmt
    BY DEF Stmt
  <2> QED BY <2>1 DEF ExecOn, NewStmt
<1> QED BY <1>1, NewStmtKeeps DEF ExecOn

LEMMA PrepareKeeps ==
  ASSUME Held, NEW c \in Nat, PrepareOn(c)
  PROVE  Held'
<1>1. PICK s \in Stmt : stmts' = Append(stmts, s) /\ s.stmt
  <2>1. [conn |-> c, stmt |-> TRUE, closes |-> 0] \in Stmt
    BY DEF Stmt
  <2> QED BY <2>1 DEF PrepareOn
<1> QED BY <1>1, NewStmtKeeps DEF PrepareOn

LEMMA QueryKeeps ==
  ASSUME Held, NEW c \in Nat, NEW single \in BOOLEAN, NEW failed, QueryOn(c, single, failed)
  PROVE  Held'
<1>1. CASE NewRows(0, single) /\ stmts' = stmts
  BY <1>1, NewRowsKeeps
<1>2. CASE NewStmt(c, 1) /\ rows' = rows
  <2>1. PICK s \in Stmt : stmts' = Append(stmts, s) /\ s.closes = 1
    <3>1. [conn |-> c, stmt |-> FALSE, closes |-> 1] \in Stmt
      BY DEF Stmt
    <3> QED BY <1>2, <3>1 DEF NewStmt
  <2> QED BY <1>2, <2>1, NewStmtKeeps
<1>3. CASE NewStmt(c, 0) /\ NewRows(Len(stmts) + 1, single)
  BY <1>3, NewRowsKeeps
<1> QED BY <1>1, <1>2, <1>3 DEF QueryOn

LEMMA TxConn ==
  ASSUME Transacted, NEW t \in DOMAIN txs
  PROVE  txs[t].conn \in Nat
<1>1. txs[t] \in Tx
  BY ElementOfSeq, LenProperties DEF Transacted
<1> QED BY <1>1 DEF Tx

LEMMA SqlInvariantStep == SqlInvariant /\ [SqlNext]_sqlVars => SqlInvariant'
<1> SUFFICES ASSUME SqlInvariant, [SqlNext]_sqlVars PROVE SqlInvariant'
  OBVIOUS
<1> USE DEF SqlInvariant
<1>c. ASSUME conns' = conns, conn' = conn PROVE Connected'
  BY <1>c DEF Connected
<1>t. ASSUME txs' = txs PROVE Transacted'
  BY <1>t DEF Transacted
<1>h. ASSUME stmts' = stmts, rows' = rows PROVE Held'
  BY <1>h DEF Held, Owned, Released
<1>1. CASE Ping
  BY <1>1, <1>t, <1>h, GetConnKeeps DEF Ping
<1>2. CASE CloseDB
  BY <1>2, <1>t, <1>h, CloseDBKeeps DEF CloseDB
<1>3. CASE DBExec
  BY <1>3, <1>t, GetConnKeeps, ExecKeeps DEF DBExec
<1>4. CASE DBPrepare
  BY <1>4, <1>t, GetConnKeeps, PrepareKeeps DEF DBPrepare
<1>5. CASE Begin
  BY <1>5, <1>h, GetConnKeeps, BeginKeeps DEF Begin
<1>6. ASSUME NEW single \in BOOLEAN, NEW failed \in BOOLEAN, DBQuery(single, failed) PROVE SqlInvariant'
  BY <1>6, <1>t, GetConnKeeps, QueryKeeps DEF DBQuery
<1>7. ASSUME NEW t, EndTx(t) PROVE SqlInvariant'
  BY <1>7, <1>c, <1>h, EndTxKeeps DEF EndTx
<1>8. ASSUME NEW t, TxExec(t) PROVE SqlInvariant'
  BY <1>8, <1>c, <1>t, TxConn, ExecKeeps DEF TxExec, TxOp
<1>9. ASSUME NEW t, TxPrepare(t) PROVE SqlInvariant'
  BY <1>9, <1>c, <1>t, TxConn, PrepareKeeps DEF TxPrepare, TxOp
<1>10. ASSUME NEW t, NEW single \in BOOLEAN, NEW failed \in BOOLEAN, TxQuery(t, single, failed)
       PROVE  SqlInvariant'
  BY <1>10, <1>c, <1>t, TxConn, QueryKeeps DEF TxQuery, TxOp
<1>11. ASSUME NEW s, NEW single \in BOOLEAN, StmtQuery(s, single) PROVE SqlInvariant'
  BY <1>11, <1>c, <1>t, NewRowsKeeps DEF StmtQuery
<1>12. ASSUME NEW s, StmtClose(s) PROVE SqlInvariant'
  BY <1>12, <1>c, <1>t, StmtCloseKeeps DEF StmtClose
<1>13. ASSUME NEW r, RowsClose(r) PROVE SqlInvariant'
  <2>1. r \in DOMAIN rows /\ ~rows[r].closed /\ Closed(r, rows[r].lastErr)
        /\ UNCHANGED <<conns, conn, txs>>
    BY <1>13 DEF RowsClose
  <2>2. rows[r].lastErr \in Errors
    <3>1. rows[r] \in Rows
      BY <2>1, ElementOfSeq, LenProperties DEF Held
    <3> QED BY <3>1 DEF Rows
  <2> QED BY <2>1, <2>2, <1>c, <1>t, ClosedKeeps
<1>14. ASSUME NEW r, NEW e \in Errors, RowsNext(r, e) PROVE SqlInvariant'
  BY <1>14, <1>c, <1>t, RowsNextKeeps DEF RowsNext
<1>15. ASSUME NEW r, NEW e \in Errors, RowScan(r, e) PROVE SqlInvariant'
  BY <1>15, <1>c, <1>t, ClosedKeeps DEF RowScan
<1>16. CASE UNCHANGED sqlVars
  BY <1>16, <1>c, <1>t, <1>h DEF sqlVars
<1> QED BY <1>1, <1>2, <1>3, <1>4, <1>5, <1>6, <1>7, <1>8, <1>9, <1>10, <1>11, <1>12, <1>13, <1>14,
           <1>15, <1>16 DEF SqlNext

LEMMA SqlInvariantInit == SqlInit => SqlInvariant
<1> SUFFICES ASSUME SqlInit PROVE SqlInvariant
  OBVIOUS
<1>1. <<>> \in Seq(BOOLEAN) /\ <<>> \in Seq(Tx) /\ <<>> \in Seq(Stmt) /\ <<>> \in Seq(Rows)
  BY EmptySeq
<1> QED BY <1>1 DEF SqlInit, SqlInvariant, Connected, Transacted, Held, Owned, Released

\* Through any sequence of calls and failures of the driver, database/sql closes
\* what it opened, once: its own statements, the driver's rows, its connections.
THEOREM EverythingReleased == SqlSpec => []DbReleases
<1>1. SqlSpec => []SqlInvariant
  BY SqlInvariantInit, SqlInvariantStep, PTL DEF SqlSpec
<1> QED BY <1>1, SqlInvariantReleases, PTL

-----------------------------------------------------------------------------
(* container/list.

   IsList says that the pointers of a list and of its elements make up one
   sequence; ListInvariant, that some sequence is there for every list.  Each call
   takes the sequence to the one SeqList names, and leaves the other lists alone.
   The sequence is unique: it is what Met finds, counting the steps down.

   A recursive function has its value because there is one for every bound; were
   there none for some, take the least of these.                              *)

LEMMA Least ==
  ASSUME NEW T, T \subseteq Nat, T # {}
  PROVE  \E x \in T : \A y \in T : x <= y
<1>1. IsWellFoundedOn(OpToRel(<, Nat), Nat)
  BY NatLessThanWellFounded
<1>2. PICK x \in T : \A y \in T : ~(<<y, x>> \in OpToRel(<, Nat))
  BY <1>1, WFMin
<1>3. \A y \in T : ~(y < x)
  BY <1>2 DEF OpToRel
<1> QED BY <1>3

End == Elems \union {Nil}

\* What Met computes on the way: the elements met in k steps.
From(links, field, n, f) ==
  f = [k \in 0..n |->
         [e \in End |->
            IF k = 0 \/ e = Nil THEN <<>> ELSE <<e>> \o f[k - 1][links[e][field]]]]

LEMMA FromExists ==
  ASSUME NEW links, NEW field, NEW n \in Nat
  PROVE  \E f : From(links, field, n, f)
<1> DEFINE T == {x \in Nat : ~\E f : From(links, field, x, f)}
<1>1. SUFFICES ASSUME T # {} PROVE FALSE
  OBVIOUS
<1>2. PICK x \in T : \A y \in T : x <= y
  <2>1. T \subseteq Nat
    OBVIOUS
  <2> HIDE DEF T
  <2> QED BY <1>1, <2>1, Least
<1>3. x \in Nat /\ ~\E f : From(links, field, x, f)
  BY <1>2
<1>4. CASE x = 0
  <2>1. From(links, field, 0, [k \in 0..0 |-> [e \in End |-> <<>>]])
    BY DEF From
  <2> QED BY <1>3, <1>4, <2>1
<1>5. CASE x # 0
  <2>1. x - 1 \in Nat /\ x - 1 < x
    BY <1>3, <1>5
  <2>2. PICK g : From(links, field, x - 1, g)
    BY <1>2, <2>1
  <2> DEFINE h == [k \in 0..x |->
                     IF k < x THEN g[k]
                     ELSE [e \in End |-> IF k = 0 \/ e = Nil THEN <<>>
                                         ELSE <<e>> \o g[k - 1][links[e][field]]]]
  <2>3. \A k \in 0..x : k - 1 \in 0..x /\ k - 1 < x => h[k - 1] = g[k - 1]
    BY <2>1
  <2>4. \A k \in 0..x :
          h[k] = [e \in End |-> IF k = 0 \/ e = Nil THEN <<>>
                                ELSE <<e>> \o h[k - 1][links[e][field]]]
    <3> SUFFICES ASSUME NEW k \in 0..x
                 PROVE  h[k] = [e \in End |-> IF k = 0 \/ e = Nil THEN <<>>
                                ELSE <<e>> \o h[k - 1][links[e][field]]]
      OBVIOUS
    <3>1. h[k] = [e \in End |-> IF k = 0 \/ e = Nil THEN <<>>
                                ELSE <<e>> \o g[k - 1][links[e][field]]]
      <4>1. CASE k < x
        <5>1. k \in 0..(x - 1) /\ h[k] = g[k]
          BY <1>3, <4>1
        <5> QED BY <2>2, <5>1 DEF From
      <4>2. CASE k = x
        BY <4>2
      <4> QED BY <1>3, <4>1, <4>2
    <3>2. CASE k = 0
      BY <3>1, <3>2
    <3>3. CASE k # 0
      <4>1. h[k - 1] = g[k - 1]
        BY <1>3, <2>3, <3>3
      <4> QED BY <3>1, <4>1
    <3> QED BY <3>2, <3>3
  <2>5. DOMAIN h = 0..x /\ h = [k \in 0..x |-> h[k]]
    OBVIOUS
  <2> HIDE DEF h
  <2>6. From(links, field, x, h)
    BY <2>4, <2>5 DEF From
  <2> QED BY <1>3, <2>6
<1> QED BY <1>4, <1>5

\* The path from first along field is s.
Along(links, first, field, s) ==
  /\ s \in Seq(Elems) /\ Len(s) <= Cardinality(Elems)
  /\ first = IF s = <<>> THEN Nil ELSE s[1]
  /\ \A i \in 1..Len(s) : links[s[i]][field] = IF i = Len(s) THEN Nil ELSE s[i + 1]

LEMMA SubSeqOne ==
  ASSUME NEW S, NEW s \in Seq(S), NEW i \in 1..Len(s)
  PROVE  SubSeq(s, i, i) = <<s[i]>>
<1>1. i \in Int /\ (i - i) + 1 = 1
  OBVIOUS
<1>2. SubSeq(s, i, i) \in Seq(S) /\ Len(SubSeq(s, i, i)) = 1 /\ SubSeq(s, i, i)[1] = s[i]
  BY <1>1
<1>3. <<s[i]>> \in Seq(S) /\ Len(<<s[i]>>) = 1 /\ <<s[i]>>[1] = s[i]
  BY ElementOfSeq
<1>4. \A k \in 1..1 : k = 1
  OBVIOUS
<1> QED BY <1>2, <1>3, <1>4, SeqEqual

LEMMA MetIs ==
  ASSUME NEW links, NEW first, NEW field, NEW s, Along(links, first, field, s)
  PROVE  Met(links, first, field) = s
<1>0. /\ s \in Seq(Elems) /\ Len(s) <= Cardinality(Elems)
      /\ first = IF s = <<>> THEN Nil ELSE s[1]
      /\ \A i \in 1..Len(s) : links[s[i]][field] = IF i = Len(s) THEN Nil ELSE s[i + 1]
      /\ Nil \notin Elems /\ IsFiniteSet(Elems)
  BY LinkedListAssumption DEF Along
<1> DEFINE N == Cardinality(Elems)
           n == Len(s)
<1>1. N \in Nat /\ n \in Nat
  BY <1>0, FS_CardinalityType
<1>2. PICK f : f = CHOOSE g : From(links, field, N, g)
  OBVIOUS
<1>3. From(links, field, N, f)
  BY <1>1, <1>2, FromExists
<1>4. Met(links, first, field) = f[N][first]
  BY <1>2 DEF Met, From, End
<1> HIDE DEF N, n
<1>5. \A i \in 1..n, k \in 0..N : k > n - i => f[k][s[i]] = SubSeq(s, i, n)
  <2> DEFINE Fails(x) == \E i \in 1..n, k \in 0..N :
                           x = n - i /\ k > x /\ f[k][s[i]] # SubSeq(s, i, n)
             T == {x \in Nat : Fails(x)}
  <2>1. SUFFICES ASSUME T # {} PROVE FALSE
    <3>1. SUFFICES ASSUME NEW i \in 1..n, NEW k \in 0..N, k > n - i,
                          f[k][s[i]] # SubSeq(s, i, n)
                   PROVE  T # {}
      OBVIOUS
    <3>2. n - i \in Nat /\ Fails(n - i)
      BY <1>1, <3>1
    <3> QED BY <3>2
  <2>2. PICK x \in T : \A y \in T : x <= y
    <3>1. T \subseteq Nat
      OBVIOUS
    <3> HIDE DEF T
    <3> QED BY <2>1, <3>1, Least
  <2>3. PICK i \in 1..n, k \in 0..N : x = n - i /\ k > x /\ f[k][s[i]] # SubSeq(s, i, n)
    BY <2>2
  <2>4. k \in Nat /\ k # 0 /\ i \in Nat /\ x \in Nat
    BY <1>1, <2>2, <2>3
  <2>5. s[i] \in Elems /\ s[i] # Nil /\ s[i] \in End
    BY <1>0, <2>3, ElementOfSeq DEF n, End
  <2>6. f[k] = [e \in End |-> IF k = 0 \/ e = Nil THEN <<>> ELSE <<e>> \o f[k - 1][links[e][field]]]
    BY <1>3 DEF From
  <2>7. f[k][s[i]] = <<s[i]>> \o f[k - 1][links[s[i]][field]]
    BY <2>4, <2>5, <2>6
  <2>8. CASE i = n
    <3>1. links[s[i]][field] = Nil
      BY <1>0, <2>8 DEF n
    <3>2. k - 1 \in 0..N /\ Nil \in End
      BY <1>1, <2>4 DEF End
    <3>3. f[k - 1] = [e \in End |-> IF k - 1 = 0 \/ e = Nil THEN <<>>
                                    ELSE <<e>> \o f[k - 1 - 1][links[e][field]]]
      BY <1>3, <3>2 DEF From
    <3>4. f[k - 1][Nil] = <<>>
      BY <3>2, <3>3
    <3>5. f[k][s[i]] = <<s[i]>>
      BY <2>7, <3>1, <3>4
    <3>6. SubSeq(s, n, n) = <<s[n]>>
      BY <1>0, <2>3, <2>8, SubSeqOne DEF n
    <3> QED BY <2>3, <2>8, <3>5, <3>6
  <2>9. CASE i # n
    <3>1. i + 1 \in 1..n /\ n - (i + 1) = x - 1 /\ x - 1 \in Nat /\ k - 1 \in 0..N /\ k - 1 > x - 1
      BY <1>1, <2>3, <2>4, <2>9
    <3>2. links[s[i]][field] = s[i + 1]
      BY <1>0, <2>3, <2>9 DEF n
    <3>3. ~Fails(x - 1)
      BY <2>2, <2>4, <3>1
    <3>4. f[k - 1][s[i + 1]] = SubSeq(s, i + 1, n)
      BY <3>1, <3>3
    <3>5. SubSeq(s, i, n) = <<s[i]>> \o SubSeq(s, i + 1, n)
      BY <1>0, <2>3, <2>4 DEF n
    <3> QED BY <2>3, <2>7, <3>2, <3>4, <3>5
  <2> QED BY <2>8, <2>9
<1> QED
  <2>1. CASE s = <<>>
    <3>1. Nil \in End /\ N \in 0..N
      BY <1>1 DEF End
    <3>2. f[N] = [e \in End |-> IF N = 0 \/ e = Nil THEN <<>> ELSE <<e>> \o f[N - 1][links[e][field]]]
      BY <1>3, <3>1 DEF From
    <3> QED BY <1>0, <1>4, <2>1, <3>1, <3>2
  <2>2. CASE s # <<>>
    <3>1. n \in 1..N /\ 1 \in 1..n /\ N \in 0..N
      BY <1>0, <1>1, <2>2 DEF n, N
    <3>2. f[N][s[1]] = SubSeq(s, 1, n)
      BY <1>1, <1>5, <3>1
    <3>3. SubSeq(s, 1, n) = s
      BY <1>0 DEF n
    <3> QED BY <1>0, <1>4, <2>2, <3>2, <3>3
  <2> QED BY <2>1, <2>2

-----------------------------------------------------------------------------
Element == [next : End, prev : End, list : Lists \union {Nil}]

\* The elements of the list l are s, along next, along prev, and in number.
IsList(l, s) ==
  /\ s \in Seq(Elems)
  /\ \A i, j \in 1..Len(s) : s[i] = s[j] => i = j
  /\ lists[l].head = IF s = <<>> THEN Nil ELSE s[1]
  /\ lists[l].tail = IF s = <<>> THEN Nil ELSE s[Len(s)]
  /\ lists[l].n = Len(s)
  /\ \A i \in 1..Len(s) :
       /\ elem[s[i]].next = IF i = Len(s) THEN Nil ELSE s[i + 1]
       /\ elem[s[i]].prev = IF i = 1 THEN Nil ELSE s[i - 1]
  /\ \A e \in Elems : e \in made \ left /\ elem[e].list = l <=> \E i \in 1..Len(s) : s[i] = e

ListType ==
  /\ elem \in [Elems -> Element]
  /\ lists \in [Lists -> [head : End, tail : End, n : Nat]]
  /\ made \in SUBSET Elems /\ left \in SUBSET made
  /\ \A e \in Elems \ made : elem[e] = Zero

ListInvariant ==
  /\ ListType
  /\ \A l \in Lists : \E s : IsList(l, s)

LEMMA MadeOf ==
  ASSUME NEW s \in Seq(Elems), \A i, j \in 1..Len(s) : s[i] = s[j] => i = j
  PROVE  Len(s) <= Cardinality(Elems)
<1>1. s \in [1..Len(s) -> Elems] /\ Len(s) \in Nat
  BY LenProperties, ElementOfSeq
<1>2. s \in Injection(1..Len(s), Elems)
  BY <1>1 DEF Injection, IsInjective
<1>3. Cardinality(1..Len(s)) <= Cardinality(Elems)
  BY <1>2, LinkedListAssumption, FS_Injection
<1> QED BY <1>1, <1>3, FS_Interval

LEMMA WalkIs ==
  ASSUME NEW l, NEW s, IsList(l, s)
  PROVE  Walk(l) = s
<1>1. s \in Seq(Elems) /\ Len(s) <= Cardinality(Elems)
  BY MadeOf DEF IsList
<1>2. lists[l].head = IF s = <<>> THEN Nil ELSE s[1]
  BY DEF IsList
<1>3. \A i \in 1..Len(s) : elem[s[i]]["next"] = IF i = Len(s) THEN Nil ELSE s[i + 1]
  BY DEF IsList
<1>4. Along(elem, lists[l].head, "next", s)
  BY <1>1, <1>2, <1>3 DEF Along
<1> QED BY <1>4, MetIs DEF Walk

LEMMA ReverseIs ==
  ASSUME NEW S, NEW s \in Seq(S)
  PROVE  /\ Reverse(s) \in Seq(S) /\ Len(Reverse(s)) = Len(s)
         /\ \A i \in 1..Len(s) : /\ (Len(s) - i) + 1 \in 1..Len(s)
                                 /\ Reverse(s)[i] = s[(Len(s) - i) + 1]
         /\ Reverse(Reverse(s)) = s
<1>1. PICK n \in Nat : n = Len(s)
  OBVIOUS
<1>2. \A i \in 1..n : (n - i) + 1 \in 1..n /\ (n - ((n - i) + 1)) + 1 = i
  BY <1>1
<1>3. s \in [1..n -> S]
  BY <1>1, LenProperties, ElementOfSeq
<1>4. Reverse(s) = [i \in 1..n |-> s[(n - i) + 1]]
  BY <1>1 DEF Reverse
<1>5. Reverse(s) \in [1..n -> S]
  BY <1>2, <1>3, <1>4
<1>6. Reverse(s) \in Seq(S) /\ Len(Reverse(s)) = n
  BY <1>1, <1>5
<1>7. Reverse(Reverse(s)) = [i \in 1..n |-> Reverse(s)[(n - i) + 1]]
  BY <1>6 DEF Reverse
<1>8. \A i \in 1..n : Reverse(s)[(n - i) + 1] = s[i]
  BY <1>2, <1>4
<1>9. Reverse(Reverse(s)) = s
  BY <1>3, <1>7, <1>8
<1> QED BY <1>1, <1>2, <1>4, <1>6, <1>9

LEMMA WalkBackIs ==
  ASSUME NEW l, NEW s, IsList(l, s)
  PROVE  WalkBack(l) = s
<1>1. s \in Seq(Elems) /\ Len(s) <= Cardinality(Elems)
  BY MadeOf DEF IsList
<1>2. PICK n \in Nat : n = Len(s)
  BY <1>1
<1>3. PICK t : t = Reverse(s)
  OBVIOUS
<1>4. /\ t \in Seq(Elems) /\ Len(t) = n
      /\ \A i \in 1..n : (n - i) + 1 \in 1..n /\ t[i] = s[(n - i) + 1]
      /\ Reverse(t) = s
  BY <1>1, <1>2, <1>3, ReverseIs
<1>5. lists[l].tail = IF t = <<>> THEN Nil ELSE t[1]
  <2>1. CASE n = 0
    <3>1. s = <<>> /\ t = <<>>
      BY <1>1, <1>2, <1>4, <2>1, EmptySeq
    <3> QED BY <3>1 DEF IsList
  <2>2. CASE n # 0
    <3>1. 1 \in 1..n /\ (n - 1) + 1 = n
      BY <2>2
    <3>2. s # <<>> /\ t # <<>> /\ t[1] = s[n]
      BY <1>2, <1>4, <2>2, <3>1
    <3> QED BY <1>2, <3>2 DEF IsList
  <2> QED BY <2>1, <2>2
<1>6. \A i \in 1..n : elem[t[i]]["prev"] = IF i = n THEN Nil ELSE t[i + 1]
  <2> SUFFICES ASSUME NEW i \in 1..n
               PROVE  elem[t[i]]["prev"] = IF i = n THEN Nil ELSE t[i + 1]
    OBVIOUS
  <2>1. PICK j \in 1..n : j = (n - i) + 1 /\ t[i] = s[j]
    BY <1>4
  <2>2. elem[s[j]]["prev"] = IF j = 1 THEN Nil ELSE s[j - 1]
    BY <1>2, <2>1 DEF IsList
  <2>3. j = 1 <=> i = n
    BY <2>1
  <2>4. ASSUME i # n PROVE t[i + 1] = s[j - 1]
    <3>1. i + 1 \in 1..n /\ (n - (i + 1)) + 1 = j - 1
      BY <2>1, <2>4
    <3> QED BY <1>4, <3>1
  <2> QED BY <2>1, <2>2, <2>3, <2>4
<1>7. Along(elem, lists[l].tail, "prev", t)
  BY <1>1, <1>2, <1>4, <1>5, <1>6 DEF Along
<1> QED BY <1>3, <1>4, <1>7, MetIs DEF WalkBack

\* The same as a formula, for the next state.
LEMMA WalksAre ==
  \A l, s : IsList(l, s) => Walk(l) = s /\ WalkBack(l) = s
BY WalkIs, WalkBackIs

LEMMA WalksAreNext ==
  \A l, s : IsList(l, s)' => Walk(l)' = s /\ WalkBack(l)' = s
<1>1. (\A l, s : IsList(l, s) => Walk(l) = s /\ WalkBack(l) = s)'
  BY WalksAre, PTL
<1> QED BY <1>1

-----------------------------------------------------------------------------
(* Sequences.                                                              *)

LEMMA PartIs ==
  ASSUME NEW S, NEW s \in Seq(S), NEW m \in Int, NEW n \in Int,
         1 <= m, m <= n + 1, n <= Len(s)
  PROVE  /\ SubSeq(s, m, n) \in Seq(S)
         /\ Len(SubSeq(s, m, n)) = (n - m) + 1
         /\ \A k \in 1..((n - m) + 1) : SubSeq(s, m, n)[k] = s[(m + k) - 1]
<1>1. \A j \in m..n : s[j] \in S
  <2> SUFFICES ASSUME NEW j \in m..n PROVE s[j] \in S
    OBVIOUS
  <2>1. j \in 1..Len(s)
    BY LenProperties
  <2> QED BY <2>1, ElementOfSeq
<1>2. /\ SubSeq(s, m, n) \in Seq(S)
      /\ Len(SubSeq(s, m, n)) = IF m <= n THEN n - m + 1 ELSE 0
      /\ \A k \in 1..(n - m + 1) : SubSeq(s, m, n)[k] = s[m + k - 1]
  BY <1>1, SubSeqProperties
<1>3. ~(m <= n) => (n - m) + 1 = 0
  OBVIOUS
<1> QED BY <1>2, <1>3

LEMMA PrefixIs ==
  ASSUME NEW S, NEW s \in Seq(S), NEW n \in Nat, n <= Len(s)
  PROVE  /\ SubSeq(s, 1, n) \in Seq(S) /\ Len(SubSeq(s, 1, n)) = n
         /\ \A k \in 1..n : SubSeq(s, 1, n)[k] = s[k]
<1>1. /\ SubSeq(s, 1, n) \in Seq(S) /\ Len(SubSeq(s, 1, n)) = (n - 1) + 1
      /\ \A k \in 1..((n - 1) + 1) : SubSeq(s, 1, n)[k] = s[(1 + k) - 1]
  BY PartIs
<1>2. (n - 1) + 1 = n /\ \A k \in 1..n : (1 + k) - 1 = k
  OBVIOUS
<1> QED BY <1>1, <1>2

\* SubSeq(s, 1, i - 1), e and the rest from j on.
LEMMA JoinIs ==
  ASSUME NEW S, NEW a \in Seq(S), NEW b \in Seq(S)
  PROVE  /\ a \o b \in Seq(S) /\ Len(a \o b) = Len(a) + Len(b)
         /\ \A k \in 1..Len(a) : (a \o b)[k] = a[k]
         /\ \A k \in 1..Len(b) : (a \o b)[Len(a) + k] = b[k]
<1>1. Len(a) \in Nat /\ Len(b) \in Nat
  OBVIOUS
<1>2. /\ a \o b \in Seq(S) /\ Len(a \o b) = Len(a) + Len(b)
      /\ \A k \in 1..(Len(a) + Len(b)) : (a \o b)[k] = IF k <= Len(a) THEN a[k] ELSE b[k - Len(a)]
  BY ConcatProperties
<1>3. \A k \in 1..Len(a) : k \in 1..(Len(a) + Len(b)) /\ k <= Len(a)
  BY <1>1
<1>4. \A k \in 1..Len(b) : /\ Len(a) + k \in 1..(Len(a) + Len(b)) /\ ~(Len(a) + k <= Len(a))
                           /\ (Len(a) + k) - Len(a) = k
  BY <1>1
<1> QED BY <1>2, <1>3, <1>4

LEMMA InsertAtIs ==
  ASSUME NEW S, NEW s \in Seq(S), NEW e \in S, NEW i \in 1..(Len(s) + 1)
  PROVE  /\ InsertAt(s, i, e) \in Seq(S)
         /\ Len(InsertAt(s, i, e)) = Len(s) + 1
         /\ \A k \in 1..(Len(s) + 1) :
              InsertAt(s, i, e)[k] = IF k < i THEN s[k] ELSE IF k = i THEN e ELSE s[k - 1]
<1>1. PICK n \in Nat : n = Len(s)
  OBVIOUS
<1>2. PICK a : a = SubSeq(s, 1, i - 1)
  OBVIOUS
<1>3. PICK b : b = SubSeq(s, i, n)
  OBVIOUS
<1>4. a \in Seq(S) /\ Len(a) = i - 1 /\ \A k \in 1..(i - 1) : a[k] = s[k]
  <2>1. i - 1 \in Nat /\ i - 1 <= n
    BY <1>1
  <2> QED BY <1>1, <1>2, <2>1, PrefixIs
<1>5. b \in Seq(S) /\ Len(b) = (n - i) + 1 /\ \A k \in 1..((n - i) + 1) : b[k] = s[(i + k) - 1]
  <2>1. i \in Int /\ n \in Int /\ 1 <= i /\ i <= n + 1
    BY <1>1
  <2> QED BY <1>1, <1>3, <2>1, PartIs
<1>6. PICK u : u = a \o <<e>>
  OBVIOUS
<1>7. u \in Seq(S) /\ Len(u) = i /\ u[i] = e /\ \A k \in 1..(i - 1) : u[k] = s[k]
  <2>1. <<e>> \in Seq(S) /\ Len(<<e>>) = 1 /\ <<e>>[1] = e
    OBVIOUS
  <2>2. /\ u \in Seq(S) /\ Len(u) = Len(a) + 1
        /\ \A k \in 1..Len(a) : u[k] = a[k]
        /\ u[Len(a) + 1] = e
    BY <1>4, <1>6, <2>1, JoinIs
  <2>3. (i - 1) + 1 = i
    OBVIOUS
  <2> QED BY <1>4, <2>2, <2>3
<1>8. InsertAt(s, i, e) = u \o b
  BY <1>1, <1>2, <1>3, <1>6 DEF InsertAt
<1>9. /\ u \o b \in Seq(S) /\ Len(u \o b) = Len(u) + Len(b)
      /\ \A k \in 1..Len(u) : (u \o b)[k] = u[k]
      /\ \A k \in 1..Len(b) : (u \o b)[Len(u) + k] = b[k]
  <2>1. u \in Seq(S) /\ b \in Seq(S)
    BY <1>5, <1>7
  <2> QED BY <2>1, JoinIs
<1>10. Len(u \o b) = n + 1
  BY <1>1, <1>5, <1>7, <1>9
<1>11. ASSUME NEW k \in 1..(n + 1)
       PROVE  (u \o b)[k] = IF k < i THEN s[k] ELSE IF k = i THEN e ELSE s[k - 1]
  <2>1. CASE k < i
    <3>1. k \in 1..(i - 1) /\ k \in 1..i
      BY <1>1, <2>1
    <3> QED BY <1>7, <1>9, <2>1, <3>1
  <2>2. CASE k = i
    <3>1. k \in 1..i /\ ~(k < i)
      BY <1>1, <2>2
    <3> QED BY <1>7, <1>9, <2>2, <3>1
  <2>3. CASE k > i
    <3>1. PICK j \in 1..((n - i) + 1) : k = i + j /\ (i + j) - 1 = k - 1
      BY <1>1, <2>3
    <3>2. (u \o b)[k] = b[j]
      BY <1>5, <1>7, <1>9, <3>1
    <3>3. b[j] = s[k - 1]
      BY <1>5, <3>1
    <3>4. ~(k < i) /\ k # i
      BY <1>1, <2>3
    <3> QED BY <3>2, <3>3, <3>4
  <2>4. k < i \/ k = i \/ k > i
    BY <1>1
  <2> QED BY <2>1, <2>2, <2>3, <2>4
<1> QED BY <1>1, <1>8, <1>9, <1>10, <1>11

LEMMA RemoveAtIs ==
  ASSUME NEW S, NEW s \in Seq(S), NEW i \in 1..Len(s)
  PROVE  /\ RemoveAt(s, i) \in Seq(S)
         /\ Len(RemoveAt(s, i)) = Len(s) - 1
         /\ \A k \in 1..(Len(s) - 1) : RemoveAt(s, i)[k] = IF k < i THEN s[k] ELSE s[k + 1]
<1>1. PICK n \in Nat : n = Len(s)
  OBVIOUS
<1>2. PICK a : a = SubSeq(s, 1, i - 1)
  OBVIOUS
<1>3. PICK b : b = SubSeq(s, i + 1, n)
  OBVIOUS
<1>4. a \in Seq(S) /\ Len(a) = i - 1 /\ \A k \in 1..(i - 1) : a[k] = s[k]
  <2>1. i - 1 \in Nat /\ i - 1 <= n
    BY <1>1
  <2> QED BY <1>1, <1>2, <2>1, PrefixIs
<1>5. b \in Seq(S) /\ Len(b) = n - i /\ \A k \in 1..(n - i) : b[k] = s[i + k]
  <2>1. PICK j \in Int : j = i + 1 /\ 1 <= j /\ j <= n + 1 /\ (n - j) + 1 = n - i
    BY <1>1
  <2>2. b \in Seq(S) /\ Len(b) = (n - j) + 1 /\ \A k \in 1..((n - j) + 1) : b[k] = s[(j + k) - 1]
    BY <1>1, <1>3, <2>1, PartIs
  <2>3. \A k \in 1..(n - i) : (j + k) - 1 = i + k
    BY <1>1, <2>1
  <2> QED BY <2>1, <2>2, <2>3
<1>6. RemoveAt(s, i) = a \o b
  BY <1>1, <1>2, <1>3 DEF RemoveAt
<1>7. /\ a \o b \in Seq(S) /\ Len(a \o b) = Len(a) + Len(b)
      /\ \A k \in 1..Len(a) : (a \o b)[k] = a[k]
      /\ \A k \in 1..Len(b) : (a \o b)[Len(a) + k] = b[k]
  <2>1. a \in Seq(S) /\ b \in Seq(S)
    BY <1>4, <1>5
  <2> QED BY <2>1, JoinIs
<1>8. Len(a \o b) = n - 1
  BY <1>1, <1>4, <1>5, <1>7
<1>9. ASSUME NEW k \in 1..(n - 1)
      PROVE  (a \o b)[k] = IF k < i THEN s[k] ELSE s[k + 1]
  <2>1. CASE k < i
    <3>1. k \in 1..(i - 1)
      BY <1>1, <2>1
    <3> QED BY <1>4, <1>7, <2>1, <3>1
  <2>2. CASE ~(k < i)
    <3>1. PICK j \in 1..(n - i) : k = (i - 1) + j /\ i + j = k + 1
      BY <1>1, <2>2
    <3>2. (a \o b)[(i - 1) + j] = b[j]
      BY <1>4, <1>5, <1>7
    <3> QED BY <1>5, <2>2, <3>1, <3>2
  <2> QED BY <2>1, <2>2
<1> QED BY <1>1, <1>6, <1>7, <1>8, <1>9

-----------------------------------------------------------------------------
(* What a step does to the elements.                                       *)

\* The elements before and after the position i of s.
Before(s, i) == IF i = 1 THEN Nil ELSE s[i - 1]
After(s, i) == IF i = Len(s) + 1 THEN Nil ELSE s[i]

LEMMA InsertIsList ==
  ASSUME ListType, NEW l \in Lists, NEW e \in Elems \ made, NEW s, IsList(l, s),
         NEW i \in 1..(Len(s) + 1), Linked(l, e, Before(s, i), After(s, i))
  PROVE  IsList(l, InsertAt(s, i, e))'
<1>1. PICK n \in Nat : n = Len(s)
  BY DEF IsList
<1>2. PICK t : t = InsertAt(s, i, e)
  OBVIOUS
<1>3. /\ t \in Seq(Elems) /\ Len(t) = n + 1
      /\ \A k \in 1..(n + 1) : t[k] = IF k < i THEN s[k] ELSE IF k = i THEN e ELSE s[k - 1]
  <2>1. s \in Seq(Elems) /\ e \in Elems /\ i \in 1..(Len(s) + 1)
    BY DEF IsList
  <2>2. /\ InsertAt(s, i, e) \in Seq(Elems) /\ Len(InsertAt(s, i, e)) = Len(s) + 1
        /\ \A k \in 1..(Len(s) + 1) : InsertAt(s, i, e)[k] =
             IF k < i THEN s[k] ELSE IF k = i THEN e ELSE s[k - 1]
    BY <2>1, InsertAtIs
  <2> QED BY <1>1, <1>2, <2>2
<1>4. /\ s \in Seq(Elems) /\ \A k \in 1..n : s[k] \in Elems /\ s[k] # e /\ s[k] # Nil
      /\ \A j, k \in 1..n : s[j] = s[k] => j = k
  BY <1>1, ElementOfSeq, LinkedListAssumption DEF IsList, ListType
<1>5. PICK p, q : p = Before(s, i) /\ q = After(s, i)
  OBVIOUS
<1>6. /\ elem' = [x \in Elems |->
                    IF x = e THEN [next |-> q, prev |-> p, list |-> l]
                    ELSE [elem[x] EXCEPT !.next = IF x = p THEN e ELSE @,
                                         !.prev = IF x = q THEN e ELSE @]]
      /\ lists' = [lists EXCEPT ![l] = [head |-> IF p = Nil THEN e ELSE @.head,
                                        tail |-> IF q = Nil THEN e ELSE @.tail,
                                        n |-> @.n + 1]]
      /\ made' = made \cup {e} /\ left' = left
  BY <1>5 DEF Linked
<1>7. \A k \in 1..(n + 1) : \/ k < i /\ k \in 1..n /\ t[k] = s[k]
                            \/ k = i /\ t[k] = e
                            \/ k > i /\ k - 1 \in 1..n /\ t[k] = s[k - 1]
  BY <1>1, <1>3
<1>8. \A j, k \in 1..(n + 1) : t[j] = t[k] => j = k
  BY <1>4, <1>7
<1>9. /\ \A x \in Elems : x # e => /\ elem'[x].next = (IF x = p THEN e ELSE elem[x].next)
                                  /\ elem'[x].prev = (IF x = q THEN e ELSE elem[x].prev)
                                  /\ elem'[x].list = elem[x].list
      /\ elem'[e].next = q /\ elem'[e].prev = p /\ elem'[e].list = l
  BY <1>6 DEF ListType, Element
<1>10. /\ p = IF i = 1 THEN Nil ELSE s[i - 1]
       /\ q = IF i = n + 1 THEN Nil ELSE s[i]
       /\ i \in 1..(n + 1) /\ i \in Nat
       /\ i # 1 => i - 1 \in 1..n
       /\ i # n + 1 => i \in 1..n
  BY <1>1, <1>5 DEF Before, After
<1>11. /\ \A k \in 1..n : elem[s[k]].next = IF k = n THEN Nil ELSE s[k + 1]
       /\ \A k \in 1..n : elem[s[k]].prev = IF k = 1 THEN Nil ELSE s[k - 1]
  BY <1>1 DEF IsList
<1>12. lists'[l].head = IF t = <<>> THEN Nil ELSE t[1]
  <2>1. t # <<>> /\ 1 \in 1..(n + 1)
    BY <1>3
  <2>2. lists'[l].head = IF p = Nil THEN e ELSE lists[l].head
    BY <1>6 DEF ListType
  <2>3. CASE i = 1
    BY <1>3, <1>10, <2>1, <2>2, <2>3
  <2>4. CASE i # 1
    <3>1. p # Nil /\ n # 0 /\ 1 < i /\ 1 \in 1..n
      BY <1>4, <1>10, <2>4
    <3>2. lists[l].head = s[1]
      BY <1>1, <3>1 DEF IsList
    <3> QED BY <1>3, <2>1, <2>2, <3>1, <3>2
  <2> QED BY <2>3, <2>4
<1>13. lists'[l].tail = IF t = <<>> THEN Nil ELSE t[Len(t)]
  <2>1. t # <<>> /\ n + 1 \in 1..(n + 1) /\ Len(t) = n + 1
    BY <1>3
  <2>2. lists'[l].tail = IF q = Nil THEN e ELSE lists[l].tail
    BY <1>6 DEF ListType
  <2>3. CASE i = n + 1
    BY <1>3, <1>10, <2>1, <2>2, <2>3
  <2>4. CASE i # n + 1
    <3>1. q # Nil /\ n # 0 /\ ~(n + 1 < i) /\ n + 1 # i /\ (n + 1) - 1 = n
      BY <1>4, <1>10, <2>4
    <3>2. lists[l].tail = s[n]
      BY <1>1, <3>1 DEF IsList
    <3> QED BY <1>3, <2>1, <2>2, <3>1, <3>2
  <2> QED BY <2>3, <2>4
<1>14. lists'[l].n = Len(t)
  BY <1>1, <1>3, <1>6 DEF ListType, IsList
<1>15. \A k \in 1..(n + 1) : elem'[t[k]].next = IF k = n + 1 THEN Nil ELSE t[k + 1]
  <2> SUFFICES ASSUME NEW k \in 1..(n + 1)
               PROVE  elem'[t[k]].next = IF k = n + 1 THEN Nil ELSE t[k + 1]
    OBVIOUS
  <2>1. CASE k < i
    <3>1. k \in 1..n /\ t[k] = s[k] /\ k + 1 \in 1..(n + 1) /\ k # n + 1 /\ s[k] # e /\ s[k] \in Elems
      BY <1>4, <1>7, <1>10, <2>1
    <3>2. CASE k = i - 1
      <4>1. p = s[k] /\ k + 1 = i
        BY <1>10, <2>1, <3>2
      <4>2. t[i] = e
        BY <1>3, <1>10
      <4> QED BY <1>9, <3>1, <4>1, <4>2
    <3>3. CASE k # i - 1
      <4>1. p # s[k]
        BY <1>4, <1>10, <3>1, <3>3, LinkedListAssumption
      <4>2. k + 1 < i /\ k # n
        BY <1>10, <2>1, <3>1, <3>3
      <4>3. t[k + 1] = s[k + 1]
        BY <1>3, <3>1, <4>2
      <4> QED BY <1>9, <1>11, <3>1, <4>1, <4>2, <4>3
    <3> QED BY <3>2, <3>3
  <2>2. CASE k = i
    <3>1. t[k] = e /\ elem'[t[k]].next = q
      BY <1>3, <1>9, <2>2
    <3>2. CASE i = n + 1
      BY <1>10, <2>2, <3>1, <3>2
    <3>3. CASE i # n + 1
      <4>1. k + 1 \in 1..(n + 1) /\ ~(k + 1 < i) /\ k + 1 # i /\ (k + 1) - 1 = i
        BY <1>10, <2>2, <3>3
      <4>2. t[k + 1] = s[i]
        BY <1>3, <4>1
      <4> QED BY <1>10, <2>2, <3>1, <3>3, <4>2
    <3> QED BY <3>2, <3>3
  <2>3. CASE k > i
    <3>1. /\ k - 1 \in 1..n /\ t[k] = s[k - 1] /\ s[k - 1] # e /\ s[k - 1] \in Elems
          /\ (k - 1) + 1 = k /\ k - 1 # i - 1
      BY <1>4, <1>7, <1>10, <2>3
    <3>2. p # s[k - 1]
      BY <1>4, <1>10, <3>1, LinkedListAssumption
    <3>3. elem'[t[k]].next = IF k - 1 = n THEN Nil ELSE s[k]
      BY <1>9, <1>11, <3>1, <3>2
    <3>4. CASE k = n + 1
      BY <3>1, <3>3, <3>4
    <3>5. CASE k # n + 1
      <4>1. k + 1 \in 1..(n + 1) /\ ~(k + 1 < i) /\ k + 1 # i /\ (k + 1) - 1 = k /\ k - 1 # n
        BY <1>10, <2>3, <3>5
      <4>2. t[k + 1] = s[k]
        BY <1>3, <4>1
      <4> QED BY <3>3, <3>5, <4>1, <4>2
    <3> QED BY <3>4, <3>5
  <2>4. k < i \/ k = i \/ k > i
    BY <1>10
  <2> QED BY <2>1, <2>2, <2>3, <2>4
<1>16. \A k \in 1..(n + 1) : elem'[t[k]].prev = IF k = 1 THEN Nil ELSE t[k - 1]
  <2> SUFFICES ASSUME NEW k \in 1..(n + 1)
               PROVE  elem'[t[k]].prev = IF k = 1 THEN Nil ELSE t[k - 1]
    OBVIOUS
  <2>1. CASE k < i
    <3>1. k \in 1..n /\ t[k] = s[k] /\ k # i /\ s[k] # e /\ s[k] \in Elems
      BY <1>4, <1>7, <1>10, <2>1
    <3>2. q # s[k]
      BY <1>4, <1>10, <3>1, LinkedListAssumption
    <3>3. elem'[t[k]].prev = IF k = 1 THEN Nil ELSE s[k - 1]
      BY <1>9, <1>11, <3>1, <3>2
    <3>4. CASE k = 1
      BY <3>3, <3>4
    <3>5. CASE k # 1
      <4>1. k - 1 \in 1..(n + 1) /\ k - 1 < i
        BY <1>10, <2>1, <3>5
      <4> QED BY <1>3, <3>3, <3>5, <4>1
    <3> QED BY <3>4, <3>5
  <2>2. CASE k = i
    <3>1. t[k] = e /\ elem'[t[k]].prev = p
      BY <1>3, <1>9, <2>2
    <3>2. CASE i = 1
      BY <1>10, <2>2, <3>1, <3>2
    <3>3. CASE i # 1
      <4>1. k - 1 \in 1..(n + 1) /\ k - 1 < i
        BY <1>10, <2>2, <3>3
      <4>2. t[k - 1] = s[i - 1]
        BY <1>3, <2>2, <4>1
      <4> QED BY <1>10, <2>2, <3>1, <3>3, <4>2
    <3> QED BY <3>2, <3>3
  <2>3. CASE k > i
    <3>1. /\ k - 1 \in 1..n /\ t[k] = s[k - 1] /\ s[k - 1] # e /\ s[k - 1] \in Elems
          /\ k # 1 /\ k - 1 \in 1..(n + 1)
      BY <1>4, <1>7, <1>10, <2>3
    <3>2. CASE k - 1 = i
      <4>1. q = s[k - 1]
        BY <1>10, <3>1, <3>2
      <4>2. t[k - 1] = e
        BY <1>3, <3>1, <3>2
      <4> QED BY <1>9, <3>1, <4>1, <4>2
    <3>3. CASE k - 1 # i
      <4>1. q # s[k - 1]
        BY <1>4, <1>10, <3>1, <3>3, LinkedListAssumption
      <4>2. k - 1 # 1 /\ ~(k - 1 < i) /\ (k - 1) - 1 \in 1..n
        BY <1>10, <2>3, <3>1, <3>3
      <4>3. t[k - 1] = s[(k - 1) - 1]
        BY <1>3, <3>1, <3>3, <4>2
      <4> QED BY <1>9, <1>11, <3>1, <4>1, <4>2, <4>3
    <3> QED BY <3>2, <3>3
  <2>4. k < i \/ k = i \/ k > i
    BY <1>10
  <2> QED BY <2>1, <2>2, <2>3, <2>4
<1>17. ASSUME NEW x \in Elems
       PROVE  x \in made' \ left' /\ elem'[x].list = l <=> \E k \in 1..(n + 1) : t[k] = x
  <2>1. x \in made \ left /\ elem[x].list = l <=> \E k \in 1..n : s[k] = x
    BY <1>1 DEF IsList
  <2>2. CASE x = e
    <3>1. x \in made' \ left' /\ elem'[x].list = l
      BY <1>6, <1>9, <2>2 DEF ListType
    <3> QED BY <1>3, <1>10, <2>2, <3>1
  <2>3. CASE x # e
    <3>1. x \in made' \ left' /\ elem'[x].list = l <=> x \in made \ left /\ elem[x].list = l
      BY <1>6, <1>9, <2>3
    <3>2. ASSUME NEW k \in 1..n, s[k] = x PROVE \E j \in 1..(n + 1) : t[j] = x
      <4>1. CASE k < i
        BY <1>3, <3>2, <4>1
      <4>2. CASE ~(k < i)
        <5>1. k + 1 \in 1..(n + 1) /\ ~(k + 1 < i) /\ k + 1 # i /\ (k + 1) - 1 = k
          BY <1>10, <4>2
        <5> QED BY <1>3, <3>2, <5>1
      <4> QED BY <4>1, <4>2
    <3>3. ASSUME NEW j \in 1..(n + 1), t[j] = x PROVE \E k \in 1..n : s[k] = x
      BY <1>7, <2>3, <3>3
    <3> QED BY <2>1, <3>1, <3>2, <3>3
  <2> QED BY <2>2, <2>3
<1> QED BY <1>2, <1>3, <1>8, <1>12, <1>13, <1>14, <1>15, <1>16, <1>17 DEF IsList

LEMMA RemoveIsList ==
  ASSUME ListType, NEW l \in Lists, NEW s, IsList(l, s), NEW i \in 1..Len(s), ListRemove(l, s[i])
  PROVE  IsList(l, RemoveAt(s, i))'
<1>1. PICK n \in Nat : n = Len(s)
  BY DEF IsList
<1>2. PICK t : t = RemoveAt(s, i)
  OBVIOUS
<1>3. /\ t \in Seq(Elems) /\ Len(t) = n - 1
      /\ \A k \in 1..(n - 1) : t[k] = IF k < i THEN s[k] ELSE s[k + 1]
  <2>1. s \in Seq(Elems) /\ i \in 1..Len(s)
    BY DEF IsList
  <2>2. /\ RemoveAt(s, i) \in Seq(Elems) /\ Len(RemoveAt(s, i)) = Len(s) - 1
        /\ \A k \in 1..(Len(s) - 1) : RemoveAt(s, i)[k] = IF k < i THEN s[k] ELSE s[k + 1]
    BY <2>1, RemoveAtIs
  <2> QED BY <1>1, <1>2, <2>2
<1>4. /\ s \in Seq(Elems) /\ \A k \in 1..n : s[k] \in Elems /\ s[k] # Nil
      /\ \A j, k \in 1..n : s[j] = s[k] => j = k
  BY <1>1, ElementOfSeq, LinkedListAssumption DEF IsList
<1>5. /\ \A k \in 1..n : elem[s[k]].next = IF k = n THEN Nil ELSE s[k + 1]
      /\ \A k \in 1..n : elem[s[k]].prev = IF k = 1 THEN Nil ELSE s[k - 1]
  BY <1>1 DEF IsList
<1>6. PICK e, p, q : /\ e = s[i] /\ p = elem[e].prev /\ q = elem[e].next
                     /\ e \in Elems
                     /\ p = (IF i = 1 THEN Nil ELSE s[i - 1])
                     /\ q = (IF i = n THEN Nil ELSE s[i + 1])
                     /\ i \in 1..n /\ i \in Nat
  BY <1>1, <1>4, <1>5
<1>7. /\ elem' = [x \in Elems |->
                    IF x = e THEN Zero
                    ELSE [elem[x] EXCEPT !.next = IF x = p THEN q ELSE @,
                                         !.prev = IF x = q THEN p ELSE @]]
      /\ lists' = [lists EXCEPT ![l] = [head |-> IF p = Nil THEN q ELSE @.head,
                                        tail |-> IF q = Nil THEN p ELSE @.tail,
                                        n |-> @.n - 1]]
      /\ made' = made /\ left' = left
  BY <1>6 DEF ListRemove
<1>8. /\ \A x \in Elems : x # e => /\ elem'[x].next = (IF x = p THEN q ELSE elem[x].next)
                                   /\ elem'[x].prev = (IF x = q THEN p ELSE elem[x].prev)
                                   /\ elem'[x].list = elem[x].list
      /\ elem'[e].list = Nil
  BY <1>6, <1>7 DEF ListType, Element, Zero
<1>9. \A k \in 1..(n - 1) : \/ k < i /\ k \in 1..n /\ k # n /\ t[k] = s[k] /\ s[k] # e
                            \/ k >= i /\ k + 1 \in 1..n /\ k + 1 # i /\ t[k] = s[k + 1] /\ s[k + 1] # e
  BY <1>3, <1>4, <1>6
<1>10. \A j, k \in 1..(n - 1) : t[j] = t[k] => j = k
  BY <1>4, <1>9
<1>11. lists'[l].head = IF t = <<>> THEN Nil ELSE t[1]
  <2>1. lists'[l].head = IF p = Nil THEN q ELSE lists[l].head
    BY <1>7 DEF ListType
  <2>2. lists[l].head = s[1] /\ n # 0
    BY <1>1, <1>6 DEF IsList
  <2>3. lists'[l].head = IF i = 1 THEN q ELSE s[1]
    <3>1. i # 1 => i - 1 \in 1..n
      BY <1>6
    <3> QED BY <1>4, <1>6, <2>1, <2>2, <3>1
  <2>4. CASE n = 1
    <3>1. t = <<>>
      BY <1>3, <2>4, EmptySeq
    <3> QED BY <1>6, <2>3, <2>4, <3>1
  <2>5. CASE n # 1
    <3>1. t # <<>> /\ 1 \in 1..(n - 1)
      BY <1>3, <2>2, <2>5
    <3>2. i = 1 => ~(1 < i) /\ i # n /\ t[1] = s[2] /\ q = s[2]
      BY <1>3, <1>6, <2>5, <3>1
    <3>3. i # 1 => 1 < i /\ t[1] = s[1]
      BY <1>3, <1>6, <3>1
    <3> QED BY <2>3, <3>1, <3>2, <3>3
  <2> QED BY <2>4, <2>5
<1>12. lists'[l].tail = IF t = <<>> THEN Nil ELSE t[Len(t)]
  <2>1. lists'[l].tail = IF q = Nil THEN p ELSE lists[l].tail
    BY <1>7 DEF ListType
  <2>2. lists[l].tail = s[n] /\ n # 0
    BY <1>1, <1>6 DEF IsList
  <2>3. lists'[l].tail = IF i = n THEN p ELSE s[n]
    <3>1. i # n => i + 1 \in 1..n
      BY <1>6
    <3> QED BY <1>4, <1>6, <2>1, <2>2, <3>1
  <2>4. CASE n = 1
    <3>1. t = <<>>
      BY <1>3, <2>4, EmptySeq
    <3> QED BY <1>6, <2>3, <2>4, <3>1
  <2>5. CASE n # 1
    <3>1. t # <<>> /\ n - 1 \in 1..(n - 1) /\ Len(t) = n - 1
      BY <1>3, <2>2, <2>5
    <3>2. i = n => n - 1 < i /\ i # 1 /\ t[n - 1] = s[n - 1] /\ p = s[n - 1]
      BY <1>3, <1>6, <2>5, <3>1
    <3>3. i # n => ~(n - 1 < i) /\ (n - 1) + 1 = n
      BY <1>6
    <3>4. i # n => t[n - 1] = s[n]
      BY <1>3, <3>1, <3>3
    <3> QED BY <2>3, <3>1, <3>2, <3>4
  <2> QED BY <2>4, <2>5
<1>13. lists'[l].n = Len(t)
  BY <1>1, <1>3, <1>7 DEF ListType, IsList
<1>14. \A k \in 1..(n - 1) : elem'[t[k]].next = IF k = n - 1 THEN Nil ELSE t[k + 1]
  <2> SUFFICES ASSUME NEW k \in 1..(n - 1)
               PROVE  elem'[t[k]].next = IF k = n - 1 THEN Nil ELSE t[k + 1]
    OBVIOUS
  <2>1. CASE k < i
    <3>1. k \in 1..n /\ k # n /\ t[k] = s[k] /\ s[k] # e /\ s[k] \in Elems
      BY <1>4, <1>9, <2>1
    <3>2. CASE k = i - 1
      <4>1. p = s[k] /\ k + 1 = i
        BY <1>6, <2>1, <3>2
      <4>2. elem'[t[k]].next = q
        BY <1>8, <3>1, <4>1
      <4>3. CASE k = n - 1
        BY <1>6, <4>1, <4>2, <4>3
      <4>4. CASE k # n - 1
        <5>1. k + 1 \in 1..(n - 1) /\ ~(k + 1 < i) /\ i # n /\ (k + 1) + 1 = i + 1
          BY <1>6, <4>1, <4>4
        <5>2. t[k + 1] = s[i + 1]
          BY <1>3, <5>1
        <5> QED BY <1>6, <4>2, <4>4, <5>1, <5>2
      <4> QED BY <4>3, <4>4
    <3>3. CASE k # i - 1
      <4>1. p # s[k]
        BY <1>4, <1>6, <3>1, <3>3
      <4>2. k + 1 < i /\ k # n - 1 /\ k + 1 \in 1..(n - 1)
        BY <1>6, <2>1, <3>1, <3>3
      <4>3. t[k + 1] = s[k + 1]
        BY <1>3, <4>2
      <4> QED BY <1>5, <1>8, <3>1, <4>1, <4>2, <4>3
    <3> QED BY <3>2, <3>3
  <2>2. CASE ~(k < i)
    <3>1. k + 1 \in 1..n /\ k + 1 # i - 1 /\ t[k] = s[k + 1] /\ s[k + 1] # e /\ s[k + 1] \in Elems
      BY <1>4, <1>6, <1>9, <2>2
    <3>2. p # s[k + 1]
      BY <1>4, <1>6, <3>1
    <3>3. elem'[t[k]].next = IF k + 1 = n THEN Nil ELSE s[(k + 1) + 1]
      BY <1>5, <1>8, <3>1, <3>2
    <3>4. CASE k = n - 1
      BY <3>3, <3>4
    <3>5. CASE k # n - 1
      <4>1. k + 1 \in 1..(n - 1) /\ ~(k + 1 < i) /\ k + 1 # n
        BY <1>6, <2>2, <3>5
      <4>2. t[k + 1] = s[(k + 1) + 1]
        BY <1>3, <4>1
      <4> QED BY <3>3, <3>5, <4>1, <4>2
    <3> QED BY <3>4, <3>5
  <2> QED BY <2>1, <2>2
<1>15. \A k \in 1..(n - 1) : elem'[t[k]].prev = IF k = 1 THEN Nil ELSE t[k - 1]
  <2> SUFFICES ASSUME NEW k \in 1..(n - 1)
               PROVE  elem'[t[k]].prev = IF k = 1 THEN Nil ELSE t[k - 1]
    OBVIOUS
  <2>1. CASE k < i
    <3>1. k \in 1..n /\ k # i + 1 /\ t[k] = s[k] /\ s[k] # e /\ s[k] \in Elems
      BY <1>4, <1>6, <1>9, <2>1
    <3>2. q # s[k]
      BY <1>4, <1>6, <3>1
    <3>3. elem'[t[k]].prev = IF k = 1 THEN Nil ELSE s[k - 1]
      BY <1>5, <1>8, <3>1, <3>2
    <3>4. CASE k = 1
      BY <3>3, <3>4
    <3>5. CASE k # 1
      <4>1. k - 1 \in 1..(n - 1) /\ k - 1 < i
        BY <1>6, <2>1, <3>5
      <4> QED BY <1>3, <3>3, <3>5, <4>1
    <3> QED BY <3>4, <3>5
  <2>2. CASE ~(k < i)
    <3>1. k + 1 \in 1..n /\ t[k] = s[k + 1] /\ s[k + 1] # e /\ s[k + 1] \in Elems /\ k + 1 # 1
      BY <1>4, <1>6, <1>9, <2>2
    <3>2. CASE k = i
      <4>1. q = s[k + 1]
        BY <1>6, <3>1, <3>2
      <4>2. elem'[t[k]].prev = p
        BY <1>8, <3>1, <4>1
      <4>3. CASE k = 1
        BY <1>6, <3>2, <4>2, <4>3
      <4>4. CASE k # 1
        <5>1. k - 1 \in 1..(n - 1) /\ k - 1 < i /\ k - 1 = i - 1
          BY <1>6, <3>2, <4>4
        <5>2. t[k - 1] = s[i - 1]
          BY <1>3, <5>1
        <5> QED BY <1>6, <3>2, <4>2, <4>4, <5>2
      <4> QED BY <4>3, <4>4
    <3>3. CASE k # i
      <4>1. q # s[k + 1]
        BY <1>4, <1>6, <3>1, <3>3
      <4>2. k # 1 /\ k - 1 \in 1..(n - 1) /\ ~(k - 1 < i) /\ (k - 1) + 1 = k /\ (k + 1) - 1 = k
        BY <1>6, <2>2, <3>3
      <4>3. t[k - 1] = s[k]
        BY <1>3, <4>2
      <4>4. elem'[t[k]].prev = s[k]
        <5>1. elem[s[k + 1]].prev = s[(k + 1) - 1]
          BY <1>5, <3>1
        <5>2. elem'[t[k]].prev = elem[s[k + 1]].prev
          BY <1>8, <3>1, <4>1
        <5> QED BY <4>2, <5>1, <5>2
      <4> QED BY <4>2, <4>3, <4>4
    <3> QED BY <3>2, <3>3
  <2> QED BY <2>1, <2>2
<1>16. ASSUME NEW x \in Elems
       PROVE  x \in made' \ left' /\ elem'[x].list = l <=> \E k \in 1..(n - 1) : t[k] = x
  <2>1. x \in made \ left /\ elem[x].list = l <=> \E k \in 1..n : s[k] = x
    BY <1>1 DEF IsList
  <2>2. CASE x = e
    <3>1. elem'[x].list # l
      BY <1>8, <2>2, LinkedListAssumption
    <3> QED BY <1>9, <2>2, <3>1
  <2>3. CASE x # e
    <3>1. x \in made' \ left' /\ elem'[x].list = l <=> x \in made \ left /\ elem[x].list = l
      BY <1>7, <1>8, <2>3
    <3>2. ASSUME NEW k \in 1..n, s[k] = x PROVE \E j \in 1..(n - 1) : t[j] = x
      <4>1. k # i
        BY <1>6, <2>3, <3>2
      <4>2. CASE k < i
        <5>1. k \in 1..(n - 1)
          BY <1>6, <4>2
        <5> QED BY <1>3, <3>2, <4>2, <5>1
      <4>3. CASE ~(k < i)
        <5>1. k - 1 \in 1..(n - 1) /\ ~(k - 1 < i) /\ (k - 1) + 1 = k
          BY <1>6, <4>1, <4>3
        <5> QED BY <1>3, <3>2, <5>1
      <4> QED BY <4>2, <4>3
    <3>3. ASSUME NEW j \in 1..(n - 1), t[j] = x PROVE \E k \in 1..n : s[k] = x
      BY <1>9, <3>3
    <3> QED BY <2>1, <3>1, <3>2, <3>3
  <2> QED BY <2>2, <2>3
<1> QED BY <1>2, <1>3, <1>10, <1>11, <1>12, <1>13, <1>14, <1>15, <1>16 DEF IsList

\* The list m is not touched: its elements keep their fields, and none is added.
Apart(m) ==
  /\ lists'[m] = lists[m]
  /\ \A x \in Elems : x \in made \ left /\ elem[x].list = m =>
       elem'[x].next = elem[x].next /\ elem'[x].prev = elem[x].prev
  /\ \A x \in Elems : x \in made' \ left' /\ elem'[x].list = m
                        <=> x \in made \ left /\ elem[x].list = m

LEMMA ApartIsList ==
  ASSUME NEW m, NEW s, IsList(m, s), Apart(m)
  PROVE  IsList(m, s)'
<1>1. s \in Seq(Elems) /\ \A i \in 1..Len(s) : s[i] \in Elems
  BY ElementOfSeq DEF IsList
<1>2. \A i \in 1..Len(s) : s[i] \in made \ left /\ elem[s[i]].list = m
  BY <1>1 DEF IsList
<1>3. \A i \in 1..Len(s) : elem'[s[i]].next = elem[s[i]].next /\ elem'[s[i]].prev = elem[s[i]].prev
  BY <1>1, <1>2 DEF Apart
<1> QED BY <1>1, <1>3 DEF IsList, Apart

\* An element linked to is of the list, or Nil.
Neighbour(l, p) == p = Nil \/ (p \in made \ left /\ elem[p].list = l)

LEMMA LinkedType ==
  ASSUME ListType, NEW l \in Lists, NEW e \in Elems \ made, NEW p, NEW q,
         Neighbour(l, p), Neighbour(l, q), Linked(l, e, p, q)
  PROVE  ListType' /\ \A m \in Lists \ {l} : Apart(m)
<1>1. p \in End /\ q \in End /\ e \in End
  BY DEF Neighbour, End, ListType
<1>2. ListType'
  <2>1. elem' \in [Elems -> Element]
    BY <1>1 DEF Linked, ListType, Element
  <2>2. lists' \in [Lists -> [head : End, tail : End, n : Nat]]
    <3>1. /\ lists[l].head \in End /\ lists[l].tail \in End
          /\ lists[l].n + 1 \in Nat
      BY DEF ListType
    <3>2. [head |-> IF p = Nil THEN e ELSE lists[l].head, tail |-> IF q = Nil THEN e ELSE lists[l].tail,
           n |-> lists[l].n + 1] \in [head : End, tail : End, n : Nat]
      BY <1>1, <3>1
    <3> QED BY <3>2 DEF Linked, ListType
  <2>3. made' \in SUBSET Elems /\ left' \in SUBSET made'
    BY DEF Linked, ListType
  <2>4. ASSUME NEW x \in Elems \ made' PROVE elem'[x] = Zero
    <3>1. x # e /\ x # p /\ x # q /\ x \in Elems \ made
      BY <2>4, LinkedListAssumption DEF Linked, Neighbour
    <3>2. elem'[x] = [elem[x] EXCEPT !.next = @, !.prev = @]
      BY <3>1 DEF Linked
    <3>3. elem[x] = Zero
      BY <3>1 DEF ListType
    <3> QED BY <3>2, <3>3 DEF Zero
  <2> QED BY <2>1, <2>2, <2>3, <2>4 DEF ListType
<1>3. ASSUME NEW m \in Lists \ {l} PROVE Apart(m)
  <2>1. lists'[m] = lists[m]
    BY DEF Linked, ListType
  <2>2. \A x \in Elems : x # e => /\ elem'[x].next = (IF x = p THEN e ELSE elem[x].next)
                                  /\ elem'[x].prev = (IF x = q THEN e ELSE elem[x].prev)
                                  /\ elem'[x].list = elem[x].list
    BY DEF Linked, ListType, Element
  <2>3. elem'[e].list = l /\ e \notin made /\ m # l
    BY DEF Linked
  <2>4. made' = made \union {e} /\ left' = left
    BY DEF Linked
  <2> QED BY <2>1, <2>2, <2>3, <2>4, LinkedListAssumption DEF Apart, Neighbour
<1> QED BY <1>2, <1>3

LEMMA RemoveType ==
  ASSUME ListType, NEW l \in Lists, NEW s, IsList(l, s), NEW e, ListRemove(l, e)
  PROVE  ListType' /\ \A m \in Lists \ {l} : Apart(m)
<1>1. PICK p, q : p = elem[e].prev /\ q = elem[e].next
  OBVIOUS
<1>2. e \in Elems /\ e \in made \ left /\ elem[e].list = l /\ p \in End /\ q \in End
  BY <1>1 DEF ListRemove, ListType, Element
<1>3. Neighbour(l, p) /\ Neighbour(l, q)
  <2>1. s \in Seq(Elems) /\ \A i \in 1..Len(s) : s[i] \in made \ left /\ elem[s[i]].list = l
    BY ElementOfSeq DEF IsList
  <2>2. PICK i \in 1..Len(s) : s[i] = e
    BY <1>2 DEF IsList
  <2>3. p = (IF i = 1 THEN Nil ELSE s[i - 1]) /\ q = (IF i = Len(s) THEN Nil ELSE s[i + 1])
    BY <1>1, <2>2 DEF IsList
  <2>4. i # 1 => i - 1 \in 1..Len(s)
    BY <2>1
  <2>5. i # Len(s) => i + 1 \in 1..Len(s)
    BY <2>1
  <2> QED BY <2>1, <2>3, <2>4, <2>5 DEF Neighbour
<1>4. /\ elem' = [x \in Elems |->
                    IF x = e THEN Zero
                    ELSE [elem[x] EXCEPT !.next = IF x = p THEN q ELSE @,
                                         !.prev = IF x = q THEN p ELSE @]]
      /\ lists' = [lists EXCEPT ![l] = [head |-> IF p = Nil THEN q ELSE @.head,
                                        tail |-> IF q = Nil THEN p ELSE @.tail,
                                        n |-> @.n - 1]]
      /\ made' = made /\ left' = left
  BY <1>1 DEF ListRemove
<1>5. lists[l].n - 1 \in Nat
  <2>1. PICK i \in 1..Len(s) : s[i] = e
    BY <1>2 DEF IsList
  <2>2. Len(s) \in Nat /\ Len(s) >= 1 /\ lists[l].n = Len(s)
    BY <2>1 DEF IsList
  <2> QED BY <2>2
<1>6. ListType'
  <2>1. elem' \in [Elems -> Element]
    <3>1. Zero \in Element
      BY DEF Zero, Element, End
    <3> QED BY <1>2, <1>4, <3>1 DEF ListType, Element
  <2>2. lists' \in [Lists -> [head : End, tail : End, n : Nat]]
    BY <1>2, <1>4, <1>5 DEF ListType
  <2>3. made' \in SUBSET Elems /\ left' \in SUBSET made'
    BY <1>4 DEF ListType
  <2>4. ASSUME NEW x \in Elems \ made' PROVE elem'[x] = Zero
    <3>1. x # e /\ x # p /\ x # q /\ x \in Elems \ made
      BY <1>2, <1>3, <1>4, <2>4, LinkedListAssumption DEF Neighbour
    <3>2. elem'[x] = [elem[x] EXCEPT !.next = @, !.prev = @]
      BY <1>4, <3>1
    <3>3. elem[x] = Zero
      BY <3>1 DEF ListType
    <3> QED BY <3>2, <3>3 DEF Zero
  <2> QED BY <2>1, <2>2, <2>3, <2>4 DEF ListType
<1>7. ASSUME NEW m \in Lists \ {l} PROVE Apart(m)
  <2>1. lists'[m] = lists[m]
    BY <1>4 DEF ListType
  <2>2. \A x \in Elems : x # e => /\ elem'[x].next = (IF x = p THEN q ELSE elem[x].next)
                                  /\ elem'[x].prev = (IF x = q THEN p ELSE elem[x].prev)
                                  /\ elem'[x].list = elem[x].list
    BY <1>4 DEF ListType, Element
  <2>3. elem'[e].list = Nil /\ m # l /\ m # Nil
    BY <1>2, <1>4, LinkedListAssumption DEF Zero
  <2>4. ASSUME NEW x \in Elems, x \in made \ left, elem[x].list = m
        PROVE  elem'[x].next = elem[x].next /\ elem'[x].prev = elem[x].prev
    <3>1. x # e /\ x # p /\ x # q
      BY <1>2, <1>3, <2>3, <2>4, LinkedListAssumption DEF Neighbour
    <3> QED BY <2>2, <3>1
  <2>5. ASSUME NEW x \in Elems
        PROVE  x \in made' \ left' /\ elem'[x].list = m <=> x \in made \ left /\ elem[x].list = m
    <3>1. CASE x = e
      BY <1>2, <2>3, <3>1
    <3>2. CASE x # e
      BY <1>4, <2>2, <3>2
    <3> QED BY <3>1, <3>2
  <2> QED BY <2>1, <2>4, <2>5 DEF Apart
<1> QED BY <1>6, <1>7

LEMMA ClearType ==
  ASSUME ListType, NEW l \in Lists, ListClear(l)
  PROVE  /\ ListType' /\ IsList(l, <<>>)'
         /\ \A m \in Lists \ {l} : Apart(m)
<1>1. ListType'
  BY DEF ListClear, ListType, End
<1>2. IsList(l, <<>>)'
  <2>1. lists'[l] = [head |-> Nil, tail |-> Nil, n |-> 0]
    BY DEF ListClear, ListType
  <2>2. \A x \in Elems : ~(x \in made' \ left' /\ elem'[x].list = l)
    BY DEF ListClear
  <2>3. <<>> \in Seq(Elems) /\ Len(<<>>) = 0
    BY EmptySeq
  <2> QED BY <2>1, <2>2, <2>3 DEF IsList
<1>3. ASSUME NEW m \in Lists \ {l} PROVE Apart(m)
  BY DEF ListClear, ListType, Apart
<1> QED BY <1>1, <1>2, <1>3

-----------------------------------------------------------------------------
(* Every call changes the sequence of one list as its name says.           *)

\* The list l becomes t, the others stay.
Changes(l, t) ==
  /\ ListType' /\ IsList(l, t)'
  /\ \A m \in Lists \ {l} : Apart(m)

LEMMA ChangesOthers ==
  ASSUME NEW l \in Lists, NEW t, Changes(l, t), NEW m \in Lists, m # l, NEW s, IsList(m, s)
  PROVE  IsList(m, s)'
BY ApartIsList DEF Changes

LEMMA ChangeKeepsInvariant ==
  ASSUME ListInvariant, NEW l \in Lists, NEW t, Changes(l, t)
  PROVE  ListInvariant'
<1>1. ASSUME NEW m \in Lists PROVE \E s : IsList(m, s)'
  <2>1. CASE m = l
    BY <2>1 DEF Changes
  <2>2. CASE m # l
    <3>1. PICK s : IsList(m, s)
      BY DEF ListInvariant
    <3> QED BY <2>2, <3>1, ChangesOthers
  <2> QED BY <2>1, <2>2
<1> QED BY <1>1 DEF ListInvariant, Changes

LEMMA ChangeIsAbstract ==
  ASSUME ListInvariant, NEW l \in Lists, NEW t, Changes(l, t)
  PROVE  Abstract!Becomes(l, t)
<1>1. PICK o : o = [m \in Lists |-> Walk(m)]
  OBVIOUS
<1>2. \A m \in Lists : IsList(m, o[m])
  BY <1>1, WalksAre DEF ListInvariant
<1>3. PICK u : u = [o EXCEPT ![l] = t]
  OBVIOUS
<1>4. /\ u = [m \in Lists |-> u[m]] /\ u[l] = t
      /\ \A m \in Lists : m # l => u[m] = o[m]
  BY <1>1, <1>3
<1>5. ASSUME NEW m \in Lists PROVE IsList(m, u[m])'
  <2>1. CASE m = l
    BY <1>4, <2>1 DEF Changes
  <2>2. CASE m # l
    <3>1. u[m] = o[m]
      BY <1>4, <2>2
    <3>2. IsList(m, u[m])
      BY <1>2, <3>1
    <3> QED BY <2>2, <3>2, ChangesOthers
  <2> QED BY <2>1, <2>2
<1>6. \A m \in Lists : Walk(m)' = u[m] /\ WalkBack(m)' = u[m]
  BY <1>5, WalksAreNext
<1>7. [m \in Lists |-> Walk(m)'] = u /\ [m \in Lists |-> WalkBack(m)'] = u
  BY <1>4, <1>6
<1>8. [m \in Lists |-> lists'[m].n] = [m \in Lists |-> Len(u[m])]
  <2>1. \A m \in Lists : lists'[m].n = Len(u[m])
    BY <1>5 DEF IsList
  <2> QED BY <2>1
<1>9. ASSUME NEW e \in Elems
      PROVE  (IF e \in left' THEN Nil ELSE elem'[e].list) = Abstract!Owner(u, e)
  <2>1. \A m \in Lists : Abstract!Contains(u[m], e) <=> e \in made' \ left' /\ elem'[e].list = m
    BY <1>5 DEF IsList, Abstract!Contains
  <2>2. ListType'
    BY DEF Changes
  <2>3. CASE e \in made' \ left' /\ elem'[e].list \in Lists
    <3>1. \E m \in Lists : Abstract!Contains(u[m], e)
      BY <2>1, <2>3
    <3>2. (CHOOSE m \in Lists : Abstract!Contains(u[m], e)) = elem'[e].list
      BY <2>1, <2>3
    <3> QED BY <2>3, <3>1, <3>2 DEF Abstract!Owner
  <2>4. CASE ~(e \in made' \ left' /\ elem'[e].list \in Lists)
    <3>1. ~\E m \in Lists : Abstract!Contains(u[m], e)
      BY <2>1, <2>4
    <3>2. e \notin left' => elem'[e].list = Nil
      BY <2>2, <2>4 DEF ListType, Element, Zero
    <3> QED BY <3>1, <3>2 DEF Abstract!Owner
  <2> QED BY <2>3, <2>4
<1>10. [e \in Elems |-> IF e \in left' THEN Nil ELSE elem'[e].list]
         = [e \in Elems |-> Abstract!Owner(u, e)]
  BY <1>9
<1> QED BY <1>1, <1>3, <1>7, <1>8, <1>10 DEF Abstract!Becomes
-----------------------------------------------------------------------------
(* What each call does to the sequence, here and in SeqList.               *)

LEMMA SameSequences ==
  /\ \A t, i, x : Abstract!InsertAt(t, i, x) = InsertAt(t, i, x)
  /\ \A t, i : Abstract!RemoveAt(t, i) = RemoveAt(t, i)
BY DEF Abstract!InsertAt, Abstract!RemoveAt, InsertAt, RemoveAt

LEMMA InsertChanges ==
  ASSUME ListInvariant, NEW l \in Lists, NEW e \in Elems \ made, NEW s, IsList(l, s),
         NEW i \in 1..(Len(s) + 1), Linked(l, e, Before(s, i), After(s, i))
  PROVE  ListInvariant' /\ Abstract!Becomes(l, InsertAt(s, i, e))
<1>1. s \in Seq(Elems) /\ Len(s) \in Nat /\ \A k \in 1..Len(s) : s[k] \in made \ left /\ elem[s[k]].list = l
  BY ElementOfSeq, LenProperties DEF IsList
<1>2. Neighbour(l, Before(s, i)) /\ Neighbour(l, After(s, i))
  <2>1. i # 1 => i - 1 \in 1..Len(s)
    BY <1>1
  <2>2. i # Len(s) + 1 => i \in 1..Len(s)
    BY <1>1
  <2> QED BY <1>1, <2>1, <2>2 DEF Neighbour, Before, After
<1>3. ListType
  BY DEF ListInvariant
<1>4. Changes(l, InsertAt(s, i, e))
  BY <1>2, <1>3, LinkedType, InsertIsList DEF Changes
<1> QED BY <1>4, ChangeKeepsInvariant, ChangeIsAbstract

\* A sequence's element is found at its own place.
LEMMA PlaceOf ==
  ASSUME NEW l \in Lists, NEW s, IsList(l, s)
  PROVE  /\ [m \in Lists |-> Walk(m)][l] = s
         /\ s \in Seq(Elems) /\ Len(s) \in Nat
         /\ \A i \in 1..Len(s) : Abstract!Position(l, s[i]) = i
<1>1. Walk(l) = s
  BY WalksAre
<1>2. s \in Seq(Elems) /\ Len(s) \in Nat /\ DOMAIN s = 1..Len(s)
  BY LenProperties DEF IsList
<1>3. ASSUME NEW i \in 1..Len(s) PROVE Abstract!Position(l, s[i]) = i
  <2>1. Abstract!Position(l, s[i]) = CHOOSE k \in DOMAIN s : s[k] = s[i]
    BY <1>1 DEF Abstract!Position
  <2>2. \A k \in DOMAIN s : s[k] = s[i] => k = i
    BY <1>2 DEF IsList
  <2> QED BY <1>2, <2>1, <2>2
<1> QED BY <1>1, <1>2, <1>3

LEMMA NewIsFresh ==
  ASSUME ListInvariant, NEW e \in Elems \ made
  PROVE  Abstract!Fresh(e)
BY DEF ListInvariant, ListType, Zero, Abstract!Fresh

\* An element the list has not let go of is at some place of it.
LEMMA OnList ==
  ASSUME ListInvariant, NEW l \in Lists, NEW s, IsList(l, s),
         NEW e \in made \ left, elem[e].list = l
  PROVE  \E i \in 1..Len(s) : s[i] = e
<1>1. e \in Elems
  BY DEF ListInvariant, ListType
<1> QED BY <1>1 DEF IsList

LEMMA OnIs ==
  ASSUME ListInvariant, NEW l \in Lists, NEW e \in made \ left, elem[e].list = l
  PROVE  [x \in Elems |-> IF x \in left THEN Nil ELSE elem[x].list][e] = l
BY DEF ListInvariant, ListType

LEMMA PushBackIsAbstract ==
  ASSUME ListInvariant, NEW l \in Lists, NEW e \in Elems \ made, PushBack(l, e)
  PROVE  ListInvariant' /\ Abstract!PushBack(l, e)
<1>1. PICK s : IsList(l, s)
  BY DEF ListInvariant
<1>2. [m \in Lists |-> Walk(m)][l] = s /\ s \in Seq(Elems) /\ Len(s) \in Nat
  BY <1>1, PlaceOf
<1>3. PICK i \in 1..(Len(s) + 1) : i = Len(s) + 1
  BY <1>2
<1>4. lists[l].tail = Before(s, i) /\ Nil = After(s, i)
  <2>1. s = <<>> <=> Len(s) = 0
    BY <1>2, EmptySeq
  <2> QED BY <1>1, <1>2, <1>3, <2>1 DEF IsList, Before, After
<1>5. ListInvariant' /\ Abstract!Becomes(l, InsertAt(s, i, e))
  BY <1>1, <1>4, InsertChanges DEF PushBack
<1>6. InsertAt(s, i, e) = Append(s, e)
  <2>1. InsertAt(s, i, e) \in Seq(Elems) /\ Append(s, e) \in Seq(Elems)
    BY <1>2, InsertAtIs
  <2>2. Len(InsertAt(s, i, e)) = Len(Append(s, e))
    BY <1>2, InsertAtIs
  <2>3. ASSUME NEW k \in 1..(Len(s) + 1) PROVE InsertAt(s, i, e)[k] = Append(s, e)[k]
    <3>1. InsertAt(s, i, e)[k] = IF k = Len(s) + 1 THEN e ELSE s[k]
      BY <1>2, <1>3, InsertAtIs
    <3>2. Append(s, e)[k] = IF k = Len(s) + 1 THEN e ELSE s[k]
      BY <1>2
    <3> QED BY <3>1, <3>2
  <2>4. Len(Append(s, e)) = Len(s) + 1
    BY <1>2
  <2> QED BY <2>1, <2>2, <2>3, <2>4, SeqEqual
<1>7. Append([m \in Lists |-> Walk(m)][l], e) = InsertAt(s, i, e)
  BY <1>2, <1>6
<1> QED BY <1>5, <1>7, NewIsFresh DEF Abstract!PushBack, Abstract!Becomes

LEMMA PushFrontIsAbstract ==
  ASSUME ListInvariant, NEW l \in Lists, NEW e \in Elems \ made, PushFront(l, e)
  PROVE  ListInvariant' /\ Abstract!PushFront(l, e)
<1>1. PICK s : IsList(l, s)
  BY DEF ListInvariant
<1>2. [m \in Lists |-> Walk(m)][l] = s /\ s \in Seq(Elems) /\ Len(s) \in Nat
  BY <1>1, PlaceOf
<1>3. PICK i \in 1..(Len(s) + 1) : i = 1
  BY <1>2
<1>4. Nil = Before(s, i) /\ lists[l].head = After(s, i)
  <2>1. s = <<>> <=> Len(s) = 0
    BY <1>2, EmptySeq
  <2> QED BY <1>1, <1>2, <1>3, <2>1 DEF IsList, Before, After
<1>5. ListInvariant' /\ Abstract!Becomes(l, InsertAt(s, i, e))
  BY <1>1, <1>4, InsertChanges DEF PushFront
<1>6. InsertAt(s, i, e) = <<e>> \o s
  <2>1. InsertAt(s, i, e) \in Seq(Elems) /\ <<e>> \o s \in Seq(Elems)
    BY <1>2, InsertAtIs
  <2>2. Len(<<e>> \o s) = Len(s) + 1 /\ Len(InsertAt(s, i, e)) = Len(s) + 1
    BY <1>2, InsertAtIs
  <2>3. ASSUME NEW k \in 1..(Len(s) + 1) PROVE InsertAt(s, i, e)[k] = (<<e>> \o s)[k]
    <3>1. InsertAt(s, i, e)[k] = IF k = 1 THEN e ELSE s[k - 1]
      BY <1>2, <1>3, InsertAtIs
    <3>2. (<<e>> \o s)[k] = IF k = 1 THEN e ELSE s[k - 1]
      BY <1>2
    <3> QED BY <3>1, <3>2
  <2> QED BY <2>1, <2>2, <2>3, SeqEqual
<1>7. <<e>> \o [m \in Lists |-> Walk(m)][l] = InsertAt(s, i, e)
  BY <1>2, <1>6
<1> QED BY <1>5, <1>7, NewIsFresh DEF Abstract!PushFront, Abstract!Becomes

LEMMA InsertIsAbstract ==
  ASSUME ListInvariant, NEW l \in Lists, NEW e \in Elems \ made, NEW mark
  PROVE  /\ InsertBefore(l, e, mark) => ListInvariant' /\ Abstract!InsertBefore(l, e, mark)
         /\ InsertAfter(l, e, mark) => ListInvariant' /\ Abstract!InsertAfter(l, e, mark)
<1>1. PICK s : IsList(l, s)
  BY DEF ListInvariant
<1>2. [m \in Lists |-> Walk(m)][l] = s /\ s \in Seq(Elems) /\ Len(s) \in Nat
  BY <1>1, PlaceOf
<1>3. SUFFICES ASSUME Marks(l, mark)
               PROVE  /\ InsertBefore(l, e, mark) => ListInvariant' /\ Abstract!InsertBefore(l, e, mark)
                      /\ InsertAfter(l, e, mark) => ListInvariant' /\ Abstract!InsertAfter(l, e, mark)
  BY DEF InsertBefore, InsertAfter
<1>4. PICK i \in 1..Len(s) : s[i] = mark
  BY <1>1, <1>3, OnList DEF Marks
<1>5. [x \in Elems |-> IF x \in left THEN Nil ELSE elem[x].list][mark] = l
  BY <1>3, OnIs DEF Marks
<1>6. Abstract!Position(l, mark) = i
  BY <1>1, <1>4, PlaceOf
<1>7. /\ i \in 1..(Len(s) + 1) /\ i + 1 \in 1..(Len(s) + 1)
      /\ i # Len(s) + 1 /\ i + 1 # 1 /\ (i + 1) - 1 = i
      /\ (i + 1 = Len(s) + 1 <=> i = Len(s))
  BY <1>2
<1>8. /\ elem[mark].prev = Before(s, i) /\ mark = After(s, i)
      /\ mark = Before(s, i + 1) /\ elem[mark].next = After(s, i + 1)
  BY <1>1, <1>4, <1>7 DEF IsList, Before, After
<1>9. ASSUME InsertBefore(l, e, mark) PROVE ListInvariant' /\ Abstract!InsertBefore(l, e, mark)
  <2>1. ListInvariant' /\ Abstract!Becomes(l, InsertAt(s, i, e))
    BY <1>1, <1>7, <1>8, <1>9, InsertChanges DEF InsertBefore
  <2> QED BY <1>2, <1>5, <1>6, <2>1, NewIsFresh, SameSequences DEF Abstract!InsertBefore, Abstract!Becomes
<1>10. ASSUME InsertAfter(l, e, mark) PROVE ListInvariant' /\ Abstract!InsertAfter(l, e, mark)
  <2>1. ListInvariant' /\ Abstract!Becomes(l, InsertAt(s, i + 1, e))
    BY <1>1, <1>7, <1>8, <1>10, InsertChanges DEF InsertAfter
  <2> QED BY <1>2, <1>5, <1>6, <2>1, NewIsFresh, SameSequences DEF Abstract!InsertAfter, Abstract!Becomes
<1> QED BY <1>9, <1>10

LEMMA RemoveIsAbstract ==
  ASSUME ListInvariant, NEW l \in Lists, NEW e, ListRemove(l, e)
  PROVE  ListInvariant' /\ Abstract!Drop(l, e)
<1>1. PICK s : IsList(l, s)
  BY DEF ListInvariant
<1>2. [m \in Lists |-> Walk(m)][l] = s
  BY <1>1, PlaceOf
<1>3. e \in made \ left /\ elem[e].list = l
  BY DEF ListRemove
<1>4. PICK i \in 1..Len(s) : s[i] = e
  BY <1>1, <1>3, OnList
<1>5. [x \in Elems |-> IF x \in left THEN Nil ELSE elem[x].list][e] = l
  BY <1>3, OnIs
<1>6. Abstract!Position(l, e) = i
  BY <1>1, <1>4, PlaceOf
<1>7. Changes(l, RemoveAt(s, i))
  BY <1>1, <1>4, RemoveType, RemoveIsList DEF Changes, ListInvariant
<1>8. ListInvariant' /\ Abstract!Becomes(l, RemoveAt(s, i))
  BY <1>7, ChangeKeepsInvariant, ChangeIsAbstract
<1> QED BY <1>2, <1>5, <1>6, <1>8, SameSequences DEF Abstract!Drop, Abstract!Becomes

LEMMA ClearIsAbstract ==
  ASSUME ListInvariant, NEW l \in Lists, ListClear(l)
  PROVE  ListInvariant' /\ Abstract!Empty(l)
<1>1. Changes(l, <<>>)
  BY ClearType DEF Changes, ListInvariant
<1> QED BY <1>1, ChangeKeepsInvariant, ChangeIsAbstract DEF Abstract!Empty

-----------------------------------------------------------------------------

LEMMA InitIsLists ==
  ListInit => ListInvariant /\ Abstract!Init
<1> SUFFICES ASSUME ListInit PROVE ListInvariant /\ Abstract!Init
  OBVIOUS
<1>1. ListType
  BY DEF ListInit, ListType, Element, End, Zero
<1>2. \A l \in Lists : IsList(l, <<>>)
  <2>1. <<>> \in Seq(Elems) /\ Len(<<>>) = 0
    BY EmptySeq
  <2> QED BY <2>1 DEF ListInit, IsList
<1>3. ListInvariant
  BY <1>1, <1>2 DEF ListInvariant
<1>4. \A l \in Lists : Walk(l) = <<>> /\ WalkBack(l) = <<>>
  BY <1>2, WalksAre
<1>5. /\ [l \in Lists |-> Walk(l)] = [l \in Lists |-> <<>>]
      /\ [l \in Lists |-> WalkBack(l)] = [l \in Lists |-> Walk(l)]
  BY <1>4
<1>6. /\ [l \in Lists |-> lists[l].n] = [l \in Lists |-> 0]
      /\ [e \in Elems |-> IF e \in left THEN Nil ELSE elem[e].list] = [e \in Elems |-> Nil]
  BY DEF ListInit, Zero
<1> QED BY <1>3, <1>5, <1>6 DEF Abstract!Init

LEMMA StepIsAbstract ==
  ListInvariant /\ [ListNext]_listVars => ListInvariant' /\ [Abstract!Next]_(Abstract!vars)
<1> SUFFICES ASSUME ListInvariant, [ListNext]_listVars
             PROVE  ListInvariant' /\ [Abstract!Next]_(Abstract!vars)
  OBVIOUS
<1>1. CASE UNCHANGED listVars
  <2>1. elem' = elem /\ lists' = lists /\ made' = made /\ left' = left
    BY <1>1 DEF listVars
  <2>2. ListInvariant'
    BY <2>1 DEF ListInvariant, ListType, IsList
  <2>3. \A l \in Lists : Walk(l)' = Walk(l) /\ WalkBack(l)' = WalkBack(l)
    <3>1. \A l, s : IsList(l, s) => IsList(l, s)'
      BY <2>1 DEF IsList
    <3> QED BY <3>1, WalksAre, WalksAreNext DEF ListInvariant
  <2>4. /\ [l \in Lists |-> Walk(l)'] = [l \in Lists |-> Walk(l)]
        /\ [l \in Lists |-> WalkBack(l)'] = [l \in Lists |-> WalkBack(l)]
    BY <2>3
  <2>5. /\ [l \in Lists |-> lists'[l].n] = [l \in Lists |-> lists[l].n]
        /\ [e \in Elems |-> IF e \in left' THEN Nil ELSE elem'[e].list]
             = [e \in Elems |-> IF e \in left THEN Nil ELSE elem[e].list]
    BY <2>1
  <2>6. UNCHANGED Abstract!vars
    BY <2>4, <2>5 DEF Abstract!vars
  <2> QED BY <2>2, <2>6
<1>2. CASE ListNext
  <2>1. PICK l \in Lists :
          \/ ListClear(l)
          \/ \E e \in Elems \ made :
               \/ PushBack(l, e)
               \/ PushFront(l, e)
               \/ \E mark \in Elems : InsertBefore(l, e, mark)
               \/ \E mark \in Elems : InsertAfter(l, e, mark)
          \/ \E e \in Elems : ListRemove(l, e)
    BY <1>2 DEF ListNext
  <2>2. CASE ListClear(l)
    BY <2>2, ClearIsAbstract DEF Abstract!Next
  <2>3. CASE \E e \in Elems \ made : PushBack(l, e)
    BY <2>3, PushBackIsAbstract DEF Abstract!Next
  <2>4. CASE \E e \in Elems \ made : PushFront(l, e)
    BY <2>4, PushFrontIsAbstract DEF Abstract!Next
  <2>5. CASE \E e \in Elems \ made : \E mark \in Elems : InsertBefore(l, e, mark)
    BY <2>5, InsertIsAbstract DEF Abstract!Next
  <2>6. CASE \E e \in Elems \ made : \E mark \in Elems : InsertAfter(l, e, mark)
    BY <2>6, InsertIsAbstract DEF Abstract!Next
  <2>7. CASE \E e \in Elems : ListRemove(l, e)
    BY <2>7, RemoveIsAbstract DEF Abstract!Next
  <2> QED BY <2>1, <2>2, <2>3, <2>4, <2>5, <2>6, <2>7
<1> QED BY <1>1, <1>2

LEMMA CallsAreAbstract ==
  ListInvariant => CallIsAbstract
<1> SUFFICES ASSUME ListInvariant, NEW l \in Lists
             PROVE  /\ ListClear(l) => Abstract!Empty(l)
                    /\ \A e \in Elems \ made :
                         /\ PushBack(l, e) => Abstract!PushBack(l, e)
                         /\ PushFront(l, e) => Abstract!PushFront(l, e)
                         /\ \A m \in made : /\ InsertBefore(l, e, m) => Abstract!InsertBefore(l, e, m)
                                            /\ InsertAfter(l, e, m) => Abstract!InsertAfter(l, e, m)
                    /\ \A e \in made : ListRemove(l, e) => Abstract!Drop(l, e)
  BY DEF CallIsAbstract
<1> QED BY ClearIsAbstract, PushBackIsAbstract, PushFrontIsAbstract, InsertIsAbstract, RemoveIsAbstract

(* container/list is a sequence, for any number of lists and elements: from the
   empty lists on, every call does to the sequence, read along next, what its name
   says, while the same elements are met backwards along prev, the length counts
   them and each element's list field names the list that holds it.              *)
THEOREM ListsAreSequences == ListSpec => ListRefines
<1>1. ListInit => ListInvariant /\ Abstract!Init
  BY InitIsLists
<1>2. ListInvariant /\ [ListNext]_listVars => ListInvariant' /\ [Abstract!Next]_(Abstract!vars)
  BY StepIsAbstract
<1>3. ListInvariant => CallIsAbstract
  BY CallsAreAbstract
<1> QED BY <1>1, <1>2, <1>3, PTL DEF ListSpec, ListRefines, Abstract!Spec

-----------------------------------------------------------------------------
(* archive/zip and archive/tar.

   Both read back by position: zip's central headers say where an entry starts,
   tar's Reader adds up sizes and padding.  So the inductive invariants say where
   each piece is, as a sum of the lengths before it.                             *)
\* f is what the steps make of v.
Iterates(f, V, v, n, step) ==
  f \in [0..n -> V] /\ f[0] = v /\ \A k \in 1..n : f[k] = step[k][f[k - 1]]

LEMMA IterExists ==
  ASSUME NEW V, NEW v \in V, NEW n \in Nat, NEW step \in [1..n -> [V -> V]]
  PROVE  \E f : Iterates(f, V, v, n, step)
<1> USE DEF Iterates
<1> DEFINE Iter(x) == \E f \in [0..x -> V] : f[0] = v /\ \A k \in 1..x : f[k] = step[k][f[k - 1]]
           T == {x \in 0..n : ~Iter(x)}
<1>1. SUFFICES ASSUME ~Iter(n) PROVE FALSE
  OBVIOUS
<1>2. PICK x \in T : \A y \in T : x <= y
  <2>1. T \subseteq Nat /\ T # {}
    <3> HIDE DEF Iter
    <3> QED BY <1>1
  <2> HIDE DEF T
  <2> QED BY <2>1, Least
<1>3. x \in 0..n /\ ~Iter(x)
  BY <1>2
<1>4. CASE x = 0
  <2>1. [k \in 0..0 |-> v] \in [0..0 -> V] /\ [k \in 0..0 |-> v][0] = v /\ 1..0 = {}
    OBVIOUS
  <2> QED BY <1>3, <1>4, <2>1
<1>5. CASE x # 0
  <2>1. x - 1 \in 0..n /\ x - 1 < x /\ x \in 1..n /\ x - 1 \in 0..(x - 1)
    BY <1>3, <1>5
  <2>2. Iter(x - 1)
    <3>1. x - 1 \notin T
      <4> HIDE DEF T
      <4> QED BY <1>2, <1>3, <2>1
    <3> HIDE DEF Iter
    <3> QED BY <2>1, <3>1
  <2>3. PICK g \in [0..(x - 1) -> V] : g[0] = v /\ \A k \in 1..(x - 1) : g[k] = step[k][g[k - 1]]
    BY <2>2
  <2>4. PICK h : h = [k \in 0..x |-> IF k = x THEN step[x][g[x - 1]] ELSE g[k]]
    OBVIOUS
  <2>5. h \in [0..x -> V]
    <3>1. step[x][g[x - 1]] \in V
      BY <2>1, <2>3
    <3>2. \A k \in 0..x : k # x => k \in 0..(x - 1)
      BY <2>1
    <3> QED BY <2>3, <2>4, <3>1, <3>2
  <2>6. h[0] = v
    BY <1>5, <2>1, <2>3, <2>4
  <2>7. ASSUME NEW k \in 1..x PROVE h[k] = step[k][h[k - 1]]
    <3>1. k - 1 \in 0..x /\ k - 1 # x /\ h[k - 1] = g[k - 1]
      BY <2>1, <2>4
    <3>2. CASE k = x
      BY <2>1, <2>4, <3>1, <3>2
    <3>3. CASE k # x
      <4>1. k \in 1..(x - 1) /\ h[k] = g[k]
        BY <2>1, <2>4, <3>3
      <4> QED BY <2>3, <3>1, <4>1
    <3> QED BY <3>2, <3>3
  <2> QED BY <1>3, <2>5, <2>6, <2>7
<1> QED BY <1>4, <1>5

LEMMA SumIs ==
  ASSUME NEW lens \in Seq(Nat)
  PROVE  /\ SumBefore(lens, 1) = 0
         /\ \A i \in 1..Len(lens) : SumBefore(lens, i + 1) = SumBefore(lens, i) + lens[i]
         /\ \A i \in 1..(Len(lens) + 1) : SumBefore(lens, i) \in Nat
<1>1. PICK n \in Nat : n = Len(lens)
  OBVIOUS
<1>2. \A i \in 1..n : lens[i] \in Nat
  BY <1>1, ElementOfSeq
<1> DEFINE Sum(f) == f = [k \in 0..n |-> IF k = 0 THEN 0 ELSE f[k - 1] + lens[k]]
<1>3. PICK step : step = [k \in 1..n |-> [x \in Nat |-> x + lens[k]]]
  OBVIOUS
<1>4. step \in [1..n -> [Nat -> Nat]]
  <2>1. \A k \in 1..n : [x \in Nat |-> x + lens[k]] \in [Nat -> Nat]
    BY <1>2
  <2> QED BY <1>3, <2>1
<1>5. PICK g \in [0..n -> Nat] : g[0] = 0 /\ \A k \in 1..n : g[k] = step[k][g[k - 1]]
  <2>1. \E g : Iterates(g, Nat, 0, n, step)
    BY <1>4, IterExists
  <2> QED BY <2>1 DEF Iterates
<1>6. Sum(g)
  <2>1. ASSUME NEW k \in 0..n, k # 0 PROVE g[k] = g[k - 1] + lens[k]
    <3>1. k \in 1..n /\ k - 1 \in 0..n /\ g[k - 1] \in Nat
      BY <2>1
    <3> QED BY <1>3, <1>5, <3>1
  <2> QED BY <1>5, <2>1
<1>7. PICK f : f = CHOOSE h : Sum(h)
  OBVIOUS
<1>8. Sum(f)
  BY <1>6, <1>7
<1>9. \A i : SumBefore(lens, i) = f[i - 1]
  BY <1>1, <1>7 DEF SumBefore
<1> HIDE DEF Sum
<1>10. f = g
  <2>1. f = [k \in 0..n |-> IF k = 0 THEN 0 ELSE f[k - 1] + lens[k]]
    BY <1>8 DEF Sum
  <2>2. \A k \in 0..n : f[k] = IF k = 0 THEN 0 ELSE f[k - 1] + lens[k]
    BY <2>1
  <2>3. g = [k \in 0..n |-> IF k = 0 THEN 0 ELSE g[k - 1] + lens[k]]
    BY <1>6 DEF Sum
  <2>4. \A k \in 0..n : g[k] = IF k = 0 THEN 0 ELSE g[k - 1] + lens[k]
    BY <2>3
  <2> DEFINE T == {k \in 0..n : f[k] # g[k]}
  <2>5. ASSUME T # {} PROVE FALSE
    <3>1. PICK x \in T : \A y \in T : x <= y
      <4>1. T \subseteq Nat
        OBVIOUS
      <4> HIDE DEF T
      <4> QED BY <2>5, <4>1, Least
    <3>2. x \in 0..n /\ f[x] # g[x]
      BY <3>1
    <3>3. CASE x = 0
      BY <2>2, <2>4, <3>2, <3>3
    <3>4. CASE x # 0
      <4>1. x - 1 \in 0..n /\ x - 1 < x
        BY <3>2, <3>4
      <4>2. f[x - 1] = g[x - 1]
        BY <3>1, <4>1
      <4>3. f[x] = f[x - 1] + lens[x] /\ g[x] = g[x - 1] + lens[x]
        BY <2>2, <2>4, <3>2, <3>4
      <4> QED BY <3>2, <4>2, <4>3
    <3> QED BY <3>3, <3>4
  <2>6. \A k \in 0..n : f[k] = g[k]
    BY <2>5
  <2> QED BY <2>1, <2>6
<1>11. \A i \in 1..n : g[i] = g[i - 1] + lens[i]
  <2>1. g = [k \in 0..n |-> IF k = 0 THEN 0 ELSE g[k - 1] + lens[k]]
    BY <1>6 DEF Sum
  <2> QED BY <2>1
<1>12. SumBefore(lens, 1) = 0
  <2>1. SumBefore(lens, 1) = f[1 - 1] /\ 1 - 1 = 0
    BY <1>9
  <2> QED BY <1>5, <1>10, <2>1
<1>13. ASSUME NEW i \in 1..n PROVE SumBefore(lens, i + 1) = SumBefore(lens, i) + lens[i]
  <2>1. (i + 1) - 1 = i
    OBVIOUS
  <2> QED BY <1>9, <1>10, <1>11, <2>1
<1>14. ASSUME NEW i \in 1..(n + 1) PROVE SumBefore(lens, i) \in Nat
  <2>1. i - 1 \in 0..n
    OBVIOUS
  <2> QED BY <1>5, <1>9, <1>10, <2>1
<1> QED BY <1>1, <1>12, <1>13, <1>14

\* The sum depends on what is summed, on that alone.
LEMMA SumSame ==
  ASSUME NEW a \in Seq(Nat), NEW b \in Seq(Nat), NEW m \in Nat, m <= Len(a), m <= Len(b),
         \A i \in 1..m : a[i] = b[i]
  PROVE  \A i \in 1..(m + 1) : SumBefore(a, i) = SumBefore(b, i)
<1> DEFINE T == {i \in 1..(m + 1) : SumBefore(a, i) # SumBefore(b, i)}
<1>1. ASSUME T # {} PROVE FALSE
  <2>1. PICK x \in T : \A y \in T : x <= y
    <3>1. T \subseteq Nat
      OBVIOUS
    <3> HIDE DEF T
    <3> QED BY <1>1, <3>1, Least
  <2>2. x \in 1..(m + 1) /\ SumBefore(a, x) # SumBefore(b, x)
    BY <2>1
  <2>3. CASE x = 1
    BY <2>2, <2>3, SumIs
  <2>4. CASE x # 1
    <3>1. PICK y : y = x - 1
      OBVIOUS
    <3>2. y \in 1..m /\ y < x /\ y + 1 = x
      BY <2>2, <2>4, <3>1
    <3>3. y \in 1..Len(a) /\ y \in 1..Len(b) /\ y \in 1..(m + 1)
      BY <3>2
    <3>4. SumBefore(a, y) = SumBefore(b, y)
      BY <2>1, <3>2, <3>3
    <3>5. SumBefore(a, y + 1) = SumBefore(a, y) + a[y] /\ SumBefore(b, y + 1) = SumBefore(b, y) + b[y]
      BY <3>3, SumIs
    <3> QED BY <2>2, <3>2, <3>4, <3>5
  <2> QED BY <2>3, <2>4
<1> QED BY <1>1

LEMMA SumGrows ==
  ASSUME NEW a \in Seq(Nat), NEW i \in 1..(Len(a) + 1), NEW j \in 1..(Len(a) + 1), i <= j
  PROVE  SumBefore(a, i) <= SumBefore(a, j)
<1> DEFINE T == {k \in 1..(Len(a) + 1) : i <= k /\ ~(SumBefore(a, i) <= SumBefore(a, k))}
<1>0. Len(a) \in Nat
  OBVIOUS
<1>1. ASSUME T # {} PROVE FALSE
  <2>1. PICK x \in T : \A y \in T : x <= y
    <3>1. T \subseteq Nat
      BY <1>0
    <3> HIDE DEF T
    <3> QED BY <1>1, <3>1, Least
  <2>2. x \in 1..(Len(a) + 1) /\ i <= x /\ ~(SumBefore(a, i) <= SumBefore(a, x))
    BY <2>1
  <2>3. CASE x = i
    BY <2>2, <2>3, SumIs
  <2>4. CASE x # i
    <3>1. PICK y : y = x - 1
      OBVIOUS
    <3>2. y \in 1..Len(a) /\ y \in 1..(Len(a) + 1) /\ y < x /\ y + 1 = x /\ i <= y
      BY <1>0, <2>2, <2>4, <3>1
    <3>3. SumBefore(a, i) <= SumBefore(a, y)
      BY <2>1, <3>2
    <3>4. SumBefore(a, x) = SumBefore(a, y) + a[y] /\ a[y] \in Nat
      BY <3>2, SumIs, ElementOfSeq
    <3>5. SumBefore(a, i) \in Nat /\ SumBefore(a, y) \in Nat
      BY <3>2, SumIs
    <3> QED BY <2>2, <3>3, <3>4, <3>5
  <2> QED BY <2>3, <2>4
<1> QED BY <1>1

\* A sequence that goes on where another ends.
LEMMA SumJoin ==
  ASSUME NEW a \in Seq(Nat), NEW b \in Seq(Nat)
  PROVE  /\ \A i \in 1..(Len(a) + 1) : SumBefore(a \o b, i) = SumBefore(a, i)
         /\ \A i \in 1..(Len(b) + 1) :
              SumBefore(a \o b, Len(a) + i) = SumBefore(a, Len(a) + 1) + SumBefore(b, i)
<1>0. PICK n, m, c : n = Len(a) /\ m = Len(b) /\ c = a \o b
  OBVIOUS
<1>1. /\ n = Len(a) /\ m = Len(b) /\ c = a \o b
      /\ n \in Nat /\ m \in Nat /\ c \in Seq(Nat)
  BY <1>0
<1>2. /\ Len(c) = n + m /\ \A i \in 1..n : c[i] = a[i]
      /\ \A i \in 1..m : c[n + i] = b[i]
  BY <1>1
<1>3. \A i \in 1..(n + 1) : SumBefore(c, i) = SumBefore(a, i)
  <2>1. n <= Len(a) /\ n <= Len(c)
    BY <1>1, <1>2
  <2> QED BY <1>1, <1>2, <2>1, SumSame
<1> DEFINE T == {i \in 1..(m + 1) : SumBefore(c, n + i) # SumBefore(a, n + 1) + SumBefore(b, i)}
<1>4. ASSUME T # {} PROVE FALSE
  <2>1. PICK x \in T : \A y \in T : x <= y
    <3>1. T \subseteq Nat
      BY <1>1
    <3> HIDE DEF T
    <3> QED BY <1>4, <3>1, Least
  <2>2. x \in 1..(m + 1) /\ SumBefore(c, n + x) # SumBefore(a, n + 1) + SumBefore(b, x)
    BY <2>1
  <2>3. SumBefore(a, n + 1) \in Nat
    BY <1>1, SumIs
  <2>4. CASE x = 1
    <3>1. SumBefore(c, n + 1) = SumBefore(a, n + 1) /\ SumBefore(b, 1) = 0
      BY <1>1, <1>3, SumIs
    <3> QED BY <2>2, <2>3, <2>4, <3>1
  <2>5. CASE x # 1
    <3>1. PICK y : y = x - 1
      OBVIOUS
    <3>2. y \in 1..m /\ y \in 1..(m + 1) /\ y < x /\ y + 1 = x /\ n + y \in 1..(n + m) /\ (n + y) + 1 = n + x
      BY <1>1, <2>2, <2>5, <3>1
    <3>3. SumBefore(c, n + y) = SumBefore(a, n + 1) + SumBefore(b, y)
      BY <2>1, <3>2
    <3>4. SumBefore(c, (n + y) + 1) = SumBefore(c, n + y) + c[n + y]
      BY <1>1, <1>2, <3>2, SumIs
    <3>5. SumBefore(b, y + 1) = SumBefore(b, y) + b[y] /\ SumBefore(b, y) \in Nat /\ b[y] \in Nat
      BY <1>1, <3>2, SumIs, ElementOfSeq
    <3>6. c[n + y] = b[y]
      BY <1>2, <3>2
    <3>7. SumBefore(c, n + x) = (SumBefore(a, n + 1) + SumBefore(b, y)) + b[y]
      BY <3>2, <3>3, <3>4, <3>6
    <3>8. SumBefore(b, x) = SumBefore(b, y) + b[y]
      BY <3>2, <3>5
    <3> QED BY <2>2, <2>3, <3>5, <3>7, <3>8
  <2> QED BY <2>4, <2>5
<1> QED BY <1>1, <1>3, <1>4

-----------------------------------------------------------------------------
Entry == [name : Names, buf : Seq(Nat), crc : Seq(Nat), comp : Nat, offset : Nat]
Piece == [kind : {"local"}, name : Names, len : Nat]
           \union [kind : {"name"}, name : Names, len : Nat]
           \union [kind : {"data"}, content : Seq(Nat), len : Nat]
           \union [kind : {"central"}, name : Names, crc : Seq(Nat), comp : Nat, offset : Nat, len : Nat]
           \union [kind : {"end"}, count : Nat, start : Nat, len : Nat]

LEMMA PieceType ==
  /\ \A p \in Piece : p.len \in Nat
  /\ \A e \in Entry :
       /\ LocalHeader(e) \in Piece /\ LocalHeader(e).kind = "local"
       /\ NameOf(e) \in Piece /\ NameOf(e).kind = "name" /\ NameOf(e).len = Len(e.name)
       /\ CentralHeader(e) \in Piece /\ CentralHeader(e).kind = "central"
       /\ Len(e.name) \in Nat
  /\ \A c \in Seq(Nat) : Compressed(c) \in Piece /\ Compressed(c).kind = "data"
<1>1. \A n \in Names : Len(n) \in Nat
  BY ZipAssumption, LenProperties
<1>2. ASSUME NEW e \in Entry
      PROVE  /\ LocalHeader(e) \in Piece /\ LocalHeader(e).kind = "local"
             /\ NameOf(e) \in Piece /\ NameOf(e).kind = "name" /\ NameOf(e).len = Len(e.name)
             /\ CentralHeader(e) \in Piece /\ CentralHeader(e).kind = "central"
             /\ Len(e.name) \in Nat
  <2>1. e.name \in Names /\ e.crc \in Seq(Nat) /\ e.comp \in Nat /\ e.offset \in Nat /\ Len(e.name) \in Nat
    BY <1>1 DEF Entry
  <2> QED BY <2>1 DEF Piece, LocalHeader, NameOf, CentralHeader, LocalLen, CentralLen
<1>3. ASSUME NEW c \in Seq(Nat) PROVE Compressed(c) \in Piece /\ Compressed(c).kind = "data"
  BY LenProperties DEF Compressed, Piece
<1>4. \A p \in Piece : p.len \in Nat
  BY DEF Piece
<1> QED BY <1>2, <1>3, <1>4

Lens(f) == [k \in DOMAIN f |-> f[k].len]

LEMMA LensType ==
  ASSUME NEW f \in Seq(Piece)
  PROVE  /\ Lens(f) \in Seq(Nat) /\ Len(Lens(f)) = Len(f) /\ Len(f) \in Nat
         /\ \A i \in 1..Len(f) : f[i] \in Piece /\ f[i].len \in Nat /\ Lens(f)[i] = f[i].len
<1>1. Len(f) \in Nat /\ DOMAIN f = 1..Len(f) /\ \A i \in 1..Len(f) : f[i] \in Piece
  BY LenProperties, ElementOfSeq
<1>2. \A i \in 1..Len(f) : f[i].len \in Nat
  BY <1>1, PieceType
<1>3. Lens(f) \in [1..Len(f) -> Nat]
  BY <1>1, <1>2 DEF Lens
<1>4. Lens(f) \in Seq(Nat) /\ Len(Lens(f)) = Len(f)
  BY <1>1, <1>3, SeqDef, LenProperties
<1> QED BY <1>1, <1>2, <1>4 DEF Lens

LEMMA StartIs ==
  ASSUME NEW f \in Seq(Piece)
  PROVE  /\ Start(f, 1) = 0 /\ Length(f) \in Nat
         /\ \A i \in 1..Len(f) : Start(f, i + 1) = Start(f, i) + f[i].len
         /\ \A i \in 1..(Len(f) + 1) : Start(f, i) \in Nat
<1>1. \A i : Start(f, i) = SumBefore(Lens(f), i)
  BY DEF Start, Lens
<1>2. Len(f) + 1 \in 1..(Len(f) + 1)
  BY LensType
<1> QED BY <1>1, <1>2, LensType, SumIs DEF Length

\* Two pieces that are not empty start at different places.
LEMMA StartIsOne ==
  ASSUME NEW f \in Seq(Piece), NEW i \in 1..Len(f), NEW j \in 1..Len(f),
         f[i].len > 0, f[j].len > 0, Start(f, i) = Start(f, j)
  PROVE  i = j
<1>1. \A k : Start(f, k) = SumBefore(Lens(f), k)
  BY DEF Start, Lens
<1>2. ASSUME NEW a \in 1..Len(f), NEW b \in 1..Len(f), a < b, f[a].len > 0 PROVE Start(f, a) < Start(f, b)
  <2>1. a + 1 \in 1..(Len(f) + 1) /\ b \in 1..(Len(f) + 1) /\ a + 1 <= b /\ a \in 1..(Len(f) + 1)
    BY <1>2, LensType
  <2>2. Start(f, a + 1) <= Start(f, b)
    BY <1>1, <2>1, LensType, SumGrows
  <2>3. /\ Start(f, a + 1) = Start(f, a) + f[a].len /\ Start(f, a) \in Nat
        /\ Start(f, b) \in Nat /\ f[a].len \in Nat
    BY <2>1, StartIs, LensType
  <2> QED BY <1>2, <2>2, <2>3
<1>3. Start(f, i) \in Nat /\ Start(f, j) \in Nat
  <2>1. i \in 1..(Len(f) + 1) /\ j \in 1..(Len(f) + 1)
    BY LensType
  <2> QED BY <2>1, StartIs
<1>4. ~(i < j) /\ ~(j < i)
  BY <1>2, <1>3
<1> QED BY <1>4

LEMMA StartJoin ==
  ASSUME NEW f \in Seq(Piece), NEW g \in Seq(Piece)
  PROVE  /\ f \o g \in Seq(Piece) /\ Len(f \o g) = Len(f) + Len(g)
         /\ \A i \in 1..Len(f) : (f \o g)[i] = f[i]
         /\ \A i \in 1..Len(g) : (f \o g)[Len(f) + i] = g[i]
         /\ \A i \in 1..(Len(f) + 1) : Start(f \o g, i) = Start(f, i)
         /\ Length(f \o g) = Length(f) + Length(g)
<1>1. PICK h : h = f \o g
  OBVIOUS
<1>2. h \in Seq(Piece) /\ Len(h) = Len(f) + Len(g) /\ Len(f) \in Nat /\ Len(g) \in Nat
  BY <1>1, LenProperties
<1>3. \A i \in 1..Len(f) : h[i] = f[i]
  BY <1>1
<1>4. \A i \in 1..Len(g) : h[Len(f) + i] = g[i]
  BY <1>1
<1>5. /\ Lens(f) \in Seq(Nat) /\ Lens(g) \in Seq(Nat) /\ Lens(h) \in Seq(Nat)
      /\ Len(Lens(f)) = Len(f) /\ Len(Lens(g)) = Len(g) /\ Len(Lens(h)) = Len(h)
  BY <1>2, LensType
<1>6. Lens(h) = Lens(f) \o Lens(g)
  <2>1. PICK a, b : a = Lens(f) /\ b = Lens(g)
    OBVIOUS
  <2>2. /\ a \in Seq(Nat) /\ b \in Seq(Nat) /\ Len(a) = Len(f) /\ Len(b) = Len(g)
        /\ a \o b \in Seq(Nat) /\ Len(a \o b) = Len(a) + Len(b)
    BY <1>5, <2>1
  <2>3. ASSUME NEW i \in 1..(Len(f) + Len(g)) PROVE Lens(h)[i] = (a \o b)[i]
    <3>1. Lens(h)[i] = h[i].len
      BY <1>2, LensType
    <3>2. CASE i <= Len(f)
      <4>1. i \in 1..Len(f)
        BY <1>2, <3>2
      <4>2. (a \o b)[i] = a[i]
        BY <2>2, <4>1
      <4> QED BY <1>3, <2>1, <3>1, <4>1, <4>2, LensType
    <3>3. CASE ~(i <= Len(f))
      <4>1. PICK j : j = i - Len(f)
        OBVIOUS
      <4>2. j \in 1..Len(g) /\ i = Len(f) + j
        BY <1>2, <3>3, <4>1
      <4>3. (a \o b)[i] = b[j]
        BY <1>2, <2>2, <4>2
      <4> QED BY <1>4, <2>1, <3>1, <4>2, <4>3, LensType
    <3> QED BY <1>2, <3>2, <3>3
  <2>4. Lens(h) = a \o b
    BY <1>2, <1>5, <2>2, <2>3, SeqEqual
  <2> QED BY <2>1, <2>4
<1>7. \A i : /\ Start(h, i) = SumBefore(Lens(h), i)
             /\ Start(f, i) = SumBefore(Lens(f), i)
             /\ Start(g, i) = SumBefore(Lens(g), i)
  BY DEF Start, Lens
<1>8. \A i \in 1..(Len(f) + 1) : Start(h, i) = Start(f, i)
  BY <1>5, <1>6, <1>7, SumJoin
<1>9. Length(h) = Length(f) + Length(g)
  <2>1. Len(g) + 1 \in 1..(Len(g) + 1) /\ Len(f) + (Len(g) + 1) = Len(h) + 1
    BY <1>2
  <2>2. SumBefore(Lens(f) \o Lens(g), Len(f) + (Len(g) + 1))
          = SumBefore(Lens(f), Len(f) + 1) + SumBefore(Lens(g), Len(g) + 1)
    <3>1. \A k \in 1..(Len(Lens(g)) + 1) :
            SumBefore(Lens(f) \o Lens(g), Len(Lens(f)) + k)
              = SumBefore(Lens(f), Len(Lens(f)) + 1) + SumBefore(Lens(g), k)
      BY <1>5, SumJoin
    <3> QED BY <1>5, <2>1, <3>1
  <2> QED BY <1>6, <1>7, <2>1, <2>2 DEF Length
<1> QED BY <1>1, <1>2, <1>3, <1>4, <1>8, <1>9

-----------------------------------------------------------------------------
(* The writer.  Its fields, as Finished leaves them too. *)
Work == [entries : Seq(Entry), current : Nat, written : Nat, file : Seq(Piece),
         sealed : Seq(Seq(Nat))]

Sound(w) ==
  /\ w \in Work
  /\ Len(w.sealed) = Len(w.entries)
  /\ w.current \in {0, Len(w.entries)}

\* The entry e is in the file f where it says, with the content c.
Put(f, e, c) ==
  \E j \in 1..Len(f) :
    /\ j + 2 \in 1..Len(f)
    /\ Start(f, j) = e.offset
    /\ f[j] = LocalHeader(e) /\ f[j + 1] = NameOf(e) /\ f[j + 2] = Compressed(c)
    /\ e.crc = c /\ e.comp = Compressed(c).len

\* Until Close has succeeded, written is the length of the file.
Open(w) ==
  /\ w.written = Length(w.file)
  /\ \A i \in 1..Len(w.file) : w.file[i].kind # "end"
  /\ \A i \in 1..Len(w.entries) : i # w.current => Put(w.file, w.entries[i], w.sealed[i])

\* The first c entries are in the file, and then a directory of these.
Whole(w, c) ==
  /\ c \in Nat /\ c <= Len(w.entries) /\ (w.current # 0 => c < Len(w.entries))
  /\ \A i \in 1..(Len(w.file) - 1) : w.file[i].kind # "end"
  /\ \A i \in 1..c : Put(w.file, w.entries[i], w.sealed[i])
  /\ \E b \in Nat :
       /\ Len(w.file) = b + 2 * c + 1
       /\ w.file[Len(w.file)].start = Start(w.file, b + 1)
       /\ \A i \in 1..c : /\ w.file[b + 2 * i - 1] = CentralHeader(w.entries[i])
                          /\ w.file[b + 2 * i] = NameOf(w.entries[i])

ZipInvariant ==
  /\ Sound(Unfinished) /\ ends \in Nat
  /\ ends = 0 => Open(Unfinished)
  /\ ends = 1 => /\ Len(file) > 0
                 /\ file[Len(file)].kind = "end" => Whole(Unfinished, file[Len(file)].count)

LEMMA PutStays ==
  ASSUME NEW f \in Seq(Piece), NEW g \in Seq(Piece), NEW e, NEW d, NEW c, Put(f, e, c),
         d.name = e.name, d.crc = e.crc, d.comp = e.comp, d.offset = e.offset
  PROVE  Put(f \o g, d, c)
<1>1. PICK j \in 1..Len(f) :
        /\ j + 2 \in 1..Len(f)
        /\ Start(f, j) = e.offset
        /\ f[j] = LocalHeader(e) /\ f[j + 1] = NameOf(e) /\ f[j + 2] = Compressed(c)
        /\ e.crc = c /\ e.comp = Compressed(c).len
  BY DEF Put
<1>2. /\ j + 1 \in 1..Len(f) /\ j \in 1..(Len(f) + 1)
      /\ j \in 1..Len(f \o g) /\ j + 2 \in 1..Len(f \o g)
  BY <1>1, StartJoin, LensType
<1>3. /\ (f \o g)[j] = f[j] /\ (f \o g)[j + 1] = f[j + 1] /\ (f \o g)[j + 2] = f[j + 2]
      /\ Start(f \o g, j) = Start(f, j)
  BY <1>1, <1>2, StartJoin
<1>4. LocalHeader(d) = LocalHeader(e) /\ NameOf(d) = NameOf(e)
  BY DEF LocalHeader, NameOf
<1> QED BY <1>1, <1>2, <1>3, <1>4 DEF Put

LEMMA UnfinishedIs ==
  /\ Unfinished.entries = entries /\ Unfinished.current = current /\ Unfinished.written = written
  /\ Unfinished.file = file /\ Unfinished.sealed = sealed
BY DEF Unfinished

\* What finishCurrent writes, to the k-th of its writes.
LEMMA WritesAre ==
  ASSUME NEW a \in Piece, NEW b \in Piece, NEW c \in Piece, NEW k \in 0..3
  PROVE  /\ SubSeq(<<a, b, c>>, 1, k) \in Seq(Piece) /\ Len(SubSeq(<<a, b, c>>, 1, k)) = k
         /\ \A i \in 1..k : SubSeq(<<a, b, c>>, 1, k)[i] = <<a, b, c>>[i]
<1>1. <<a, b, c>> \in Seq(Piece) /\ Len(<<a, b, c>>) = 3
  OBVIOUS
<1> QED BY <1>1

LEMMA FinishedIs ==
  ASSUME Sound(Unfinished), current # 0, NEW k \in 0..3
  PROVE  \E w, out :
           /\ w = Finished(k) /\ Sound(w)
           /\ out \in Seq(Piece) /\ w.file = file \o out /\ w.written = written + Length(out)
           /\ Len(out) = k /\ \A i \in 1..Len(out) : out[i].kind # "end"
           /\ Len(w.entries) = Len(entries)
           /\ \A i \in 1..Len(entries) : i # current => w.entries[i] = entries[i] /\ w.sealed[i] = sealed[i]
           /\ w.current = IF k = 3 THEN 0 ELSE current
           /\ Open(Unfinished) => Open(w)
<1>1. /\ entries \in Seq(Entry) /\ current \in 1..Len(entries) /\ written \in Nat
      /\ file \in Seq(Piece) /\ sealed \in Seq(Seq(Nat)) /\ Len(sealed) = Len(entries)
      /\ current = Len(entries) /\ Len(entries) \in Nat
  <2>1. entries \in Seq(Entry) /\ current \in Nat
    BY DEF Sound, Unfinished, Work
  <2> QED BY <2>1, LenProperties DEF Sound, Unfinished, Work
<1>2. PICK e : e = entries[current]
  OBVIOUS
<1>3. e \in Entry /\ e.buf \in Seq(Nat) /\ e.name \in Names
  <2>1. e \in Entry
    BY <1>1, <1>2, ElementOfSeq
  <2> QED BY <2>1 DEF Entry
<1>4. PICK d : d = [e EXCEPT !.crc = e.buf, !.comp = Compressed(e.buf).len, !.offset = written]
  OBVIOUS
<1>5. /\ d \in Entry /\ d.buf = e.buf /\ d.crc = e.buf /\ d.comp = Compressed(e.buf).len
      /\ d.offset = written
  <2>1. Compressed(e.buf).len \in Nat
    BY <1>3, PieceType
  <2> QED BY <1>1, <1>3, <1>4, <2>1 DEF Entry
<1>6. PICK out : out = SubSeq(<<LocalHeader(d), NameOf(d), Compressed(d.buf)>>, 1, k)
  OBVIOUS
<1>7. /\ LocalHeader(d) \in Piece /\ NameOf(d) \in Piece /\ Compressed(d.buf) \in Piece
      /\ LocalHeader(d).kind # "end" /\ NameOf(d).kind # "end" /\ Compressed(d.buf).kind # "end"
  BY <1>3, <1>5, PieceType
<1>8. /\ out \in Seq(Piece) /\ Len(out) = k
      /\ \A i \in 1..k : out[i] = <<LocalHeader(d), NameOf(d), Compressed(d.buf)>>[i]
  BY <1>6, <1>7, WritesAre
<1>9. ASSUME NEW i \in 1..k PROVE out[i].kind # "end"
  <2>1. i = 1 \/ i = 2 \/ i = 3
    OBVIOUS
  <2>2. out[i] = LocalHeader(d) \/ out[i] = NameOf(d) \/ out[i] = Compressed(d.buf)
    BY <1>8, <2>1
  <2> QED BY <1>7, <2>2
<1>10. PICK w : w = Finished(k)
  OBVIOUS
<1>11. w = [entries |-> [entries EXCEPT ![current] = d],
            current |-> IF k = 3 THEN 0 ELSE current,
            written |-> written + Length(out),
            file |-> file \o out,
            sealed |-> IF k = 3 THEN [sealed EXCEPT ![current] = d.buf] ELSE sealed]
  BY <1>2, <1>4, <1>6, <1>10 DEF Finished, Pieces
<1>12. /\ w.entries \in Seq(Entry) /\ Len(w.entries) = Len(entries)
       /\ w.sealed \in Seq(Seq(Nat)) /\ Len(w.sealed) = Len(entries)
       /\ \A i \in 1..Len(entries) : i # current => w.entries[i] = entries[i] /\ w.sealed[i] = sealed[i]
       /\ w.entries[current] = d /\ (k = 3 => w.sealed[current] = d.buf)
  <2>1. [entries EXCEPT ![current] = d] \in Seq(Entry) /\ Len([entries EXCEPT ![current] = d]) = Len(entries)
    BY <1>1, <1>5
  <2>2. /\ [sealed EXCEPT ![current] = d.buf] \in Seq(Seq(Nat))
        /\ Len([sealed EXCEPT ![current] = d.buf]) = Len(entries)
    BY <1>1, <1>3, <1>5
  <2>3. DOMAIN entries = 1..Len(entries) /\ DOMAIN sealed = 1..Len(entries)
    BY <1>1, LenProperties
  <2> QED BY <1>1, <1>11, <2>1, <2>2, <2>3
<1>13. /\ w.current = (IF k = 3 THEN 0 ELSE current) /\ w.file = file \o out
       /\ w.written = written + Length(out)
  BY <1>11
<1>14. Sound(w)
  <2>1. w.written \in Nat /\ w.file \in Seq(Piece) /\ w.current \in Nat
    BY <1>1, <1>8, <1>13, StartIs, StartJoin
  <2> QED BY <1>1, <1>11, <1>12, <1>13, <2>1 DEF Sound, Work
<1>15. ASSUME Open(Unfinished) PROVE Open(w)
  <2>0. Len(file) \in Nat /\ Len(w.file) = Len(file) + k
    <3>1. Len(file \o out) = Len(file) + Len(out)
      BY <1>1, <1>8, StartJoin
    <3> QED BY <1>1, <1>8, <1>13, <3>1, LensType
  <2>1. /\ written = Length(file)
        /\ \A i \in 1..Len(file) : file[i].kind # "end"
        /\ \A i \in 1..Len(entries) : i # current => Put(file, entries[i], sealed[i])
    BY <1>15, UnfinishedIs DEF Open
  <2>2. w.written = Length(w.file)
    BY <1>1, <1>8, <1>13, <2>1, StartJoin
  <2>3. ASSUME NEW i \in 1..Len(w.file) PROVE w.file[i].kind # "end"
    <3>1. Len(file) \in Nat /\ Len(w.file) = Len(file) + k
      BY <2>0
    <3>2. CASE i \in 1..Len(file)
      BY <1>1, <1>8, <1>13, <2>1, <3>2, StartJoin
    <3>3. CASE i \notin 1..Len(file)
      <4>1. PICK j : j = i - Len(file)
        OBVIOUS
      <4>2. j \in 1..k /\ i = Len(file) + j
        BY <3>1, <3>3, <4>1
      <4> QED BY <1>1, <1>8, <1>9, <1>13, <4>2, StartJoin
    <3> QED BY <3>2, <3>3
  <2>4. ASSUME NEW i \in 1..Len(w.entries), i # w.current PROVE Put(w.file, w.entries[i], w.sealed[i])
    <3>1. CASE i # current
      <4>1. Put(file, entries[i], sealed[i]) /\ w.entries[i] = entries[i] /\ w.sealed[i] = sealed[i]
        BY <1>12, <2>1, <3>1
      <4> QED BY <1>1, <1>8, <1>13, <4>1, PutStays
    <3>2. CASE i = current
      <4>1. k = 3
        BY <1>13, <2>4, <3>2
      <4>2. Len(file) \in Nat /\ Len(w.file) = Len(file) + 3
        BY <2>0, <4>1
      <4>3. PICK j : j = Len(file) + 1
        OBVIOUS
      <4>4. /\ j \in 1..Len(w.file) /\ j + 2 \in 1..Len(w.file) /\ j \in 1..(Len(file) + 1)
            /\ j = Len(file) + 1 /\ j + 1 = Len(file) + 2 /\ j + 2 = Len(file) + 3
        BY <4>2, <4>3
      <4>5. Start(w.file, j) = d.offset
        <5>1. Start(w.file, j) = Start(file, Len(file) + 1)
          BY <1>1, <1>8, <1>13, <4>4, StartJoin
        <5> QED BY <1>5, <2>1, <5>1 DEF Length
      <4>6. w.file[j] = out[1] /\ w.file[j + 1] = out[2] /\ w.file[j + 2] = out[3]
        BY <1>1, <1>8, <1>13, <4>1, <4>4, StartJoin
      <4>7. out[1] = LocalHeader(d) /\ out[2] = NameOf(d) /\ out[3] = Compressed(d.buf)
        BY <1>8, <4>1
      <4>8. w.entries[i] = d /\ w.sealed[i] = d.buf
        BY <1>12, <3>2, <4>1
      <4> QED BY <1>5, <4>4, <4>5, <4>6, <4>7, <4>8 DEF Put
    <3> QED BY <3>1, <3>2
  <2> QED BY <2>2, <2>3, <2>4 DEF Open
<1> QED BY <1>8, <1>9, <1>10, <1>12, <1>13, <1>14, <1>15

\* What finishCurrent makes of the Writer: w, with out behind the file.
Finishes(k, w, out) ==
  /\ w = FinishCurrent(k) /\ Sound(w)
  /\ out \in Seq(Piece) /\ w.file = file \o out /\ w.written = written + Length(out)
  /\ Len(out) = (IF current = 0 THEN 0 ELSE k)
  /\ \A i \in 1..Len(out) : out[i].kind # "end"
  /\ Len(w.entries) = Len(entries)
  /\ \A i \in 1..Len(entries) : i # current => w.entries[i] = entries[i] /\ w.sealed[i] = sealed[i]
  /\ w.current = IF k = 3 THEN 0 ELSE current
  /\ Open(Unfinished) => Open(w)

LEMMA FinishIs ==
  ASSUME Sound(Unfinished), NEW k \in 0..3, current = 0 => k = 3
  PROVE  \E w, out : Finishes(k, w, out)
<1>1. CASE current = 0
  <2>1. PICK w, out : w = Unfinished /\ out = <<>>
    OBVIOUS
  <2>2. file \in Seq(Piece) /\ written \in Nat
    BY DEF Sound, Work, Unfinished
  <2>3. out \in Seq(Piece) /\ Len(out) = 0 /\ file \o out = file
    BY <2>1, <2>2, EmptySeq, ConcatEmptySeq
  <2>4. Length(out) = 0
    <3>1. out \in Seq(Piece) /\ Len(out) + 1 = 1
      BY <2>3
    <3>2. Start(out, 1) = 0
      BY <3>1, StartIs
    <3> QED BY <3>1, <3>2 DEF Length
  <2>5. w = FinishCurrent(k) /\ Sound(w) /\ (Open(Unfinished) => Open(w))
    BY <1>1, <2>1 DEF FinishCurrent
  <2>6. w.written = written + Length(out) /\ w.file = file \o out /\ w.current = 0
    BY <1>1, <2>1, <2>2, <2>3, <2>4, UnfinishedIs
  <2>7. /\ Len(w.entries) = Len(entries)
        /\ \A i \in 1..Len(entries) : w.entries[i] = entries[i] /\ w.sealed[i] = sealed[i]
    BY <2>1, UnfinishedIs
  <2>8. \A i \in 1..Len(out) : out[i].kind # "end"
    BY <2>3
  <2> QED BY <1>1, <2>3, <2>5, <2>6, <2>7, <2>8 DEF Finishes
<1>2. CASE current # 0
  BY <1>2, FinishedIs DEF FinishCurrent, Finishes
<1> QED BY <1>1, <1>2

LEMMA WorkType ==
  ASSUME NEW w, Sound(w)
  PROVE  /\ w.entries \in Seq(Entry) /\ Len(w.entries) \in Nat
         /\ w.file \in Seq(Piece) /\ Len(w.file) \in Nat
         /\ w.sealed \in Seq(Seq(Nat)) /\ Len(w.sealed) = Len(w.entries)
         /\ w.written \in Nat /\ w.current \in Nat
         /\ \A i \in 1..Len(w.entries) : w.entries[i] \in Entry /\ w.sealed[i] \in Seq(Nat)
<1>1. w.entries \in Seq(Entry) /\ w.file \in Seq(Piece) /\ w.sealed \in Seq(Seq(Nat))
  BY DEF Sound, Work
<1>2. Len(w.sealed) = Len(w.entries) /\ w.written \in Nat /\ w.current \in Nat
  BY DEF Sound, Work
<1> QED BY <1>1, <1>2, ElementOfSeq, LenProperties

LEMMA JoinNoEnd ==
  ASSUME NEW f \in Seq(Piece), NEW g \in Seq(Piece), NEW i \in 1..Len(f \o g),
         \A j \in 1..Len(f) : f[j].kind # "end", \A j \in 1..Len(g) : g[j].kind # "end"
  PROVE  (f \o g)[i].kind # "end"
<1>1. Len(f) \in Nat /\ Len(g) \in Nat /\ i \in 1..(Len(f) + Len(g))
  BY LensType, StartJoin
<1>2. CASE i <= Len(f)
  <2>1. i \in 1..Len(f)
    BY <1>1, <1>2
  <2> QED BY <2>1, StartJoin
<1>3. CASE ~(i <= Len(f))
  <2>1. PICK j : j = i - Len(f)
    OBVIOUS
  <2>2. j \in 1..Len(g) /\ i = Len(f) + j
    BY <1>1, <1>3, <2>1
  <2> QED BY <2>2, StartJoin
<1> QED BY <1>1, <1>2, <1>3

LEMMA LastOfJoin ==
  ASSUME NEW f \in Seq(Piece), NEW g \in Seq(Piece), Len(g) > 0
  PROVE  Len(f \o g) > 0 /\ (f \o g)[Len(f \o g)] = g[Len(g)]
<1>1. Len(f) \in Nat /\ Len(g) \in Nat /\ Len(f \o g) = Len(f) + Len(g) /\ Len(g) \in 1..Len(g)
  BY LensType, StartJoin
<1>2. (f \o g)[Len(f) + Len(g)] = g[Len(g)]
  BY <1>1, StartJoin
<1> QED BY <1>1, <1>2

LEMMA NothingAdded ==
  ASSUME NEW f \in Seq(Piece), NEW g \in Seq(Piece), ~(Len(g) > 0)
  PROVE  f \o g = f
<1>1. g = <<>>
  BY LensType, EmptySeq
<1> QED BY <1>1, ConcatEmptySeq

LEMMA AppendOpen ==
  ASSUME NEW w, Sound(w), Open(w), NEW out \in Seq(Piece), \A i \in 1..Len(out) : out[i].kind # "end",
         NEW v, v.entries = w.entries, v.current = w.current, v.sealed = w.sealed,
         v.file = w.file \o out, v.written = w.written + Length(out)
  PROVE  Open(v)
<1>1. w.file \in Seq(Piece)
  BY WorkType
<1>2. v.written = Length(v.file)
  BY <1>1, StartJoin DEF Open
<1>3. \A i \in 1..Len(v.file) : v.file[i].kind # "end"
  BY <1>1, JoinNoEnd DEF Open
<1>4. \A i \in 1..Len(v.entries) : i # v.current => Put(v.file, v.entries[i], v.sealed[i])
  BY <1>1, PutStays DEF Open
<1> QED BY <1>2, <1>3, <1>4 DEF Open

LEMMA DirectoryIs ==
  ASSUME NEW w, Sound(w)
  PROVE  /\ Directory(w) \in Seq(Piece) /\ Len(Directory(w)) = 2 * Len(w.entries)
         /\ \A i \in 1..Len(Directory(w)) : Directory(w)[i].kind # "end"
         /\ \A i \in 1..Len(w.entries) : /\ Directory(w)[2 * i - 1] = CentralHeader(w.entries[i])
                                         /\ Directory(w)[2 * i] = NameOf(w.entries[i])
<1>1. PICK n \in Nat : n = Len(w.entries)
  BY WorkType
<1>2. \A i \in 1..n : w.entries[i] \in Entry
  BY <1>1, WorkType
<1>3. PICK d : d = Directory(w)
  OBVIOUS
<1>4. d = [i \in 1..(2 * n) |-> IF i % 2 = 1 THEN CentralHeader(w.entries[(i + 1) \div 2])
                                             ELSE NameOf(w.entries[(i + 1) \div 2])]
  BY <1>1, <1>3 DEF Directory
<1>5. ASSUME NEW i \in 1..(2 * n) PROVE d[i] \in Piece /\ d[i].kind # "end"
  <2>1. PICK j : j = (i + 1) \div 2
    OBVIOUS
  <2>2. j \in 1..n
    BY <2>1
  <2>3. d[i] = CentralHeader(w.entries[j]) \/ d[i] = NameOf(w.entries[j])
    BY <1>4, <2>1
  <2> QED BY <1>2, <2>2, <2>3, PieceType
<1>6. d \in Seq(Piece) /\ Len(d) = 2 * n
  <2>1. d \in [1..(2 * n) -> Piece] /\ 2 * n \in Nat
    BY <1>4, <1>5
  <2>2. d \in Seq(Piece)
    BY <2>1, SeqDef
  <2> QED BY <2>1, <2>2, LenProperties
<1>7. ASSUME NEW i \in 1..n
      PROVE  d[2 * i - 1] = CentralHeader(w.entries[i]) /\ d[2 * i] = NameOf(w.entries[i])
  <2>1. 2 * i - 1 \in 1..(2 * n) /\ 2 * i \in 1..(2 * n)
    OBVIOUS
  <2>2. (2 * i - 1) % 2 = 1 /\ (2 * i) % 2 # 1 /\ ((2 * i - 1) + 1) \div 2 = i /\ (2 * i + 1) \div 2 = i
    OBVIOUS
  <2> QED BY <1>4, <2>1, <2>2
<1> QED BY <1>1, <1>3, <1>5, <1>6, <1>7

-----------------------------------------------------------------------------
\* The first c entries stay as they are in the file.
LEMMA WholeStays ==
  ASSUME NEW w, NEW v, NEW c, Sound(w), Whole(w, c), v.file = w.file, Len(v.entries) \in Nat,
         Len(v.entries) >= Len(w.entries), v.current # 0 => c < Len(v.entries),
         \A i \in 1..c : /\ v.sealed[i] = w.sealed[i]
                         /\ v.entries[i].name = w.entries[i].name /\ v.entries[i].crc = w.entries[i].crc
                         /\ v.entries[i].comp = w.entries[i].comp
                         /\ v.entries[i].offset = w.entries[i].offset
  PROVE  Whole(v, c)
<1>1. \A i \in 1..c : /\ CentralHeader(v.entries[i]) = CentralHeader(w.entries[i])
                      /\ NameOf(v.entries[i]) = NameOf(w.entries[i])
                      /\ LocalHeader(v.entries[i]) = LocalHeader(w.entries[i])
  BY DEF CentralHeader, NameOf, LocalHeader
<1>2. ASSUME NEW i \in 1..c PROVE Put(v.file, v.entries[i], v.sealed[i])
  <2>1. Put(w.file, w.entries[i], w.sealed[i])
    BY DEF Whole
  <2>2. PICK f, e, d, x : f = w.file /\ e = w.entries[i] /\ d = v.entries[i] /\ x = w.sealed[i]
    OBVIOUS
  <2>3. /\ Put(f, e, x) /\ LocalHeader(d) = LocalHeader(e) /\ NameOf(d) = NameOf(e)
        /\ d.offset = e.offset /\ d.crc = e.crc /\ d.comp = e.comp
    BY <1>1, <2>1, <2>2
  <2>4. Put(f, d, x)
    BY <2>3 DEF Put
  <2> QED BY <2>2, <2>4
<1>3. c \in Nat /\ c <= Len(v.entries) /\ (v.current # 0 => c < Len(v.entries))
  BY WorkType DEF Whole
<1>4. \A i \in 1..(Len(v.file) - 1) : v.file[i].kind # "end"
  BY DEF Whole
<1>5. PICK b \in Nat :
         /\ Len(w.file) = b + 2 * c + 1
         /\ w.file[Len(w.file)].start = Start(w.file, b + 1)
         /\ \A i \in 1..c : /\ w.file[b + 2 * i - 1] = CentralHeader(w.entries[i])
                            /\ w.file[b + 2 * i] = NameOf(w.entries[i])
  BY DEF Whole
<1>6. /\ Len(v.file) = b + 2 * c + 1
      /\ v.file[Len(v.file)].start = Start(v.file, b + 1)
  BY <1>5
<1>7. \A i \in 1..c : /\ v.file[b + 2 * i - 1] = CentralHeader(v.entries[i])
                       /\ v.file[b + 2 * i] = NameOf(v.entries[i])
  BY <1>1, <1>5
<1> QED BY <1>2, <1>3, <1>4, <1>6, <1>7 DEF Whole

\* A step that writes pieces, or none, but no end record.
LEMMA WritesKeep ==
  ASSUME ZipInvariant, Sound(Unfinished)', ends' = ends, NEW out \in Seq(Piece),
         file' = file \o out, \A i \in 1..Len(out) : out[i].kind # "end",
         Open(Unfinished) => Open(Unfinished)',
         NEW c, c = file[Len(file)].count,
         Len(out) > 0 \/ (Whole(Unfinished, c) => Whole(Unfinished, c)')
  PROVE  ZipInvariant'
<1>1. file \in Seq(Piece) /\ Len(file) \in Nat /\ Len(out) \in Nat
  BY WorkType, UnfinishedIs, LensType DEF ZipInvariant
<1>2. ends' \in Nat /\ (ends' = 0 => Open(Unfinished)')
  BY DEF ZipInvariant
<1>3. ASSUME ends' = 1
      PROVE  /\ Len(file') > 0
             /\ file'[Len(file')].kind = "end" => Whole(Unfinished, file[Len(file)].count)'
  <2>1. CASE Len(out) > 0
    <3>1. Len(file') > 0 /\ file'[Len(file')] = out[Len(out)] /\ Len(out) \in 1..Len(out)
      BY <1>1, <2>1, LastOfJoin
    <3> QED BY <3>1
  <2>2. CASE ~(Len(out) > 0)
    <3>1. file' = file
      BY <1>1, <2>2, NothingAdded
    <3> QED BY <1>3, <2>2, <3>1 DEF ZipInvariant
  <2> QED BY <2>1, <2>2
<1> QED BY <1>2, <1>3 DEF ZipInvariant

LEMMA ZipWork ==
  ASSUME ZipInvariant
  PROVE  /\ Sound(Unfinished)
         /\ entries \in Seq(Entry) /\ Len(entries) \in Nat
         /\ file \in Seq(Piece) /\ sealed \in Seq(Seq(Nat)) /\ Len(sealed) = Len(entries)
         /\ written \in Nat /\ current \in {0, Len(entries)}
         /\ \A i \in 1..Len(entries) : entries[i] \in Entry /\ sealed[i] \in Seq(Nat)
<1>1. Sound(Unfinished) /\ Unfinished.current \in {0, Len(Unfinished.entries)}
  BY DEF ZipInvariant, Sound
<1> QED BY <1>1, WorkType, UnfinishedIs

\* The fields as a step leaves them.
LEMMA NextWork ==
  /\ Unfinished.entries' = entries' /\ Unfinished.current' = current' /\ Unfinished.written' = written'
  /\ Unfinished.file' = file' /\ Unfinished.sealed' = sealed'
BY DEF Unfinished

LEMMA CreateKeeps ==
  ASSUME ZipInvariant, NEW name \in Names, Create(name)
  PROVE  ZipInvariant'
<1>0. PICK w, out : Finishes(3, w, out)
  BY ZipWork, FinishIs
<1>1. /\ w = FinishCurrent(3) /\ Sound(w)
      /\ out \in Seq(Piece) /\ w.file = file \o out
      /\ Len(out) = (IF current = 0 THEN 0 ELSE 3)
      /\ \A i \in 1..Len(out) : out[i].kind # "end"
      /\ Len(w.entries) = Len(entries)
      /\ \A i \in 1..Len(entries) : i # current => w.entries[i] = entries[i] /\ w.sealed[i] = sealed[i]
      /\ w.current = 0
      /\ Open(Unfinished) => Open(w)
  BY <1>0 DEF Finishes
<1>2. PICK e : e = [name |-> name, buf |-> <<>>, crc |-> <<>>, comp |-> 0, offset |-> 0]
  OBVIOUS
<1>3. e \in Entry /\ <<>> \in Seq(Nat)
  BY <1>2, EmptySeq DEF Entry
<1>4. /\ entries' = Append(w.entries, e) /\ current' = Len(entries) + 1 /\ written' = w.written
      /\ file' = w.file /\ sealed' = Append(w.sealed, <<>>) /\ ends' = ends
  <2>1. w \in Work
    BY <1>1 DEF Sound
  <2>2. Becomes([w EXCEPT !.entries = Append(@, e), !.current = Len(entries) + 1,
                          !.sealed = Append(@, <<>>)])
    BY <1>1, <1>2 DEF Create
  <2> QED BY <2>1, <2>2 DEF Work, Becomes, Create
<1>5. PICK n \in Nat : n = Len(entries)
  BY ZipWork
<1>6. /\ entries' \in Seq(Entry) /\ Len(entries') = n + 1
      /\ \A i \in 1..n : entries'[i] = w.entries[i]
  BY <1>1, <1>3, <1>4, <1>5, WorkType
<1>7. /\ sealed' \in Seq(Seq(Nat)) /\ Len(sealed') = n + 1
      /\ \A i \in 1..n : sealed'[i] = w.sealed[i]
  BY <1>1, <1>3, <1>4, <1>5, WorkType
<1>8. Sound(Unfinished)'
  <2>1. file' \in Seq(Piece) /\ written' \in Nat /\ current' = n + 1
    BY <1>1, <1>4, <1>5, WorkType
  <2> QED BY <1>6, <1>7, <2>1 DEF Sound, Work, Unfinished
<1>9. ASSUME Open(Unfinished) PROVE Open(Unfinished)'
  <2>1. Open(w)
    BY <1>1, <1>9
  <2>2. written' = Length(file') /\ \A i \in 1..Len(file') : file'[i].kind # "end"
    BY <1>4, <2>1 DEF Open
  <2>3. ASSUME NEW i \in 1..Len(entries'), i # current' PROVE Put(file', entries'[i], sealed'[i])
    <3>1. i \in 1..n
      BY <1>4, <1>5, <1>6, <2>3
    <3>2. Put(w.file, w.entries[i], w.sealed[i])
      BY <1>1, <1>5, <2>1, <3>1 DEF Open
    <3> QED BY <1>4, <1>6, <1>7, <3>1, <3>2
  <2> QED BY <2>2, <2>3, NextWork DEF Open
<1>10. ASSUME NEW c, ~(Len(out) > 0), Whole(Unfinished, c) PROVE Whole(Unfinished, c)'
  <2>1. current = 0 /\ file' = file
    BY <1>1, <1>4, <1>10, NothingAdded, ZipWork
  <2>2. c \in Nat /\ c <= n
    BY <1>5, <1>10, UnfinishedIs DEF Whole
  <2>3. PICK v : v = Unfinished'
    OBVIOUS
  <2>4. /\ v.entries = entries' /\ v.current = current' /\ v.file = file' /\ v.sealed = sealed'
    BY <2>3, NextWork
  <2>5. ASSUME NEW i \in 1..c PROVE entries'[i] = entries[i] /\ sealed'[i] = sealed[i]
    <3>1. i \in 1..n /\ i # 0
      BY <2>2
    <3>2. w.entries[i] = entries[i] /\ w.sealed[i] = sealed[i]
      BY <1>1, <1>5, <2>1, <3>1
    <3> QED BY <1>6, <1>7, <3>1, <3>2
  <2>6. PICK u : u = Unfinished
    OBVIOUS
  <2>7. /\ Sound(u) /\ Whole(u, c) /\ u.entries = entries /\ u.file = file /\ u.sealed = sealed
    BY <1>10, <2>6, UnfinishedIs, ZipWork
  <2>8. /\ v.file = u.file /\ Len(v.entries) = n + 1 /\ Len(u.entries) = n
        /\ \A i \in 1..c : v.entries[i] = u.entries[i] /\ v.sealed[i] = u.sealed[i]
    BY <1>5, <1>6, <2>1, <2>4, <2>5, <2>7
  <2>9. Whole(v, c)
    BY <2>2, <2>7, <2>8, WholeStays
  <2> QED BY <2>3, <2>9
<1> QED BY <1>1, <1>4, <1>8, <1>9, <1>10, WritesKeep

\* The fields become those of v, with what is left of w in the file.
LEMMA SameWork ==
  ASSUME ZipInvariant, NEW v, Sound(v), entries' = v.entries, current' = v.current,
         written' = v.written, file' = v.file, sealed' = v.sealed
  PROVE  /\ Sound(Unfinished)'
         /\ Open(v) => Open(Unfinished)'
         /\ \A c : Whole(v, c) => Whole(Unfinished, c)'
<1>1. v = [entries |-> v.entries, current |-> v.current, written |-> v.written, file |-> v.file,
           sealed |-> v.sealed]
  BY DEF Sound, Work
<1>2. Unfinished' = v
  BY <1>1 DEF Unfinished
<1> QED BY <1>2 DEF Sound, Open, Whole

\* A failing write that leaves nothing changes the file by the writes before it.
LEMMA NothingLeft == ASSUME NEW f \in Seq(Piece) PROVE f \o Rest(0) = f
  BY ConcatEmptySeq DEF Rest

LEMMA FinishFailsKeeps ==
  ASSUME ZipInvariant, NEW k \in 0..2, FinishFails(k, 0)
  PROVE  ZipInvariant'
<1>0. PICK w, out : Finishes(k, w, out)
  <2>1. k \in 0..3
    OBVIOUS
  <2> QED BY <2>1, ZipWork, FinishIs DEF FinishFails
<1>1. /\ w = FinishCurrent(k) /\ Sound(w)
      /\ out \in Seq(Piece) /\ w.file = file \o out
      /\ Len(out) = k
      /\ \A i \in 1..Len(out) : out[i].kind # "end"
      /\ Len(w.entries) = Len(entries)
      /\ \A i \in 1..Len(entries) : i # current => w.entries[i] = entries[i] /\ w.sealed[i] = sealed[i]
      /\ w.current = current
      /\ Open(Unfinished) => Open(w)
  BY <1>0 DEF Finishes, FinishFails
<1>2. /\ entries' = w.entries /\ current' = w.current /\ written' = w.written
      /\ file' = w.file /\ sealed' = w.sealed /\ ends' = ends /\ current # 0
  <2>1. w \in Work /\ w.file \o Rest(0) = w.file
    BY <1>1, WorkType, NothingLeft DEF Sound
  <2>2. w = Finished(k) /\ current # 0 /\ ends' = ends
    BY <1>1 DEF FinishFails, FinishCurrent
  <2>3. Becomes([w EXCEPT !.file = @ \o Rest(0)])
    BY <2>2 DEF FinishFails
  <2> QED BY <2>1, <2>2, <2>3 DEF Becomes, Work
<1>3. /\ Sound(Unfinished)' /\ (Open(w) => Open(Unfinished)')
      /\ \A c : Whole(w, c) => Whole(Unfinished, c)'
  BY <1>1, <1>2, SameWork
<1>4. ASSUME NEW c, ~(Len(out) > 0), Whole(Unfinished, c) PROVE Whole(Unfinished, c)'
  <2>1. file \o out = file
    BY <1>1, <1>4, NothingAdded, ZipWork
  <2>2. PICK u : u = Unfinished
    OBVIOUS
  <2>3. /\ Sound(u) /\ Whole(u, c) /\ u.entries = entries /\ u.file = file /\ u.sealed = sealed
        /\ u.current = current
    BY <1>4, <2>2, UnfinishedIs, ZipWork
  <2>4. c \in Nat /\ c < Len(entries) /\ current = Len(entries) /\ Len(entries) \in Nat
    BY <1>2, <2>3, ZipWork DEF Whole
  <2>5. \A i \in 1..c : w.entries[i] = u.entries[i] /\ w.sealed[i] = u.sealed[i]
    BY <1>1, <2>3, <2>4
  <2>6. w.file = u.file /\ Len(w.entries) = Len(u.entries)
    BY <1>1, <2>1, <2>3
  <2>7. Whole(w, c)
    BY <2>3, <2>4, <2>5, <2>6, WholeStays
  <2> QED BY <1>3, <2>7
<1>5. file' = file \o out
  BY <1>1, <1>2
<1> QED BY <1>1, <1>2, <1>3, <1>4, <1>5, WritesKeep

LEMMA WriteEntryKeeps ==
  ASSUME ZipInvariant, NEW n, NEW chunk \in Chunks, WriteEntry(n, chunk)
  PROVE  ZipInvariant'
<1>1. /\ n \in 1..Len(entries) /\ entries' = [entries EXCEPT ![n].buf = @ \o chunk]
      /\ current' = current /\ written' = written /\ file' = file /\ sealed' = sealed /\ ends' = ends
  BY ZipWork, LenProperties DEF WriteEntry
<1>2. PICK e : e = [entries[n] EXCEPT !.buf = @ \o chunk]
  OBVIOUS
<1>3. e \in Entry
  <2>1. entries[n] \in Entry /\ chunk \in Seq(Nat)
    BY <1>1, ZipWork, ZipAssumption
  <2>2. entries[n].buf \o chunk \in Seq(Nat)
    BY <2>1 DEF Entry
  <2> QED BY <1>2, <2>1, <2>2 DEF Entry
<1>4. entries' = [entries EXCEPT ![n] = e]
  BY <1>1, <1>2
<1>5. entries' \in Seq(Entry) /\ Len(entries') = Len(entries)
  <2>1. entries \in Seq(Entry) /\ n \in 1..Len(entries)
    BY <1>1, ZipWork
  <2> QED BY <1>3, <1>4, <2>1
<1>6. \A i \in 1..Len(entries) :
        /\ entries'[i].name = entries[i].name /\ entries'[i].crc = entries[i].crc
        /\ entries'[i].comp = entries[i].comp /\ entries'[i].offset = entries[i].offset
  <2>1. entries[n] \in Entry
    BY <1>1, ZipWork
  <2>2. /\ e.name = entries[n].name /\ e.crc = entries[n].crc
        /\ e.comp = entries[n].comp /\ e.offset = entries[n].offset
    BY <1>2, <2>1 DEF Entry
  <2>3. \A i \in 1..Len(entries) : entries'[i] = IF i = n THEN e ELSE entries[i]
    BY <1>1, <1>4, ZipWork, LenProperties
  <2> QED BY <2>2, <2>3
<1>7. PICK v : v = [Unfinished EXCEPT !.entries = entries']
  OBVIOUS
<1>8. /\ v.entries = entries' /\ v.current = current /\ v.written = written /\ v.file = file
      /\ v.sealed = sealed /\ v \in Work
  BY <1>5, <1>7, ZipWork DEF Unfinished, Sound, Work
<1>9. Sound(v)
  BY <1>5, <1>8, ZipWork DEF Sound
<1>10. /\ Sound(Unfinished)' /\ (Open(v) => Open(Unfinished)')
       /\ \A c : Whole(v, c) => Whole(Unfinished, c)'
  BY <1>1, <1>8, <1>9, SameWork
<1>11. file' = file \o <<>> /\ <<>> \in Seq(Piece) /\ Len(<<>>) = 0
  BY <1>1, ZipWork, EmptySeq, ConcatEmptySeq
<1>12. ASSUME Open(Unfinished) PROVE Open(v)
  <2>1. ASSUME NEW i \in 1..Len(v.entries), i # v.current PROVE Put(v.file, v.entries[i], v.sealed[i])
    <3>1. i \in 1..Len(entries) /\ Put(file, entries[i], sealed[i])
      BY <1>5, <1>8, <1>12, <2>1, UnfinishedIs DEF Open
    <3>2. PICK d : d = entries'[i]
      OBVIOUS
    <3>3. /\ d.name = entries[i].name /\ d.crc = entries[i].crc
          /\ d.comp = entries[i].comp /\ d.offset = entries[i].offset
      BY <1>6, <3>1, <3>2
    <3>4. Put(file \o <<>>, d, sealed[i])
      BY <1>11, <3>1, <3>3, ZipWork, PutStays
    <3> QED BY <1>1, <1>8, <1>11, <3>2, <3>4
  <2> QED BY <1>8, <1>12, <2>1, UnfinishedIs DEF Open
<1>13. ASSUME NEW c, Whole(Unfinished, c) PROVE Whole(Unfinished, c)'
  <2>1. PICK u : u = Unfinished
    OBVIOUS
  <2>2. /\ Sound(u) /\ Whole(u, c) /\ u.entries = entries /\ u.file = file /\ u.sealed = sealed
        /\ u.current = current
    BY <1>13, <2>1, UnfinishedIs, ZipWork
  <2>3. c \in Nat /\ c <= Len(entries) /\ (current # 0 => c < Len(entries)) /\ Len(entries) \in Nat
    BY <2>2, ZipWork DEF Whole
  <2>4. \A i \in 1..c : /\ v.sealed[i] = u.sealed[i]
                        /\ v.entries[i].name = u.entries[i].name /\ v.entries[i].crc = u.entries[i].crc
                        /\ v.entries[i].comp = u.entries[i].comp
                        /\ v.entries[i].offset = u.entries[i].offset
    BY <1>6, <1>8, <2>2, <2>3
  <2>5. v.file = u.file /\ Len(v.entries) = Len(u.entries) /\ v.current = current
    BY <1>5, <1>8, <2>2
  <2>6. Whole(v, c)
    BY <2>2, <2>3, <2>4, <2>5, WholeStays
  <2> QED BY <1>10, <2>6
<1>14. PICK out : out = <<>>
  OBVIOUS
<1>15. /\ file' = file \o out /\ out \in Seq(Piece) /\ ends' = ends
       /\ \A i \in 1..Len(out) : out[i].kind # "end"
  BY <1>1, <1>11, <1>14
<1> QED BY <1>10, <1>12, <1>13, <1>15, WritesKeep

LEMMA CloseFailsKeeps ==
  ASSUME ZipInvariant, NEW k \in Nat, CloseFails(k, 0)
  PROVE  ZipInvariant'
<1>0. PICK w, out : Finishes(3, w, out)
  BY ZipWork, FinishIs
<1>1. /\ w = FinishCurrent(3) /\ Sound(w)
      /\ out \in Seq(Piece) /\ w.file = file \o out
      /\ Len(out) = (IF current = 0 THEN 0 ELSE 3)
      /\ \A i \in 1..Len(out) : out[i].kind # "end"
      /\ Len(w.entries) = Len(entries)
      /\ \A i \in 1..Len(entries) : i # current => w.entries[i] = entries[i] /\ w.sealed[i] = sealed[i]
      /\ w.current = 0
      /\ Open(Unfinished) => Open(w)
  BY <1>0 DEF Finishes
<1>2. PICK more : more = SubSeq(Directory(w), 1, k)
  OBVIOUS
<1>3. k <= Len(Directory(w)) /\ ends' = ends
  BY <1>1 DEF CloseFails
<1>4. /\ more \in Seq(Piece) /\ Len(more) = k /\ \A i \in 1..k : more[i].kind # "end"
  <2>1. PICK d : d = Directory(w)
    OBVIOUS
  <2>2. d \in Seq(Piece) /\ Len(d) \in Nat /\ k <= Len(d) /\ \A i \in 1..Len(d) : d[i].kind # "end"
    BY <1>1, <1>3, <2>1, DirectoryIs, LensType
  <2>3. more = SubSeq(d, 1, k)
    BY <1>2, <2>1
  <2>4. more \in Seq(Piece) /\ Len(more) = k /\ \A i \in 1..k : more[i] = d[i]
    BY <2>2, <2>3
  <2> QED BY <2>2, <2>4
<1>5. PICK v : v = [w EXCEPT !.written = @ + Length(more), !.file = @ \o more]
  OBVIOUS
<1>6. /\ v.entries = w.entries /\ v.current = 0 /\ v.sealed = w.sealed /\ v \in Work
      /\ v.file = w.file \o more /\ v.written = w.written + Length(more)
  <2>1. w \in Work
    BY <1>1 DEF Sound
  <2>2. w.file \o more \in Seq(Piece) /\ w.written + Length(more) \in Nat
    BY <1>1, <1>4, StartIs, WorkType
  <2> QED BY <1>1, <1>5, <2>1, <2>2 DEF Work
<1>7. Sound(v)
  BY <1>1, <1>6 DEF Sound
<1>8. /\ entries' = v.entries /\ current' = v.current /\ written' = v.written
      /\ file' = v.file /\ sealed' = v.sealed
  <2>1. w \in Work /\ w.file \in Seq(Piece)
    BY <1>1, WorkType DEF Sound
  <2>2. (w.file \o more) \o Rest(0) = v.file
    BY <1>4, <1>6, <2>1, StartJoin, NothingLeft
  <2>3. PICK x : x = [w EXCEPT !.written = @ + Length(more), !.file = (@ \o more) \o Rest(0)]
    OBVIOUS
  <2>4. Becomes(x)
    BY <1>1, <1>2, <2>3 DEF CloseFails
  <2>5. /\ x.entries = w.entries /\ x.current = w.current /\ x.sealed = w.sealed
        /\ x.written = w.written + Length(more) /\ x.file = (w.file \o more) \o Rest(0)
    BY <2>1, <2>3 DEF Work
  <2> QED BY <1>1, <1>6, <2>2, <2>4, <2>5 DEF Becomes
<1>9. /\ Sound(Unfinished)' /\ (Open(v) => Open(Unfinished)')
      /\ \A c : Whole(v, c) => Whole(Unfinished, c)'
  BY <1>7, <1>8, SameWork
<1>10. Open(w) => Open(v)
  BY <1>1, <1>4, <1>6, AppendOpen
<1>11. /\ file' = file \o (out \o more) /\ out \o more \in Seq(Piece)
       /\ \A i \in 1..Len(out \o more) : (out \o more)[i].kind # "end"
  <2>1. out \o more \in Seq(Piece) /\ file' = (file \o out) \o more
    BY <1>1, <1>4, <1>6, <1>8, StartJoin
  <2>2. (file \o out) \o more = file \o (out \o more)
    <3>1. file \in Seq(Piece) /\ out \in Seq(Piece) /\ more \in Seq(Piece)
      BY <1>1, <1>4, ZipWork
    <3> QED BY <3>1, ConcatAssociative
  <2>3. \A i \in 1..Len(out \o more) : (out \o more)[i].kind # "end"
    BY <1>1, <1>4, JoinNoEnd
  <2> QED BY <2>1, <2>2, <2>3
<1>12. ASSUME NEW c, ~(Len(out \o more) > 0), Whole(Unfinished, c) PROVE Whole(Unfinished, c)'
  <2>1. file' = file
    BY <1>11, <1>12, NothingAdded, ZipWork
  <2>2. current = 0
    BY <1>1, <1>4, <1>12, StartJoin
  <2>3. PICK u : u = Unfinished
    OBVIOUS
  <2>4. /\ Sound(u) /\ Whole(u, c) /\ u.entries = entries /\ u.file = file /\ u.sealed = sealed
    BY <1>12, <2>3, UnfinishedIs, ZipWork
  <2>5. c \in Nat /\ c <= Len(entries) /\ Len(entries) \in Nat
    BY <2>4, ZipWork DEF Whole
  <2>6. ASSUME NEW i \in 1..c PROVE v.entries[i] = u.entries[i] /\ v.sealed[i] = u.sealed[i]
    <3>1. i \in 1..Len(entries) /\ i # 0
      BY <2>5
    <3>2. w.entries[i] = entries[i] /\ w.sealed[i] = sealed[i]
      BY <1>1, <2>2, <3>1
    <3> QED BY <1>6, <2>4, <3>2
  <2>7. v.file = u.file /\ Len(v.entries) = Len(u.entries) /\ v.current = 0
    BY <1>1, <1>6, <1>8, <2>1, <2>4
  <2>8. Whole(v, c)
    BY <2>4, <2>5, <2>6, <2>7, WholeStays
  <2> QED BY <1>9, <2>8
<1> QED BY <1>1, <1>3, <1>9, <1>10, <1>11, <1>12, WritesKeep

LEMMA CloseKeeps ==
  ASSUME ZipInvariant, Close
  PROVE  ZipInvariant'
<1>0. PICK w, out : Finishes(3, w, out)
  BY ZipWork, FinishIs
<1>1. w = FinishCurrent(3) /\ Sound(w) /\ w.current = 0 /\ (Open(Unfinished) => Open(w))
  BY <1>0 DEF Finishes
<1>2. PICK d, n : d = Directory(w) /\ n = Len(w.entries)
  OBVIOUS
<1>3. /\ d \in Seq(Piece) /\ n \in Nat /\ Len(d) = 2 * n
      /\ \A i \in 1..Len(d) : d[i].kind # "end"
      /\ \A i \in 1..n : d[2 * i - 1] = CentralHeader(w.entries[i]) /\ d[2 * i] = NameOf(w.entries[i])
  BY <1>1, <1>2, DirectoryIs, WorkType
<1>4. PICK z : z = EndRecord(w)
  OBVIOUS
<1>5. z \in Piece /\ z.kind = "end" /\ z.count = n /\ z.start = w.written
  <2>1. w.written \in Nat /\ n \in Nat
    BY <1>1, <1>3, WorkType
  <2>2. z = [kind |-> "end", count |-> n, start |-> w.written, len |-> 22]
    BY <1>2, <1>4 DEF EndRecord, EndLen
  <2> QED BY <2>1, <2>2 DEF Piece
<1>6. PICK g, f : g = w.file \o d /\ f = g \o <<z>>
  OBVIOUS
<1>7. w.file \in Seq(Piece) /\ Len(w.file) \in Nat /\ g \in Seq(Piece) /\ Len(g) = Len(w.file) + 2 * n
  <2>1. w.file \in Seq(Piece) /\ Len(w.file) \in Nat
    BY <1>1, WorkType
  <2>2. g \in Seq(Piece) /\ Len(g) = Len(w.file) + Len(d)
    BY <1>3, <1>6, <2>1, StartJoin
  <2> QED BY <1>3, <2>1, <2>2
<1>8. <<z>> \in Seq(Piece) /\ Len(<<z>>) = 1 /\ <<z>>[1] = z
  BY <1>5
<1>9. f \in Seq(Piece) /\ Len(f) = Len(g) + 1 /\ f[Len(f)] = z
  <2>1. f \in Seq(Piece) /\ Len(f) = Len(g) + 1
    BY <1>6, <1>7, <1>8, StartJoin
  <2>2. PICK h : h = <<z>>
    OBVIOUS
  <2>3. h \in Seq(Piece) /\ 1 \in 1..Len(h) /\ h[1] = z /\ f = g \o h
    BY <1>6, <1>8, <2>2
  <2>4. f[Len(g) + 1] = z
    BY <1>7, <2>3, StartJoin
  <2> QED BY <2>1, <2>4
<1>10. PICK v : v = [w EXCEPT !.written = @ + Length(d), !.file = f]
  OBVIOUS
<1>11. /\ v.entries = w.entries /\ v.current = 0 /\ v.sealed = w.sealed /\ v.file = f /\ v \in Work
       /\ v.written = w.written + Length(d)
  <2>1. w \in Work
    BY <1>1 DEF Sound
  <2>2. w.written + Length(d) \in Nat
    BY <1>1, <1>3, StartIs, WorkType
  <2> QED BY <1>1, <1>9, <1>10, <2>1, <2>2 DEF Work
<1>12. Sound(v)
  BY <1>1, <1>11 DEF Sound
<1>13. /\ entries' = v.entries /\ current' = v.current /\ written' = v.written
       /\ file' = v.file /\ sealed' = v.sealed /\ ends' = ends + 1
  <2>1. w \in Work
    BY <1>1 DEF Sound
  <2>2. Becomes([w EXCEPT !.written = @ + Length(d), !.file = @ \o d \o <<z>>]) /\ ends' = ends + 1
    BY <1>1, <1>2, <1>4 DEF Close
  <2>3. v = [w EXCEPT !.written = @ + Length(d), !.file = @ \o d \o <<z>>]
    BY <1>6, <1>10, <2>1 DEF Work
  <2>4. Becomes(v) /\ ends' = ends + 1
    BY <2>2, <2>3
  <2> QED BY <2>4 DEF Becomes
<1>14. Sound(Unfinished)' /\ \A c : Whole(v, c) => Whole(Unfinished, c)'
  BY <1>12, <1>13, SameWork
<1>15. ASSUME Open(w) PROVE Whole(v, n)
  <2>1. ASSUME NEW i \in 1..(Len(f) - 1) PROVE f[i].kind # "end"
    <3>1. i \in 1..Len(g)
      BY <1>7, <1>9
    <3>2. g[i].kind # "end"
      BY <1>3, <1>6, <1>7, <1>15, <3>1, JoinNoEnd DEF Open
    <3> QED BY <1>6, <1>7, <1>8, <3>1, <3>2, StartJoin
  <2>2. ASSUME NEW i \in 1..n PROVE Put(f, w.entries[i], w.sealed[i])
    <3>1. Put(w.file, w.entries[i], w.sealed[i])
      BY <1>1, <1>2, <1>3, <1>15 DEF Open
    <3>2. PICK e, x : e = w.entries[i] /\ x = w.sealed[i]
      OBVIOUS
    <3>3. Put(g, e, x)
      BY <1>3, <1>6, <1>7, <3>1, <3>2, PutStays
    <3>4. Put(f, e, x)
      BY <1>6, <1>7, <1>8, <3>3, PutStays
    <3> QED BY <3>2, <3>4
  <2>3. PICK b : b = Len(w.file)
    OBVIOUS
  <2>4. b \in Nat /\ Len(f) = b + 2 * n + 1 /\ Len(g) = b + 2 * n
    BY <1>3, <1>7, <1>9, <2>3
  <2>5. f[Len(f)].start = Start(f, b + 1)
    <3>1. b + 1 \in 1..(Len(w.file) + 1) /\ b + 1 \in 1..(Len(g) + 1)
      <4>1. n \in Nat
        BY <1>3
      <4>2. PICK m : m = Len(g)
        OBVIOUS
      <4>3. b \in Nat /\ m \in Nat /\ m >= b
        BY <2>4, <4>1, <4>2
      <4>4. b + 1 \in 1..(b + 1) /\ b + 1 \in 1..(m + 1)
        BY <4>3
      <4> QED BY <2>3, <4>2, <4>4
    <3>2. Start(f, b + 1) = Start(g, b + 1)
      BY <1>6, <1>7, <1>8, <3>1, StartJoin
    <3>3. Start(g, b + 1) = Start(w.file, b + 1)
      BY <1>3, <1>6, <1>7, <3>1, StartJoin
    <3>4. Start(w.file, b + 1) = w.written
      BY <1>15, <2>3 DEF Open, Length
    <3> QED BY <1>5, <1>9, <3>2, <3>3, <3>4
  <2>6. ASSUME NEW i \in 1..n
        PROVE  f[b + 2 * i - 1] = CentralHeader(w.entries[i]) /\ f[b + 2 * i] = NameOf(w.entries[i])
    <3>1. /\ 2 * i - 1 \in 1..Len(d) /\ 2 * i \in 1..Len(d)
          /\ b + (2 * i - 1) \in 1..Len(g) /\ b + 2 * i \in 1..Len(g) /\ b + (2 * i - 1) = b + 2 * i - 1
      <4>1. n \in Nat /\ i \in 1..n /\ Len(d) = 2 * n
        BY <1>3
      <4>2. b \in Nat /\ Len(g) = b + 2 * n
        BY <2>4
      <4>3. i \in Nat /\ 1 <= i /\ i <= n
        BY <4>1
      <4> QED BY <4>1, <4>2, <4>3
    <3>2. g[b + (2 * i - 1)] = d[2 * i - 1] /\ g[b + 2 * i] = d[2 * i]
      <4>1. \A k \in 1..Len(d) : g[b + k] = d[k]
        BY <1>3, <1>6, <1>7, <2>3, StartJoin
      <4> QED BY <3>1, <4>1
    <3>3. f[b + (2 * i - 1)] = g[b + (2 * i - 1)] /\ f[b + 2 * i] = g[b + 2 * i]
      BY <1>6, <1>7, <1>8, <3>1, StartJoin
    <3> QED BY <1>3, <3>1, <3>2, <3>3
  <2>7. n \in Nat /\ n <= Len(v.entries) /\ v.current = 0
    BY <1>2, <1>3, <1>11
  <2>8. /\ \A i \in 1..(Len(v.file) - 1) : v.file[i].kind # "end"
        /\ \A i \in 1..n : Put(v.file, v.entries[i], v.sealed[i])
    BY <1>11, <2>1, <2>2
  <2>9. /\ b \in Nat /\ Len(v.file) = b + 2 * n + 1 /\ v.file[Len(v.file)].start = Start(v.file, b + 1)
        /\ \A i \in 1..n : /\ v.file[b + 2 * i - 1] = CentralHeader(v.entries[i])
                           /\ v.file[b + 2 * i] = NameOf(v.entries[i])
    BY <1>11, <2>4, <2>5, <2>6
  <2> QED BY <2>7, <2>8, <2>9 DEF Whole
<1>16. ends' \in Nat /\ ends' # 0 /\ (ends' = 1 => ends = 0)
  BY <1>13 DEF ZipInvariant
<1>17. ASSUME ends' = 1
       PROVE  Len(file') > 0 /\ (file'[Len(file')].kind = "end" => Whole(Unfinished, file[Len(file)].count)')
  <2>1. Len(file') > 0 /\ file'[Len(file')].count = n
    <3>1. file' = f /\ Len(f) \in Nat /\ Len(f) > 0 /\ f[Len(f)] = z
      <4>1. Len(g) \in Nat /\ Len(f) = Len(g) + 1
        <5>1. g \in Seq(Piece)
          BY <1>7
        <5>2. Len(g) \in Nat
          BY <5>1, LenProperties
        <5> QED BY <1>9, <5>2
      <4> QED BY <1>9, <1>11, <1>13, <4>1
    <3> QED BY <1>5, <3>1
  <2>2. Whole(v, n)
    BY <1>1, <1>15, <1>16, <1>17 DEF ZipInvariant
  <2> QED BY <1>14, <2>1, <2>2
<1> QED BY <1>14, <1>16, <1>17 DEF ZipInvariant

LEMMA ZipInvariantInit == ZipInit => ZipInvariant
<1> SUFFICES ASSUME ZipInit PROVE ZipInvariant
  OBVIOUS
<1>1. /\ entries = <<>> /\ current = 0 /\ written = 0 /\ file = <<>> /\ ends = 0 /\ sealed = <<>>
  BY DEF ZipInit
<1>2. /\ <<>> \in Seq(Entry) /\ <<>> \in Seq(Piece) /\ <<>> \in Seq(Seq(Nat)) /\ Len(<<>>) = 0
  BY EmptySeq
<1>3. Sound(Unfinished)
  BY <1>1, <1>2 DEF Sound, Work, Unfinished
<1>4. Length(file) = 0
  <2>1. file \in Seq(Piece) /\ Len(file) + 1 = 1
    BY <1>1, <1>2
  <2>2. Start(file, 1) = 0
    BY <2>1, StartIs
  <2> QED BY <2>1, <2>2 DEF Length
<1>5. Open(Unfinished)
  BY <1>1, <1>2, <1>4, UnfinishedIs DEF Open
<1> QED BY <1>1, <1>3, <1>5 DEF ZipInvariant

LEMMA ZipInvariantStep ==
  ASSUME ~zipTorn => ZipInvariant, [ZipNext]_zipVars, ~zipTorn'
  PROVE  ZipInvariant'
<1>1. ASSUME NEW name \in Names, Create(name) PROVE ZipInvariant'
  BY <1>1, CreateKeeps DEF Create
<1>2. ASSUME NEW k \in 0..2, NEW n \in Torn, FinishFails(k, n) PROVE ZipInvariant'
  <2>1. ~zipTorn /\ zipTorn' = (n > 0)
    BY <1>2 DEF FinishFails
  <2>2. ~(n > 0)
    BY <2>1, Zenon
  <2>3. n = 0
    BY <2>2, ZipAssumption
  <2> QED BY <1>2, <2>1, <2>3, FinishFailsKeeps
<1>3. ASSUME NEW i \in 1..MaxEntries, NEW chunk \in Chunks, WriteEntry(i, chunk) PROVE ZipInvariant'
  BY <1>3, WriteEntryKeeps DEF WriteEntry
<1>4. ASSUME Close PROVE ZipInvariant'
  BY <1>4, CloseKeeps DEF Close
<1>5. ASSUME NEW k \in 0..(2 * MaxEntries), NEW n \in Torn, CloseFails(k, n) PROVE ZipInvariant'
  <2>1. ~zipTorn /\ zipTorn' = (n > 0)
    BY <1>5 DEF CloseFails
  <2>2. ~(n > 0)
    BY <2>1, Zenon
  <2>3. n = 0 /\ k \in Nat
    BY <2>2, ZipAssumption
  <2> QED BY <1>5, <2>1, <2>3, CloseFailsKeeps
<1>6. ASSUME UNCHANGED zipVars PROVE ZipInvariant'
  <2>1. /\ entries' = entries /\ current' = current /\ written' = written /\ file' = file
        /\ sealed' = sealed /\ ends' = ends /\ ZipInvariant
    BY <1>6 DEF zipVars
  <2>2. /\ Sound(Unfinished)' /\ (Open(Unfinished) => Open(Unfinished)')
        /\ \A c : Whole(Unfinished, c) => Whole(Unfinished, c)'
    BY <2>1, ZipWork, UnfinishedIs, SameWork
  <2> QED BY <2>1, <2>2 DEF ZipInvariant
<1> QED BY <1>1, <1>2, <1>3, <1>4, <1>5, <1>6 DEF ZipNext

-----------------------------------------------------------------------------
(* The reader of the finished file. *)
LEMMA MaxOfOne == ASSUME NEW j \in Nat PROVE Max({j}) = j
<1>1. \A x \in {j} : (\A y \in {j} : x >= y) => x = j
  OBVIOUS
<1>2. \A y \in {j} : j >= y
  OBVIOUS
<1> QED BY <1>1, <1>2 DEF Max

LEMMA PieceFound ==
  ASSUME file \in Seq(Piece), NEW j \in 1..Len(file), file[j].len > 0, NEW off, NEW kind,
         off = Start(file, j), kind = file[j].kind
  PROVE  PieceAt(off, kind) = file[j]
<1>1. Len(file) \in Nat /\ DOMAIN file = 1..Len(file)
  BY LenProperties
<1> DEFINE found == {i \in DOMAIN file : /\ file[i].kind = kind /\ file[i].len > 0
                                         /\ Start(file, i) = off}
<1>2. found = {j}
  <2>1. j \in found
    BY <1>1
  <2>2. ASSUME NEW i \in found PROVE i = j
    <3>1. i \in 1..Len(file) /\ file[i].len > 0 /\ Start(file, i) = Start(file, j)
      BY <1>1, <2>2
    <3> QED BY <3>1, StartIsOne
  <2> QED BY <2>1, <2>2
<1>3. Max(found) = j
  <2>1. j \in Nat
    BY <1>1
  <2> HIDE DEF found
  <2> QED BY <1>2, <2>1, MaxOfOne
<1>4. PieceAt(off, kind) = IF found = {} THEN [kind |-> "none", name |-> <<>>] ELSE file[Max(found)]
  BY DEF PieceAt
<1> HIDE DEF found
<1> QED BY <1>2, <1>3, <1>4

LEMMA EntryOpens ==
  ASSUME file \in Seq(Piece), NEW e \in Entry, NEW c \in Seq(Nat), Put(file, e, c)
  PROVE  OpenFile(CentralHeader(e)) = [name |-> e.name, content |-> c, ok |-> TRUE]
<1>1. PICK j \in 1..Len(file) :
        /\ j + 2 \in 1..Len(file)
        /\ Start(file, j) = e.offset
        /\ file[j] = LocalHeader(e) /\ file[j + 1] = NameOf(e) /\ file[j + 2] = Compressed(c)
        /\ e.crc = c /\ e.comp = Compressed(c).len
  BY DEF Put
<1>2. j + 1 \in 1..Len(file) /\ (j + 1) + 1 = j + 2 /\ Len(file) \in Nat
  BY <1>1, LenProperties
<1>3. file[j].kind = "local" /\ file[j].len = 30 /\ file[j].name = e.name
  BY <1>1 DEF LocalHeader, LocalLen
<1>4. file[j + 2].kind = "data" /\ file[j + 2].len > 0 /\ file[j + 2].content = c
  <2>1. Len(c) \in Nat
    BY LenProperties
  <2> QED BY <1>1, <2>1 DEF Compressed
<1>5. Start(file, j + 2) = e.offset + LocalLen + Len(e.name)
  <2>1. Start(file, j + 1) = Start(file, j) + 30
    BY <1>3, StartIs
  <2>2. Start(file, (j + 1) + 1) = Start(file, j + 1) + file[j + 1].len
    BY <1>2, StartIs
  <2>3. file[j + 1].len = Len(e.name)
    BY <1>1 DEF NameOf
  <2> QED BY <1>1, <1>2, <2>1, <2>2, <2>3 DEF LocalLen
<1>6. PICK h : h = CentralHeader(e)
  OBVIOUS
<1>7. h.name = e.name /\ h.comp = e.comp /\ h.crc = e.crc /\ h.offset = e.offset
  BY <1>6 DEF CentralHeader
<1>8. PICK local : local = PieceAt(h.offset, "local")
  OBVIOUS
<1>9. local = file[j]
  BY <1>1, <1>3, <1>7, <1>8, PieceFound
<1>10. PICK data : data = PieceAt(h.offset + LocalLen + Len(local.name), "data")
  OBVIOUS
<1>11. data = file[j + 2]
  <2>1. h.offset + LocalLen + Len(local.name) = Start(file, j + 2)
    BY <1>3, <1>5, <1>7, <1>9
  <2> QED BY <1>1, <1>4, <1>10, <2>1, PieceFound
<1>12. /\ local.kind # "none" /\ data.kind # "none" /\ data.content = c
       /\ h.comp = data.len /\ h.crc = data.content
  BY <1>1, <1>3, <1>4, <1>7, <1>9, <1>11
<1>13. OpenFile(h) =
         LET ok == local.kind # "none" /\ data.kind # "none"
         IN  [name |-> h.name,
              content |-> IF ok THEN data.content ELSE <<>>,
              ok |-> ok /\ h.comp = data.len /\ h.crc = data.content]
  BY <1>8, <1>10 DEF OpenFile
<1> QED BY <1>6, <1>7, <1>12, <1>13

\* Two functions that start alike and step alike.
StepAlike(n, p, q) == p[0] = q[0] /\ \A i \in 1..n : p[i - 1] = q[i - 1] => p[i] = q[i]

LEMMA Stepwise ==
  ASSUME NEW n \in Nat, NEW p, NEW q, StepAlike(n, p, q)
  PROVE  \A i \in 0..n : p[i] = q[i]
<1> USE DEF StepAlike
<1> DEFINE T == {i \in 0..n : p[i] # q[i]}
<1>1. ASSUME T # {} PROVE FALSE
  <2>1. PICK x \in T : \A y \in T : x <= y
    <3>1. T \subseteq Nat
      OBVIOUS
    <3> HIDE DEF T
    <3> QED BY <1>1, <3>1, Least
  <2>2. x \in 0..n /\ p[x] # q[x] /\ x # 0
    BY <2>1
  <2>3. x \in 1..n /\ x - 1 \in 0..n /\ x - 1 < x
    BY <2>2
  <2>4. p[x - 1] = q[x - 1]
    BY <2>1, <2>3
  <2> QED BY <2>2, <2>3, <2>4
<1> QED BY <1>1

\* The positions of the central headers, as NewReader steps from one to the next.
DirectoryAt(b, s, n, es) ==
  /\ Len(file) = b + 2 * n + 1 /\ s = Start(file, b + 1) /\ \A i \in 1..n : es[i] \in Entry
  /\ \A i \in 1..n : file[b + 2 * i - 1] = CentralHeader(es[i]) /\ file[b + 2 * i] = NameOf(es[i])

LEMMA Positions ==
  ASSUME file \in Seq(Piece), NEW n \in Nat, NEW b \in Nat, NEW s, NEW es, DirectoryAt(b, s, n, es),
         NEW p, p = HeaderStarts(s, n)
  PROVE  \A i \in 1..n : PieceAt(p[i - 1], "central") = CentralHeader(es[i])
<1> DEFINE Steps(pos) == pos = [i \in 0..n |->
             IF i = 0 THEN s
             ELSE pos[i - 1] + CentralLen + Len(PieceAt(pos[i - 1], "central").name)]
<1>0. /\ Len(file) = b + 2 * n + 1 /\ s = Start(file, b + 1) /\ \A i \in 1..n : es[i] \in Entry
      /\ \A i \in 1..n : file[b + 2 * i - 1] = CentralHeader(es[i]) /\ file[b + 2 * i] = NameOf(es[i])
  BY DEF DirectoryAt
<1>1. ASSUME NEW i \in 1..n
      PROVE  /\ PieceAt(Start(file, b + 2 * i - 1), "central") = CentralHeader(es[i])
             /\ Start(file, b + 2 * i + 1) = Start(file, b + 2 * i - 1) + CentralLen + Len(es[i].name)
  <2>1. PICK j : j = b + 2 * i - 1
    OBVIOUS
  <2>2. /\ j \in 1..Len(file) /\ j + 1 \in 1..Len(file) /\ j + 1 = b + 2 * i /\ (j + 1) + 1 = b + 2 * i + 1
    BY <1>0, <2>1
  <2>3. file[j] = CentralHeader(es[i]) /\ file[j + 1] = NameOf(es[i])
    BY <1>0, <2>1, <2>2
  <2>4. file[j].kind = "central" /\ file[j].len = 46 /\ file[j + 1].len = Len(es[i].name)
    BY <2>3 DEF CentralHeader, CentralLen, NameOf
  <2>5. PieceAt(Start(file, j), "central") = file[j]
    <3>1. PICK off, kind : off = Start(file, j) /\ kind = file[j].kind
      OBVIOUS
    <3>2. j \in 1..Len(file) /\ file[j].len > 0
      BY <2>2, <2>4
    <3>3. PieceAt(off, kind) = file[j]
      BY <3>1, <3>2, PieceFound
    <3> QED BY <2>4, <3>1, <3>3
  <2>6. /\ Start(file, j + 1) = Start(file, j) + 46
        /\ Start(file, (j + 1) + 1) = Start(file, j + 1) + Len(es[i].name)
    BY <2>2, <2>4, StartIs
  <2> QED BY <2>1, <2>2, <2>3, <2>5, <2>6 DEF CentralLen
<1>2. PICK q : q = [i \in 0..n |-> Start(file, b + 2 * i + 1)]
  OBVIOUS
<1>3. ASSUME NEW i \in 0..n, i # 0
      PROVE  /\ i \in 1..n /\ i - 1 \in 0..n /\ i - 1 < i
             /\ q[i - 1] = Start(file, b + 2 * i - 1)
             /\ q[i] = q[i - 1] + CentralLen + Len(PieceAt(q[i - 1], "central").name)
  <2>1. i \in 1..n /\ i - 1 \in 0..n /\ i - 1 < i /\ b + 2 * (i - 1) + 1 = b + 2 * i - 1
    BY <1>3
  <2>2. q[i - 1] = Start(file, b + 2 * i - 1)
    BY <1>2, <2>1
  <2>3. PieceAt(q[i - 1], "central").name = es[i].name
    <3>1. PieceAt(q[i - 1], "central") = CentralHeader(es[i])
      BY <1>1, <2>1, <2>2
    <3> QED BY <3>1 DEF CentralHeader
  <2>4. q[i] = Start(file, b + 2 * i + 1)
    BY <1>2
  <2> QED BY <1>1, <2>1, <2>2, <2>3, <2>4
<1>4. q[0] = s
  <2>1. 0 \in 0..n /\ b + 2 * 0 + 1 = b + 1
    OBVIOUS
  <2> QED BY <1>0, <1>2, <2>1
<1>5. Steps(q)
  <2>1. q = [i \in 0..n |-> q[i]]
    BY <1>2
  <2>2. \A i \in 0..n : q[i] = IF i = 0 THEN s
             ELSE q[i - 1] + CentralLen + Len(PieceAt(q[i - 1], "central").name)
    BY <1>3, <1>4
  <2> QED BY <2>1, <2>2
<1>6. Steps(p)
  <2>1. p = CHOOSE pos : Steps(pos)
    BY DEF HeaderStarts
  <2> HIDE DEF Steps
  <2> QED BY <1>5, <2>1
<1>7. \A i \in 0..n : p[i] = IF i = 0 THEN s
             ELSE p[i - 1] + CentralLen + Len(PieceAt(p[i - 1], "central").name)
  BY <1>6
<1> HIDE DEF Steps
<1>8. \A i \in 0..n : p[i] = q[i]
  <2>1. p[0] = q[0]
    BY <1>4, <1>7
  <2>2. ASSUME NEW i \in 1..n, p[i - 1] = q[i - 1] PROVE p[i] = q[i]
    <3>1. i \in 0..n /\ i # 0
      OBVIOUS
    <3>2. p[i] = p[i - 1] + CentralLen + Len(PieceAt(p[i - 1], "central").name)
      BY <1>7, <3>1
    <3>3. q[i] = q[i - 1] + CentralLen + Len(PieceAt(q[i - 1], "central").name)
      BY <1>3, <3>1
    <3> QED BY <2>2, <3>2, <3>3
  <2>3. StepAlike(n, p, q)
    BY <2>1, <2>2 DEF StepAlike
  <2> QED BY <2>3, Stepwise
<1>9. ASSUME NEW i \in 1..n PROVE PieceAt(p[i - 1], "central") = CentralHeader(es[i])
  <2>1. i \in 0..n /\ i # 0 /\ i - 1 \in 0..n
    OBVIOUS
  <2>2. p[i - 1] = q[i - 1]
    BY <1>8, <2>1
  <2>3. q[i - 1] = Start(file, b + 2 * i - 1)
    BY <1>3, <2>1
  <2> QED BY <1>1, <2>2, <2>3
<1> QED BY <1>9

LEMMA ZipIsReadBack == ZipInvariant => ZipReadsBack
<1> SUFFICES ASSUME ZipInvariant, ends = 1, Last(file).kind = "end", Last(file).count = Len(entries)
             PROVE  NewReader = [err |-> FALSE,
                                 files |-> [i \in DOMAIN entries |->
                                   [name |-> entries[i].name, content |-> sealed[i], ok |-> TRUE]]]
  BY DEF ZipReadsBack
<1>1. PICK n : n = Len(entries)
  OBVIOUS
<1>2. /\ entries \in Seq(Entry) /\ n \in Nat /\ file \in Seq(Piece) /\ Len(file) \in Nat
      /\ \A i \in 1..n : entries[i] \in Entry /\ sealed[i] \in Seq(Nat)
      /\ DOMAIN entries = 1..n /\ DOMAIN file = 1..Len(file)
  BY <1>1, ZipWork
<1>3. Len(file) > 0 /\ file[Len(file)].kind = "end" /\ file[Len(file)].count = n
  BY <1>1 DEF ZipInvariant, Last
<1>4. Whole(Unfinished, n)
  BY <1>3 DEF ZipInvariant
<1>5. /\ \A i \in 1..(Len(file) - 1) : file[i].kind # "end"
      /\ \A i \in 1..n : Put(file, entries[i], sealed[i])
  BY <1>4, UnfinishedIs DEF Whole
<1>6. PICK b \in Nat :
       /\ Len(file) = b + 2 * n + 1
       /\ file[Len(file)].start = Start(file, b + 1)
       /\ \A i \in 1..n : /\ file[b + 2 * i - 1] = CentralHeader(entries[i])
                          /\ file[b + 2 * i] = NameOf(entries[i])
  BY <1>4, UnfinishedIs DEF Whole
<1>7. Max({i \in DOMAIN file : file[i].kind = "end"}) = Len(file)
  <2>1. ASSUME NEW i \in 1..Len(file), file[i].kind = "end" PROVE i = Len(file)
    <3>1. PICK l : l = Len(file)
      OBVIOUS
    <3>2. l \in Nat /\ i \in 1..l /\ i \notin 1..(l - 1)
      BY <1>2, <1>5, <2>1, <3>1
    <3>3. i = l
      BY <3>2
    <3> QED BY <3>1, <3>3
  <2>2. Len(file) \in 1..Len(file)
    BY <1>2, <1>3
  <2>3. {i \in DOMAIN file : file[i].kind = "end"} = {Len(file)}
    BY <1>2, <1>3, <2>1, <2>2
  <2> QED BY <1>2, <2>3, MaxOfOne
<1>8. PICK end : end = file[Len(file)]
  OBVIOUS
<1>9. end.count = n /\ end.start = Start(file, b + 1)
  BY <1>3, <1>6, <1>8
<1>10. PICK p : p = HeaderStarts(end.start, end.count)
  OBVIOUS
<1>11. \A i \in 1..n : PieceAt(p[i - 1], "central") = CentralHeader(entries[i])
  <2>1. PICK es, s : es = entries /\ s = end.start
    OBVIOUS
  <2>2. DirectoryAt(b, s, n, es) /\ p = HeaderStarts(s, n)
    BY <1>2, <1>6, <1>9, <1>10, <2>1 DEF DirectoryAt
  <2>3. \A i \in 1..n : PieceAt(p[i - 1], "central") = CentralHeader(es[i])
    BY <1>2, <2>2, Positions
  <2> QED BY <2>1, <2>3
<1> DEFINE header(i) == PieceAt(p[i - 1], "central")
           err == \E i \in 1..n : header(i).kind = "none"
<1>12. NewReader = [err |-> err, files |-> IF err THEN <<>> ELSE [i \in 1..n |-> OpenFile(header(i))]]
  BY <1>7, <1>8, <1>9, <1>10 DEF NewReader
<1>13. ASSUME NEW i \in 1..n PROVE PieceAt(p[i - 1], "central").kind # "none"
  <2>1. CentralHeader(entries[i]).kind = "central"
    BY DEF CentralHeader
  <2> QED BY <1>11, <2>1
<1>14. NewReader = [err |-> FALSE, files |-> [i \in 1..n |-> OpenFile(PieceAt(p[i - 1], "central"))]]
  BY <1>12, <1>13
<1>15. \A i \in 1..n : OpenFile(PieceAt(p[i - 1], "central"))
                         = [name |-> entries[i].name, content |-> sealed[i], ok |-> TRUE]
  BY <1>2, <1>5, <1>11, EntryOpens
<1> QED BY <1>2, <1>14, <1>15

-----------------------------------------------------------------------------
(* archive/tar.  What the caller wrote, the cells of the tape, and where the
   i-th header begins.                                                        *)
Given == [name : Names, size : Nat, n : Nat]
Cell == ({"byte"} \X Nat) \union ({"header"} \X Names \X Nat) \union {<<"h">>}
Extents(g) == [k \in DOMAIN g |-> Block + g[k].n + Padding(g[k].n)]
BeginsAt(g, i) == SumBefore(Extents(g), i)

LEMMA PaddingIs == Padding(0) = 0 /\ \A n \in Nat : Padding(n) \in Nat
<1>1. Block \in Nat \ {0}
  BY TarAssumption
<1>2. (Block - (0 % Block)) % Block = 0
  BY <1>1
<1>3. ASSUME NEW n \in Nat PROVE (Block - (n % Block)) % Block \in Nat
  BY <1>1
<1> QED BY <1>2, <1>3 DEF Padding

LEMMA ExtentsType ==
  ASSUME NEW g \in Seq(Given)
  PROVE  /\ Extents(g) \in Seq(Nat) /\ Len(Extents(g)) = Len(g) /\ Len(g) \in Nat
         /\ \A i \in 1..Len(g) : g[i] \in Given /\ Extents(g)[i] = Block + g[i].n + Padding(g[i].n)
<1>1. Len(g) \in Nat /\ DOMAIN g = 1..Len(g) /\ \A i \in 1..Len(g) : g[i] \in Given
  BY LenProperties, ElementOfSeq
<1>2. PICK l : l = Len(g)
  OBVIOUS
<1>3. ASSUME NEW i \in 1..l PROVE Block + g[i].n + Padding(g[i].n) \in Nat
  <2>1. g[i].n \in Nat
    BY <1>1, <1>2 DEF Given
  <2>2. Padding(g[i].n) \in Nat
    BY <2>1, PaddingIs
  <2> QED BY <2>1, <2>2, TarAssumption
<1>4. Extents(g) = [i \in 1..l |-> Block + g[i].n + Padding(g[i].n)]
  BY <1>1, <1>2 DEF Extents
<1>5. PICK e : e = Extents(g)
  OBVIOUS
<1>6. e \in [1..l -> Nat] /\ \A i \in 1..l : e[i] = Block + g[i].n + Padding(g[i].n)
  BY <1>3, <1>4, <1>5
<1>7. e \in Seq(Nat) /\ Len(e) = l
  <2>1. l \in Nat
    BY <1>1, <1>2
  <2> QED BY <1>6, <2>1
<1> QED BY <1>1, <1>2, <1>5, <1>6, <1>7

LEMMA BeginIs ==
  ASSUME NEW g \in Seq(Given)
  PROVE  /\ BeginsAt(g, 1) = 0
         /\ \A i \in 1..Len(g) : BeginsAt(g, i + 1) = BeginsAt(g, i) + (Block + g[i].n + Padding(g[i].n))
         /\ \A i \in 1..(Len(g) + 1) : BeginsAt(g, i) \in Nat
<1>1. \A i : BeginsAt(g, i) = SumBefore(Extents(g), i)
  BY DEF BeginsAt
<1> QED BY <1>1, ExtentsType, SumIs

LEMMA BeginSame ==
  ASSUME NEW g \in Seq(Given), NEW h \in Seq(Given), NEW m \in Nat, m <= Len(g), m <= Len(h),
         \A i \in 1..m : g[i].n = h[i].n
  PROVE  \A i \in 1..(m + 1) : BeginsAt(g, i) = BeginsAt(h, i)
<1>1. PICK a, b : a = Extents(g) /\ b = Extents(h)
  OBVIOUS
<1>2. /\ a \in Seq(Nat) /\ b \in Seq(Nat) /\ m <= Len(a) /\ m <= Len(b)
  BY <1>1, ExtentsType
<1>3. ASSUME NEW i \in 1..m PROVE a[i] = b[i]
  <2>1. i \in 1..Len(g) /\ i \in 1..Len(h)
    BY LenProperties
  <2> QED BY <1>1, <2>1, ExtentsType
<1> QED BY <1>1, <1>2, <1>3, SumSame DEF BeginsAt

\* The entry e is on the tape t from o on, as far as the tape goes.
Laid(t, o, e) ==
  /\ \A k \in 1..Block : o + k <= Len(t) => t[o + k] = HeaderBlock(e.name, e.size)[k]
  /\ \A k \in 1..e.n : o + Block + k <= Len(t) => t[o + Block + k] = <<"byte", k>>

LEMMA LaidJoin ==
  ASSUME NEW t \in Seq(Cell), NEW u \in Seq(Cell), NEW e \in Given, NEW o \in Nat,
         Laid(t, o, e), o + Block + e.n <= Len(t)
  PROVE  Laid(t \o u, o, e)
<1>1. Block \in Nat /\ e.n \in Nat /\ Len(t) \in Nat
  BY TarAssumption, LenProperties DEF Given
<1>2. \A i \in 1..Len(t) : (t \o u)[i] = t[i]
  BY ConcatProperties
<1>3. ASSUME NEW k \in 1..Block PROVE (t \o u)[o + k] = HeaderBlock(e.name, e.size)[k]
  <2>1. o + k \in 1..Len(t) /\ o + k <= Len(t)
    BY <1>1
  <2> QED BY <1>2, <2>1 DEF Laid
<1>4. ASSUME NEW k \in 1..e.n PROVE (t \o u)[o + Block + k] = <<"byte", k>>
  <2>1. o + Block + k \in 1..Len(t) /\ o + Block + k <= Len(t)
    BY <1>1
  <2> QED BY <1>2, <2>1 DEF Laid
<1> QED BY <1>3, <1>4 DEF Laid

LEMMA LaidCut ==
  ASSUME NEW t \in Seq(Cell), NEW m \in 0..Len(t), NEW e \in Given, NEW o \in Nat, Laid(t, o, e)
  PROVE  /\ SubSeq(t, 1, m) \in Seq(Cell) /\ Len(SubSeq(t, 1, m)) = m
         /\ \A i \in 1..m : SubSeq(t, 1, m)[i] = t[i]
         /\ Laid(SubSeq(t, 1, m), o, e)
<1>1. Block \in Nat /\ e.n \in Nat /\ Len(t) \in Nat /\ m \in Nat /\ m <= Len(t)
  BY TarAssumption, LenProperties DEF Given
<1>2. PICK u : u = SubSeq(t, 1, m)
  OBVIOUS
<1>3. u \in Seq(Cell) /\ Len(u) = m /\ \A i \in 1..m : u[i] = t[i]
  BY <1>1, <1>2
<1>4. ASSUME NEW k \in 1..Block, o + k <= m PROVE u[o + k] = HeaderBlock(e.name, e.size)[k]
  <2>1. o + k \in 1..m /\ o + k <= Len(t)
    BY <1>1, <1>4
  <2> QED BY <1>3, <2>1 DEF Laid
<1>5. ASSUME NEW k \in 1..e.n, o + Block + k <= m PROVE u[o + Block + k] = <<"byte", k>>
  <2>1. o + Block + k \in 1..m /\ o + Block + k <= Len(t)
    BY <1>1, <1>5
  <2> QED BY <1>3, <2>1 DEF Laid
<1>6. Laid(u, o, e)
  BY <1>3, <1>4, <1>5 DEF Laid
<1> QED BY <1>2, <1>3, <1>6

LEMMA CellsType ==
  /\ \A n \in Nat : /\ Zeros(n) \in Seq(Cell) /\ Len(Zeros(n)) = n
                    /\ \A k \in 1..n : Zeros(n)[k] = <<"byte", 0>>
  /\ \A name \in Names, size \in Nat :
       /\ HeaderBlock(name, size) \in Seq(Cell) /\ Len(HeaderBlock(name, size)) = Block
       /\ HeaderBlock(name, size)[1] = <<"header", name, size>>
  /\ \A n \in Nat, m \in Nat :
       /\ [i \in 1..n |-> <<"byte", m + i>>] \in Seq(Cell) /\ Len([i \in 1..n |-> <<"byte", m + i>>]) = n
<1>1. \A b \in Nat : <<"byte", b>> \in Cell
  BY DEF Cell
<1>2. ASSUME NEW n \in Nat
      PROVE  /\ Zeros(n) \in Seq(Cell) /\ Len(Zeros(n)) = n
             /\ \A k \in 1..n : Zeros(n)[k] = <<"byte", 0>>
  <2>1. <<"byte", 0>> \in Cell
    BY <1>1
  <2>2. PICK z : z = <<"byte", 0>>
    OBVIOUS
  <2>3. Zeros(n) = [i \in 1..n |-> z] /\ z \in Cell
    BY <2>1, <2>2 DEF Zeros
  <2> QED BY <2>2, <2>3
<1>3. ASSUME NEW name \in Names, NEW size \in Nat
      PROVE  /\ HeaderBlock(name, size) \in Seq(Cell) /\ Len(HeaderBlock(name, size)) = Block
             /\ HeaderBlock(name, size)[1] = <<"header", name, size>>
  <2>1. <<"header", name, size>> \in Cell /\ <<"h">> \in Cell
    BY DEF Cell
  <2>2. PICK a, c : a = <<"header", name, size>> /\ c = <<"h">>
    OBVIOUS
  <2>3. HeaderBlock(name, size) = [i \in 1..Block |-> IF i = 1 THEN a ELSE c] /\ a \in Cell /\ c \in Cell
    BY <2>1, <2>2 DEF HeaderBlock
  <2>4. Block \in Nat /\ 1 \in 1..Block
    BY TarAssumption
  <2> QED BY <2>2, <2>3, <2>4
<1>4. ASSUME NEW n \in Nat, NEW m \in Nat
      PROVE  /\ [i \in 1..n |-> <<"byte", m + i>>] \in Seq(Cell)
             /\ Len([i \in 1..n |-> <<"byte", m + i>>]) = n
  <2>1. \A i \in 1..n : <<"byte", m + i>> \in Cell
    BY <1>1
  <2>2. [i \in 1..n |-> <<"byte", m + i>>] \in [1..n -> Cell]
    BY <2>1
  <2> QED BY <2>2
<1> QED BY <1>2, <1>3, <1>4

\* What was written is on the tape.
Laying(t, g) ==
  /\ t \in Seq(Cell) /\ g \in Seq(Given)
  /\ \A i \in 1..Len(g) : g[i].n <= g[i].size /\ Laid(t, BeginsAt(g, i), g[i])

\* While the Writer writes: the tape ends where the next header goes, but for the padding.
Writing(t, p, g) ==
  /\ \/ p = IF Len(g) = 0 THEN 0 ELSE g[Len(g)].n
     \/ p = 0 /\ Len(g) # 0 /\ g[Len(g)].n = g[Len(g)].size   \* it is padded already
  /\ Len(t) + Padding(p) = BeginsAt(g, Len(g) + 1)
  /\ \A i \in 1..Len(g) : BeginsAt(g, i) + Block + g[i].n <= Len(t)

\* When it is closed: whole entries and two blocks of zeros, as far as the tape goes.
Sealed(t, g) ==
  /\ \A i \in 1..Len(g) : g[i].n = g[i].size
  /\ Len(t) <= BeginsAt(g, Len(g) + 1) + 2 * Block
  /\ \A k \in 1..(2 * Block) :
       BeginsAt(g, Len(g) + 1) + k <= Len(t) => t[BeginsAt(g, Len(g) + 1) + k] = <<"byte", 0>>

LEMMA LayingType ==
  ASSUME NEW t, NEW g, Laying(t, g)
  PROVE  /\ t \in Seq(Cell) /\ Len(t) \in Nat /\ g \in Seq(Given) /\ Len(g) \in Nat
         /\ \A i \in 1..Len(g) : /\ g[i] \in Given /\ g[i].name \in Names
                                 /\ g[i].size \in Nat /\ g[i].n \in Nat
                                 /\ g[i].n <= g[i].size /\ Laid(t, BeginsAt(g, i), g[i])
         /\ \A i \in 1..(Len(g) + 1) : BeginsAt(g, i) \in Nat
         /\ Block \in Nat /\ Block > 0
<1>1. t \in Seq(Cell) /\ g \in Seq(Given)
  BY DEF Laying
<1>2. \A i \in 1..Len(g) : g[i] \in Given
  BY <1>1, ExtentsType
<1>3. \A i \in 1..Len(g) : g[i].name \in Names /\ g[i].size \in Nat /\ g[i].n \in Nat
  BY <1>2 DEF Given
<1>4. \A i \in 1..Len(g) : g[i].n <= g[i].size /\ Laid(t, BeginsAt(g, i), g[i])
  BY DEF Laying
<1>5. \A i \in 1..(Len(g) + 1) : BeginsAt(g, i) \in Nat
  BY <1>1, BeginIs
<1> QED BY <1>1, <1>2, <1>3, <1>4, <1>5, TarAssumption, LenProperties

LEMMA CellsJoin ==
  ASSUME NEW a \in Seq(Cell), NEW b \in Seq(Cell), NEW c, c = a \o b
  PROVE  /\ c \in Seq(Cell) /\ Len(c) = Len(a) + Len(b) /\ Len(a) \in Nat /\ Len(b) \in Nat
         /\ \A i \in 1..Len(a) : c[i] = a[i]
         /\ \A i \in 1..Len(b) : c[Len(a) + i] = b[i]
  OBVIOUS

\* Behind the padding comes what u is.
Follows(v, o, u, g) ==
  /\ v \in Seq(Cell) /\ o \in Nat /\ Len(v) = o + Len(u)
  /\ \A k \in 1..Len(u) : v[o + k] = u[k]
  /\ \A i \in 1..Len(g) : Laid(v, BeginsAt(g, i), g[i]) /\ BeginsAt(g, i) + Block + g[i].n <= Len(v)

LEMMA Padded ==
  ASSUME NEW t, NEW p, NEW g, Laying(t, g), Writing(t, p, g), NEW u \in Seq(Cell),
         NEW v, v = t \o Zeros(Padding(p)) \o u
  PROVE  Follows(v, BeginsAt(g, Len(g) + 1), u, g)
<1>1. PICK l, n : l = Len(g) /\ n = Len(t)
  OBVIOUS
<1>2. /\ t \in Seq(Cell) /\ g \in Seq(Given) /\ l \in Nat /\ n \in Nat
      /\ \A i \in 1..l : g[i] \in Given /\ g[i].n \in Nat /\ Laid(t, BeginsAt(g, i), g[i])
      /\ \A i \in 1..(l + 1) : BeginsAt(g, i) \in Nat
  BY <1>1, LayingType
<1>3. /\ p = (IF l = 0 THEN 0 ELSE g[l].n) \/ p = 0
      /\ n + Padding(p) = BeginsAt(g, l + 1)
      /\ \A i \in 1..l : BeginsAt(g, i) + Block + g[i].n <= n
  BY <1>1 DEF Writing
<1>4. p \in Nat
  <2>1. CASE l = 0
    BY <1>3, <2>1
  <2>2. CASE l # 0
    <3>1. l \in 1..l
      BY <1>2, <2>2
    <3> QED BY <1>2, <1>3, <2>2, <3>1
  <2> QED BY <2>1, <2>2
<1>5. PICK q : q = Padding(p)
  OBVIOUS
<1>6. q \in Nat /\ Zeros(q) \in Seq(Cell) /\ Len(Zeros(q)) = q
  BY <1>4, <1>5, PaddingIs, CellsType
<1>7. PICK w, o : w = t \o Zeros(q) /\ o = BeginsAt(g, l + 1)
  OBVIOUS
<1>8. w \in Seq(Cell) /\ Len(w) = n + q /\ o = n + q /\ o \in Nat
  <2>1. w \in Seq(Cell) /\ Len(w) = n + q
    <3>1. PICK z : z = Zeros(q)
      OBVIOUS
    <3>2. z \in Seq(Cell) /\ Len(z) = q /\ t \in Seq(Cell) /\ Len(t) = n /\ w = t \o z
      BY <1>1, <1>2, <1>6, <1>7, <3>1
    <3>3. w \in Seq(Cell) /\ Len(w) = Len(t) + Len(z)
      BY <3>2, CellsJoin
    <3> QED BY <3>2, <3>3
  <2>2. o = n + q
    BY <1>3, <1>5, <1>7
  <2> QED BY <1>2, <1>6, <2>1, <2>2
<1>9. v = w \o u
  BY <1>5, <1>7
<1>10. v \in Seq(Cell) /\ Len(v) = o + Len(u) /\ \A k \in 1..Len(u) : v[o + k] = u[k]
  <2>1. w \in Seq(Cell) /\ Len(w) = o
    BY <1>8
  <2> QED BY <1>9, <2>1, CellsJoin
<1>11. ASSUME NEW i \in 1..l
       PROVE  Laid(v, BeginsAt(g, i), g[i]) /\ BeginsAt(g, i) + Block + g[i].n <= Len(v)
  <2>1. PICK b, e : b = BeginsAt(g, i) /\ e = g[i]
    OBVIOUS
  <2>2. i \in 1..(l + 1) /\ b \in Nat /\ e \in Given /\ e.n \in Nat /\ Laid(t, b, e) /\ b + Block + e.n <= n
    BY <1>2, <1>3, <2>1
  <2>3. Laid(w, b, e)
    BY <1>1, <1>2, <1>6, <1>7, <2>2, LaidJoin
  <2>4. Block \in Nat /\ Len(u) \in Nat
    BY TarAssumption, LenProperties
  <2>5. b + Block + e.n <= Len(w) /\ b + Block + e.n <= Len(v)
    BY <1>2, <1>6, <1>8, <1>10, <2>2, <2>4
  <2>6. Laid(v, b, e)
    BY <1>8, <1>9, <2>2, <2>3, <2>5, LaidJoin
  <2> QED BY <2>1, <2>5, <2>6
<1>12. o = BeginsAt(g, Len(g) + 1)
  BY <1>1, <1>7
<1> QED BY <1>1, <1>8, <1>10, <1>11, <1>12 DEF Follows

LEMMA TapeSealed ==
  ASSUME NEW t, NEW p, NEW g, Laying(t, g), Writing(t, p, g), \A i \in 1..Len(g) : g[i].n = g[i].size,
         NEW v, v = t \o Zeros(Padding(p)) \o Zeros(2 * Block)
  PROVE  Laying(v, g) /\ Sealed(v, g)
<1>1. PICK u, m : u = Zeros(2 * Block) /\ m = 2 * Block
  OBVIOUS
<1>2. m \in Nat /\ u \in Seq(Cell) /\ Len(u) = m /\ \A k \in 1..m : u[k] = <<"byte", 0>>
  <2>1. m \in Nat
    BY <1>1, TarAssumption
  <2> QED BY <1>1, <2>1, CellsType
<1>3. PICK o : /\ o = BeginsAt(g, Len(g) + 1)
               /\ v \in Seq(Cell) /\ o \in Nat /\ Len(v) = o + Len(u)
               /\ \A k \in 1..Len(u) : v[o + k] = u[k]
               /\ \A i \in 1..Len(g) : Laid(v, BeginsAt(g, i), g[i])
  <2>1. u \in Seq(Cell) /\ v = t \o Zeros(Padding(p)) \o u
    BY <1>1, <1>2
  <2>2. Follows(v, BeginsAt(g, Len(g) + 1), u, g)
    BY <2>1, Padded
  <2> QED BY <2>2 DEF Follows
<1>4. Laying(v, g)
  BY <1>3, LayingType DEF Laying
<1>5. Len(v) <= o + 2 * Block /\ \A k \in 1..(2 * Block) : v[o + k] = <<"byte", 0>>
  <2>1. Len(v) = o + m /\ \A k \in 1..m : v[o + k] = <<"byte", 0>>
    <3>1. Len(v) = o + m /\ \A k \in 1..m : v[o + k] = u[k]
      BY <1>2, <1>3
    <3> QED BY <1>2, <3>1
  <2>2. o + m <= o + m
    BY <1>2, <1>3
  <2> QED BY <1>1, <2>1, <2>2
<1>6. Sealed(v, g)
  BY <1>3, <1>5 DEF Sealed
<1> QED BY <1>4, <1>6

\* The padding is written, and nothing behind it.
LEMMA PaddedAlone ==
  ASSUME NEW t, NEW p, NEW g, Laying(t, g), Writing(t, p, g), \A i \in 1..Len(g) : g[i].n = g[i].size,
         NEW v, v = t \o Zeros(Padding(p)) \o <<>>
  PROVE  Laying(v, g) /\ Writing(v, 0, g)
<1>1. <<>> \in Seq(Cell) /\ Len(<<>>) = 0
  BY EmptySeq
<1>2. Follows(v, BeginsAt(g, Len(g) + 1), <<>>, g)
  BY <1>1, Padded
<1>3. PICK o : /\ o = BeginsAt(g, Len(g) + 1)
               /\ v \in Seq(Cell) /\ o \in Nat /\ Len(v) = o
               /\ \A i \in 1..Len(g) : Laid(v, BeginsAt(g, i), g[i]) /\ BeginsAt(g, i) + Block + g[i].n <= Len(v)
  BY <1>1, <1>2 DEF Follows
<1>4. Laying(v, g)
  BY <1>3, LayingType DEF Laying
<1>5. Len(v) + Padding(0) = BeginsAt(g, Len(g) + 1)
  BY <1>3, PaddingIs
<1>6. CASE Len(g) = 0
  BY <1>3, <1>4, <1>5, <1>6 DEF Writing
<1>7. CASE Len(g) # 0
  <2>1. Len(g) \in 1..Len(g)
    BY <1>7, LayingType
  <2> QED BY <1>3, <1>4, <1>5, <1>7, <2>1 DEF Writing
<1> QED BY <1>6, <1>7

LEMMA TapeCut ==
  ASSUME NEW t, NEW g, Laying(t, g), Sealed(t, g), NEW m \in 0..Len(t)
  PROVE  Laying(SubSeq(t, 1, m), g) /\ Sealed(SubSeq(t, 1, m), g)
<1>1. PICK u : u = SubSeq(t, 1, m)
  OBVIOUS
<1>2. t \in Seq(Cell) /\ Len(t) \in Nat /\ m \in Nat /\ m <= Len(t)
  BY LayingType
<1>3. u \in Seq(Cell) /\ Len(u) = m /\ \A i \in 1..m : u[i] = t[i]
  BY <1>1, <1>2
<1>4. ASSUME NEW i \in 1..Len(g) PROVE Laid(u, BeginsAt(g, i), g[i])
  <2>1. g[i] \in Given /\ i \in 1..(Len(g) + 1) /\ Laid(t, BeginsAt(g, i), g[i]) /\ BeginsAt(g, i) \in Nat
    <3>1. i \in 1..(Len(g) + 1)
      BY LayingType
    <3> QED BY <3>1, LayingType
  <2> QED BY <1>1, <1>2, <2>1, LaidCut
<1>5. Laying(u, g)
  BY <1>3, <1>4, LayingType DEF Laying
<1>6. PICK o : o = BeginsAt(g, Len(g) + 1)
  OBVIOUS
<1>7. o \in Nat /\ Block \in Nat
  <2>1. Len(g) + 1 \in 1..(Len(g) + 1)
    BY LayingType
  <2> QED BY <1>6, <2>1, LayingType
<1>8. /\ \A i \in 1..Len(g) : g[i].n = g[i].size
      /\ Len(t) <= o + 2 * Block
      /\ \A k \in 1..(2 * Block) : o + k <= Len(t) => t[o + k] = <<"byte", 0>>
  BY <1>6 DEF Sealed
<1>9. ASSUME NEW k \in 1..(2 * Block), o + k <= m PROVE u[o + k] = <<"byte", 0>>
  <2>1. o + k \in 1..m /\ o + k <= Len(t)
    BY <1>2, <1>7, <1>9
  <2> QED BY <1>3, <1>8, <2>1
<1>10. Len(u) <= o + 2 * Block
  BY <1>2, <1>3, <1>7, <1>8
<1>11. Sealed(u, g)
  BY <1>3, <1>6, <1>8, <1>9, <1>10 DEF Sealed
<1> QED BY <1>1, <1>5, <1>11

LEMMA HeaderLaid ==
  ASSUME NEW t, NEW p, NEW g, Laying(t, g), Writing(t, p, g), NEW name \in Names, NEW size \in Nat,
         NEW v, v = t \o Zeros(Padding(p)) \o HeaderBlock(name, size),
         NEW h, h = Append(g, [name |-> name, size |-> size, n |-> 0])
  PROVE  Laying(v, h) /\ Writing(v, 0, h)
<1>1. PICK u, e, l : u = HeaderBlock(name, size) /\ e = [name |-> name, size |-> size, n |-> 0] /\ l = Len(g)
  OBVIOUS
<1>2. u \in Seq(Cell) /\ Len(u) = Block
  BY <1>1, CellsType
<1>3. PICK o : /\ o = BeginsAt(g, l + 1)
               /\ v \in Seq(Cell) /\ o \in Nat /\ Len(v) = o + Block
               /\ \A k \in 1..Block : v[o + k] = u[k]
               /\ \A i \in 1..l : Laid(v, BeginsAt(g, i), g[i]) /\ BeginsAt(g, i) + Block + g[i].n <= Len(v)
  <2>1. u \in Seq(Cell) /\ v = t \o Zeros(Padding(p)) \o u
    BY <1>1, <1>2
  <2>2. Follows(v, BeginsAt(g, l + 1), u, g)
    BY <1>1, <2>1, Padded
  <2> QED BY <1>1, <1>2, <2>2 DEF Follows
<1>4. /\ g \in Seq(Given) /\ l \in Nat /\ Block \in Nat /\ e \in Given
      /\ \A i \in 1..l : g[i].n <= g[i].size
  BY <1>1, LayingType DEF Given
<1>5. /\ h \in Seq(Given) /\ Len(h) = l + 1 /\ h[l + 1] = e /\ \A i \in 1..l : h[i] = g[i]
  <2>1. h = Append(g, e)
    BY <1>1
  <2> QED BY <1>1, <1>4, <2>1, AppendProperties
<1>6. \A i \in 1..(l + 1) : BeginsAt(h, i) = BeginsAt(g, i)
  <2>1. l <= Len(g) /\ l <= Len(h) /\ \A i \in 1..l : g[i].n = h[i].n
    BY <1>1, <1>4, <1>5
  <2>2. \A i \in 1..(l + 1) : BeginsAt(g, i) = BeginsAt(h, i)
    BY <1>4, <1>5, <2>1, BeginSame
  <2> QED BY <2>2
<1>7. e.n = 0 /\ e.size = size /\ e.name = name
  BY <1>1
<1>8. BeginsAt(h, l + 1) = o /\ BeginsAt(h, (l + 1) + 1) = o + (Block + 0 + Padding(0))
  <2>1. l + 1 \in 1..Len(h) /\ l + 1 \in 1..(l + 1)
    BY <1>4, <1>5
  <2>2. BeginsAt(h, (l + 1) + 1) = BeginsAt(h, l + 1) + (Block + h[l + 1].n + Padding(h[l + 1].n))
    BY <1>5, <2>1, BeginIs
  <2> QED BY <1>3, <1>5, <1>6, <1>7, <2>1, <2>2
<1>9. Laid(v, o, e)
  <2>1. \A k \in 1..Block : v[o + k] = HeaderBlock(e.name, e.size)[k]
    BY <1>1, <1>3, <1>7
  <2>2. 1..e.n = {}
    BY <1>7
  <2> QED BY <2>1, <2>2 DEF Laid
<1>10. ASSUME NEW i \in 1..(l + 1)
       PROVE  /\ h[i].n <= h[i].size /\ Laid(v, BeginsAt(h, i), h[i])
              /\ BeginsAt(h, i) + Block + h[i].n <= Len(v)
  <2>1. CASE i \in 1..l
    BY <1>3, <1>4, <1>5, <1>6, <2>1
  <2>2. CASE i \notin 1..l
    <3>1. i = l + 1
      BY <1>4, <2>2
    <3>2. o + Block + 0 <= o + Block /\ 0 <= size
      BY <1>3, <1>4
    <3> QED BY <1>3, <1>5, <1>7, <1>8, <1>9, <3>1, <3>2
  <2> QED BY <2>1, <2>2
<1>11. Laying(v, h)
  BY <1>3, <1>5, <1>10 DEF Laying
<1>12. Writing(v, 0, h)
  <2>1. Len(h) # 0 /\ h[Len(h)].n = 0
    BY <1>4, <1>5, <1>7
  <2>2. Len(v) + Padding(0) = BeginsAt(h, Len(h) + 1)
    <3>1. Padding(0) = 0
      BY PaddingIs
    <3> QED BY <1>3, <1>4, <1>5, <1>8, <3>1
  <2> QED BY <1>5, <1>10, <2>1, <2>2 DEF Writing
<1> QED BY <1>11, <1>12

LEMMA Cancels ==
  ASSUME NEW x \in Nat, NEW q \in Nat, NEW o \in Nat, NEW b \in Nat, NEW m \in Nat, x + q = o + (b + m + q)
  PROVE  x = o + b + m
  OBVIOUS

\* n more bytes of the last entry.
DataWritten(t, g, n, v, h) ==
  /\ Len(g) # 0 /\ g[Len(g)].n + n <= g[Len(g)].size
  /\ v = t \o [i \in 1..n |-> <<"byte", g[Len(g)].n + i>>]
  /\ h = [g EXCEPT ![Len(g)].n = @ + n]

LEMMA DataLaid ==
  ASSUME NEW t, NEW p, NEW g, Laying(t, g), Writing(t, p, g), p = g[Len(g)].n, NEW n \in Nat,
         NEW v, NEW h, DataWritten(t, g, n, v, h)
  PROVE  Laying(v, h) /\ Writing(v, p + n, h)
<1>1. PICK l, m, x : l = Len(g) /\ m = g[l].n /\ x = Len(t)
  OBVIOUS
<1>0. /\ l # 0 /\ m + n <= g[l].size /\ v = t \o [i \in 1..n |-> <<"byte", m + i>>]
      /\ h = [g EXCEPT ![l].n = @ + n]
  BY <1>1 DEF DataWritten
<1>2. /\ t \in Seq(Cell) /\ g \in Seq(Given) /\ l \in Nat /\ l \in 1..l /\ x \in Nat /\ m \in Nat
      /\ \A i \in 1..l : /\ g[i] \in Given
                         /\ g[i].n <= g[i].size
                         /\ Laid(t, BeginsAt(g, i), g[i])
                         /\ BeginsAt(g, i) \in Nat
      /\ Block \in Nat
  <2>1. l \in Nat /\ l # 0
    BY <1>0, <1>1, LayingType
  <2>2. l \in 1..l /\ \A i \in 1..l : i \in 1..(l + 1)
    BY <2>1
  <2> QED BY <1>1, <2>1, <2>2, LayingType
<1>3. /\ p = m /\ x + Padding(m) = BeginsAt(g, l + 1) /\ \A i \in 1..l : BeginsAt(g, i) + Block + g[i].n <= x
  BY <1>0, <1>1 DEF Writing
<1>4. PICK o : o = BeginsAt(g, l)
  OBVIOUS
<1>5. x = o + Block + m /\ o \in Nat
  <2>1. BeginsAt(g, l + 1) = o + (Block + m + Padding(m))
    BY <1>1, <1>2, <1>4, BeginIs
  <2>2. Padding(m) \in Nat /\ o \in Nat
    BY <1>2, <1>4, PaddingIs
  <2>3. PICK q : q = Padding(m)
    OBVIOUS
  <2>4. x + q = o + (Block + m + q) /\ x \in Nat /\ q \in Nat /\ o \in Nat /\ Block \in Nat /\ m \in Nat
    BY <1>2, <1>3, <2>1, <2>2, <2>3
  <2> QED BY <2>4, Cancels
<1>6. PICK u : u = [i \in 1..n |-> <<"byte", m + i>>]
  OBVIOUS
<1>7. u \in Seq(Cell) /\ Len(u) = n /\ \A i \in 1..n : u[i] = <<"byte", m + i>>
  BY <1>2, <1>6, CellsType
<1>8. v \in Seq(Cell) /\ Len(v) = x + n /\ (\A i \in 1..x : v[i] = t[i]) /\ \A k \in 1..n : v[x + k] = u[k]
  <2>1. v = t \o u
    BY <1>0, <1>6
  <2>2. /\ v \in Seq(Cell) /\ Len(v) = Len(t) + Len(u)
        /\ \A i \in 1..Len(t) : v[i] = t[i]
        /\ \A k \in 1..Len(u) : v[Len(t) + k] = u[k]
    <3>1. t \in Seq(Cell) /\ u \in Seq(Cell)
      BY <1>2, <1>7
    <3> QED BY <2>1, <3>1, CellsJoin
  <2> QED BY <1>1, <1>7, <2>2
<1>9. PICK e : e = [name |-> g[l].name, size |-> g[l].size, n |-> m + n]
  OBVIOUS
<1>10. g[l] = [name |-> g[l].name, size |-> g[l].size, n |-> m] /\ g[l].name \in Names /\ g[l].size \in Nat
  BY <1>1, <1>2 DEF Given
<1>11. e \in Given /\ e.n = m + n /\ e.n <= e.size /\ e.name = g[l].name /\ e.size = g[l].size
  BY <1>0, <1>1, <1>2, <1>9, <1>10 DEF Given
<1>12. /\ h \in Seq(Given) /\ Len(h) = l /\ h[l] = e /\ \A i \in 1..l : i # l => h[i] = g[i]
  <2>0. [g[l] EXCEPT !.n = @ + n] = e
    <3>1. PICK f : f = g[l]
      OBVIOUS
    <3>2. /\ f = [name |-> f.name, size |-> f.size, n |-> m]
          /\ e = [name |-> f.name, size |-> f.size, n |-> m + n]
      BY <1>9, <1>10, <3>1
    <3>3. [f EXCEPT !.n = @ + n] = e
      BY <3>2
    <3> QED BY <3>1, <3>3
  <2>1. h = [g EXCEPT ![l] = e]
    <3>1. h = [g EXCEPT ![l] = [g[l] EXCEPT !.n = @ + n]]
      BY <1>0
    <3> QED BY <2>0, <3>1
  <2>2. l = Len(g) /\ g \in Seq(Given)
    BY <1>1, <1>2
  <2> QED BY <1>2, <1>11, <2>1, <2>2
<1>13. \A i \in 1..l : BeginsAt(h, i) = BeginsAt(g, i)
  <2>1. PICK y : y = l - 1
    OBVIOUS
  <2>2. y \in Nat /\ y + 1 = l /\ y <= Len(g) /\ y <= Len(h) /\ \A i \in 1..y : g[i].n = h[i].n
    BY <1>1, <1>2, <1>12, <2>1
  <2>3. \A i \in 1..(y + 1) : BeginsAt(g, i) = BeginsAt(h, i)
    BY <1>2, <1>12, <2>2, BeginSame
  <2> QED BY <2>2, <2>3
<1>14. Laid(v, o, e)
  <2>1. Laid(t, o, g[l])
    BY <1>2, <1>4
  <2>2. ASSUME NEW k \in 1..Block PROVE v[o + k] = HeaderBlock(e.name, e.size)[k]
    <3>1. o + k \in 1..x /\ o + k <= Len(t)
      BY <1>1, <1>2, <1>5
    <3> QED BY <1>8, <1>11, <2>1, <3>1 DEF Laid
  <2>3. ASSUME NEW k \in 1..e.n PROVE v[o + Block + k] = <<"byte", k>>
    <3>1. CASE k <= m
      <4>1. k \in 1..m /\ o + Block + k \in 1..x /\ o + Block + k <= Len(t)
        BY <1>1, <1>2, <1>5, <1>11, <3>1
      <4>2. t[o + Block + k] = <<"byte", k>>
        BY <1>1, <2>1, <4>1 DEF Laid
      <4> QED BY <1>8, <4>1, <4>2
    <3>2. CASE ~(k <= m)
      <4>1. PICK j : j = k - m
        OBVIOUS
      <4>2. j \in 1..n /\ o + Block + k = x + j /\ m + j = k
        <5>1. k \in Nat /\ k <= m + n /\ k > m
          BY <1>2, <1>11, <3>2
        <5>2. j \in 1..n /\ m + j = k
          BY <1>2, <4>1, <5>1
        <5>3. (o + Block + m) + j = o + Block + (m + j)
          BY <1>2, <1>5, <5>2
        <5> QED BY <1>5, <5>2, <5>3
      <4> QED BY <1>7, <1>8, <4>2
    <3> QED BY <3>1, <3>2
  <2> QED BY <2>2, <2>3 DEF Laid
<1>15. ASSUME NEW i \in 1..l
       PROVE  /\ h[i].n <= h[i].size /\ Laid(v, BeginsAt(h, i), h[i])
              /\ BeginsAt(h, i) + Block + h[i].n <= Len(v)
  <2>1. CASE i = l
    <3>1. o + Block + (m + n) <= x + n
      BY <1>2, <1>5
    <3> QED BY <1>4, <1>8, <1>11, <1>12, <1>13, <1>14, <2>1, <3>1
  <2>2. CASE i # l
    <3>1. PICK b, f : b = BeginsAt(g, i) /\ f = g[i]
      OBVIOUS
    <3>2. b \in Nat /\ f \in Given /\ f.n <= f.size /\ Laid(t, b, f) /\ b + Block + f.n <= x /\ f.n \in Nat
      BY <1>2, <1>3, <3>1 DEF Given
    <3>3. Laid(v, b, f)
      <4>1. v = t \o u
        BY <1>0, <1>6
      <4> QED BY <1>1, <1>2, <1>7, <3>2, <4>1, LaidJoin
    <3>4. b + Block + f.n <= Len(v)
      BY <1>2, <1>8, <3>2
    <3> QED BY <1>12, <1>13, <2>2, <3>1, <3>2, <3>3, <3>4
  <2> QED BY <2>1, <2>2
<1>16. Laying(v, h)
  BY <1>8, <1>12, <1>15 DEF Laying
<1>17. Len(v) + Padding(m + n) = BeginsAt(h, l + 1)
  <2>1. BeginsAt(h, l + 1) = BeginsAt(h, l) + (Block + h[l].n + Padding(h[l].n))
    BY <1>2, <1>12, BeginIs
  <2>2. BeginsAt(h, l + 1) = o + (Block + (m + n) + Padding(m + n))
    BY <1>2, <1>4, <1>11, <1>12, <1>13, <2>1
  <2>3. PICK q : q = Padding(m + n)
    OBVIOUS
  <2>4. q \in Nat
    <3>1. m + n \in Nat
      BY <1>2
    <3> QED BY <2>3, <3>1, PaddingIs
  <2>5. Len(v) = o + Block + m + n /\ o \in Nat /\ Block \in Nat /\ m \in Nat
    BY <1>2, <1>5, <1>8
  <2>6. (o + Block + m + n) + q = o + (Block + (m + n) + q)
    BY <2>4, <2>5
  <2> QED BY <2>2, <2>3, <2>5, <2>6
<1>18. Writing(v, p + n, h)
  <2>1. p + n = h[l].n /\ Len(h) = l /\ l # 0
    <3>1. h[l].n = m + n /\ Len(h) = l
      BY <1>11, <1>12
    <3> QED BY <1>0, <1>3, <3>1
  <2>2. p + n = m + n
    BY <1>3
  <2> QED BY <1>15, <1>17, <2>1, <2>2 DEF Writing
<1> QED BY <1>16, <1>18

-----------------------------------------------------------------------------
(* The reader. *)
Got == [name : Names \union {AtEnd}, size : Nat, n : Nat, data : Seq(Cell)]

\* h is e as it was written, as far as it was read.
Returned(h, e) ==
  /\ h.name = e.name /\ h.size = e.size /\ h.name # AtEnd
  /\ h.data = [k \in 1..h.n |-> <<"byte", k>>]

\* The i-th of what is returned, of a tape of x cells.
Right(o, i, x, g) ==
  \/ o[i].name = AtEnd /\ i = Len(o) /\ (i = Len(g) + 1 \/ (i <= Len(g) /\ BeginsAt(g, i) + Block > x))
  \/ i <= Len(g) /\ Returned(o[i], g[i])

\* The reader stands in the content of the entry it returned last.
Stands(r, g, o) ==
  /\ r.at = BeginsAt(g, Len(o)) + Block + o[Len(o)].n
  /\ r.remain \in Nat /\ o[Len(o)].n + r.remain = g[Len(o)].size
  /\ r.padLeft = Padding(g[Len(o)].size)

Reading(x, g, r, o) ==
  /\ r \in [at : Int, remain : Int, padLeft : Int] /\ o \in Seq(Got)
  /\ \A i \in 1..Len(o) : Right(o, i, x, g)
  /\ r = NoReader => Len(o) = 0
  /\ r # NoReader => IF Len(o) = 0 THEN r.at = 0 /\ r.remain = 0 /\ r.padLeft = 0
                     ELSE o[Len(o)].name # AtEnd => Stands(r, g, o)

TarInvariant ==
  /\ closed \in BOOLEAN /\ Laying(tape, given)
  /\ ~closed => Writing(tape, pending, given) /\ tr = NoReader /\ Len(got) = 0
  /\ closed => Sealed(tape, given)
  /\ Reading(Len(tape), given, tr, got)

LEMMA TarIsReadBack == TarInvariant => TarReadsBack
<1> SUFFICES ASSUME TarInvariant PROVE TarReadsBack
  OBVIOUS
<1>1. given \in Seq(Given) /\ Len(given) \in Nat /\ DOMAIN given = 1..Len(given)
  BY LayingType, LenProperties DEF TarInvariant
<1>2. got \in Seq(Got) /\ DOMAIN got = 1..Len(got) /\ \A i \in 1..Len(got) : Right(got, i, Len(tape), given)
  BY LenProperties DEF TarInvariant, Reading
<1>3. ASSUME NEW i \in 1..Len(got), got[i].name = AtEnd
      PROVE  i = Len(given) + 1 \/ HeaderEnds(i) > Len(tape)
  <2>1. i = Len(given) + 1 \/ (i <= Len(given) /\ BeginsAt(given, i) + Block > Len(tape))
    BY <1>2, <1>3 DEF Right, Returned
  <2>2. closed
    BY <1>3 DEF TarInvariant
  <2>3. ASSUME i <= Len(given), BeginsAt(given, i) + Block > Len(tape) PROVE HeaderEnds(i) > Len(tape)
    <3>1. \A k \in DOMAIN given : given[k].n = given[k].size
      BY <1>1, <2>2 DEF TarInvariant, Sealed
    <3>2. PICK a, b : /\ a = [k \in DOMAIN given |-> Block + given[k].n + Padding(given[k].n)]
                      /\ b = [k \in DOMAIN given |-> Block + given[k].size + Padding(given[k].size)]
      OBVIOUS
    <3>3. a = b
      BY <3>1, <3>2
    <3>4. HeaderEnds(i) = Block + BeginsAt(given, i)
      BY <3>2, <3>3 DEF HeaderEnds, BeginsAt, Extents
    <3>5. PICK y : y = BeginsAt(given, i)
      OBVIOUS
    <3>6. y \in Nat /\ Block \in Nat
      <4>1. i \in 1..(Len(given) + 1)
        BY <1>1, <1>2, <2>3
      <4> QED BY <1>1, <3>5, <4>1, BeginIs, TarAssumption
    <3>7. Block + y = y + Block
      BY <3>6
    <3> QED BY <2>3, <3>4, <3>5, <3>7
  <2> QED BY <2>1, <2>2, <2>3
<1> QED BY <1>2, <1>3 DEF TarReadsBack, Right, Returned

LEMMA TarInvariantInit == TarInit => TarInvariant
<1> SUFFICES ASSUME TarInit PROVE TarInvariant
  OBVIOUS
<1>1. /\ tape = <<>> /\ pending = 0 /\ closed = FALSE /\ given = <<>>
      /\ tr = NoReader /\ got = <<>>
  BY DEF TarInit
<1>2. /\ <<>> \in Seq(Cell) /\ <<>> \in Seq(Given) /\ <<>> \in Seq(Got) /\ Len(<<>>) = 0 /\ 1..Len(<<>>) = {}
  BY EmptySeq
<1>3. Laying(tape, given)
  BY <1>1, <1>2 DEF Laying
<1>4. Writing(tape, pending, given)
  <2>1. BeginsAt(given, 1) = 0 /\ Padding(0) = 0
    BY <1>1, <1>2, BeginIs, PaddingIs
  <2>2. Len(tape) = 0 /\ Len(given) = 0 /\ 0 + 1 = 1 /\ 0 + 0 = 0
    BY <1>1, <1>2
  <2> QED BY <1>1, <2>1, <2>2 DEF Writing
<1>5. Reading(Len(tape), given, tr, got)
  <2>1. tr \in [at : Int, remain : Int, padLeft : Int]
    BY <1>1 DEF NoReader
  <2> QED BY <1>1, <1>2, <2>1 DEF Reading
<1> QED BY <1>1, <1>2, <1>3, <1>4, <1>5 DEF TarInvariant

\* Nothing is read while the Writer writes.
LEMMA NothingRead ==
  ASSUME NEW r, NEW o, NEW x, NEW g, NEW y, NEW h, Reading(x, g, r, o), r = NoReader
  PROVE  Reading(y, h, r, o) /\ Len(o) = 0
<1>1. r \in [at : Int, remain : Int, padLeft : Int] /\ o \in Seq(Got) /\ Len(o) = 0
  BY DEF Reading
<1>2. 1..Len(o) = {}
  BY <1>1
<1> QED BY <1>1, <1>2 DEF Reading

LEMMA WriteHeaderKeeps ==
  ASSUME TarInvariant, NEW name \in Names, NEW size \in Sizes, WriteHeader(name, size)
  PROVE  TarInvariant'
<1>1. /\ ~closed /\ tape' = tape \o Zeros(Padding(pending)) \o HeaderBlock(name, size) /\ pending' = 0
      /\ given' = Append(given, [name |-> name, size |-> size, n |-> 0])
      /\ closed' = closed /\ tr' = tr /\ got' = got
  BY DEF WriteHeader
<1>2. /\ Laying(tape, given) /\ Writing(tape, pending, given) /\ tr = NoReader
      /\ Reading(Len(tape), given, tr, got) /\ closed \in BOOLEAN
  BY <1>1 DEF TarInvariant
<1>3. PICK v, h : v = tape' /\ h = given'
  OBVIOUS
<1>4. Laying(v, h) /\ Writing(v, 0, h)
  <2>1. size \in Nat
    BY TarAssumption
  <2> QED BY <1>1, <1>2, <1>3, <2>1, HeaderLaid
<1>5. Reading(Len(v), h, tr, got) /\ Len(got) = 0
  BY <1>2, NothingRead
<1> QED BY <1>1, <1>2, <1>3, <1>4, <1>5 DEF TarInvariant

LEMMA WriteDataKeeps ==
  ASSUME TarInvariant, NEW n \in Lengths, WriteData(n)
  PROVE  TarInvariant'
<1>1. /\ ~closed /\ given # <<>> /\ Last(given).n + n <= Last(given).size
      /\ tape' = tape \o [i \in 1..n |-> <<"byte", Last(given).n + i>>] /\ pending' = pending + n
      /\ given' = [given EXCEPT ![Len(given)].n = @ + n]
      /\ closed' = closed /\ tr' = tr /\ got' = got
  BY DEF WriteData
<1>2. /\ Laying(tape, given) /\ Writing(tape, pending, given) /\ tr = NoReader
      /\ Reading(Len(tape), given, tr, got) /\ closed \in BOOLEAN
  BY <1>1 DEF TarInvariant
<1>3. PICK v, h : v = tape' /\ h = given'
  OBVIOUS
<1>4. Len(given) # 0
  BY <1>1, <1>2, LayingType, EmptySeq
<1>5. DataWritten(tape, given, n, v, h) /\ n \in Nat
  BY <1>1, <1>3, <1>4, TarAssumption DEF DataWritten, Last
<1>6. Laying(v, h) /\ Writing(v, pending + n, h)
  <2>1. CASE pending = given[Len(given)].n
    BY <1>2, <1>5, <2>1, DataLaid
  <2>2. CASE pending # given[Len(given)].n
    <3>1. PICK l : l = Len(given)
      OBVIOUS
    <3>2. /\ given \in Seq(Given) /\ l \in 1..l /\ given[l] \in Given
          /\ given[l].size \in Nat /\ given[l].n \in Nat /\ tape \in Seq(Cell)
      BY <1>2, <1>4, <3>1, LayingType
    <3>3. given[l].n = given[l].size /\ given[l].n + n <= given[l].size /\ pending = 0
      BY <1>2, <1>4, <1>5, <2>2, <3>1 DEF Writing, DataWritten
    <3>4. n = 0
      BY <1>5, <3>2, <3>3
    <3>5. v = tape
      <4>1. [i \in 1..n |-> <<"byte", given[l].n + i>>] = <<>>
        BY <3>4
      <4>2. v = tape \o <<>>
        BY <1>5, <3>1, <4>1 DEF DataWritten
      <4> QED BY <3>2, <4>2, ConcatEmptySeq
    <3>6. h = given
      <4>1. [given[l] EXCEPT !.n = @ + n] = given[l]
        <5>1. PICK f : f = given[l]
          OBVIOUS
        <5>2. f = [name |-> f.name, size |-> f.size, n |-> f.n] /\ f.n + n = f.n
          BY <3>2, <3>4, <5>1 DEF Given
        <5>3. [f EXCEPT !.n = @ + n] = f
          BY <5>2
        <5> QED BY <5>1, <5>3
      <4>2. h = [given EXCEPT ![l] = [given[l] EXCEPT !.n = @ + n]]
        BY <1>5, <3>1 DEF DataWritten
      <4> QED BY <3>2, <4>1, <4>2
    <3>7. pending + n = pending
      BY <3>3, <3>4
    <3> QED BY <1>2, <3>5, <3>6, <3>7
  <2> QED BY <2>1, <2>2
<1>7. Reading(Len(v), h, tr, got) /\ Len(got) = 0
  BY <1>2, NothingRead
<1> QED BY <1>1, <1>2, <1>3, <1>6, <1>7 DEF TarInvariant

\* A call fails behind the padding and leaves nothing.
LEMMA StoppedBehindPadding ==
  ASSUME TarInvariant, ~closed, Complete, tape' = tape \o Zeros(Padding(pending)) \o <<>>,
         pending' = 0, given' = given, closed' = closed, tr' = tr, got' = got
  PROVE  TarInvariant'
<1>1. /\ Laying(tape, given) /\ Writing(tape, pending, given) /\ tr = NoReader
      /\ Reading(Len(tape), given, tr, got) /\ closed \in BOOLEAN
  BY DEF TarInvariant
<1>2. PICK v : v = tape'
  OBVIOUS
<1>3. \A i \in 1..Len(given) : given[i].n = given[i].size
  BY <1>1, LayingType, LenProperties DEF Complete
<1>4. Laying(v, given) /\ Writing(v, 0, given)
  BY <1>1, <1>2, <1>3, PaddedAlone
<1>5. Reading(Len(v), given, tr, got) /\ Len(got) = 0
  BY <1>1, NothingRead
<1> QED BY <1>1, <1>2, <1>4, <1>5 DEF TarInvariant

LEMMA PaddingFailsKeeps ==
  ASSUME TarInvariant, PaddingFails(0)
  PROVE  TarInvariant'
<1>1. tape' = tape \o <<>>
  BY DEF PaddingFails, Zeros
<1>2. tape' = tape
  BY <1>1, LayingType, ConcatEmptySeq DEF TarInvariant
<1> QED BY <1>2 DEF PaddingFails, TarInvariant

LEMMA HeaderFailsKeeps ==
  ASSUME TarInvariant, NEW name \in Names, NEW size \in Sizes, HeaderFails(name, size, 0)
  PROVE  TarInvariant'
<1>1. SubSeq(HeaderBlock(name, size), 1, 0) = <<>>
  BY TarAssumption, CellsType
<1> QED BY <1>1, StoppedBehindPadding DEF HeaderFails

LEMMA CloseWriterFailsKeeps ==
  ASSUME TarInvariant, CloseWriterFails(0)
  PROVE  TarInvariant'
<1>1. Zeros(0) = <<>>
  BY DEF Zeros
<1> QED BY <1>1, StoppedBehindPadding DEF CloseWriterFails

LEMMA CloseWriterKeeps ==
  ASSUME TarInvariant, CloseWriter
  PROVE  TarInvariant'
<1>1. /\ ~closed /\ \A i \in DOMAIN given : given[i].n = given[i].size
      /\ tape' = tape \o Zeros(Padding(pending)) \o Zeros(2 * Block)
      /\ closed' = TRUE /\ given' = given /\ tr' = tr /\ got' = got
  BY DEF CloseWriter, Complete
<1>2. /\ Laying(tape, given) /\ Writing(tape, pending, given) /\ tr = NoReader
      /\ Reading(Len(tape), given, tr, got)
  BY <1>1 DEF TarInvariant
<1>3. PICK v : v = tape'
  OBVIOUS
<1>4. Laying(v, given) /\ Sealed(v, given)
  <2>1. \A i \in 1..Len(given) : given[i].n = given[i].size
    BY <1>1, <1>2, LayingType, LenProperties
  <2> QED BY <1>1, <1>2, <1>3, <2>1, TapeSealed
<1>5. Reading(Len(v), given, tr, got)
  BY <1>2, NothingRead
<1> QED BY <1>1, <1>3, <1>4, <1>5 DEF TarInvariant

LEMMA StartReaderKeeps ==
  ASSUME TarInvariant, StartReader
  PROVE  TarInvariant'
<1>1. /\ closed /\ tr = NoReader /\ tr' = [at |-> 0, remain |-> 0, padLeft |-> 0]
      /\ closed' = closed /\ given' = given /\ got' = got /\ closed = TRUE
  BY DEF StartReader, TarInvariant
<1>2. PICK m \in 0..Len(tape) : tape' = SubSeq(tape, 1, m)
  BY DEF StartReader
<1>3. /\ Laying(tape, given) /\ Sealed(tape, given) /\ Reading(Len(tape), given, tr, got)
  BY <1>1 DEF TarInvariant
<1>4. PICK v, r : v = tape' /\ r = tr'
  OBVIOUS
<1>5. Laying(v, given) /\ Sealed(v, given)
  BY <1>2, <1>3, <1>4, TapeCut
<1>6. Reading(Len(v), given, r, got)
  <2>1. got \in Seq(Got) /\ Len(got) = 0
    BY <1>1, <1>3 DEF Reading
  <2>2. r \in [at : Int, remain : Int, padLeft : Int] /\ r.at = 0 /\ r.remain = 0 /\ r.padLeft = 0
    BY <1>1, <1>4
  <2>3. 1..Len(got) = {}
    BY <2>1
  <2> QED BY <2>1, <2>2, <2>3 DEF Reading
<1> QED BY <1>1, <1>4, <1>5, <1>6 DEF TarInvariant

LEMMA LeastOfThem ==
  ASSUME NEW a \in Int, NEW b \in Int, NEW c \in Int
  PROVE  /\ Min({a, b}) \in {a, b} /\ Min({a, b}) <= a /\ Min({a, b}) <= b
         /\ Min({a, b, c}) \in {a, b, c} /\ Min({a, b, c}) <= a /\ Min({a, b, c}) <= b /\ Min({a, b, c}) <= c
<1> DEFINE IsMin(S, x) == x \in S /\ \A y \in S : x <= y
<1>1. ASSUME NEW S, \E x : IsMin(S, x) PROVE IsMin(S, Min(S))
  BY <1>1 DEF Min
<1>2. \E x : IsMin({a, b}, x)
  <2>1. CASE a <= b
    <3>1. IsMin({a, b}, a)
      BY <2>1
    <3> QED BY <3>1
  <2>2. CASE ~(a <= b)
    <3>1. IsMin({a, b}, b)
      BY <2>2
    <3> QED BY <3>1
  <2> QED BY <2>1, <2>2
<1>3. \E x : IsMin({a, b, c}, x)
  <2>1. CASE a <= b /\ a <= c
    <3>1. IsMin({a, b, c}, a)
      BY <2>1
    <3> QED BY <3>1
  <2>2. CASE b <= a /\ b <= c
    <3>1. IsMin({a, b, c}, b)
      BY <2>2
    <3> QED BY <3>1
  <2>3. CASE c <= a /\ c <= b
    <3>1. IsMin({a, b, c}, c)
      BY <2>3
    <3> QED BY <3>1
  <2> QED BY <2>1, <2>2, <2>3
<1>4. IsMin({a, b}, Min({a, b})) /\ IsMin({a, b, c}, Min({a, b, c}))
  <2> HIDE DEF IsMin
  <2> QED BY <1>1, <1>2, <1>3
<1> QED BY <1>4

\* Sequences of the same cells are the same.
LEMMA SameCells ==
  ASSUME NEW a \in Seq(Cell), NEW b \in Seq(Cell), Len(a) = Len(b), \A i \in 1..Len(a) : a[i] = b[i]
  PROVE  a = b
  OBVIOUS

LEMMA BlockIs ==
  ASSUME tape \in Seq(Cell), NEW off \in Nat
  PROVE  \E b : /\ b = BlockAt(off) /\ b \in Seq(Cell)
                /\ off + Block <= Len(tape) => Len(b) = Block /\ \A k \in 1..Block : b[k] = tape[off + k]
                /\ off + Block > Len(tape) => Len(b) < Block
<1>1. PICK x, m, b : x = Len(tape) /\ m = Min({off + Block, x}) /\ b = BlockAt(off)
  OBVIOUS
<1>2. x \in Nat /\ Block \in Nat /\ Block > 0 /\ off + Block \in Int /\ \A i \in 1..x : tape[i] \in Cell
  BY <1>1, TarAssumption, LenProperties, ElementOfSeq
<1>3. m \in {off + Block, x} /\ m <= off + Block /\ m <= x
  <2>1. off + Block \in Int /\ x \in Int
    BY <1>2
  <2> QED BY <1>1, <2>1, LeastOfThem
<1>4. b = SubSeq(tape, off + 1, m)
  BY <1>1 DEF BlockAt
<1>5. m \in Int /\ off + 1 \in Int /\ \A i \in (off + 1)..m : tape[i] \in Cell
  <2>1. m \in Int /\ off + 1 \in Nat /\ off + 1 >= 1
    BY <1>2, <1>3
  <2>2. ASSUME NEW i \in (off + 1)..m PROVE i \in 1..x
    BY <1>2, <1>3, <2>1
  <2> QED BY <1>2, <2>1, <2>2
<1>6. /\ b \in Seq(Cell) /\ Len(b) = IF off + 1 <= m THEN m - (off + 1) + 1 ELSE 0
      /\ \A i \in 1..(m - (off + 1) + 1) : b[i] = tape[(off + 1) + i - 1]
  BY <1>4, <1>5, SubSeqProperties
<1>7. ASSUME off + Block <= x PROVE Len(b) = Block /\ \A k \in 1..Block : b[k] = tape[off + k]
  <2>1. m = off + Block
    BY <1>2, <1>3, <1>7
  <2>2. off + 1 <= m /\ m - (off + 1) + 1 = Block
    BY <1>2, <2>1
  <2>3. \A k \in 1..Block : (off + 1) + k - 1 = off + k
    OBVIOUS
  <2> QED BY <1>6, <2>2, <2>3
<1>8. ASSUME off + Block > x PROVE Len(b) < Block
  <2>1. m = x
    BY <1>2, <1>3, <1>8
  <2>2. m - (off + 1) + 1 < Block /\ 0 < Block
    BY <1>2, <1>8, <2>1
  <2> QED BY <1>6, <2>2
<1> QED BY <1>1, <1>6, <1>7, <1>8

\* What has been returned, before the end is reached.
LEMMA NotAtEnd ==
  ASSUME TarInvariant, tr # NoReader, ~(got # <<>> /\ Last(got).name = AtEnd)
  PROVE  /\ closed = TRUE /\ Laying(tape, given) /\ Sealed(tape, given)
         /\ tr \in [at : Int, remain : Int, padLeft : Int]
         /\ got \in Seq(Got) /\ Len(got) \in Nat /\ Len(got) <= Len(given)
         /\ \A i \in 1..Len(got) : i <= Len(given) /\ Returned(got[i], given[i])
         /\ \A i \in 1..Len(got) : got[i].n \in Nat /\ got[i].data \in Seq(Cell)
         /\ IF Len(got) = 0 THEN tr.at = 0 /\ tr.remain = 0 /\ tr.padLeft = 0 ELSE Stands(tr, given, got)
<1>1. closed = TRUE /\ Laying(tape, given) /\ Sealed(tape, given) /\ Reading(Len(tape), given, tr, got)
  BY DEF TarInvariant
<1>2. /\ tr \in [at : Int, remain : Int, padLeft : Int] /\ got \in Seq(Got) /\ Len(got) \in Nat
      /\ \A i \in 1..Len(got) : Right(got, i, Len(tape), given)
      /\ IF Len(got) = 0 THEN tr.at = 0 /\ tr.remain = 0 /\ tr.padLeft = 0
         ELSE got[Len(got)].name # AtEnd => Stands(tr, given, got)
  BY <1>1, LenProperties DEF Reading
<1>3. Len(got) # 0 => got[Len(got)].name # AtEnd
  <2>1. Len(got) # 0 => got # <<>>
    BY EmptySeq
  <2> QED BY <2>1 DEF Last
<1>4. ASSUME NEW i \in 1..Len(got) PROVE i <= Len(given) /\ Returned(got[i], given[i])
  <2>1. Len(got) # 0
    BY <1>2
  <2> QED BY <1>2, <1>3, <2>1 DEF Right
<1>5. Len(got) <= Len(given)
  <2>1. Len(given) \in Nat
    BY <1>1, LayingType
  <2>2. CASE Len(got) = 0
    BY <2>1, <2>2
  <2>3. CASE Len(got) # 0
    <3>1. Len(got) \in 1..Len(got)
      BY <1>2, <2>3
    <3> QED BY <1>4, <3>1
  <2> QED BY <2>2, <2>3
<1>6. ASSUME NEW i \in 1..Len(got) PROVE got[i].n \in Nat /\ got[i].data \in Seq(Cell)
  <2>1. got[i] \in Got
    BY <1>2, ElementOfSeq
  <2> QED BY <2>1 DEF Got
<1> QED BY <1>1, <1>2, <1>3, <1>4, <1>5, <1>6

\* Where the next header is looked for, an entry begins, or the end does.
LEMMA NextBegins ==
  ASSUME TarInvariant, tr # NoReader, ~(got # <<>> /\ Last(got).name = AtEnd)
  PROVE  tr.at + tr.remain + tr.padLeft = BeginsAt(given, Len(got) + 1)
<1>1. PICK m : m = Len(got)
  OBVIOUS
<1>2. /\ Laying(tape, given) /\ Sealed(tape, given) /\ m \in Nat /\ m <= Len(given)
      /\ IF m = 0 THEN tr.at = 0 /\ tr.remain = 0 /\ tr.padLeft = 0 ELSE Stands(tr, given, got)
      /\ tr \in [at : Int, remain : Int, padLeft : Int]
      /\ \A i \in 1..m : got[i].n \in Nat
  BY <1>1, NotAtEnd
<1>3. given \in Seq(Given) /\ Len(given) \in Nat /\ Block \in Nat
  BY <1>2, LayingType
<1>4. CASE m = 0
  <2>1. BeginsAt(given, 1) = 0
    BY <1>3, BeginIs
  <2> QED BY <1>1, <1>2, <1>4, <2>1
<1>5. CASE m # 0
  <2>1. m \in 1..m /\ m \in 1..Len(given) /\ m \in 1..(Len(given) + 1)
    BY <1>2, <1>3, <1>5
  <2>2. PICK b, n, s, q : b = BeginsAt(given, m) /\ n = got[m].n /\ s = given[m].size /\ q = Padding(s)
    OBVIOUS
  <2>3. b \in Nat /\ n \in Nat /\ s \in Nat /\ q \in Nat
    BY <1>2, <2>1, <2>2, LayingType, PaddingIs
  <2>4. given[m].n = s
    BY <1>2, <2>1, <2>2 DEF Sealed
  <2>5. BeginsAt(given, m + 1) = b + (Block + s + q)
    BY <1>3, <2>1, <2>2, <2>4, BeginIs
  <2>6. tr.at = b + Block + n /\ tr.remain \in Nat /\ n + tr.remain = s /\ tr.padLeft = q
    BY <1>1, <1>2, <1>5, <2>2 DEF Stands
  <2>7. PICK y : y = tr.remain
    OBVIOUS
  <2>8. (b + Block + n) + y + q = b + (Block + (n + y) + q)
    BY <1>3, <2>3, <2>6, <2>7
  <2> QED BY <1>1, <2>5, <2>6, <2>7, <2>8
<1> QED BY <1>4, <1>5

\* One more is returned.
LEMMA OneMore ==
  ASSUME TarInvariant, tr # NoReader, ~(got # <<>> /\ Last(got).name = AtEnd),
         NEW h \in Got, NEW o, o = Append(got, h),
         NEW r \in [at : Int, remain : Int, padLeft : Int],
         Right(o, Len(got) + 1, Len(tape), given),
         h.name # AtEnd => r # NoReader /\ Stands(r, given, o)
  PROVE  Reading(Len(tape), given, r, o) \/ r = NoReader
<1>1. PICK m : m = Len(got)
  OBVIOUS
<1>2. /\ got \in Seq(Got) /\ m \in Nat
      /\ \A i \in 1..m : i <= Len(given) /\ Returned(got[i], given[i])
  BY <1>1, NotAtEnd
<1>3. o \in Seq(Got) /\ Len(o) = m + 1 /\ o[m + 1] = h /\ \A i \in 1..m : o[i] = got[i]
  BY <1>1, <1>2, AppendProperties
<1>4. ASSUME NEW i \in 1..(m + 1) PROVE Right(o, i, Len(tape), given)
  <2>1. CASE i \in 1..m
    BY <1>2, <1>3, <2>1 DEF Right
  <2>2. CASE i \notin 1..m
    <3>1. i = m + 1
      BY <1>2, <2>2
    <3> QED BY <1>1, <3>1
  <2> QED BY <2>1, <2>2
<1>5. Len(o) # 0
  BY <1>2, <1>3
<1> QED BY <1>2, <1>3, <1>4, <1>5 DEF Reading

LEMMA NextHeaderKeeps ==
  ASSUME TarInvariant, NextHeader
  PROVE  TarInvariant'
<1>1. PICK off : off = tr.at + tr.remain + tr.padLeft
  OBVIOUS
<1>2. PICK b : b = BlockAt(off)
  OBVIOUS
<1>3. PICK h : h = ParseHeader(b)
  OBVIOUS
<1>4. /\ tr # NoReader /\ ~(got # <<>> /\ Last(got).name = AtEnd)
      /\ tape' = tape /\ closed' = closed /\ given' = given
      /\ IF Len(b) < Block \/ b = Zeros(Block)
         THEN /\ tr' = [at |-> off + Block, remain |-> 0, padLeft |-> 0]
              /\ got' = Append(got, [name |-> AtEnd, size |-> 0, n |-> 0, data |-> <<>>])
         ELSE /\ tr' = [at |-> off + Block, remain |-> h.size, padLeft |-> Padding(h.size)]
              /\ got' = Append(got, h)
  BY <1>1, <1>2, <1>3 DEF NextHeader
<1>5. PICK m, l, x : m = Len(got) /\ l = Len(given) /\ x = Len(tape)
  OBVIOUS
<1>6. /\ closed = TRUE /\ Laying(tape, given) /\ Sealed(tape, given)
      /\ got \in Seq(Got) /\ m \in Nat /\ m <= l
  BY <1>4, <1>5, NotAtEnd
<1>7. /\ tape \in Seq(Cell) /\ x \in Nat /\ l \in Nat /\ Block \in Nat /\ Block > 0 /\ m + 1 \in 1..(l + 1)
  BY <1>5, <1>6, LayingType
<1>8. off = BeginsAt(given, m + 1) /\ off \in Nat
  <2>1. off = BeginsAt(given, m + 1)
    BY <1>1, <1>4, <1>5, NextBegins
  <2> QED BY <1>5, <1>6, <1>7, <2>1, LayingType
<1>9. /\ off + Block <= x => Len(b) = Block /\ b \in Seq(Cell) /\ \A k \in 1..Block : b[k] = tape[off + k]
      /\ off + Block > x => Len(b) < Block
  BY <1>2, <1>5, <1>7, <1>8, BlockIs
<1>10. PICK r, o : r = tr' /\ o = got'
  OBVIOUS
<1>11. ASSUME Reading(x, given, r, o) PROVE TarInvariant'
  BY <1>4, <1>5, <1>6, <1>10, <1>11 DEF TarInvariant
<1>12. CASE Len(b) < Block \/ b = Zeros(Block)
  <2>1. PICK e : e = [name |-> AtEnd, size |-> 0, n |-> 0, data |-> <<>>]
    OBVIOUS
  <2>2. e \in Got /\ e.name = AtEnd
    BY <2>1, EmptySeq DEF Got
  <2>3. o = Append(got, e) /\ r = [at |-> off + Block, remain |-> 0, padLeft |-> 0]
    BY <1>4, <1>10, <1>12, <2>1
  <2>4. r \in [at : Int, remain : Int, padLeft : Int] /\ r # NoReader
    <3>1. off + Block \in Int /\ off + Block # -1
      BY <1>7, <1>8
    <3> QED BY <2>3, <3>1 DEF NoReader
  <2>5. Len(o) = m + 1 /\ o[m + 1] = e
    BY <1>5, <1>6, <2>2, <2>3, AppendProperties
  <2>6. m + 1 = l + 1 \/ (m + 1 <= l /\ off + Block > x)
    <3>1. ASSUME m + 1 <= l, off + Block <= x PROVE FALSE
      <4>1. m + 1 \in 1..l /\ 1 \in 1..Block
        BY <1>7, <3>1
      <4>2. Len(b) = Block /\ b[1] = tape[off + 1]
        BY <1>9, <3>1, <4>1
      <4>3. b[1] = <<"byte", 0>>
        <5>1. b = Zeros(Block)
          BY <1>7, <1>12, <4>2
        <5> QED BY <1>7, <4>1, <5>1, CellsType
      <4>4. PICK g : g = given[m + 1]
        OBVIOUS
      <4>5. g.name \in Names /\ g.size \in Nat /\ Laid(tape, off, g)
        BY <1>5, <1>6, <1>8, <4>1, <4>4, LayingType
      <4>6. off + 1 <= Len(tape)
        BY <1>5, <1>7, <1>8, <3>1
      <4>7. tape[off + 1] = HeaderBlock(g.name, g.size)[1]
        BY <4>1, <4>5, <4>6 DEF Laid
      <4>8. b[1] = <<"header", g.name, g.size>>
        BY <4>2, <4>5, <4>7, CellsType
      <4>9. <<"byte", 0>>[1] = "byte" /\ <<"header", g.name, g.size>>[1] = "header"
        OBVIOUS
      <4> QED BY <4>3, <4>8, <4>9
    <3> QED BY <1>7, <1>8, <3>1
  <2>7. Right(o, m + 1, x, given)
    BY <1>5, <1>8, <2>2, <2>5, <2>6 DEF Right
  <2>8. Reading(x, given, r, o) \/ r = NoReader
    BY <1>4, <1>5, <2>2, <2>3, <2>4, <2>7, OneMore
  <2> QED BY <1>11, <2>4, <2>8
<1>13. CASE ~(Len(b) < Block \/ b = Zeros(Block))
  <2>1. off + Block <= x
    BY <1>7, <1>8, <1>9, <1>13
  <2>2. b \in Seq(Cell) /\ Len(b) = Block /\ \A k \in 1..Block : b[k] = tape[off + k]
    BY <1>9, <2>1
  <2>3. m + 1 <= l
    <3>1. ASSUME m + 1 = l + 1 PROVE FALSE
      <4>1. \A k \in 1..(2 * Block) : off + k <= x => tape[off + k] = <<"byte", 0>>
        BY <1>5, <1>6, <1>8, <3>1 DEF Sealed
      <4>2. \A k \in 1..Block : k \in 1..(2 * Block) /\ off + k <= x
        BY <1>7, <1>8, <2>1
      <4>3. \A k \in 1..Block : b[k] = <<"byte", 0>>
        BY <2>2, <4>1, <4>2
      <4>4. PICK z : z = Zeros(Block)
        OBVIOUS
      <4>5. z \in Seq(Cell) /\ Len(z) = Block /\ \A k \in 1..Block : z[k] = <<"byte", 0>>
        BY <1>7, <4>4, CellsType
      <4>6. b = z
        <5>1. \A k \in 1..Len(b) : b[k] = z[k]
          BY <2>2, <4>3, <4>5
        <5> QED BY <2>2, <4>5, <5>1, SameCells
      <4> QED BY <1>13, <4>4, <4>6
    <3> QED BY <1>7, <3>1
  <2>4. PICK g : g = given[m + 1]
    OBVIOUS
  <2>5. g.name \in Names /\ g.size \in Nat /\ Laid(tape, off, g)
    <3>1. m + 1 \in 1..l
      BY <1>7, <2>3
    <3> QED BY <1>5, <1>6, <1>8, <2>4, <3>1, LayingType
  <2>6. b[1] = <<"header", g.name, g.size>>
    <3>1. 1 \in 1..Block /\ off + 1 <= Len(tape)
      BY <1>5, <1>7, <1>8, <2>1
    <3>2. tape[off + 1] = HeaderBlock(g.name, g.size)[1]
      BY <2>5, <3>1 DEF Laid
    <3> QED BY <2>2, <2>5, <3>1, <3>2, CellsType
  <2>7. h = [name |-> g.name, size |-> g.size, n |-> 0, data |-> <<>>]
    <3>1. b[1][1] = "header" /\ b[1][2] = g.name /\ b[1][3] = g.size
      BY <2>6
    <3> QED BY <1>3, <3>1 DEF ParseHeader
  <2>8. h \in Got /\ h.name = g.name /\ h.size = g.size /\ h.n = 0 /\ h.data = <<>> /\ h.name # AtEnd
    <3>1. AtEnd \notin Names
      BY TarAssumption
    <3> QED BY <2>5, <2>7, <3>1, EmptySeq DEF Got
  <2>9. o = Append(got, h) /\ r = [at |-> off + Block, remain |-> g.size, padLeft |-> Padding(g.size)]
    BY <1>4, <1>10, <1>13, <2>8
  <2>10. r \in [at : Int, remain : Int, padLeft : Int] /\ r # NoReader
    <3>1. off + Block \in Int /\ off + Block # -1
      BY <1>7, <1>8
    <3>2. Padding(g.size) \in Int
      BY <2>5, PaddingIs
    <3> QED BY <2>5, <2>9, <3>1, <3>2 DEF NoReader
  <2>11. Len(o) = m + 1 /\ o[m + 1] = h
    BY <1>5, <1>6, <2>8, <2>9, AppendProperties
  <2>12. Right(o, m + 1, x, given)
    <3>1. h.data = [k \in 1..h.n |-> <<"byte", k>>]
      <4>1. 1..h.n = {}
        BY <2>8
      <4> QED BY <2>8, <4>1
    <3>2. Returned(h, g)
      BY <2>8, <3>1 DEF Returned
    <3> QED BY <1>5, <2>3, <2>4, <2>11, <3>2 DEF Right
  <2>13. Stands(r, given, o)
    <3>1. r.at = off + Block + 0 /\ r.remain = g.size /\ 0 + g.size = g.size /\ r.padLeft = Padding(g.size)
      BY <1>7, <1>8, <2>5, <2>9
    <3> QED BY <1>8, <2>4, <2>5, <2>8, <2>11, <3>1 DEF Stands
  <2>14. Reading(x, given, r, o) \/ r = NoReader
    BY <1>4, <1>5, <2>8, <2>9, <2>10, <2>12, <2>13, OneMore
  <2> QED BY <1>11, <2>10, <2>14
<1> QED BY <1>12, <1>13

\* The bytes of an entry, n of them after the first o.
BytesFrom(a, o, n) == a \in Seq(Cell) /\ Len(a) = n /\ \A i \in 1..n : a[i] = <<"byte", o + i>>

LEMMA MoreData ==
  ASSUME NEW n \in Nat, NEW k \in Nat, NEW a, BytesFrom(a, 0, n), NEW b, BytesFrom(b, n, k),
         NEW c, c = a \o b
  PROVE  BytesFrom(c, 0, n + k)
<1>1. a \in Seq(Cell) /\ Len(a) = n /\ b \in Seq(Cell) /\ Len(b) = k
  BY DEF BytesFrom
<1>2. /\ c \in Seq(Cell) /\ Len(c) = Len(a) + Len(b)
      /\ \A i \in 1..Len(a) : c[i] = a[i]
      /\ \A i \in 1..Len(b) : c[Len(a) + i] = b[i]
  <2>1. a \in Seq(Cell) /\ b \in Seq(Cell)
    BY <1>1
  <2>2. PICK d : d = a \o b
    OBVIOUS
  <2>3. /\ d \in Seq(Cell) /\ Len(d) = Len(a) + Len(b)
        /\ \A i \in 1..Len(a) : d[i] = a[i]
        /\ \A i \in 1..Len(b) : d[Len(a) + i] = b[i]
    BY <2>1, <2>2, CellsJoin
  <2> QED BY <2>2, <2>3
<1>3. Len(c) = n + k /\ (\A i \in 1..n : c[i] = a[i]) /\ \A i \in 1..k : c[n + i] = b[i]
  BY <1>1, <1>2
<1>4. ASSUME NEW i \in 1..(n + k) PROVE c[i] = <<"byte", 0 + i>>
  <2>1. CASE i <= n
    <3>1. i \in 1..n
      BY <2>1
    <3> QED BY <1>3, <3>1 DEF BytesFrom
  <2>2. CASE ~(i <= n)
    <3>1. PICK j : j = i - n
      OBVIOUS
    <3>2. j \in 1..k /\ n + j = i /\ 0 + i = i
      BY <2>2, <3>1
    <3>3. b[j] = <<"byte", n + j>>
      BY <3>2 DEF BytesFrom
    <3> QED BY <1>3, <3>2, <3>3
  <2> QED BY <2>1, <2>2
<1> QED BY <1>2, <1>3, <1>4 DEF BytesFrom

LEMMA ReadDataKeeps ==
  ASSUME TarInvariant, NEW n \in Lengths, ReadData(n)
  PROVE  TarInvariant'
<1>1. PICK k, x, m : k = Min({n, tr.remain, Len(tape) - tr.at}) /\ x = Len(tape) /\ m = Len(got)
  OBVIOUS
<1>2. PICK c : c = SubSeq(tape, tr.at + 1, tr.at + k)
  OBVIOUS
<1>3. /\ k > 0 /\ ~(got # <<>> /\ Last(got).name = AtEnd)
      /\ tr' = [tr EXCEPT !.at = @ + k, !.remain = @ - k]
      /\ got' = [got EXCEPT ![m].n = @ + k, ![m].data = @ \o c]
      /\ tape' = tape /\ closed' = closed /\ given' = given
  BY <1>1, <1>2 DEF ReadData
<1>4. /\ n \in Int /\ x \in Nat /\ tr.at \in Int
      /\ tr.remain \in Int /\ tr \in [at : Int, remain : Int, padLeft : Int]
  <2>1. n \in Nat
    BY TarAssumption
  <2>2. tape \in Seq(Cell) /\ tr \in [at : Int, remain : Int, padLeft : Int]
    BY LayingType DEF TarInvariant, Reading
  <2> QED BY <1>1, <2>1, <2>2, LenProperties
<1>5. k \in Int /\ k <= tr.remain /\ k <= x - tr.at
  <2>1. PICK p, q : p = tr.remain /\ q = x - tr.at
    OBVIOUS
  <2>2. p \in Int /\ q \in Int /\ n \in Int
    BY <1>4, <2>1
  <2>3. k = Min({n, p, q})
    BY <1>1, <2>1
  <2>4. k \in {n, p, q} /\ k <= p /\ k <= q
    BY <2>2, <2>3, LeastOfThem
  <2> QED BY <2>1, <2>2, <2>4
<1>6. tr.remain > 0
  BY <1>3, <1>4, <1>5
<1>7. tr # NoReader
  BY <1>6 DEF NoReader
<1>8. /\ closed = TRUE /\ Laying(tape, given) /\ Sealed(tape, given)
      /\ got \in Seq(Got) /\ m \in Nat /\ m <= Len(given)
      /\ \A i \in 1..m : i <= Len(given) /\ Returned(got[i], given[i])
      /\ \A i \in 1..m : got[i].n \in Nat /\ got[i].data \in Seq(Cell)
      /\ IF m = 0 THEN tr.at = 0 /\ tr.remain = 0 /\ tr.padLeft = 0 ELSE Stands(tr, given, got)
  BY <1>1, <1>3, <1>7, NotAtEnd
<1>9. m # 0 /\ Stands(tr, given, got) /\ m \in 1..m
  BY <1>6, <1>8
<1>10. PICK f, g, b : f = got[m] /\ g = given[m] /\ b = BeginsAt(given, m)
  OBVIOUS
<1>11. /\ Returned(f, g) /\ f.n \in Nat /\ f.data \in Seq(Cell) /\ f \in Got
       /\ g \in Given /\ g.size \in Nat /\ g.n = g.size /\ Laid(tape, b, g) /\ b \in Nat /\ Block \in Nat
  <2>1. Len(given) \in Nat
    BY <1>8, LayingType
  <2>2. m \in 1..Len(given) /\ m \in 1..(Len(given) + 1)
    BY <1>8, <1>9, <2>1
  <2>3. f \in Got
    BY <1>1, <1>8, <1>9, <1>10, ElementOfSeq
  <2>4. g.n = g.size
    BY <1>8, <1>10, <2>2 DEF Sealed
  <2> QED BY <1>8, <1>9, <1>10, <2>2, <2>3, <2>4, LayingType
<1>12. /\ tr.at = b + Block + f.n /\ tr.remain \in Nat /\ f.n + tr.remain = g.size
       /\ tr.padLeft = Padding(g.size)
  BY <1>1, <1>9, <1>10 DEF Stands
<1>13. PICK a, y, u : a = tr.at /\ y = tr.remain /\ u = f.n
  OBVIOUS
<1>14. /\ a \in Nat /\ y \in Nat /\ u \in Nat /\ k \in Nat /\ k > 0 /\ k <= y /\ a + k <= x
       /\ a = b + Block + u /\ u + y = g.size
  <2>1. a \in Int /\ y \in Nat /\ u \in Nat /\ k > 0 /\ k \in Int /\ k <= y /\ k <= x - a
    BY <1>3, <1>4, <1>5, <1>11, <1>12, <1>13
  <2>2. a = b + Block + u /\ u + y = g.size
    BY <1>12, <1>13
  <2>3. b \in Nat /\ Block \in Nat /\ x \in Nat
    BY <1>4, <1>11
  <2>4. a \in Nat
    BY <2>1, <2>2, <2>3
  <2>5. k \in Nat /\ a + k <= x
    BY <2>1, <2>3, <2>4
  <2> QED BY <2>1, <2>2, <2>4, <2>5
<1>15. c \in Seq(Cell) /\ Len(c) = k /\ \A j \in 1..k : c[j] = <<"byte", u + j>>
  <2>1. tape \in Seq(Cell) /\ \A i \in 1..x : tape[i] \in Cell
    BY <1>1, <1>8, LayingType, ElementOfSeq
  <2>2. ASSUME NEW i \in (a + 1)..(a + k) PROVE tape[i] \in Cell
    <3>1. i \in 1..x
      BY <1>4, <1>14
    <3> QED BY <2>1, <3>1
  <2>3. a + 1 \in Int /\ a + k \in Int /\ c = SubSeq(tape, a + 1, a + k)
    BY <1>2, <1>13, <1>14
  <2>4. /\ c \in Seq(Cell) /\ Len(c) = IF a + 1 <= a + k THEN (a + k) - (a + 1) + 1 ELSE 0
        /\ \A j \in 1..((a + k) - (a + 1) + 1) : c[j] = tape[(a + 1) + j - 1]
    BY <2>2, <2>3, SubSeqProperties
  <2>5. a + 1 <= a + k /\ (a + k) - (a + 1) + 1 = k
    BY <1>14
  <2>6. ASSUME NEW j \in 1..k PROVE c[j] = <<"byte", u + j>>
    <3>1. PICK i : i = u + j
      OBVIOUS
    <3>2. i \in 1..g.n /\ (a + 1) + j - 1 = b + Block + i /\ b + Block + i <= Len(tape)
      BY <1>1, <1>11, <1>14, <3>1
    <3>3. tape[b + Block + i] = <<"byte", i>>
      BY <1>11, <3>2 DEF Laid
    <3>4. c[j] = tape[(a + 1) + j - 1]
      BY <2>4, <2>5
    <3> QED BY <3>1, <3>2, <3>3, <3>4
  <2> QED BY <2>4, <2>5, <2>6
<1>16. PICK d : d = f.data \o c
  OBVIOUS
<1>17. d \in Seq(Cell) /\ d = [i \in 1..(u + k) |-> <<"byte", i>>]
  <2>1. f.data = [i \in 1..u |-> <<"byte", i>>]
    BY <1>11, <1>13 DEF Returned
  <2>2. d \in Seq(Cell)
    BY <1>11, <1>15, <1>16, CellsJoin
  <2>3. PICK w : w = f.data
    OBVIOUS
  <2>4. w \in Seq(Cell) /\ w = [i \in 1..u |-> <<"byte", i>>] /\ u \in Nat /\ k \in Nat
    BY <1>11, <1>14, <2>1, <2>3
  <2>5. Len(w) = u /\ (\A i \in 1..u : w[i] = <<"byte", i>>) /\ d = w \o c
    BY <1>16, <2>3, <2>4
  <2>6. Len(d) = u + k /\ \A i \in 1..(u + k) : d[i] = <<"byte", i>>
    <3>1. BytesFrom(w, 0, u)
      <4>1. \A i \in 1..u : 0 + i = i
        BY <2>4
      <4> QED BY <2>4, <2>5, <4>1 DEF BytesFrom
    <3>2. BytesFrom(c, u, k)
      BY <1>15 DEF BytesFrom
    <3>3. BytesFrom(d, 0, u + k)
      BY <2>4, <2>5, <3>1, <3>2, MoreData
    <3>4. \A i \in 1..(u + k) : 0 + i = i
      BY <2>4
    <3> QED BY <3>3, <3>4 DEF BytesFrom
  <2>7. d = [i \in 1..(u + k) |-> d[i]]
    BY <2>2, <2>6, LenProperties
  <2> QED BY <2>2, <2>6, <2>7
<1>18. PICK e : e = [name |-> f.name, size |-> f.size, n |-> u + k, data |-> d]
  OBVIOUS
<1>19. /\ e \in Got /\ e.name = f.name /\ e.size = f.size /\ e.n = u + k
       /\ e.data = d /\ Returned(e, g) /\ u + k \in Nat
  <2>1. u + k \in Nat
    BY <1>14
  <2>2. f.name \in Names \union {AtEnd} /\ f.size \in Nat
    BY <1>11 DEF Got
  <2>3. e \in Got
    BY <1>17, <1>18, <2>1, <2>2 DEF Got
  <2>4. Returned(e, g)
    BY <1>11, <1>17, <1>18 DEF Returned
  <2> QED BY <1>18, <2>1, <2>3, <2>4
<1>20. PICK r, o : r = tr' /\ o = got'
  OBVIOUS
<1>21. o = [got EXCEPT ![m] = e]
  <2>1. f = [name |-> f.name, size |-> f.size, n |-> u, data |-> f.data]
    BY <1>11, <1>13 DEF Got
  <2>2. [[f EXCEPT !.n = @ + k] EXCEPT !.data = @ \o c] = e
    <3>1. [f EXCEPT !.n = @ + k] = [name |-> f.name, size |-> f.size, n |-> u + k, data |-> f.data]
      BY <2>1
    <3>2. PICK h : h = [f EXCEPT !.n = @ + k]
      OBVIOUS
    <3>3. h = [name |-> f.name, size |-> f.size, n |-> u + k, data |-> f.data]
      BY <3>1, <3>2
    <3>4. [h EXCEPT !.data = @ \o c] = [name |-> f.name, size |-> f.size, n |-> u + k, data |-> d]
      <4>1. h.data \o c = d
        BY <1>16, <3>3
      <4>2. [h EXCEPT !.data = d] = [name |-> f.name, size |-> f.size, n |-> u + k, data |-> d]
        BY <3>3
      <4> QED BY <4>1, <4>2
    <3> QED BY <1>18, <3>2, <3>4
  <2>3. PICK p : p = [got EXCEPT ![m] = [f EXCEPT !.n = @ + k]]
    OBVIOUS
  <2>4. got' = [p EXCEPT ![m] = [p[m] EXCEPT !.data = @ \o c]]
    BY <1>3, <1>10, <2>3
  <2>5. p[m] = [f EXCEPT !.n = @ + k]
    BY <1>1, <1>8, <1>9, <2>3
  <2>6. got' = [p EXCEPT ![m] = e]
    BY <2>2, <2>4, <2>5
  <2> QED BY <1>20, <2>3, <2>6
<1>22. o \in Seq(Got) /\ Len(o) = m /\ o[m] = e /\ \A i \in 1..m : i # m => o[i] = got[i]
  <2>1. m = Len(got) /\ got \in Seq(Got)
    BY <1>1, <1>8
  <2> QED BY <1>9, <1>19, <1>21, <2>1
<1>23. /\ r \in [at : Int, remain : Int, padLeft : Int]
       /\ r.at = a + k /\ r.remain = y - k /\ r.padLeft = tr.padLeft
  <2>1. r = [tr EXCEPT !.at = a + k, !.remain = y - k]
    BY <1>3, <1>13, <1>20
  <2>2. a + k \in Int /\ y - k \in Int
    BY <1>14
  <2> QED BY <1>4, <2>1, <2>2
<1>24. r # NoReader
  <2>1. r.at # -1
    BY <1>14, <1>23
  <2> QED BY <2>1 DEF NoReader
<1>25. Stands(r, given, o)
  <2>1. a + k = b + Block + (u + k) /\ y - k \in Nat /\ (u + k) + (y - k) = g.size
    BY <1>11, <1>14
  <2> QED BY <1>10, <1>12, <1>19, <1>22, <1>23, <2>1 DEF Stands
<1>26. ASSUME NEW i \in 1..m PROVE Right(o, i, x, given)
  <2>1. i <= Len(given) /\ Returned(o[i], given[i])
    BY <1>8, <1>10, <1>19, <1>22
  <2> QED BY <2>1 DEF Right
<1>27. Reading(x, given, r, o)
  BY <1>9, <1>22, <1>23, <1>24, <1>25, <1>26 DEF Reading
<1> QED BY <1>1, <1>3, <1>8, <1>20, <1>27 DEF TarInvariant

LEMMA TarInvariantStep ==
  ASSUME ~tarTorn => TarInvariant, [TarNext]_tarVars, ~tarTorn'
  PROVE  TarInvariant'
<1>1. ASSUME NEW name \in Names, NEW size \in Sizes, WriteHeader(name, size) PROVE TarInvariant'
  BY <1>1, WriteHeaderKeeps DEF WriteHeader
<1>2. ASSUME NEW n \in Torn, PaddingFails(n) PROVE TarInvariant'
  <2>1. ~tarTorn /\ tarTorn' = (n > 0)
    BY <1>2 DEF PaddingFails
  <2>2. ~(n > 0)
    BY <2>1, Zenon
  <2>3. n = 0
    BY <2>2, ZipAssumption
  <2> QED BY <1>2, <2>1, <2>3, PaddingFailsKeeps
<1>3. ASSUME NEW name \in Names, NEW size \in Sizes, NEW n \in Torn, HeaderFails(name, size, n)
      PROVE  TarInvariant'
  <2>1. ~tarTorn /\ tarTorn' = (n > 0)
    BY <1>3 DEF HeaderFails
  <2>2. ~(n > 0)
    BY <2>1, Zenon
  <2>3. n = 0
    BY <2>2, ZipAssumption
  <2> QED BY <1>3, <2>1, <2>3, HeaderFailsKeeps
<1>4. ASSUME NEW n \in Lengths, WriteData(n) PROVE TarInvariant'
  BY <1>4, WriteDataKeeps DEF WriteData
<1>5. ASSUME CloseWriter PROVE TarInvariant'
  BY <1>5, CloseWriterKeeps DEF CloseWriter
<1>6. ASSUME NEW blocks \in {0, 1}, NEW n \in Torn, CloseWriterFails(blocks * Block + n)
      PROVE  TarInvariant'
  <2>1. blocks * Block + n \in Nat
    BY ZipAssumption, TarAssumption
  <2>2. ~tarTorn /\ tarTorn' = (blocks * Block + n > 0)
    BY <1>6 DEF CloseWriterFails
  <2>3. ~(blocks * Block + n > 0)
    BY <2>2, Zenon
  <2>4. blocks * Block + n = 0
    BY <2>1, <2>3
  <2> QED BY <1>6, <2>2, <2>4, CloseWriterFailsKeeps
<1>7. ASSUME StartReader PROVE TarInvariant'
  BY <1>7, StartReaderKeeps DEF StartReader
<1>8. ASSUME NextHeader PROVE TarInvariant'
  BY <1>8, NextHeaderKeeps DEF NextHeader
<1>9. ASSUME NEW n \in Lengths, ReadData(n) PROVE TarInvariant'
  BY <1>9, ReadDataKeeps DEF ReadData
<1>10. ASSUME UNCHANGED tarVars PROVE TarInvariant'
  BY <1>10 DEF tarVars, TarInvariant
<1> QED BY <1>1, <1>2, <1>3, <1>4, <1>5, <1>6, <1>7, <1>8, <1>9, <1>10 DEF TarNext

(* What is read back is what was written, in the zip file and on the tape, as
   long as no failed call has left bytes there.                               *)
ArchivesInvariant == (~zipTorn => ZipInvariant) /\ (~tarTorn => TarInvariant)

(* zip.NewReader finds after the one successful Close every entry with the
   content it had when finishCurrent wrote it; tar's Reader returns the entries
   as they were written, whatever was left unread of those before and wherever
   the file is cut.  Both hold also when calls failed, at any of their writes,
   and were made again, as long as the failed writes left no bytes: zw.written
   and tw.written do not count those.                                         *)
THEOREM ArchivesReadTheirOwn == ArchivesSpec => []ArchivesReadBack
<1>1. ZipInit /\ TarInit => ArchivesInvariant
  BY ZipInvariantInit, TarInvariantInit DEF ArchivesInvariant
<1>2. ArchivesInvariant /\ [ArchivesNext]_<<zipVars, tarVars>> => ArchivesInvariant'
  <2> SUFFICES ASSUME ArchivesInvariant, [ArchivesNext]_<<zipVars, tarVars>>
               PROVE  ArchivesInvariant'
    OBVIOUS
  <2>1. [ZipNext]_zipVars /\ [TarNext]_tarVars
    BY DEF ArchivesNext
  <2>2. ~zipTorn => ZipInvariant
    BY DEF ArchivesInvariant
  <2>3. ~tarTorn => TarInvariant
    BY DEF ArchivesInvariant
  <2>4. ~zipTorn' => ZipInvariant'
    BY <2>1, <2>2, ZipInvariantStep
  <2>5. ~tarTorn' => TarInvariant'
    BY <2>1, <2>3, TarInvariantStep
  <2> QED BY <2>4, <2>5 DEF ArchivesInvariant
<1>3. ArchivesInvariant => ArchivesReadBack
  BY ZipIsReadBack, TarIsReadBack DEF ArchivesInvariant, ArchivesReadBack, ZipReadsBack, TarReadsBack
<1> QED BY <1>1, <1>2, <1>3, PTL DEF ArchivesSpec
=============================================================================
