--------------------------- MODULE StorageProofs ----------------------------
(***************************************************************************)
(* Proofs about SqliteDb, for every number of connections and every set of *)
(* rows, and about DirectoryWatcher, for every set of directories and of   *)
(* names and every number of changes: what the wrapper says of a write is  *)
(* so, statements stay with the connection they are for, and the watches   *)
(* follow a tree that others change while the events about it wait.        *)
(***************************************************************************)
EXTENDS SqliteDb, DirectoryWatcher, NumberLemmas, SequenceTheorems,
        FiniteSetTheorems, WellFoundedInduction, TLAPS

-----------------------------------------------------------------------------
(* SqliteDb: the inductive invariant.                                      *)

(* What a statement was given since its reset is what is bound, and it was *)
(* given exactly if its index has moved; its connection was opened.        *)
BindInv ==
    \A s \in Slots : Good(stmt[s]) =>
        /\ stmt[s].conn \in 1 .. conns
        /\ stmt[s].given # NoValue => stmt[s].setIndex = 1 /\ stmt[s].bound = stmt[s].given
        /\ stmt[s].kind = "writer" /\ stmt[s].state = "ready" /\ stmt[s].setIndex = 1
              => stmt[s].given # NoValue

(* A row that waits for its transaction is in the file, or among those the *)
(* transaction has written.                                                *)
PendingInv ==
    \A v \in Values : ack[v] = "pending" =>
        sqlite_ # 0 /\ v \in content \cup conn[sqlite_].dirty

(* How far exit() is: what it has finalised is gone, and a connection of   *)
(* which the caller has a statement is one that was told so.               *)
ExitInv ==
    /\ step \in 1 .. 3 => stmt["reader"] = Absent
    /\ step \in 2 .. 3 => stmt["writer"] = Absent
    /\ step \in 1 .. 2 /\ Of(stmt["created"], sqlite_) => sqlite_ \in kept
    /\ step = 3 => sqlite_ = 0
    /\ ExitFreesTheFile

SqliteInv == StatementsBelong /\ PromisesKept /\ BindInv /\ PendingInv /\ ExitInv

-----------------------------------------------------------------------------
(* What sqlite3_prepare makes, and what steps and resets make of it.       *)
PreparedStatements ==
    [kind : Caches, conn : Conns, state : {"ready", "row", "busy", "done"}, setIndex : 0 .. 1,
     bound : Values \cup {NoValue}, given : Values \cup {NoValue}]

(* A statement is prepared, or is one of two that have nothing but a       *)
(* connection.                                                             *)
LEMMA StatementKinds ==
    ASSUME NEW st \in Statements
    PROVE  /\ Good(st) => st \in PreparedStatements
           /\ ~ Good(st) => st = Absent \/ \E c \in 0 .. MaxConns : st = Bad(c)
           /\ st.kind = "absent" => st = Absent
BY DEF Statements, PreparedStatements, Good, Caches, Absent, Bad

(* A prepared statement is a good one.                                     *)
LEMMA PreparedIs ==
    ASSUME NEW st \in PreparedStatements
    PROVE  st \in Statements /\ Good(st)
BY DEF Statements, PreparedStatements, Good

(* What write() makes of a prepared statement.                             *)
Stepped(st) == [st EXCEPT !.state = "done", !.given = NoValue]

(* It is one still, and of the same connection.                            *)
LEMMA StepStatement ==
    ASSUME NEW st \in PreparedStatements
    PROVE  /\ Stepped(st) \in PreparedStatements
           /\ Stepped(st).kind = st.kind /\ Stepped(st).conn = st.conn
           /\ Stepped(st).state = "done" /\ Stepped(st).given = NoValue
<1> DEFINE once == [st EXCEPT !.state = "done"]
<1>1. Stepped(st) = [once EXCEPT !.given = NoValue] BY DEF Stepped
<1>2. once \in PreparedStatements /\ once.kind = st.kind /\ once.conn = st.conn
      /\ once.state = "done"
  BY DEF PreparedStatements
<1> HIDE DEF once
<1> QED BY <1>1, <1>2 DEF PreparedStatements

(* What the constructor and reset() make.                                  *)
LEMMA NewStatements ==
    ASSUME SqliteInv, NEW kind \in Caches
    PROVE  /\ Absent \in Statements /\ ~ Good(Absent)
           /\ \A c \in 0 .. MaxConns : Bad(c) \in Statements /\ ~ Good(Bad(c))
           /\ Prepare(kind) \in Statements /\ Prepare(kind).conn = sqlite_
           /\ Good(Prepare(kind)) =>
                 /\ IsOpen
                 /\ Prepare(kind).given = NoValue /\ Prepare(kind).setIndex = 0
           /\ Prepare(kind).kind # "absent"
<1>1. sqlite_ \in 0 .. MaxConns BY SqliteAssumption DEF SqliteInv, StatementsBelong, SqliteTypeOK
<1>2. Absent \in Statements /\ ~ Good(Absent) BY DEF Statements, Absent, Good, Caches
<1>3. \A c \in 0 .. MaxConns : Bad(c) \in Statements /\ ~ Good(Bad(c))
  BY DEF Statements, Bad, Good, Caches
<1>4. CASE IsOpen /\ table
  <2>1. Prepare(kind) = [kind |-> kind, conn |-> sqlite_, state |-> "ready", setIndex |-> 0,
                         bound |-> NoValue, given |-> NoValue]
    BY <1>4 DEF Prepare, Prepared
  <2>2. sqlite_ \in Conns BY <1>1, <1>4 DEF IsOpen, Conns
  <2>3. Prepare(kind) \in PreparedStatements BY <2>1, <2>2 DEF PreparedStatements
  <2> QED BY <1>2, <1>3, <1>4, <2>1, <2>3, PreparedIs DEF Caches
<1>5. CASE ~ (IsOpen /\ table)
  <2>1. Prepare(kind) = Bad(sqlite_) BY <1>5 DEF Prepare
  <2> QED BY <1>1, <1>2, <1>3, <2>1 DEF Bad
<1> QED BY <1>4, <1>5

(* What reset_stmt() makes of a statement: it keeps its kind and its       *)
(* connection, and forgets what it was given.                              *)
LEMMA ResetStatement ==
    ASSUME NEW st \in Statements
    PROVE  /\ AfterReset(st) \in Statements
           /\ AfterReset(st).conn = st.conn /\ AfterReset(st).kind = st.kind
           /\ Good(st) => AfterReset(st).given = NoValue /\ AfterReset(st).setIndex = 0
<1>1. CASE Good(st)
  <2>1. st \in PreparedStatements BY <1>1, StatementKinds
  <2>2. AfterReset(st) = [st EXCEPT !.state = "ready", !.setIndex = 0, !.given = NoValue]
    BY <1>1 DEF AfterReset
  <2>3. AfterReset(st) = [kind |-> st.kind, conn |-> st.conn, state |-> "ready", setIndex |-> 0,
                          bound |-> st.bound, given |-> NoValue]
    BY <2>1, <2>2 DEF PreparedStatements
  <2>4. /\ AfterReset(st).conn = st.conn /\ AfterReset(st).kind = st.kind
        /\ AfterReset(st).given = NoValue /\ AfterReset(st).setIndex = 0
    BY <2>3
  <2>5. AfterReset(st) \in PreparedStatements BY <2>1, <2>3 DEF PreparedStatements
  <2> QED BY <2>4, <2>5, PreparedIs
<1>2. CASE ~ Good(st) BY <1>2 DEF AfterReset
<1> QED BY <1>1, <1>2

-----------------------------------------------------------------------------
(* What every statement has to satisfy on its own.                         *)
StatementFits(s, st) ==
    /\ s \in Caches /\ st.kind # "absent" => st.conn = sqlite_
    /\ Good(st) =>
          /\ st.conn \in 1 .. conns /\ conn[st.conn].is = "open"
          /\ st.given # NoValue => st.setIndex = 1 /\ st.bound = st.given
          /\ st.kind = "writer" /\ st.state = "ready" /\ st.setIndex = 1
                => st.given # NoValue

(* Every statement fits the slot that it is in.                            *)
LEMMA StatementsFit ==
    SqliteInv => \A s \in Slots : StatementFits(s, stmt[s])
BY DEF SqliteInv, StatementsBelong, BindInv, StatementFits

(* Calls change what is known of open connections only, and neither open   *)
(* nor close one; they come when exit() and init() are over.               *)
SameConns ==
    /\ \A c \in Conns : conn'[c].is = conn[c].is
    /\ \A c \in Conns : conn'[c] = conn[c] \/ conn[c].is = "open"

(* Such a call leaves the files of the connections given up free.          *)
LEMMA ExitInvKept ==
    ASSUME SqliteInv, step = 0, UNCHANGED <<sqlite_, exitVars>>, SameConns
    PROVE  ExitInv'
BY DEF SqliteInv, ExitInv, ExitFreesTheFile, SameConns, NewConn, exitVars

(* A call that replaces one statement and opens or closes no connection.   *)
LEMMA StatementReplaced ==
    ASSUME SqliteInv, NEW s \in Slots, NEW st \in Statements, Put(s, st), StatementFits(s, st),
           SqliteTypeOK', step = 0, UNCHANGED <<sqlite_, conns, exitVars>>, SameConns
    PROVE  StatementsBelong' /\ BindInv' /\ ExitInv'
<1>1. stmt'[s] = st /\ \A x \in Slots : x # s => stmt'[x] = stmt[x]
  BY DEF Put, SqliteInv, StatementsBelong, SqliteTypeOK
<1>2. \A x \in Slots : StatementFits(x, stmt'[x]) BY <1>1, StatementsFit
<1>3. \A x \in Slots : Good(stmt'[x]) => stmt'[x].conn \in Conns
  BY StatementKinds DEF SqliteTypeOK, PreparedStatements
<1> QED BY <1>2, <1>3, ExitInvKept DEF StatementFits, StatementsBelong, BindInv, Slots, Good, SameConns

(* A call that replaces one statement, and does nothing else.              *)
LEMMA StatementStepKeeps ==
    ASSUME SqliteInv, NEW s \in Slots, NEW st \in Statements, StatementStep(s, st),
           StatementFits(s, st), step = 0, UNCHANGED exitVars
    PROVE  SqliteInv'
<1>1. /\ Put(s, st)
      /\ UNCHANGED <<sqlite_, conns, conn, content, wal, table, other, ack>>
  BY DEF StatementStep
<1>2. SqliteTypeOK' BY <1>1 DEF SqliteInv, StatementsBelong, SqliteTypeOK, Put, exitVars
<1>3. StatementsBelong' /\ BindInv' /\ ExitInv' BY <1>1, <1>2, StatementReplaced DEF SameConns
<1>4. PromisesKept' /\ PendingInv' BY <1>1 DEF SqliteInv, PromisesKept, PendingInv
<1> QED BY <1>3, <1>4 DEF SqliteInv

(* A call that leaves the statements alone and opens or closes nothing.    *)
LEMMA ConnectionStepKeeps ==
    ASSUME SqliteInv, SqliteTypeOK', step = 0, UNCHANGED <<sqlite_, conns, stmt, exitVars>>,
           SameConns
    PROVE  StatementsBelong' /\ BindInv' /\ ExitInv'
<1>1. stmt["created"] \in Statements /\ Put("created", stmt["created"])
  BY DEF SqliteInv, StatementsBelong, SqliteTypeOK, Slots, Put
<1>2. StatementFits("created", stmt["created"]) BY StatementsFit DEF Slots
<1> QED BY <1>1, <1>2, StatementReplaced DEF Slots

(* readers_.clear() or writers_.clear(), as a call of exit().              *)
LEMMA CacheClears ==
    ASSUME SqliteInv, NEW o \in BOOLEAN, DbExit(o), NEW s \in Caches, ClearCache(s),
           step < 2, s = "reader" <=> step < 1
    PROVE  SqliteInv'
<1> USE SqliteAssumption
<1>12. (step = 0 /\ s = "reader") \/ (step = 1 /\ s = "writer")
  <2>1. step = 0 \/ step = 1 BY DEF SqliteInv, StatementsBelong, SqliteTypeOK
  <2>2. CASE step < 1
    <3>1. s = "reader" BY <2>2
    <3>2. step = 0 BY <2>1, <2>2
    <3> QED BY <3>1, <3>2
  <2>3. CASE step = 1
    <3>1. s = "writer" BY <2>3 DEF Caches
    <3> QED BY <2>3, <3>1
  <2>4. step < 1 \/ step = 1 BY <2>1
  <2> QED BY <2>2, <2>3, <2>4
<1>0. /\ SqliteTypeOK /\ Put(s, Absent) /\ UNCHANGED <<sqlite_, conn, ack>> /\ step \in 0 .. 1
      /\ step' = step + 1 /\ opening' = (o /\ step < 2)
      /\ kept' = IF step = 0 /\ Of(stmt["created"], sqlite_) THEN kept \cup {sqlite_} ELSE kept
      /\ UNCHANGED <<conns, content, wal, table, other>>
  BY <1>12 DEF DbExit, ClearCache, SqliteInv, StatementsBelong
<1>1. Absent \in Statements /\ ~ Good(Absent) BY DEF Statements, Absent, Good, Caches
<1>2. stmt' = [stmt EXCEPT ![s] = Absent] /\ s \in Slots /\ s # "created"
  BY <1>0 DEF Put, Slots, Caches
<1>3. stmt' \in [Slots -> Statements] BY <1>0, <1>1, <1>2 DEF SqliteTypeOK
<1>4. stmt'[s] = Absent /\ \A x \in Slots : x # s => stmt'[x] = stmt[x]
  BY <1>0, <1>2 DEF SqliteTypeOK
<1>5. kept' \subseteq Conns
  <2>1. CASE Of(stmt["created"], sqlite_)
    <3>1. sqlite_ \in Conns
      BY <2>1 DEF SqliteInv, BindInv, Of, Slots, StatementsBelong, SqliteTypeOK, Conns
    <3> QED BY <1>0, <3>1 DEF SqliteTypeOK
  <2> QED BY <1>0, <2>1 DEF SqliteTypeOK
<1>6. SqliteTypeOK' BY <1>0, <1>3, <1>5 DEF SqliteTypeOK
<1>7. \A x \in Slots : Good(stmt'[x]) => stmt'[x] = stmt[x] BY <1>1, <1>4
<1>8. StatementsBelong'
  <2>1. \A x \in Caches : stmt'[x].kind # "absent" => stmt'[x].conn = sqlite_
    BY <1>4 DEF SqliteInv, StatementsBelong, Absent, Slots
  <2> QED BY <1>0, <1>6, <1>7, <2>1 DEF SqliteInv, StatementsBelong, Good
<1>9. BindInv' BY <1>0, <1>7 DEF SqliteInv, BindInv, Good
<1>10. ExitInv'
  <2>1. stmt'["created"] = stmt["created"] BY <1>2, <1>4 DEF Slots
  <2>2. Of(stmt["created"], sqlite_) => sqlite_ \in kept' BY <1>0 DEF SqliteInv, ExitInv
  <2>3. stmt'["reader"] = Absent BY <1>4, <1>12 DEF SqliteInv, ExitInv, Slots, Caches
  <2>4. step' = 2 => stmt'["writer"] = Absent BY <1>0, <1>4, <1>12
  <2>5. kept \subseteq kept' /\ step' \in 1 .. 2 BY <1>0
  <2>6. ExitFreesTheFile' BY <1>0, <2>5 DEF SqliteInv, ExitInv, ExitFreesTheFile
  <2> QED BY <1>0, <2>1, <2>2, <2>3, <2>4, <2>5, <2>6 DEF ExitInv, Of, Good
<1>11. PromisesKept' /\ PendingInv' BY <1>0 DEF SqliteInv, PromisesKept, PendingInv
<1> QED BY <1>8, <1>9, <1>10, <1>11 DEF SqliteInv

(* sqlite3_close(), as the last call of exit().  The statements of the     *)
(* caches are gone by now, so that only one of the caller's can be in the  *)
(* way, and of that connection the ghost knows.                            *)
LEMMA CloseCloses ==
    ASSUME SqliteInv, NEW o \in BOOLEAN, DbExit(o), CloseDb, step = 2
    PROVE  SqliteInv'
<1> USE SqliteAssumption
<1>0. /\ SqliteTypeOK /\ sqlite_' = 0 /\ UNCHANGED <<stmt, kept, conns, content, wal, table, other>>
      /\ step' \in {0, 3} /\ opening' \in BOOLEAN
      /\ conn' = IF sqlite_ = 0 \/ \E s \in Slots : Of(stmt[s], sqlite_) THEN conn
                 ELSE [conn EXCEPT ![sqlite_] = NewConn]
      /\ ack' = [v \in Values |-> IF ack[v] = "pending" THEN "none" ELSE ack[v]]
  <2>1. /\ step' = (IF step = 2 /\ ~o THEN 0 ELSE step + 1)
        /\ opening' = (o /\ step < 2)
        /\ kept' = IF step = 0 /\ Of(stmt["created"], sqlite_) THEN kept \cup {sqlite_} ELSE kept
        /\ UNCHANGED <<conns, content, wal, table, other>>
    BY DEF DbExit
  <2>2. step' \in {0, 3} /\ UNCHANGED kept BY <2>1
  <2>3. opening' \in BOOLEAN BY ONLY <2>1
  <2> QED BY <2>1, <2>2, <2>3 DEF CloseDb, Tell, SqliteInv, StatementsBelong
<1>1. stmt["reader"] = Absent /\ stmt["writer"] = Absent BY DEF SqliteInv, ExitInv
<1>2. ~ Good(Absent) BY DEF Absent, Good, Caches
<1>3. \A s \in Slots : Good(stmt[s]) => s = "created" BY <1>1, <1>2 DEF Slots, Caches
<1>4. sqlite_ \in Conns \cup {0} BY <1>0 DEF SqliteTypeOK, Conns
<1>5. NewConn \in Connections BY DEF NewConn, Connections
<1>6. conn' \in [Conns -> Connections] BY <1>0, <1>5 DEF SqliteTypeOK
<1>7. ack' \in [Values -> {"none", "promised"}] BY <1>0 DEF SqliteTypeOK
<1>8. SqliteTypeOK' BY <1>0, <1>6, <1>7 DEF SqliteTypeOK
<1>9. \A s \in Slots : Good(stmt[s]) => conn'[stmt[s].conn] = conn[stmt[s].conn]
  <2> SUFFICES ASSUME NEW s \in Slots, Good(stmt[s])
               PROVE  conn'[stmt[s].conn] = conn[stmt[s].conn]
    OBVIOUS
  <2>1. stmt[s].conn \in Conns
    BY <1>0, StatementKinds DEF SqliteTypeOK, PreparedStatements
  <2>2. stmt[s].conn = sqlite_ => conn' = conn BY <1>0 DEF Of
  <2> QED BY <1>0, <1>4, <2>1, <2>2 DEF SqliteTypeOK
<1>10. StatementsBelong'
  <2>1. \A s \in Caches : stmt[s].kind = "absent" BY <1>1 DEF Absent, Caches
  <2> QED BY <1>0, <1>8, <1>9, <2>1 DEF SqliteInv, StatementsBelong, Good
<1>11. BindInv' BY <1>0 DEF SqliteInv, BindInv, Good
<1>12. ExitFreesTheFile'
  <2> SUFFICES ASSUME NEW c \in Conns, c \notin kept PROVE conn'[c] = NewConn
    BY <1>0 DEF ExitFreesTheFile
  <2>1. CASE c = sqlite_
    <3>1. ~ Of(stmt["created"], sqlite_) BY <2>1 DEF SqliteInv, ExitInv
    <3>2. \A s \in Slots : ~ Of(stmt[s], sqlite_) BY <1>3, <3>1 DEF Of
    <3>3. sqlite_ # 0 BY <2>1 DEF Conns
    <3> QED BY <1>0, <2>1, <3>2, <3>3 DEF SqliteTypeOK
  <2>2. CASE c # sqlite_
    <3>1. conn[c] = NewConn BY <2>2 DEF SqliteInv, ExitInv, ExitFreesTheFile
    <3> QED BY <1>0, <2>2, <3>1 DEF SqliteTypeOK
  <2> QED BY <2>1, <2>2
<1>13. ExitInv' BY <1>0, <1>1, <1>12 DEF ExitInv
<1>14. PromisesKept' /\ PendingInv'
  BY <1>0, <1>7 DEF SqliteInv, PromisesKept, PendingInv
<1> QED BY <1>10, <1>11, <1>13, <1>14 DEF SqliteInv

(* sqlite3_open(), which init() calls when exit() is over.                 *)
LEMMA OpenOpens ==
    ASSUME SqliteInv, NEW is \in {"open", "sick"}, NEW multi \in BOOLEAN, DbInit(is, multi)
    PROVE  SqliteInv'
<1> USE SqliteAssumption
<1>0. /\ SqliteTypeOK /\ conns < MaxConns /\ conns' = conns + 1 /\ sqlite_' = conns + 1
      /\ step = 3 /\ step' = 0
      /\ conn' = [conn EXCEPT ![conns + 1].is = is] /\ conns \in Nat
      /\ UNCHANGED <<stmt, content, table, other, ack, opening, kept>>
  BY DEF DbInit, Opened, SqliteInv, StatementsBelong, SqliteTypeOK
<1>1. conns + 1 \in Conns BY <1>0 DEF Conns
<1>2. sqlite_ = 0 /\ stmt["reader"] = Absent /\ stmt["writer"] = Absent
  BY <1>0 DEF SqliteInv, ExitInv
<1>3. conn' \in [Conns -> Connections]
  <2>1. [conn[conns + 1] EXCEPT !.is = is] \in Connections
    BY <1>0, <1>1 DEF SqliteTypeOK, Connections
  <2> QED BY <1>0, <1>1, <2>1 DEF SqliteTypeOK
<1>4. wal' \in BOOLEAN BY <1>0 DEF DbInit, Opened, SqliteTypeOK
<1>5. SqliteTypeOK' BY <1>0, <1>3, <1>4 DEF SqliteTypeOK
<1>6. \A c \in Conns : c # conns + 1 => conn'[c] = conn[c] BY <1>0 DEF SqliteTypeOK
<1>7. \A s \in Slots : Good(stmt[s]) => stmt[s].conn \in 1 .. conns /\ stmt[s].conn \in Conns
  BY <1>0, StatementKinds DEF SqliteInv, BindInv, SqliteTypeOK, PreparedStatements
<1>8. StatementsBelong'
  <2>1. \A s \in Caches : stmt[s].kind = "absent" BY <1>2 DEF Absent, Caches
  <2> QED BY <1>0, <1>5, <1>6, <1>7, <2>1 DEF SqliteInv, StatementsBelong, Good
<1>9. BindInv' BY <1>0, <1>7 DEF SqliteInv, BindInv, Good
<1>10. ExitInv'
  <2> SUFFICES ASSUME NEW c \in Conns \ kept, c # conns + 1 PROVE conn'[c] = NewConn
    BY <1>0 DEF ExitInv, ExitFreesTheFile
  <2>1. c # 0 BY DEF Conns
  <2> QED BY <1>2, <1>6, <2>1 DEF SqliteInv, ExitInv, ExitFreesTheFile
<1>11. PromisesKept' /\ PendingInv' BY <1>0, <1>2 DEF SqliteInv, PromisesKept, PendingInv
<1> QED BY <1>8, <1>9, <1>10, <1>11 DEF SqliteInv

(* Every call but init() and exit() keeps the invariant.                   *)
LEMMA CallKeeps ==
    ASSUME SqliteInv, step = 0, Call, UNCHANGED exitVars
    PROVE  SqliteInv'
<1> USE SqliteAssumption
<1>0. /\ SqliteTypeOK /\ sqlite_ \in 0 .. MaxConns /\ conns \in Nat
      /\ UNCHANGED <<step, opening, kept>>
  BY DEF SqliteInv, StatementsBelong, SqliteTypeOK, exitVars
<1>1. UNCHANGED exitVars OBVIOUS
<1>5. ASSUME NEW tx \in {"deferred", "write", "exclusive"}, TransactionBegin(tx)
      PROVE  SqliteInv'
  <2>1. /\ IsOpen /\ conn' = [conn EXCEPT ![sqlite_].tx = tx]
        /\ UNCHANGED <<sqlite_, conns, stmt, content, wal, table, other, ack>>
    BY <1>5 DEF TransactionBegin
  <2>2. sqlite_ \in Conns BY <1>0, <2>1 DEF IsOpen, Conns
  <2>3. conn' \in [Conns -> Connections]
    <3>1. conn[sqlite_] \in Connections BY <1>0, <2>2 DEF SqliteTypeOK
    <3>2. [conn[sqlite_] EXCEPT !.tx = tx] \in Connections BY <3>1 DEF Connections
    <3> QED BY <1>0, <2>1, <2>2, <3>2 DEF SqliteTypeOK
  <2>4. \A c \in Conns : conn'[c].is = conn[c].is /\ conn'[c].dirty = conn[c].dirty
    BY <1>0, <2>1, <2>2 DEF SqliteTypeOK, Connections
  <2>5. SqliteTypeOK' BY <1>0, <2>1, <2>3 DEF SqliteTypeOK
  <2>8. \A c \in Conns : conn'[c] = conn[c] \/ conn[c].is = "open"
    BY <1>0, <2>1, <2>2 DEF SqliteTypeOK, IsOpen
  <2>9. SameConns BY <2>4, <2>8 DEF SameConns
  <2>6. StatementsBelong' /\ BindInv' /\ ExitInv'
    BY <1>0, <1>1, <2>1, <2>5, <2>9, ConnectionStepKeeps
  <2>7. PromisesKept' /\ PendingInv' BY <2>1, <2>2, <2>4 DEF SqliteInv, PromisesKept, PendingInv
  <2> QED BY <2>6, <2>7 DEF SqliteInv
<1>6. ASSUME InTransaction, Ends PROVE
        /\ sqlite_ \in Conns /\ conn' \in [Conns -> Connections]
        /\ SameConns
  <2>1. sqlite_ \in Conns BY <1>0, <1>6 DEF InTransaction, IsOpen, Conns
  <2>2. conn[sqlite_] \in Connections BY <1>0, <2>1 DEF SqliteTypeOK
  <2>3. [conn[sqlite_] EXCEPT !.tx = "none", !.dirty = {}] \in Connections
    BY <2>2 DEF Connections
  <2>4. conn' = [conn EXCEPT ![sqlite_] = [conn[sqlite_] EXCEPT !.tx = "none", !.dirty = {}]]
    BY <1>0, <1>6, <2>1, <2>2 DEF Ends, SqliteTypeOK, Connections
  <2>5. conn' \in [Conns -> Connections] BY <1>0, <2>1, <2>3, <2>4 DEF SqliteTypeOK
  <2>6. \A c \in Conns : conn'[c].is = conn[c].is
    BY <1>0, <2>1, <2>2, <2>4 DEF SqliteTypeOK, Connections
  <2>7. \A c \in Conns : conn'[c] = conn[c] \/ conn[c].is = "open"
    BY <1>0, <1>6, <2>1, <2>4 DEF SqliteTypeOK, InTransaction, IsOpen
  <2> QED BY <2>1, <2>5, <2>6, <2>7 DEF SameConns
<1>7. CASE TransactionCommit
  <2>1. /\ InTransaction /\ Ends /\ Tell("promised")
        /\ content' = content \cup conn[sqlite_].dirty
        /\ UNCHANGED <<sqlite_, conns, stmt, wal, table, other>>
    BY <1>7 DEF TransactionCommit
  <2>2. conn[sqlite_].dirty \subseteq Values
    BY <1>0, <1>6, <2>1 DEF SqliteTypeOK, Connections
  <2>3. ack' \in [Values -> {"none", "pending", "promised"}] BY <1>0, <2>1 DEF Tell, SqliteTypeOK
  <2>4. SqliteTypeOK' BY <1>0, <1>6, <2>1, <2>2, <2>3 DEF SqliteTypeOK
  <2>5. StatementsBelong' /\ BindInv' /\ ExitInv' BY <1>0, <1>1, <1>6, <2>1, <2>4, ConnectionStepKeeps
  <2>6. PromisesKept' /\ PendingInv'
    BY <2>1 DEF Tell, SqliteInv, PromisesKept, PendingInv
  <2> QED BY <2>5, <2>6 DEF SqliteInv
<1>8. CASE TransactionRollback
  <2>1. /\ InTransaction /\ Ends /\ Tell("none")
        /\ UNCHANGED <<sqlite_, conns, stmt, content, wal, table, other>>
    BY <1>8 DEF TransactionRollback
  <2>2. ack' \in [Values -> {"none", "pending", "promised"}] BY <1>0, <2>1 DEF Tell, SqliteTypeOK
  <2>3. SqliteTypeOK' BY <1>0, <1>6, <2>1, <2>2 DEF SqliteTypeOK
  <2>4. StatementsBelong' /\ BindInv' /\ ExitInv' BY <1>0, <1>1, <1>6, <2>1, <2>3, ConnectionStepKeeps
  <2>5. PromisesKept' /\ PendingInv'
    BY <2>1 DEF Tell, SqliteInv, PromisesKept, PendingInv
  <2> QED BY <2>4, <2>5 DEF SqliteInv
<1>9. CASE CreateTable
  <2>1. table' = TRUE /\ UNCHANGED <<sqlite_, conns, conn, stmt, content, wal, other, ack>>
    BY <1>9 DEF CreateTable
  <2>2. SqliteTypeOK' BY <1>0, <2>1 DEF SqliteTypeOK
  <2>5. SameConns BY <2>1 DEF SameConns
  <2>3. StatementsBelong' /\ BindInv' /\ ExitInv' BY <1>0, <1>1, <2>1, <2>2, <2>5, ConnectionStepKeeps
  <2>4. PromisesKept' /\ PendingInv' BY <2>1 DEF SqliteInv, PromisesKept, PendingInv
  <2> QED BY <2>3, <2>4 DEF SqliteInv
<1>10. ASSUME NEW kind \in Caches
       PROVE  \A s \in Slots : Prepare(kind) \in Statements /\ StatementFits(s, Prepare(kind))
  <2>1. IsOpen => sqlite_ \in 1 .. conns /\ conn[sqlite_].is = "open"
    BY <1>0 DEF IsOpen, SqliteTypeOK
  <2> QED BY <2>1, NewStatements DEF StatementFits
<1>11. ASSUME NEW kind \in Caches, Create(kind) PROVE SqliteInv'
  BY <1>10, <1>11, StatementStepKeeps DEF Create, Slots
<1>12. \A s \in Slots : stmt[s] \in Statements BY <1>0 DEF SqliteTypeOK
<1>13. \A s \in Slots : AfterReset(stmt[s]) \in Statements /\ StatementFits(s, AfterReset(stmt[s]))
  <2> SUFFICES ASSUME NEW s \in Slots
               PROVE  AfterReset(stmt[s]) \in Statements /\ StatementFits(s, AfterReset(stmt[s]))
    OBVIOUS
  <2>1. StatementFits(s, stmt[s]) BY StatementsFit
  <2> QED BY <1>12, <2>1, ResetStatement DEF StatementFits, Good
<1>14. ASSUME NEW kind \in Caches, GetStatement(kind) PROVE SqliteInv'
  <2>1. CASE stmt[kind].kind = "absent"
    <3>1. StatementStep(kind, Prepare(kind)) BY <1>14, <2>1 DEF GetStatement
    <3> QED BY <3>1, <1>10, StatementStepKeeps DEF Slots
  <2>2. CASE stmt[kind].kind # "absent"
    <3>1. StatementStep(kind, AfterReset(stmt[kind])) BY <1>14, <2>2 DEF GetStatement
    <3> QED BY <3>1, <1>13, StatementStepKeeps DEF Slots
  <2> QED BY <2>1, <2>2
<1>15. ASSUME NEW s \in Slots, Reset(s) PROVE SqliteInv'
  BY <1>13, <1>15, StatementStepKeeps DEF Reset
<1>16. ASSUME NEW s \in Slots, Clear(s) PROVE SqliteInv'
  <2>1. Good(stmt[s]) /\ stmt[s] \in PreparedStatements
    BY <1>12, <1>16, StatementKinds DEF Clear
  <2>2. stmt[s].conn \in 0 .. MaxConns BY <2>1 DEF PreparedStatements, Conns
  <2>3. CASE s \in Caches
    <3>1. StatementStep(s, Bad(stmt[s].conn)) BY <1>16, <2>3 DEF Clear
    <3>2. Bad(stmt[s].conn) \in Statements /\ ~ Good(Bad(stmt[s].conn))
      BY <2>2 DEF Statements, Good, Bad, Caches
    <3>3. stmt[s].conn = sqlite_
      BY <2>1, <2>3 DEF SqliteInv, StatementsBelong, Good, Caches
    <3>4. StatementFits(s, Bad(stmt[s].conn)) BY <3>2, <3>3 DEF StatementFits, Bad
    <3> QED BY <3>1, <3>2, <3>4, StatementStepKeeps
  <2>4. CASE s \notin Caches
    <3>1. StatementStep(s, Absent) BY <1>16, <2>4 DEF Clear
    <3>2. Absent \in Statements /\ ~ Good(Absent) BY DEF Statements, Good, Absent, Caches
    <3> QED BY <2>4, <3>1, <3>2, StatementStepKeeps DEF StatementFits
  <2> QED BY <2>3, <2>4
<1>17. ASSUME NEW s \in Slots, NEW v \in Values, Set(s, v) PROVE SqliteInv'
  <2> DEFINE st == stmt[s]
             ready == st.kind = "writer" /\ st.state = "ready"
             bound == IF ready /\ st.setIndex = 0 THEN v ELSE st.bound
             given == IF ready /\ st.given = NoValue THEN v ELSE st.given
             new == [st EXCEPT !.setIndex = 1, !.bound = bound, !.given = given]
  <2>1. Good(st) /\ st \in PreparedStatements BY <1>12, <1>17, StatementKinds DEF Set
  <2>2. StatementStep(s, new) BY <1>17, <2>1 DEF Set, PreparedStatements
  <2>3. /\ new \in PreparedStatements
        /\ new.kind = st.kind /\ new.conn = st.conn /\ new.state = st.state
        /\ new.setIndex = 1 /\ new.bound = bound /\ new.given = given
    <3>1. bound \in Values \cup {NoValue} /\ given \in Values \cup {NoValue}
          /\ st.state \in {"ready", "row", "busy", "done"}
      BY <2>1 DEF PreparedStatements
    <3> DEFINE once == [st EXCEPT !.setIndex = 1]
               twice == [once EXCEPT !.bound = bound]
    <3>2. new = [twice EXCEPT !.given = given] OBVIOUS
    <3> HIDE DEF st, bound, given, new
    <3>3. once \in PreparedStatements BY <2>1 DEF PreparedStatements
    <3>4. twice \in PreparedStatements BY <3>1, <3>3 DEF PreparedStatements
    <3>5. new \in PreparedStatements BY <3>1, <3>2, <3>4 DEF PreparedStatements
    <3> QED BY <2>1, <3>2, <3>5 DEF PreparedStatements
  <2>4. StatementFits(s, st) BY StatementsFit
  <2>5. st.setIndex \in 0 .. 1 BY <2>1 DEF PreparedStatements
  <2>6. StatementFits(s, new)
    <3>1. given # NoValue => bound = given BY <2>1, <2>4, <2>5 DEF StatementFits
    <3>2. ready => given # NoValue BY SqliteAssumption
    <3> HIDE DEF bound, given, new
    <3> QED BY <2>1, <2>3, <2>4, <3>1, <3>2 DEF StatementFits, Good
  <2>7. new \in Statements BY <2>3, PreparedIs
  <2> HIDE DEF new
  <2> QED BY <2>2, <2>6, <2>7, StatementStepKeeps
<1>18. ASSUME NEW s \in Slots, WriteRefused(s) PROVE SqliteInv'
  <2> DEFINE st == stmt[s]
             new == [st EXCEPT !.state = "busy"]
  <2>1. Good(st) BY <1>18 DEF WriteRefused, Good, Caches
  <2>2. st \in PreparedStatements BY <1>12, <2>1, StatementKinds
  <2>3. StatementStep(s, new) BY <1>18 DEF WriteRefused
  <2>4. new \in Statements /\ Good(new) BY <2>2, PreparedIs DEF PreparedStatements
  <2>5. StatementFits(s, st) BY StatementsFit
  <2>6. StatementFits(s, new) BY <2>1, <2>2, <2>5 DEF StatementFits, PreparedStatements
  <2> HIDE DEF new
  <2> QED BY <2>3, <2>4, <2>6, StatementStepKeeps
<1>19. ASSUME NEW s \in Slots, WriteDone(s) PROVE SqliteInv'
  <2> DEFINE st == stmt[s]
             c == st.conn
             tx == conn[c].tx
             new == [st EXCEPT !.state = "done", !.given = NoValue]
  <2>1. /\ st.kind = "writer" /\ st.bound # NoValue
        /\ Put(s, new)
        /\ UNCHANGED <<sqlite_, conns, wal, table, other>>
    BY <1>19 DEF WriteDone
  <2>2. Good(st) /\ st \in PreparedStatements
    BY <1>12, <2>1, StatementKinds DEF Good, Caches
  <2>3. c \in Conns /\ st.bound \in Values BY <2>1, <2>2 DEF PreparedStatements
  <2>4. conn[c] \in Connections BY <1>0, <2>3 DEF SqliteTypeOK
  <2>5. new \in Statements /\ new.conn = c /\ new.kind = "writer"
        /\ new.given = NoValue /\ new.state = "done"
    <3>1. new = Stepped(st) BY DEF Stepped
    <3> HIDE DEF new, st
    <3> QED BY <2>1, <2>2, <3>1, StepStatement, PreparedIs
  <2>6. StatementFits(s, st) BY StatementsFit
  <2>7. StatementFits(s, new) BY <2>1, <2>2, <2>5, <2>6 DEF StatementFits
  <2>8. /\ conn' \in [Conns -> Connections] /\ content' \subseteq Values
        /\ \A d \in Conns : conn'[d].is = conn[d].is
        /\ \A d \in Conns : d # c => conn'[d] = conn[d]
        /\ \A d \in Conns : conn[d].dirty \subseteq conn'[d].dirty
        /\ content \subseteq content'
        /\ tx = "none" => st.bound \in content'
        /\ tx # "none" => st.bound \in content \cup conn'[c].dirty /\ content' = content
    <3>1. CASE tx = "none"
      <4>1. content' = content \cup {st.bound} /\ conn' = conn BY <1>19, <3>1 DEF WriteDone
      <4> QED BY <1>0, <2>3, <3>1, <4>1 DEF SqliteTypeOK
    <3>2. CASE tx # "none"
      <4> DEFINE other_ == [conn[c] EXCEPT !.tx = IF @ = "exclusive" THEN @ ELSE "write",
                                           !.dirty = @ \cup ({st.bound} \ content)]
      <4>1. content' = content
            /\ conn' = [conn EXCEPT ![c].tx = IF @ = "exclusive" THEN @ ELSE "write",
                                    ![c].dirty = @ \cup ({st.bound} \ content)]
        BY <1>19, <3>2 DEF WriteDone
      <4>2. conn' = [conn EXCEPT ![c] = other_]
        BY <1>0, <2>3, <2>4, <4>1 DEF SqliteTypeOK, Connections
      <4>3. other_ \in Connections /\ other_.is = conn[c].is
            /\ other_.dirty = conn[c].dirty \cup ({st.bound} \ content)
        BY <2>3, <2>4 DEF Connections
      <4> HIDE DEF other_
      <4>4. conn'[c] = other_ /\ \A d \in Conns : d # c => conn'[d] = conn[d]
        BY <1>0, <2>3, <4>2 DEF SqliteTypeOK
      <4>5. conn' \in [Conns -> Connections] BY <1>0, <4>2, <4>3 DEF SqliteTypeOK
      <4> QED BY <1>0, <3>2, <4>1, <4>3, <4>4, <4>5 DEF SqliteTypeOK
    <3> QED BY <3>1, <3>2
  <2>9. /\ ack' \in [Values -> {"none", "pending", "promised"}]
        /\ \A v \in Values : v # st.bound => ack'[v] = ack[v]
        /\ ack'[st.bound] = IF tx = "none" \/ st.bound \in content THEN "promised"
                            ELSE IF c = sqlite_ THEN "pending" ELSE ack[st.bound]
    BY <1>0, <1>19, <2>3 DEF WriteDone, SqliteTypeOK
  <2>10. SqliteTypeOK'
    <3>1. stmt' \in [Slots -> Statements] BY <1>0, <2>1, <2>5 DEF Put, SqliteTypeOK
    <3> QED BY <1>0, <2>1, <2>8, <2>9, <3>1 DEF SqliteTypeOK
  <2> HIDE DEF new
  <2>14. conn[c].is = "open" BY <2>2 DEF SqliteInv, StatementsBelong
  <2>15. SameConns BY <2>8, <2>14 DEF SameConns
  <2>11. StatementsBelong' /\ BindInv' /\ ExitInv'
    BY <1>0, <1>1, <2>1, <2>5, <2>7, <2>10, <2>15, StatementReplaced
  <2>12. PromisesKept' BY <2>8, <2>9 DEF SqliteInv, PromisesKept
  <2>13. PendingInv'
    <3>1. ASSUME NEW v \in Values, ack'[v] = "pending"
          PROVE  sqlite_' # 0 /\ v \in content' \cup conn'[sqlite_'].dirty
      <4>1. sqlite_' = sqlite_ BY <2>1
      <4>2. CASE ack[v] = "pending"
        <5>1. sqlite_ # 0 /\ v \in content \cup conn[sqlite_].dirty
          BY <4>2 DEF SqliteInv, PendingInv
        <5>2. sqlite_ \in Conns BY <1>0, <5>1 DEF Conns
        <5> QED BY <2>8, <4>1, <5>1, <5>2
      <4>3. CASE ack[v] # "pending"
        <5>1. v = st.bound /\ c = sqlite_ /\ tx # "none" BY <2>9, <3>1, <4>3
        <5> QED BY <2>3, <2>8, <4>1, <5>1 DEF Conns
      <4> QED BY <4>2, <4>3
    <3> QED BY <3>1 DEF PendingInv
  <2> QED BY <2>11, <2>12, <2>13 DEF SqliteInv
<1>20. ASSUME NEW s \in Slots, Read(s) PROVE SqliteInv'
  <2> DEFINE st == stmt[s]
             c == st.conn
  <2>1. PICK result \in {"ready", "row"} : Put(s, [st EXCEPT !.state = result])
    BY <1>20 DEF Read
  <2> DEFINE new == [st EXCEPT !.state = result]
             tx == IF conn[c].tx = "deferred" /\ MayRead(c) THEN "read" ELSE conn[c].tx
  <2>2. /\ st.kind = "reader" /\ conn' = [conn EXCEPT ![c].tx = tx]
        /\ UNCHANGED <<sqlite_, conns, content, wal, table, other, ack>>
    BY <1>20 DEF Read
  <2>3. Good(st) /\ st \in PreparedStatements
    BY <1>12, <2>2, StatementKinds DEF Good, Caches
  <2>4. c \in Conns BY <2>3 DEF PreparedStatements
  <2>5. conn[c] \in Connections BY <1>0, <2>4 DEF SqliteTypeOK
  <2>6. new \in Statements /\ new.conn = c /\ new.kind = "reader" /\ new.given = st.given
        /\ new.bound = st.bound /\ new.setIndex = st.setIndex
    BY <2>2, <2>3, PreparedIs DEF PreparedStatements
  <2>7. StatementFits(s, st) BY StatementsFit
  <2>8. StatementFits(s, new) BY <2>2, <2>3, <2>6, <2>7 DEF StatementFits
  <2>9. /\ conn' \in [Conns -> Connections]
        /\ \A d \in Conns : conn'[d].is = conn[d].is /\ conn'[d].dirty = conn[d].dirty
        /\ \A d \in Conns : d # c => conn'[d] = conn[d]
    <3>1. [conn[c] EXCEPT !.tx = tx] \in Connections /\ tx \in {"none", "deferred", "read", "write", "exclusive"}
      BY <2>5 DEF Connections
    <3> HIDE DEF tx
    <3>2. conn' = [conn EXCEPT ![c] = [conn[c] EXCEPT !.tx = tx]] BY <2>2
    <3>3. conn' \in [Conns -> Connections] BY <1>0, <2>4, <3>1, <3>2 DEF SqliteTypeOK
    <3> QED BY <1>0, <2>4, <2>5, <3>2, <3>3 DEF SqliteTypeOK, Connections
  <2> HIDE DEF new
  <2>10. SqliteTypeOK' BY <1>0, <2>1, <2>2, <2>6, <2>9 DEF Put, SqliteTypeOK, new
  <2>14. conn[c].is = "open" BY <2>3 DEF SqliteInv, StatementsBelong
  <2>15. SameConns BY <2>9, <2>14 DEF SameConns
  <2>16. Put(s, new) BY <2>1 DEF new
  <2>11. StatementsBelong' /\ BindInv' /\ ExitInv'
    BY <1>0, <1>1, <2>2, <2>6, <2>8, <2>10, <2>15, <2>16, StatementReplaced
  <2>12. PromisesKept' BY <2>2 DEF SqliteInv, PromisesKept
  <2>13. PendingInv'
    <3>1. sqlite_ # 0 => conn'[sqlite_].dirty = conn[sqlite_].dirty BY <1>0, <2>9 DEF Conns
    <3> QED BY <2>2, <3>1 DEF SqliteInv, PendingInv
  <2> QED BY <2>11, <2>12, <2>13 DEF SqliteInv
<1> QED
  BY <1>5, <1>7, <1>8, <1>9, <1>11, <1>14, <1>15, <1>16, <1>17, <1>18, <1>19, <1>20
  DEF Call, TransactionEnd

(* Every call of the wrapper, and every step of the other process, keeps   *)
(* the invariant.                                                          *)
LEMMA SqliteStep == SqliteInv /\ [DbNext]_dbVars => SqliteInv'
<1> SUFFICES ASSUME SqliteInv, [DbNext]_dbVars PROVE SqliteInv'
  OBVIOUS
<1> USE SqliteAssumption
<1>0. SqliteTypeOK /\ sqlite_ \in 0 .. MaxConns /\ conns \in Nat
  BY DEF SqliteInv, StatementsBelong, SqliteTypeOK
<1>1. CASE Other
  <2> USE <1>1 DEF Other, SqliteInv, exitVars
  <2>1. StatementsBelong'
    <3>1. SqliteTypeOK' BY <1>0 DEF SqliteTypeOK
    <3> QED BY <3>1 DEF StatementsBelong, Good
  <2>2. ExitInv' BY DEF ExitInv, ExitFreesTheFile, Good, Of
  <2> QED BY <2>1, <2>2 DEF PromisesKept, BindInv, PendingInv, Good
<1>2. ASSUME NEW o \in BOOLEAN, DbExit(o) PROVE SqliteInv'
  <2>1. step \in 0 .. 2 BY <1>0, <1>2 DEF DbExit, SqliteTypeOK
  <2>2. ExitOrder[1] = "readers" /\ ExitOrder[2] = "writers" /\ ExitOrder[3] = "close"
    BY DEF ExitOrder
  <2>3. \/ step < 1 /\ ClearCache("reader")
        \/ step = 1 /\ ClearCache("writer")
        \/ step = 2 /\ CloseDb
    BY <1>2, <2>1, <2>2 DEF DbExit
  <2>4. CASE step < 1 /\ ClearCache("reader")
    <3>1. step < 2 BY <2>1, <2>4
    <3> QED BY <1>2, <2>4, <3>1, CacheClears DEF Caches
  <2>5. CASE step = 1 /\ ClearCache("writer") BY <1>2, <2>5, CacheClears DEF Caches
  <2>6. CASE step = 2 /\ CloseDb BY <1>2, <2>6, CloseCloses
  <2> QED BY <2>3, <2>4, <2>5, <2>6
<1>3. CASE DbInitInvalid
  <2>1. /\ step = 3 /\ step' = 0
        /\ UNCHANGED <<sqlite_, conns, conn, stmt, content, wal, table, other, ack, opening, kept>>
    BY <1>3 DEF DbInitInvalid
  <2>2. SqliteTypeOK' BY <1>0, <2>1 DEF SqliteTypeOK
  <2>3. StatementsBelong' BY <2>1, <2>2 DEF SqliteInv, StatementsBelong, Good
  <2>4. BindInv' /\ ExitInv'
    BY <2>1 DEF SqliteInv, BindInv, ExitInv, ExitFreesTheFile, Good, Of
  <2>5. PromisesKept' /\ PendingInv' BY <2>1 DEF SqliteInv, PromisesKept, PendingInv
  <2> QED BY <2>3, <2>4, <2>5 DEF SqliteInv
<1>4. ASSUME NEW is \in {"open", "sick"}, NEW multi \in BOOLEAN, DbInit(is, multi)
      PROVE  SqliteInv'
  BY <1>4, OpenOpens
<1>5. CASE step = 0 /\ Call /\ UNCHANGED exitVars BY <1>5, CallKeeps
<1>6. CASE UNCHANGED dbVars
  <2>1. UNCHANGED <<sqlite_, conns, conn, stmt, content, wal, table, other, ack, step, opening, kept>>
    BY <1>6 DEF dbVars, exitVars
  <2>2. SqliteTypeOK' BY <1>0, <2>1 DEF SqliteTypeOK
  <2>3. StatementsBelong' BY <2>1, <2>2 DEF SqliteInv, StatementsBelong, Good
  <2>4. BindInv' /\ ExitInv'
    BY <2>1 DEF SqliteInv, BindInv, ExitInv, ExitFreesTheFile, Good, Of
  <2>5. PromisesKept' /\ PendingInv' BY <2>1 DEF SqliteInv, PromisesKept, PendingInv
  <2> QED BY <2>3, <2>4, <2>5 DEF SqliteInv
<1> QED BY <1>1, <1>2, <1>3, <1>4, <1>5, <1>6 DEF DbNext

(* Nothing is open and nothing prepared to begin with.                     *)
LEMMA SqliteStart == SqliteInit => SqliteInv
<1> SUFFICES ASSUME SqliteInit PROVE SqliteInv
  OBVIOUS
<1>1. Absent \in Statements /\ ~ Good(Absent) /\ NewConn \in Connections
  BY DEF Statements, Absent, Good, Caches, NewConn, Connections
<1>2. SqliteTypeOK
  <2>1. conn \in [Conns -> Connections] /\ stmt \in [Slots -> Statements]
    BY <1>1 DEF SqliteInit
  <2>2. 0 \in 0 .. MaxConns /\ sqlite_ \in 0 .. conns BY SqliteAssumption DEF SqliteInit
  <2>3. ack \in [Values -> {"none", "pending", "promised"}] BY DEF SqliteInit
  <2>4. 0 \in 0 .. 3 /\ {} \subseteq Conns OBVIOUS
  <2> QED BY <2>1, <2>2, <2>3, <2>4 DEF SqliteInit, SqliteTypeOK
<1> QED BY <1>1, <1>2
    DEF SqliteInit, SqliteInv, StatementsBelong, PromisesKept, BindInv, PendingInv, ExitInv,
        ExitFreesTheFile, Absent, Slots

(* The invariant holds in every reachable state.                           *)
LEMMA SqliteInvHolds == SqliteSpec => []SqliteInv
BY SqliteStart, SqliteStep, PTL DEF SqliteSpec

(* A cached statement was made for the connection that is open, no         *)
(* statement outlives its connection, and what a row was given since the   *)
(* reset is what is bound, in whatever order init(), exit(), get and set   *)
(* are called.                                                             *)
THEOREM StatementsBelongHolds == SqliteSpec => []StatementsBelong
<1>1. SqliteInv => StatementsBelong BY DEF SqliteInv
<1> QED BY <1>1, SqliteInvHolds, PTL

(* A row that write() has reported as written is in the file once the end  *)
(* of its transaction was reported too, whichever locks another process    *)
(* takes; the exception is a write() that a lock refused, which is         *)
(* reported as well.                                                       *)
THEOREM PromisesKeptHolds == SqliteSpec => []PromisesKept
<1>1. SqliteInv => PromisesKept BY DEF SqliteInv
<1> QED BY <1>1, SqliteInvHolds, PTL

(* A connection that is not in use any more holds no lock and no           *)
(* transaction, for the caches are cleared before sqlite3_close() is       *)
(* called; the exception are those of which the caller had a statement of  *)
(* its own then, which sqlite3_close() refuses to close.                   *)
THEOREM ExitFreesTheFileHolds == SqliteSpec => []ExitFreesTheFile
<1>1. SqliteInv => ExitFreesTheFile BY DEF SqliteInv, ExitInv
<1> QED BY <1>1, SqliteInvHolds, PTL

-----------------------------------------------------------------------------
(* DirectoryWatcher: the inductive invariant.  The maps lag behind the     *)
(* tree by the events that wait, so it says of every watch that is not     *)
(* what it should be, and of every directory that is not watched, which of *)
(* the events will mend it.                                                *)

(* The name under which the thread knows a descriptor.                     *)
Name(wd) == m_description_directory_map[wd]

(* The events that the code asks for, with what is set in every event of   *)
(* theirs.                                                                 *)
Masks == {"create", "delete_self", "moved_from", "moved_to", "move_self", "file"}
Events == [wd : Nat, mask : Masks, name : Names \cup {Gone}, dir : Dirs \cup {Top},
           names : SUBSET Seq(Names), known : BOOLEAN]

(* What the thread will come to, in this order.                            *)
Waiting == batch \o queue

(* No two directories have a path, and what is above one exists.           *)
TreeInv ==
    /\ path \in [Dirs -> Paths \cup {Gone}]
    /\ \A d, e \in Existing : path[d] = path[e] => d = e
    /\ \A d \in Existing : \A n \in 1 .. Len(path[d]) : \E e \in Dirs : path[e] = SubSeq(path[d], 1, n)

(* A directory is watched once; what is watched is known.                  *)
KernelInv ==
    /\ self_isdir \in BOOLEAN /\ last_wd \in Nat
    /\ watches \in [DOMAIN watches -> Existing \cup {Top}]
    /\ m_description_directory_map \in [DOMAIN m_description_directory_map -> Seq(Names)]
    /\ m_directory_description_map \in
           [DOMAIN m_directory_description_map -> DOMAIN m_description_directory_map]
    /\ DOMAIN watches \subseteq DOMAIN m_description_directory_map
    /\ DOMAIN m_description_directory_map \subseteq 1 .. last_wd
    /\ \A v, w \in DOMAIN watches : watches[v] = watches[w] => v = w

(* Where init() and the thread are; events are of descriptors given so far. *)
ProgressInv ==
    /\ pc \in {"idle", "scan", "run", "ended"}
    /\ dir_list \in Seq(Seq(Names)) /\ dir_name \in Seq(Names) \cup {Gone}
    /\ pc # "scan" => dir_list = <<>> /\ dir_name = Gone
    /\ pc # "run" => batch = <<>>
    /\ pc = "idle" => queue = <<>> /\ last_wd = 0

EventsInv ==
    /\ queue \in Seq(Events) /\ batch \in Seq(Events)
    /\ \A i \in 1 .. Len(Waiting) :
          /\ Waiting[i].wd \in 1 .. last_wd
          /\ Waiting[i].mask \in {"moved_from", "moved_to", "create"} => Waiting[i].name \in Names

(* The maps agree; a watch is found by its name; a name to be given up is  *)
(* nobody's, and leads to the watch it is given up for.                    *)
NamesInv ==
    /\ \A p \in DOMAIN m_directory_description_map : Name(m_directory_description_map[p]) = p
    /\ \A wd \in DOMAIN watches :
          /\ Name(wd) \in DOMAIN m_directory_description_map
          /\ m_directory_description_map[Name(wd)] = wd
    /\ \A i \in 1 .. Len(Waiting) :
          /\ \A d \in Existing \cup {Top} : ~ GivesUp(Waiting[i], PathOf(d))
          /\ /\ self_isdir /\ Known(Waiting[i].wd)
             /\ Waiting[i].mask \in {"delete_self", "move_self"}
             => /\ Name(Waiting[i].wd) \in DOMAIN m_directory_description_map
                /\ m_directory_description_map[Name(Waiting[i].wd)] = Waiting[i].wd

\* No event before the n-th makes the thread give up the name of the descriptor.
Undisturbed(wd, n) == \A j \in 1 .. n - 1 : ~ GivesUp(Waiting[j], Name(wd))

\* One of the first n events says that the directory has left.
Leaves(wd, n) ==
    \E i \in 1 .. n : /\ Waiting[i].mask = "moved_from" /\ GivesUp(Waiting[i], Name(wd))
                      /\ Undisturbed(Waiting[i].wd, i)

(* A name is its directory's, or will be given up.                         *)
PlacesInv == \A wd \in DOMAIN watches : Name(wd) = PathOf(watches[wd]) \/ Leaves(wd, Len(Waiting))

\* An event says that the directory has come to where it is.
EnteredBy(d, i) ==
    /\ Waiting[i].mask \in {"create", "moved_to"} /\ Known(Waiting[i].wd)
    /\ Append(Name(Waiting[i].wd), Waiting[i].name) = path[d]
    /\ Undisturbed(Waiting[i].wd, i)
Enters(d) == \E i \in 1 .. Len(Waiting) : EnteredBy(d, i)

\* The scan will come to the directory.
Coming(d) == dir_name = path[d] \/ \E k \in 1 .. Len(dir_list) : IsPrefix(dir_list[k], path[d])

(* What was seen is watched, or will be.                                   *)
SeenInv == seen \subseteq Existing /\ \A d \in seen : Watched(d) \/ Enters(d) \/ Coming(d)

(* The name under which a change of a file will be reported.               *)
ReportInv(i) ==
    LET wd == Waiting[i].wd IN
    /\ Known(wd) =>
          \/ Name(wd) \in Waiting[i].names
          \/ /\ Leaves(wd, i - 1)
             /\ Name(wd) \in DOMAIN m_directory_description_map
             /\ m_directory_description_map[Name(wd)] = wd
    /\ Waiting[i].known => Known(wd) /\ Undisturbed(wd, i)
FilesInv == \A i \in 1 .. Len(Waiting) : Waiting[i].mask = "file" => ReportInv(i)

Follows ==
    TreeInv /\ KernelInv /\ ProgressInv /\ EventsInv /\ NamesInv /\ PlacesInv /\ SeenInv /\ FilesInv
WatcherInv == outrun \in BOOLEAN /\ (~ outrun => Follows)

-----------------------------------------------------------------------------
(* What waits: the events in the batch and then those in the queue.        *)
LEMMA WaitingIs ==
    ASSUME EventsInv
    PROVE  /\ Waiting \in Seq(Events) /\ Len(Waiting) = Len(batch) + Len(queue)
           /\ Len(batch) \in Nat /\ Len(queue) \in Nat /\ Len(Waiting) \in Nat
           /\ \A i \in 1 .. Len(batch) : Waiting[i] = batch[i]
           /\ \A i \in 1 .. Len(queue) : Waiting[Len(batch) + i] = queue[i]
           /\ Outstanding = {Waiting[i] : i \in 1 .. Len(Waiting)}
           /\ \A i \in 1 .. Len(Waiting) : Waiting[i] \in Events
<1>0. queue \in Seq(Events) /\ batch \in Seq(Events) BY DEF EventsInv
<1>1. /\ Waiting \in Seq(Events) /\ Len(Waiting) = Len(batch) + Len(queue)
      /\ \A i \in 1 .. Len(batch) + Len(queue) :
            Waiting[i] = IF i <= Len(batch) THEN batch[i] ELSE queue[i - Len(batch)]
  BY <1>0, ConcatProperties DEF Waiting
<1>2. Len(batch) \in Nat /\ Len(queue) \in Nat BY <1>0
<1>3. \A i \in 1 .. Len(batch) : Waiting[i] = batch[i] BY <1>1, <1>2
<1>4. \A i \in 1 .. Len(queue) : Waiting[Len(batch) + i] = queue[i] BY <1>1, <1>2
<1>5. Outstanding = {Waiting[i] : i \in 1 .. Len(Waiting)}
  <2>1. DOMAIN batch = 1 .. Len(batch) /\ DOMAIN queue = 1 .. Len(queue) BY <1>0
  <2>2. ASSUME NEW e \in Outstanding PROVE \E i \in 1 .. Len(Waiting) : Waiting[i] = e
    <3>1. CASE \E i \in 1 .. Len(batch) : batch[i] = e BY <1>1, <1>2, <1>3, <3>1
    <3>2. CASE \E i \in 1 .. Len(queue) : queue[i] = e BY <1>1, <1>2, <1>4, <3>2
    <3> QED BY <2>1, <3>1, <3>2 DEF Outstanding, ToSet
  <2>3. ASSUME NEW i \in 1 .. Len(Waiting) PROVE Waiting[i] \in Outstanding
    <3>1. \/ i \in 1 .. Len(batch) /\ Waiting[i] = batch[i]
          \/ i - Len(batch) \in 1 .. Len(queue) /\ Waiting[i] = queue[i - Len(batch)]
      BY <1>1, <1>2
    <3> QED BY <2>1, <3>1 DEF Outstanding, ToSet
  <2> QED BY <2>2, <2>3
<1>6. \A i \in 1 .. Len(Waiting) : Waiting[i] \in Events BY <1>1
<1> QED BY <1>1, <1>2, <1>3, <1>4, <1>5, <1>6

(* A directory has one watch, which gives one event.                       *)
LEMMA EventIs ==
    ASSUME KernelInv, TreeInv, NEW dir \in Dirs \cup {Top}, NEW mask \in Masks, NEW name \in Names \cup {Gone}
    PROVE  \/ Watch(dir) = {} /\ Event(dir, mask, name) = <<>>
           \/ \E e \in Events :
                 /\ Event(dir, mask, name) = <<e>>
                 /\ e.wd \in DOMAIN watches /\ watches[e.wd] = dir /\ Watch(dir) = {e.wd}
                 /\ e.mask = mask /\ e.name = name /\ e.dir = dir
                 /\ e.names = {PathOf(dir)} /\ e.known = Watched(dir)
<1>1. CASE Watch(dir) = {} BY <1>1 DEF Event
<1>2. CASE Watch(dir) # {}
  <2>1. PICK wd \in DOMAIN watches : watches[wd] = dir BY <1>2 DEF Watch
  <2>2. Watch(dir) = {wd} BY <2>1 DEF Watch, KernelInv
  <2>3. (CHOOSE w \in Watch(dir) : TRUE) = wd BY <2>2
  <2> DEFINE e == [wd |-> wd, mask |-> mask, name |-> name, dir |-> dir, names |-> {PathOf(dir)},
                   known |-> Watched(dir)]
  <2>4. Event(dir, mask, name) = <<e>> BY <1>2, <2>3 DEF Event
  <2>5. PathOf(dir) \in Seq(Names)
    <3>1. dir \in Existing \cup {Top} BY <2>1 DEF KernelInv
    <3> QED BY <3>1 DEF PathOf, TreeInv, Existing, Paths, SeqOf
  <2>6. wd \in Nat BY <2>1 DEF KernelInv
  <2>7. Watched(dir) \in BOOLEAN BY DEF Watched
  <2>8. e \in Events BY <2>5, <2>6, <2>7 DEF Events
  <2> QED BY <2>1, <2>2, <2>4, <2>8
<1> QED BY <1>1, <1>2

-----------------------------------------------------------------------------
(* Others add events, and those that wait may learn more names.            *)
Learnt(e, f) ==
    /\ f.wd = e.wd /\ f.mask = e.mask /\ f.name = e.name /\ f.known = e.known
    /\ e.names \subseteq f.names

AllLearnt(s, t) == Len(t) = Len(s) /\ \A i \in 1 .. Len(s) : Learnt(s[i], t[i])

Longer(more) ==
    /\ more \in Seq(Events) /\ queue' \in Seq(Events) /\ batch' \in Seq(Events)
    /\ Len(more) \in Nat /\ Len(Waiting') = Len(Waiting) + Len(more)
    /\ \A i \in 1 .. Len(Waiting) : Learnt(Waiting[i], Waiting'[i])
    /\ \A k \in 1 .. Len(more) : Waiting'[Len(Waiting) + k] = more[k]
    /\ batch = <<>> => batch' = <<>>

(* What waits after a change by others: what waited before, and what the   *)
(* change has added.                                                       *)
LEMMA LongerIs ==
    ASSUME EventsInv, NEW q \in Seq(Events), NEW b \in Seq(Events), AllLearnt(queue, q),
           AllLearnt(batch, b), NEW more \in Seq(Events), queue' = q \o more, batch' = b
    PROVE  Longer(more)
<1>0. /\ queue \in Seq(Events) /\ batch \in Seq(Events) /\ Len(q) = Len(queue) /\ Len(b) = Len(batch)
      /\ Len(queue) \in Nat /\ Len(batch) \in Nat /\ Len(more) \in Nat
  BY DEF EventsInv, AllLearnt
<1>1. PICK bl \in Nat, ql \in Nat, ml \in Nat : bl = Len(batch) /\ ql = Len(queue) /\ ml = Len(more)
  BY <1>0
<1>2. PICK r : r = queue' OBVIOUS
<1>3. /\ r \in Seq(Events) /\ Len(r) = ql + ml
      /\ \A i \in 1 .. ql + ml : r[i] = IF i <= ql THEN q[i] ELSE more[i - ql]
  <2>1. /\ q \o more \in Seq(Events) /\ Len(q \o more) = Len(q) + Len(more)
        /\ \A i \in 1 .. Len(q) + Len(more) : (q \o more)[i] = IF i <= Len(q) THEN q[i] ELSE more[i - Len(q)]
    BY <1>0, ConcatProperties
  <2>2. r = q \o more /\ Len(q) = ql BY <1>0, <1>1, <1>2
  <2> QED BY <1>1, <2>1, <2>2
<1>4. PICK w : w = Waiting' OBVIOUS
<1>5. /\ Len(w) = bl + (ql + ml)
      /\ \A i \in 1 .. bl + (ql + ml) : w[i] = IF i <= bl THEN b[i] ELSE r[i - bl]
  <2>1. w = b \o r BY <1>2, <1>4 DEF Waiting
  <2>2. /\ Len(b \o r) = Len(b) + Len(r)
        /\ \A i \in 1 .. Len(b) + Len(r) : (b \o r)[i] = IF i <= Len(b) THEN b[i] ELSE r[i - Len(b)]
    <3>1. r \in Seq(Events) BY <1>3
    <3> QED BY <3>1, ConcatProperties
  <2> QED BY <1>0, <1>1, <1>3, <2>1, <2>2
<1>6. /\ Len(Waiting) = bl + ql
      /\ \A i \in 1 .. bl + ql : Waiting[i] = IF i <= bl THEN batch[i] ELSE queue[i - bl]
  BY <1>0, <1>1, ConcatProperties DEF Waiting
<1>7. ASSUME NEW i \in 1 .. bl + ql PROVE Learnt(Waiting[i], w[i])
  <2>1. CASE i <= bl
    <3>1. i \in 1 .. bl /\ i \in 1 .. bl + (ql + ml) BY <2>1
    <3>2. Waiting[i] = batch[i] /\ w[i] = b[i] BY <1>5, <1>6, <2>1, <3>1
    <3> QED BY <1>1, <3>1, <3>2 DEF AllLearnt
  <2>2. CASE ~ (i <= bl)
    <3>1. PICK j \in 1 .. ql : j = i - bl BY <2>2
    <3>2. i \in 1 .. bl + (ql + ml) /\ j \in 1 .. ql + ml /\ j <= ql OBVIOUS
    <3>3. Waiting[i] = queue[j] BY <1>6, <2>2, <3>1
    <3>4. w[i] = r[j] BY <1>5, <2>2, <3>1, <3>2
    <3>5. r[j] = q[j] BY <1>3, <3>2
    <3> QED BY <1>1, <3>3, <3>4, <3>5 DEF AllLearnt
  <2> QED BY <2>1, <2>2
<1>8. ASSUME NEW k \in 1 .. ml PROVE w[bl + ql + k] = more[k]
  <2>1. /\ bl + ql + k \in 1 .. bl + (ql + ml) /\ ~ (bl + ql + k <= bl)
        /\ bl + ql + k - bl = ql + k /\ ql + k \in 1 .. ql + ml /\ ~ (ql + k <= ql) /\ ql + k - ql = k
    OBVIOUS
  <2>2. w[bl + ql + k] = r[ql + k] BY <1>5, <2>1
  <2>3. r[ql + k] = more[k]
    <3>1. PICK n \in 1 .. ql + ml : n = ql + k /\ ~ (n <= ql) /\ n - ql = k BY <2>1
    <3>2. r[n] = IF n <= ql THEN q[n] ELSE more[n - ql] BY <1>3
    <3> QED BY <3>1, <3>2
  <2> QED BY <2>2, <2>3
<1>9. bl + (ql + ml) = (bl + ql) + ml OBVIOUS
<1>10. batch = <<>> => batch' = <<>>
  <2>1. batch = <<>> => Len(b) = 0 BY <1>0
  <2> QED BY <2>1
<1> QED BY <1>0, <1>1, <1>2, <1>3, <1>4, <1>5, <1>6, <1>7, <1>8, <1>9, <1>10 DEF Longer

(* An event that waits is the same for the thread, whatever it has learnt. *)
Still == UNCHANGED <<self_isdir, last_wd, pc, scan, maps, pipe>>

(* The names that the events make the thread give up, and what is          *)
(* undisturbed and leaves on their account, are the same after a change by *)
(* others.                                                                 *)
LEMMA SameEvents ==
    ASSUME EventsInv, Still, NEW more, Longer(more)
    PROVE  /\ \A i \in 1 .. Len(Waiting) : \A p : GivesUp(Waiting[i], p)' <=> GivesUp(Waiting[i], p)
           /\ \A wd : Name(wd)' = Name(wd) /\ Known(wd)' = Known(wd)
           /\ \A n \in 1 .. Len(Waiting) + 1 : \A wd : Undisturbed(wd, n)' <=> Undisturbed(wd, n)
           /\ \A n \in 0 .. Len(Waiting) : \A wd : Leaves(wd, n) => Leaves(wd, n)'
<1>0. Len(Waiting) \in Nat BY WaitingIs
<1>1. \A i \in 1 .. Len(Waiting) : Waiting'[i].wd = Waiting[i].wd /\ Waiting'[i].mask = Waiting[i].mask
                                    /\ Waiting'[i].name = Waiting[i].name
  BY DEF Longer, Learnt
<1>2. \A wd : Name(wd)' = Name(wd) /\ Known(wd)' = Known(wd) BY DEF Still, maps, Name, Known
<1>3. ASSUME NEW i \in 1 .. Len(Waiting), NEW p PROVE GivesUp(Waiting[i], p)' <=> GivesUp(Waiting[i], p)
  BY <1>1 DEF GivesUp, Still, maps, Known
<1>4. ASSUME NEW n \in 1 .. Len(Waiting) + 1, NEW wd PROVE Undisturbed(wd, n)' <=> Undisturbed(wd, n)
  <2>1. \A j \in 1 .. n - 1 : j \in 1 .. Len(Waiting) BY <1>0
  <2> QED BY <1>2, <1>3, <2>1 DEF Undisturbed
<1>5. ASSUME NEW n \in 0 .. Len(Waiting), NEW wd, Leaves(wd, n) PROVE Leaves(wd, n)'
  <2>1. PICK i \in 1 .. n : /\ Waiting[i].mask = "moved_from" /\ GivesUp(Waiting[i], Name(wd))
                            /\ Undisturbed(Waiting[i].wd, i)
    BY <1>5 DEF Leaves
  <2>2. i \in 1 .. Len(Waiting) /\ i \in 1 .. Len(Waiting) + 1 BY <1>0
  <2>3. (Waiting[i].mask = "moved_from")' /\ GivesUp(Waiting[i], Name(wd))'
    BY <1>1, <1>2, <1>3, <2>1, <2>2
  <2>4. Undisturbed(Waiting[i].wd, i)' BY <1>1, <1>4, <2>1, <2>2
  <2> QED BY <2>3, <2>4 DEF Leaves
<1> QED BY <1>2, <1>3, <1>4, <1>5

-----------------------------------------------------------------------------
(* The tree.  Paths are sequences of names, and Gone is none.              *)
LEMMA PathIs ==
    ASSUME TreeInv
    PROVE  /\ \A d \in Existing : path[d] \in Seq(Names) /\ path[d] # <<>> /\ d \in Dirs /\ d # Top
           /\ \A d \in Existing \cup {Top} : PathOf(d) \in Seq(Names) /\ Exists(PathOf(d)) /\ PathOf(d) # Gone
           /\ \A d \in Dirs : d \in Existing \/ path[d] = Gone
           /\ \A d \in Existing : PathOf(d) = path[d]
<1>1. Paths \subseteq Seq(Names) /\ <<>> \notin Paths BY DEF Paths, SeqOf
<1>2. \A d \in Existing : path[d] \in Paths /\ d \in Dirs BY DEF TreeInv, Existing
<1>3. PathOf(Top) = <<>> BY DEF PathOf
<1>4. \A d \in Existing : PathOf(d) = path[d] /\ d # Top BY <1>2, ConstantsAssumption DEF PathOf
<1>5. \A d \in Existing : Exists(path[d]) BY <1>2 DEF Exists, At
<1>6. Exists(<<>>) BY DEF Exists, At
<1>7. <<>> \in Seq(Names) OBVIOUS
<1> QED BY <1>1, <1>2, <1>3, <1>4, <1>5, <1>6, <1>7, ConstantsAssumption DEF Existing

(* What is at a path is one directory.                                     *)
LEMMA AtIs ==
    ASSUME TreeInv, NEW p \in Seq(Names), Exists(p)
    PROVE  \E d \in Existing \cup {Top} : PathOf(d) = p /\ At(p) = {d}
<1>1. CASE p = <<>>
  <2>1. {d \in Dirs : path[d] = p} = {}
    <3>0. <<>> \in Seq(Names) OBVIOUS
    <3>1. \A d \in Dirs : path[d] # <<>> BY <3>0, PathIs, ConstantsAssumption
    <3> QED BY <1>1, <3>1
  <2> QED BY <1>1, <2>1 DEF At, PathOf
<1>2. CASE p # <<>>
  <2>1. PICK d \in Dirs : path[d] = p BY <1>2 DEF Exists, At
  <2>2. d \in Existing BY <2>1, ConstantsAssumption DEF Existing
  <2>3. \A e \in Dirs : path[e] = p => e = d
    BY <2>1, <2>2, ConstantsAssumption DEF TreeInv, Existing
  <2>4. At(p) = {d} BY <1>2, <2>1, <2>3 DEF At
  <2> QED BY <2>1, <2>2, <2>4, PathIs
<1> QED BY <1>1, <1>2

(* A start of a path of a directory that is not below d is not d's path.   *)
LEMMA NotBelow ==
    ASSUME TreeInv, NEW d \in Dirs, d \in Existing => Below(d) = {},
           NEW e \in Existing, e # d, NEW n \in 1 .. Len(path[e])
    PROVE  path[d] # SubSeq(path[e], 1, n)
<1> SUFFICES ASSUME path[d] = SubSeq(path[e], 1, n) PROVE FALSE
  OBVIOUS
<1>1. path[e] \in Seq(Names) BY PathIs
<1>2. /\ SubSeq(path[e], 1, n) \in Seq(Names) /\ Len(SubSeq(path[e], 1, n)) = n /\ n <= Len(path[e])
      /\ n \in Nat
  BY <1>1
<1>3. d \in Existing BY <1>2, ConstantsAssumption DEF Existing
<1>4. PathOf(d) = path[d] BY <1>3, PathIs
<1>5. SubSeq(path[d], 1, Len(path[d])) = path[d] BY <1>2
<1>6. IsPrefix(PathOf(d), path[e]) BY <1>2, <1>4, <1>5 DEF IsPrefix
<1> QED BY <1>3, <1>6 DEF Below

(* A directory is put where nothing is: the tree stays one.                *)
LEMMA TreeGrows ==
    ASSUME TreeInv, NEW d \in Dirs, d \in Existing => Below(d) = {},
           NEW dir \in Existing \cup {Top}, dir # d, NEW name \in Names, NEW p,
           p = Append(PathOf(dir), name), Len(p) <= MaxDepth, ~ Exists(p),
           path' = [path EXCEPT ![d] = p]
    PROVE  /\ TreeInv' /\ Existing' = Existing \cup {d}
           /\ PathOf(d)' = p /\ p \in Seq(Names)
           /\ \A e \in Existing \cup {Top} : e # d => PathOf(e)' = PathOf(e)
<1>0. path \in [Dirs -> Paths \cup {Gone}] BY DEF TreeInv
<1>1. PathOf(dir) \in Seq(Names) BY PathIs
<1>2. /\ p \in Seq(Names) /\ p # <<>> /\ Len(p) = Len(PathOf(dir)) + 1 /\ p # Gone
      /\ SubSeq(p, 1, Len(p)) = p
      /\ \A n \in 1 .. Len(PathOf(dir)) : SubSeq(p, 1, n) = SubSeq(PathOf(dir), 1, n)
  <2>1. p \in Seq(Names) /\ Len(p) = Len(PathOf(dir)) + 1 BY <1>1
  <2>2. ASSUME NEW n \in 1 .. Len(PathOf(dir)) PROVE SubSeq(p, 1, n) = SubSeq(PathOf(dir), 1, n)
    BY <1>1
  <2> QED BY <2>1, <2>2, ConstantsAssumption
<1>3. p \in Paths
  <2>1. Len(p) \in 0 .. MaxDepth BY <1>2, ConstantsAssumption
  <2>2. p \in [1 .. Len(p) -> Names] BY <1>2, LenProperties
  <2> QED BY <1>2, <2>1, <2>2 DEF Paths, SeqOf
<1>4. path' \in [Dirs -> Paths \cup {Gone}] /\ path'[d] = p /\ \A e \in Dirs : e # d => path'[e] = path[e]
  BY <1>0, <1>3
<1>5. Existing' = Existing \cup {d} BY <1>2, <1>4 DEF Existing
<1>6. \A e \in Existing : path[e] # p BY DEF Exists, At, Existing
<1>7. \A e, f \in Existing' : path'[e] = path'[f] => e = f
  BY <1>4, <1>5, <1>6 DEF TreeInv, Existing
<1>8. ASSUME NEW e \in Existing', NEW n \in 1 .. Len(path'[e])
      PROVE  \E f \in Dirs : path'[f] = SubSeq(path'[e], 1, n)
  <2>1. ASSUME NEW g \in Existing, g # d, NEW m \in 1 .. Len(path[g])
        PROVE  \E f \in Dirs : path'[f] = SubSeq(path[g], 1, m)
    <3>1. PICK f \in Dirs : path[f] = SubSeq(path[g], 1, m) BY <2>1 DEF TreeInv
    <3>2. f # d BY <2>1, <3>1, NotBelow
    <3> QED BY <1>4, <3>1, <3>2
  <2>2. CASE e # d
    <3>1. e \in Existing /\ e \in Dirs /\ path'[e] = path[e] BY <1>4, <1>5, <2>2 DEF Existing
    <3> QED BY <2>1, <2>2, <3>1
  <2>3. CASE e = d /\ n = Len(p)
    BY <1>2, <1>4, <2>3
  <2>4. CASE e = d /\ n # Len(p)
    <3>1. n \in 1 .. Len(PathOf(dir)) BY <1>1, <1>2, <1>4, <2>4
    <3>2. dir \in Existing
      <4>1. dir = Top => Len(PathOf(dir)) = 0 BY DEF PathOf
      <4> QED BY <3>1, <4>1
    <3>3. PathOf(dir) = path[dir] BY <3>2, PathIs
    <3> QED BY <1>2, <1>4, <2>1, <2>4, <3>1, <3>2, <3>3
  <2> QED BY <2>2, <2>3, <2>4
<1>9. TreeInv' BY <1>4, <1>7, <1>8 DEF TreeInv
<1>10. PathOf(d)' = p BY <1>4, ConstantsAssumption DEF PathOf
<1>11. \A e \in Existing \cup {Top} : e # d => PathOf(e)' = PathOf(e)
  BY <1>4 DEF PathOf, Existing
<1> QED BY <1>2, <1>5, <1>9, <1>10, <1>11

(* A directory with nothing below it is taken away: the tree stays one.    *)
LEMMA TreeShrinks ==
    ASSUME TreeInv, NEW d \in Existing, Below(d) = {}, path' = [path EXCEPT ![d] = Gone]
    PROVE  /\ TreeInv' /\ Existing' = Existing \ {d}
           /\ \A e \in Existing \cup {Top} : e # d => PathOf(e)' = PathOf(e)
<1>0. path \in [Dirs -> Paths \cup {Gone}] /\ d \in Dirs BY PathIs DEF TreeInv
<1>1. path' \in [Dirs -> Paths \cup {Gone}] /\ path'[d] = Gone /\ \A e \in Dirs : e # d => path'[e] = path[e]
  BY <1>0
<1>2. Existing' = Existing \ {d} BY <1>1 DEF Existing
<1>3. \A e, f \in Existing' : path'[e] = path'[f] => e = f
  BY <1>1, <1>2 DEF TreeInv, Existing
<1>4. ASSUME NEW e \in Existing', NEW n \in 1 .. Len(path'[e])
      PROVE  \E f \in Dirs : path'[f] = SubSeq(path'[e], 1, n)
  <2>1. e \in Existing /\ e # d /\ path'[e] = path[e] BY <1>1, <1>2 DEF Existing
  <2>2. PICK f \in Dirs : path[f] = SubSeq(path[e], 1, n) BY <2>1 DEF TreeInv
  <2>3. f # d BY <1>0, <2>1, <2>2, NotBelow
  <2> QED BY <1>1, <2>1, <2>2, <2>3
<1>5. TreeInv' BY <1>1, <1>3, <1>4 DEF TreeInv
<1>6. \A e \in Existing \cup {Top} : e # d => PathOf(e)' = PathOf(e)
  BY <1>1 DEF PathOf, Existing
<1> QED BY <1>2, <1>5, <1>6

-----------------------------------------------------------------------------
(* A change by others, to the directories of D and by the events of more,  *)
(* keeps what is said of all others, of the maps and of what waits.        *)
SoundEvent(e) ==
    /\ e.wd \in 1 .. last_wd
    /\ e.mask \in {"moved_from", "moved_to", "create"} => e.name \in Names
    /\ self_isdir /\ Known(e.wd) /\ e.mask \in {"delete_self", "move_self"}
          => /\ Name(e.wd) \in DOMAIN m_directory_description_map
             /\ m_directory_description_map[Name(e.wd)] = e.wd

ChangeOf(D, more) ==
    /\ Still /\ Longer(more) /\ TreeInv' /\ KernelInv'
    /\ Existing' \subseteq Existing \cup D /\ seen' \subseteq seen \cup D /\ seen' \subseteq Existing'
    /\ \A e \in Existing \cup {Top} : e \notin D => PathOf(e)' = PathOf(e)
    /\ DOMAIN watches' \subseteq DOMAIN watches
    /\ \A wd \in DOMAIN watches' : watches'[wd] = watches[wd]
    /\ \A wd \in DOMAIN watches : watches[wd] \notin D => wd \in DOMAIN watches'
    /\ \A k \in 1 .. Len(more) : SoundEvent(more[k])

(* The new events tell of the names that the directories of D have left,   *)
(* and of those that they have come to.                                    *)
LeaveBy(D, more) ==
    \A wd \in DOMAIN watches' : watches[wd] \in D =>
        \/ Leaves(wd, Len(Waiting))
        \/ \E k \in 1 .. Len(more), dir \in Existing' \cup {Top} :
              /\ more[k].mask = "moved_from" /\ GivesUp(more[k], Name(wd))
              /\ Name(more[k].wd) = PathOf(dir)'
EnterBy(D, more) ==
    \A d \in D \cap seen' : \E k \in 1 .. Len(more), dir \in Existing' \cup {Top} :
        /\ more[k].mask \in {"create", "moved_to"} /\ Known(more[k].wd)
        /\ Name(more[k].wd) = PathOf(dir)' /\ Append(PathOf(dir)', more[k].name) = path'[d]

(* The events stay sound under a change by others, and the thread is where *)
(* it was.                                                                 *)
LEMMA SoundKept ==
    ASSUME Follows, NEW D, NEW more, ChangeOf(D, more)
    PROVE  /\ ProgressInv' /\ EventsInv'
           /\ \A i \in 1 .. Len(Waiting') : SoundEvent(Waiting[i])'
<1>0. ProgressInv /\ EventsInv /\ NamesInv /\ KernelInv BY DEF Follows
<1>1. /\ Still /\ Longer(more) /\ Len(Waiting) \in Nat /\ Len(more) \in Nat
      /\ Len(Waiting') = Len(Waiting) + Len(more)
  BY <1>0, WaitingIs DEF ChangeOf, Longer
<1>2. UNCHANGED <<self_isdir, last_wd, pc, dir_list, dir_name, m_description_directory_map,
                  m_directory_description_map>>
  BY <1>1 DEF Still, scan, maps
<1>3. \A e : SoundEvent(e)' <=> SoundEvent(e)
  BY <1>2 DEF SoundEvent, Name, Known
<1>4. ASSUME NEW i \in 1 .. Len(Waiting') PROVE SoundEvent(Waiting[i])'
  <2>1. CASE i \in 1 .. Len(Waiting)
    <3>1. SoundEvent(Waiting[i]) BY <1>0, <2>1 DEF NamesInv, EventsInv, SoundEvent
    <3>2. /\ Waiting'[i].wd = Waiting[i].wd /\ Waiting'[i].mask = Waiting[i].mask
          /\ Waiting'[i].name = Waiting[i].name
      BY <1>1, <2>1 DEF Longer, Learnt
    <3> QED BY <1>2, <3>1, <3>2 DEF SoundEvent, Name, Known
  <2>2. CASE i \notin 1 .. Len(Waiting)
    <3>1. PICK k \in 1 .. Len(more) : i = Len(Waiting) + k
      <4>1. i - Len(Waiting) \in 1 .. Len(more) /\ i = Len(Waiting) + (i - Len(Waiting))
        BY <1>1, <2>2
      <4> QED BY <4>1
    <3>2. Waiting'[i] = more[k] /\ SoundEvent(more[k]) BY <1>1, <3>1 DEF Longer, ChangeOf
    <3>3. SoundEvent(more[k])' BY <1>3, <3>2
    <3> QED BY <3>2, <3>3 DEF SoundEvent, Name, Known
  <2> QED BY <2>1, <2>2
<1>5. EventsInv'
  <2>1. queue' \in Seq(Events) /\ batch' \in Seq(Events) BY <1>1 DEF Longer
  <2> QED BY <1>4, <2>1 DEF EventsInv, SoundEvent
<1>6. ProgressInv'
  <2>1. pc' # "run" => batch' = <<>> BY <1>0, <1>1, <1>2 DEF ProgressInv, Longer
  <2>2. ASSUME pc' = "idle" PROVE queue' = <<>> /\ last_wd' = 0
    <3>1. queue = <<>> /\ batch = <<>> /\ last_wd = 0 BY <1>0, <1>2, <2>2 DEF ProgressInv
    <3>2. Len(Waiting) = 0 BY <3>1 DEF Waiting
    <3>3. ASSUME NEW k \in 1 .. Len(more) PROVE FALSE
      <4>1. more[k].wd \in 1 .. 0 BY <3>1 DEF ChangeOf, SoundEvent
      <4> QED BY <4>1
    <3>4. Len(more) = 0 BY <1>1, <3>3
    <3>5. /\ Len(Waiting') = Len(batch') + Len(queue') /\ Len(batch') \in Nat /\ Len(queue') \in Nat
      <4>1. queue' \in Seq(Events) /\ batch' \in Seq(Events) BY <1>1 DEF Longer
      <4> QED BY <4>1 DEF Waiting
    <3>6. Len(queue') = 0 BY <1>1, <3>2, <3>4, <3>5
    <3>7. queue' \in Seq(Events) BY <1>1 DEF Longer
    <3> QED BY <1>2, <3>1, <3>6, <3>7
  <2> QED BY <1>0, <1>2, <2>1, <2>2 DEF ProgressInv
<1> QED BY <1>4, <1>5, <1>6

(* What is said to leave is still said to leave after a change by others.  *)
LEMMA LeavesStays ==
    ASSUME EventsInv, Still, NEW more, Longer(more), NEW wd, Leaves(wd, Len(Waiting))
    PROVE  Leaves(wd, Len(Waiting))'
<1>1. Len(Waiting) \in Nat /\ Len(more) \in Nat /\ Len(Waiting') = Len(Waiting) + Len(more)
  BY WaitingIs DEF Longer
<1>2. PICK l \in Nat : l = Len(Waiting) BY <1>1
<1>3. Leaves(wd, l)' BY <1>2, SameEvents
<1>4. \A i \in 1 .. l : i \in 1 .. Len(Waiting') BY <1>1, <1>2
<1> QED BY <1>3, <1>4 DEF Leaves

(* A change by others keeps the invariant if it reuses no name that an     *)
(* outstanding event will give up, if it adds no event that gives up the   *)
(* name of a directory that exists, and if an event says of each directory *)
(* that has moved that it left and that it came.                           *)
LEMMA OthersKeep ==
    ASSUME Follows, NEW D \in SUBSET Dirs, NEW more, ChangeOf(D, more),
           \A d \in D \cap Existing' : ~ Reused(PathOf(d)'),
           \A k \in 1 .. Len(more) : \A d \in Existing' \cup {Top} : ~ GivesUp(more[k], PathOf(d)'),
           \A k \in 1 .. Len(more), i \in Nat :
               more[k].mask = "file" /\ i = Len(Waiting) + k => ReportInv(i)',
           LeaveBy(D, more), EnterBy(D, more)
    PROVE  Follows'
<1>0. TreeInv /\ KernelInv /\ ProgressInv /\ EventsInv /\ NamesInv /\ PlacesInv /\ SeenInv /\ FilesInv
  BY DEF Follows
<1>1. /\ Still /\ Longer(more) /\ Len(Waiting) \in Nat /\ Len(more) \in Nat
      /\ Len(Waiting') = Len(Waiting) + Len(more) /\ TreeInv' /\ KernelInv'
  BY <1>0, WaitingIs DEF ChangeOf, Longer
<1>2. /\ ProgressInv' /\ EventsInv' /\ \A i \in 1 .. Len(Waiting') : SoundEvent(Waiting[i])'
  BY SoundKept
<1>3. UNCHANGED <<self_isdir, last_wd, pc, dir_list, dir_name, m_description_directory_map,
                  m_directory_description_map>>
  BY <1>1 DEF Still, scan, maps
<1>4. ASSUME NEW i \in 1 .. Len(Waiting')
      PROVE  \/ i \in 1 .. Len(Waiting) /\ Learnt(Waiting[i], Waiting'[i])
             \/ \E k \in 1 .. Len(more) : i = Len(Waiting) + k /\ Waiting'[i] = more[k]
  <2>1. CASE i \in 1 .. Len(Waiting) BY <1>1, <2>1 DEF Longer
  <2>2. CASE i \notin 1 .. Len(Waiting)
    <3>1. i - Len(Waiting) \in 1 .. Len(more) /\ i = Len(Waiting) + (i - Len(Waiting))
      BY <1>1, <2>2
    <3> QED BY <1>1, <3>1 DEF Longer
  <2> QED BY <2>1, <2>2
<1>5. \A i \in 1 .. Len(Waiting) : \A q : GivesUp(Waiting[i], q)' <=> GivesUp(Waiting[i], q)
  BY <1>0, <1>1, SameEvents
<1>6. ASSUME NEW i \in 1 .. Len(Waiting'), NEW d \in Existing' \cup {Top}
      PROVE  ~ GivesUp(Waiting[i], PathOf(d))'
  <2>1. PICK q : q = PathOf(d)' OBVIOUS
  <2>2. CASE i \in 1 .. Len(Waiting)
    <3>1. ~ GivesUp(Waiting[i], q)
      <4>1. CASE d \in D
        <5>1. ~ Reused(q) BY <2>1, <4>1, ConstantsAssumption
        <5> QED BY <1>0, <2>2, <5>1, WaitingIs DEF Reused
      <4>2. CASE d \notin D
        <5>1. d \in Existing \cup {Top} /\ q = PathOf(d) BY <2>1, <4>2 DEF ChangeOf
        <5> QED BY <1>0, <2>2, <5>1 DEF NamesInv
      <4> QED BY <4>1, <4>2
    <3>2. ~ GivesUp(Waiting[i], q)' BY <1>5, <2>2, <3>1
    <3> QED BY <2>1, <3>2
  <2>3. ASSUME NEW k \in 1 .. Len(more), i = Len(Waiting) + k, Waiting'[i] = more[k]
        PROVE  ~ GivesUp(Waiting[i], PathOf(d))'
    <3>1. ~ GivesUp(more[k], PathOf(d)') OBVIOUS
    <3> QED BY <1>3, <2>3, <3>1 DEF GivesUp, Known
  <2> QED BY <1>4, <2>2, <2>3
<1>7. NamesInv'
  <2>1. \A p \in DOMAIN m_directory_description_map' : Name(m_directory_description_map[p])' = p
    BY <1>0, <1>3 DEF NamesInv, Name
  <2>2. \A wd \in DOMAIN watches' : /\ Name(wd)' \in DOMAIN m_directory_description_map'
                                    /\ m_directory_description_map'[Name(wd)'] = wd
    BY <1>0, <1>3 DEF NamesInv, Name, ChangeOf
  <2> QED BY <1>2, <1>6, <2>1, <2>2 DEF NamesInv, SoundEvent
<1>11. ASSUME NEW k \in 1 .. Len(more), NEW dir \in Existing' \cup {Top}, Name(more[k].wd) = PathOf(dir)',
              NEW i \in Nat, i = Len(Waiting) + k
       PROVE  i \in 1 .. Len(Waiting') /\ Waiting'[i] = more[k] /\ Undisturbed(Waiting[i].wd, i)'
  <2>1. i \in 1 .. Len(Waiting') BY <1>1, <1>11
  <2>2. Waiting'[i] = more[k] BY <1>1, <1>11 DEF Longer
  <2>3. PICK wd : wd = more[k].wd OBVIOUS
  <2>4. Name(wd)' = PathOf(dir)' BY <1>3, <1>11, <2>3 DEF Name
  <2>5. ASSUME NEW j \in 1 .. i - 1 PROVE ~ GivesUp(Waiting[j], Name(wd))'
    <3>1. j \in 1 .. Len(Waiting') BY <1>1, <2>1
    <3>2. ~ GivesUp(Waiting[j], PathOf(dir))' BY <1>6, <3>1
    <3> QED BY <2>4, <3>2
  <2>6. Undisturbed(wd, i)' BY <2>5 DEF Undisturbed
  <2> QED BY <2>1, <2>2, <2>3, <2>6
<1>8. PlacesInv'
  <2> SUFFICES ASSUME NEW wd \in DOMAIN watches'
               PROVE  Name(wd)' = PathOf(watches[wd])' \/ Leaves(wd, Len(Waiting))'
    BY DEF PlacesInv
  <2>1. Name(wd)' = Name(wd) /\ wd \in DOMAIN watches /\ watches'[wd] = watches[wd]
    BY <1>3 DEF Name, ChangeOf
  <2>2. CASE watches[wd] \in D
    <3>1. CASE Leaves(wd, Len(Waiting)) BY <1>0, <1>1, <3>1, LeavesStays
    <3>2. ASSUME NEW k \in 1 .. Len(more), NEW dir \in Existing' \cup {Top},
                 more[k].mask = "moved_from", GivesUp(more[k], Name(wd)), Name(more[k].wd) = PathOf(dir)'
          PROVE  Leaves(wd, Len(Waiting))'
      <4>1. PICK i \in Nat : i = Len(Waiting) + k BY <1>1
      <4>2. i \in 1 .. Len(Waiting') /\ Waiting'[i] = more[k] /\ Undisturbed(Waiting[i].wd, i)'
        BY <1>11, <3>2, <4>1
      <4>3. GivesUp(Waiting[i], Name(wd))' BY <1>3, <3>2, <4>2 DEF GivesUp, Known, Name
      <4> QED BY <3>2, <4>2, <4>3 DEF Leaves
    <3> QED BY <2>1, <2>2, <3>1, <3>2 DEF LeaveBy
  <2>3. CASE watches[wd] \notin D
    <3>1. watches[wd] \in Existing \cup {Top} BY <1>0, <2>1 DEF KernelInv
    <3>2. PICK e : e = watches[wd] OBVIOUS
    <3>3. PathOf(e)' = PathOf(e) BY <2>3, <3>1, <3>2 DEF ChangeOf
    <3>4. PathOf(watches[wd])' = PathOf(watches[wd]) BY <2>1, <3>2, <3>3
    <3>5. Leaves(wd, Len(Waiting)) => Leaves(wd, Len(Waiting))' BY <1>0, <1>1, LeavesStays
    <3> QED BY <1>0, <2>1, <3>4, <3>5 DEF PlacesInv
  <2> QED BY <2>2, <2>3
<1>9. SeenInv'
  <2> SUFFICES ASSUME NEW d \in seen' PROVE (Watched(d) \/ Enters(d) \/ Coming(d))'
    BY DEF SeenInv, ChangeOf
  <2>1. CASE d \in D
    <3>1. PICK k \in 1 .. Len(more), dir \in Existing' \cup {Top} :
              /\ more[k].mask \in {"create", "moved_to"} /\ Known(more[k].wd)
              /\ Name(more[k].wd) = PathOf(dir)' /\ Append(PathOf(dir)', more[k].name) = path'[d]
      BY <2>1 DEF EnterBy
    <3>2. PICK i \in Nat : i = Len(Waiting) + k BY <1>1
    <3>3. i \in 1 .. Len(Waiting') /\ Waiting'[i] = more[k] /\ Undisturbed(Waiting[i].wd, i)'
      BY <1>11, <3>1, <3>2
    <3>4. EnteredBy(d, i)' BY <1>3, <3>1, <3>3 DEF EnteredBy, Known, Name
    <3> QED BY <3>3, <3>4 DEF Enters
  <2>2. CASE d \notin D
    <3>1. d \in seen /\ d \in Existing /\ d \in Existing' /\ PathOf(d)' = PathOf(d)
      BY <1>0, <2>2 DEF ChangeOf, SeenInv
    <3>2. path'[d] = path[d] BY <1>0, <1>1, <3>1, PathIs DEF PathOf
    <3>3. ASSUME Watched(d) PROVE Watched(d)'
      <4>1. PICK wd \in Watch(d) \cap DOMAIN m_description_directory_map :
                m_description_directory_map[wd] = PathOf(d)
        BY <3>3 DEF Watched
      <4>2. wd \in DOMAIN watches /\ watches[wd] = d BY <4>1 DEF Watch
      <4>3. wd \in DOMAIN watches' /\ watches'[wd] = d BY <2>2, <4>2 DEF ChangeOf
      <4> QED BY <1>3, <3>1, <4>1, <4>3 DEF Watched, Watch
    <3>4. ASSUME Enters(d) PROVE Enters(d)'
      <4>1. PICK i \in 1 .. Len(Waiting) : EnteredBy(d, i) BY <3>4 DEF Enters
      <4>2. i \in 1 .. Len(Waiting') /\ i \in 1 .. Len(Waiting) + 1 BY <1>1
      <4>3. /\ Waiting'[i].wd = Waiting[i].wd /\ Waiting'[i].mask = Waiting[i].mask
            /\ Waiting'[i].name = Waiting[i].name
        BY <1>1 DEF Longer, Learnt
      <4>4. Undisturbed(Waiting[i].wd, i)'
        <5>1. PICK wd : wd = Waiting[i].wd OBVIOUS
        <5>2. Undisturbed(wd, i)' BY <1>0, <1>1, <4>1, <4>2, <5>1, SameEvents DEF EnteredBy
        <5> QED BY <4>3, <5>1, <5>2
      <4>5. EnteredBy(d, i)' BY <1>3, <3>2, <4>1, <4>3, <4>4 DEF EnteredBy, Name, Known
      <4> QED BY <4>2, <4>5 DEF Enters
    <3>5. Coming(d) => Coming(d)' BY <1>3, <3>2 DEF Coming
    <3> QED BY <1>0, <3>1, <3>3, <3>4, <3>5 DEF SeenInv
  <2> QED BY <2>1, <2>2
<1>10. FilesInv'
  <2> SUFFICES ASSUME NEW i \in 1 .. Len(Waiting'), Waiting'[i].mask = "file" PROVE ReportInv(i)'
    BY DEF FilesInv
  <2>1. CASE i \in 1 .. Len(Waiting) /\ Learnt(Waiting[i], Waiting'[i])
    <3>1. PICK wd : wd = Waiting[i].wd OBVIOUS
    <3>2. Waiting'[i].wd = wd /\ Waiting[i].mask = "file" /\ Waiting'[i].known = Waiting[i].known
          /\ Waiting[i].names \subseteq Waiting'[i].names
      BY <2>1, <3>1 DEF Learnt
    <3>3. ReportInv(i) BY <1>0, <2>1, <3>2 DEF FilesInv
    <3>4. Name(wd)' = Name(wd) /\ Known(wd)' = Known(wd) BY <1>3 DEF Name, Known
    <3>5. i - 1 \in 0 .. Len(Waiting) /\ i \in 1 .. Len(Waiting) + 1 BY <1>1, <2>1
    <3>6. Leaves(wd, i - 1) => Leaves(wd, i - 1)' BY <1>0, <1>1, <3>5, SameEvents
    <3>7. Undisturbed(wd, i)' <=> Undisturbed(wd, i) BY <1>0, <1>1, <3>5, SameEvents
    <3> QED BY <1>3, <3>1, <3>2, <3>3, <3>4, <3>6, <3>7 DEF ReportInv
  <2>2. ASSUME NEW k \in 1 .. Len(more), i = Len(Waiting) + k, Waiting'[i] = more[k] PROVE ReportInv(i)'
    <3>1. more[k].mask = "file" /\ i \in Nat BY <1>1, <2>2
    <3> QED BY <2>2, <3>1
  <2> QED BY <1>4, <2>1, <2>2
<1> QED BY <1>1, <1>2, <1>7, <1>8, <1>9, <1>10 DEF Follows

(* Events that have learnt nothing are the events they were.               *)
LEMMA LearntSelf == \A s \in Seq(Events) : AllLearnt(s, s)
  BY DEF AllLearnt, Learnt

(* A directory that is removed takes its watch with it.                    *)
LEMMA WatchesShrink ==
    ASSUME KernelInv, Still, DOMAIN watches' \subseteq DOMAIN watches,
           watches' = [wd \in DOMAIN watches' |-> watches'[wd]],
           \A wd \in DOMAIN watches' : watches'[wd] = watches[wd] /\ watches[wd] \in Existing' \cup {Top}
    PROVE  KernelInv'
<1>1. watches' \in [DOMAIN watches' -> Existing' \cup {Top}] OBVIOUS
<1> QED BY <1>1 DEF KernelInv, Still, maps

(* What is above a directory exists.                                       *)
LEMMA ParentIs ==
    ASSUME TreeInv, NEW f \in Existing, NEW p \in Seq(Names), NEW n, path[f] = Append(p, n)
    PROVE  \E g \in Existing \cup {Top} : PathOf(g) = p
<1>1. path[f] \in Seq(Names) /\ Len(path[f]) = Len(p) + 1 /\ Len(p) \in Nat BY PathIs
<1>2. CASE p = <<>> BY <1>2 DEF PathOf
<1>3. CASE p # <<>>
  <2>1. Len(p) \in 1 .. Len(path[f]) BY <1>1, <1>3
  <2>2. SubSeq(path[f], 1, Len(p)) = p BY <1>1, <2>1
  <2>3. PICK g \in Dirs : path[g] = p BY <2>1, <2>2 DEF TreeInv
  <2>4. g \in Existing BY <2>3, ConstantsAssumption DEF Existing
  <2> QED BY <2>3, <2>4, PathIs
<1> QED BY <1>2, <1>3

(* A name to be given up is nobody's.                                      *)
LEMMA LeftIsNobodys ==
    ASSUME EventsInv, NamesInv, NEW wd, Leaves(wd, Len(Waiting)), NEW d \in Existing \cup {Top}
    PROVE  Name(wd) # PathOf(d)
<1>1. PICK i \in 1 .. Len(Waiting) : GivesUp(Waiting[i], Name(wd)) BY DEF Leaves
<1> QED BY <1>1 DEF NamesInv

(* A change of a file adds one event, which carries the name of its        *)
(* directory.                                                              *)
LEMMA FileChangeKeeps ==
    ASSUME Follows, NEW d \in Dirs \cup {Top}, FileChange(d)
    PROVE  Follows'
<1>0. TreeInv /\ KernelInv /\ ProgressInv /\ EventsInv /\ NamesInv /\ PlacesInv /\ SeenInv /\ FilesInv
  BY DEF Follows
<1>1. PICK e \in Events :
          /\ Event(d, "file", Gone) = <<e>>
          /\ e.wd \in DOMAIN watches /\ watches[e.wd] = d /\ Watch(d) = {e.wd}
          /\ e.mask = "file" /\ e.name = Gone /\ e.dir = d
          /\ e.names = {PathOf(d)} /\ e.known = Watched(d)
  <2>1. Event(d, "file", Gone) # <<>> BY DEF FileChange
  <2>2. "file" \in Masks BY DEF Masks
  <2> QED BY <1>0, <2>1, <2>2, EventIs
<1>2. /\ Still /\ UNCHANGED <<path, outrun, watches, batch, seen>> /\ queue' = queue \o <<e>>
  BY <1>1 DEF FileChange, Change, Still
<1> DEFINE more == <<e>>
<1>3. more \in Seq(Events) /\ Len(more) = 1 /\ more[1] = e OBVIOUS
<1>4. Longer(more) BY <1>0, <1>2, <1>3, LearntSelf, LongerIs DEF EventsInv
<1>5. TreeInv' /\ Existing' = Existing /\ \A f : PathOf(f)' = PathOf(f)
  BY <1>0, <1>2 DEF TreeInv, Existing, PathOf
<1>6. KernelInv' BY <1>0, <1>2, <1>5 DEF KernelInv, Still, maps
<1>7. SoundEvent(e) BY <1>0, <1>1 DEF SoundEvent, KernelInv
<1>8. ChangeOf({}, more)
  BY <1>0, <1>2, <1>3, <1>4, <1>5, <1>6, <1>7 DEF ChangeOf, SeenInv
<1>9. ASSUME NEW i \in Nat, i = Len(Waiting) + 1 PROVE ReportInv(i)'
  <2>0. PICK l \in Nat : l = Len(Waiting) BY <1>0, WaitingIs
  <2>1. PICK wd : wd = e.wd OBVIOUS
  <2>2. Waiting'[i].wd = wd /\ Waiting'[i].names = {PathOf(d)} /\ Waiting'[i].known = Watched(d)
    BY <1>1, <1>3, <1>4, <1>9, <2>1 DEF Longer
  <2>3. Name(wd)' = Name(wd) /\ Known(wd)' /\ Known(wd) /\ i - 1 = l /\ i = l + 1
    BY <1>0, <1>1, <1>2, <1>9, <2>0, <2>1 DEF Still, maps, Known, Name, KernelInv
  <2>4. Leaves(wd, l) => Leaves(wd, l)' BY <1>0, <1>2, <1>4, <2>0, SameEvents
  <2>5. Name(wd) = PathOf(d) \/ Leaves(wd, l) BY <1>0, <1>1, <2>0, <2>1 DEF PlacesInv
  <2>6. /\ Name(wd) \in DOMAIN m_directory_description_map
        /\ m_directory_description_map[Name(wd)] = wd
    BY <1>0, <1>1, <2>1 DEF NamesInv
  <2>7. ASSUME Watched(d) PROVE Undisturbed(wd, i)'
    <3>1. Name(wd) = PathOf(d) BY <1>1, <2>1, <2>7 DEF Watched, Name
    <3>2. d \in Existing \cup {Top} BY <1>0, <1>1 DEF KernelInv
    <3>3. Undisturbed(wd, i) BY <1>0, <2>0, <2>3, <3>1, <3>2 DEF Undisturbed, NamesInv
    <3>4. i \in 1 .. Len(Waiting) + 1 BY <2>0, <2>3
    <3> QED BY <1>0, <1>2, <1>4, <3>3, <3>4, SameEvents
  <2>8. UNCHANGED m_directory_description_map BY <1>2 DEF Still, maps
  <2>9. Name(wd) \in {PathOf(d)} \/ Leaves(wd, i - 1)' BY <2>3, <2>4, <2>5
  <2> QED BY <2>2, <2>3, <2>6, <2>7, <2>8, <2>9 DEF ReportInv
<1>10. ASSUME NEW k \in 1 .. Len(more) PROVE k = 1 /\ more[k].mask = "file"
  BY <1>1, <1>3
<1>11. \A k \in 1 .. Len(more) : \A f \in Existing' \cup {Top} : ~ GivesUp(more[k], PathOf(f)')
  BY <1>10 DEF GivesUp
<1>12. \A k \in 1 .. Len(more), i \in Nat :
           more[k].mask = "file" /\ i = Len(Waiting) + k => ReportInv(i)'
  BY <1>9, <1>10
<1> HIDE DEF more
<1>13. {} \in SUBSET Dirs /\ LeaveBy({}, more) /\ EnterBy({}, more) BY DEF LeaveBy, EnterBy
<1> QED BY <1>8, <1>11, <1>12, <1>13, OthersKeep

(* A new directory is announced by an event of the directory that it is    *)
(* made in.                                                                *)
LEMMA MkdirKeeps ==
    ASSUME Follows, NEW d \in Dirs, NEW dir \in Dirs \cup {Top}, NEW name \in Names, Mkdir(d, dir, name),
           ~ outrun'
    PROVE  Follows'
<1>0. TreeInv /\ KernelInv /\ ProgressInv /\ EventsInv /\ NamesInv /\ PlacesInv /\ SeenInv /\ FilesInv
  BY DEF Follows
<1>1. PICK p : p = Append(PathOf(dir), name) OBVIOUS
<1>2. /\ Still /\ path[d] = Gone /\ dir \in Existing \cup {Top} /\ Len(p) <= MaxDepth /\ ~ Exists(p)
      /\ path' = [path EXCEPT ![d] = p] /\ queue' = queue \o Event(dir, "create", name)
      /\ seen' = Notices(dir, d) /\ UNCHANGED <<watches, batch>> /\ ~ Reused(p)
  BY <1>1 DEF Mkdir, Change, Still
<1>3. d \notin Existing /\ d # dir /\ d # Top BY <1>2, ConstantsAssumption DEF Existing
<1>4. /\ TreeInv' /\ Existing' = Existing \cup {d} /\ PathOf(d)' = p /\ p \in Seq(Names)
      /\ \A e \in Existing \cup {Top} : e # d => PathOf(e)' = PathOf(e)
  <2>1. d \in Existing => Below(d) = {} BY <1>3
  <2> QED BY <1>0, <1>1, <1>2, <1>3, <2>1, TreeGrows
<1>5. PICK more : more = Event(dir, "create", name) OBVIOUS
<1>6. /\ more \in Seq(Events)
      /\ \A k \in 1 .. Len(more) :
            /\ more[k].mask = "create" /\ more[k].name = name /\ more[k].wd \in DOMAIN watches
      /\ Watched(dir) => /\ 1 \in 1 .. Len(more) /\ Known(more[1].wd) /\ Name(more[1].wd) = PathOf(dir)
  <2>0. "create" \in Masks BY DEF Masks
  <2>1. CASE Watch(dir) = {} /\ more = <<>>
    <3>1. ~ Watched(dir) BY <2>1 DEF Watched
    <3> QED BY <2>1, <3>1
  <2>2. CASE \E e \in Events :
                 /\ more = <<e>> /\ e.wd \in DOMAIN watches /\ Watch(dir) = {e.wd}
                 /\ e.mask = "create" /\ e.name = name
    <3>0. PICK e \in Events : /\ more = <<e>> /\ e.wd \in DOMAIN watches /\ Watch(dir) = {e.wd}
                              /\ e.mask = "create" /\ e.name = name
      BY <2>2
    <3>1. more \in Seq(Events) /\ Len(more) = 1 /\ more[1] = e BY <3>0
    <3>2. Watched(dir) => Known(e.wd) /\ Name(e.wd) = PathOf(dir) BY <3>0 DEF Watched, Known, Name
    <3> QED BY <3>0, <3>1, <3>2
  <2> QED BY <1>0, <1>2, <1>5, <2>0, <2>1, <2>2, EventIs
<1>7. Longer(more) BY <1>0, <1>2, <1>5, <1>6, LearntSelf, LongerIs DEF EventsInv
<1>8. KernelInv'
  <2>1. \A wd \in DOMAIN watches : watches[wd] \in Existing' \cup {Top} BY <1>0, <1>4 DEF KernelInv
  <2>2. watches = [wd \in DOMAIN watches |-> watches[wd]] BY <1>0 DEF KernelInv
  <2> QED BY <1>0, <1>2, <2>1, <2>2, WatchesShrink
<1>9. seen' \subseteq seen \cup {d} /\ (d \in seen' => Watched(dir))
  BY <1>2 DEF Notices
<1>10. \A k \in 1 .. Len(more) : SoundEvent(more[k]) /\ \A q : ~ GivesUp(more[k], q)
  BY <1>0, <1>6 DEF SoundEvent, KernelInv, GivesUp
<1>11. ChangeOf({d}, more)
  BY <1>0, <1>2, <1>4, <1>7, <1>8, <1>9, <1>10 DEF ChangeOf, SeenInv
<1>12. LeaveBy({d}, more) BY <1>0, <1>2, <1>3 DEF KernelInv, LeaveBy
<1>13. \A e \in {d} \cap Existing' : ~ Reused(PathOf(e)')
  BY <1>2, <1>4
<1>14. EnterBy({d}, more)
  <2>1. dir \in Existing' \cup {Top} /\ PathOf(dir)' = PathOf(dir) BY <1>2, <1>3, <1>4
  <2>2. path'[d] = p BY <1>3, <1>4 DEF PathOf
  <2> QED BY <1>1, <1>6, <1>9, <2>1, <2>2 DEF EnterBy
<1>15. {d} \in SUBSET Dirs OBVIOUS
<1>16. /\ \A k \in 1 .. Len(more) : \A f \in Existing' \cup {Top} : ~ GivesUp(more[k], PathOf(f)')
       /\ \A k \in 1 .. Len(more), i \in Nat :
              more[k].mask = "file" /\ i = Len(Waiting) + k => ReportInv(i)'
  BY <1>6, <1>10
<1> QED BY <1>11, <1>12, <1>13, <1>14, <1>15, <1>16, OthersKeep

(* A directory that is removed gives up its own name.                      *)
LEMMA RmdirKeeps ==
    ASSUME Follows, NEW d \in Dirs, Rmdir(d)
    PROVE  Follows'
<1>0. TreeInv /\ KernelInv /\ ProgressInv /\ EventsInv /\ NamesInv /\ PlacesInv /\ SeenInv /\ FilesInv
  BY DEF Follows
<1>2. /\ Still /\ d \in Existing /\ Below(d) = {} /\ path' = [path EXCEPT ![d] = Gone]
      /\ queue' = queue \o Event(d, "delete_self", Gone)
      /\ watches' = [wd \in DOMAIN watches \ Watch(d) |-> watches[wd]]
      /\ seen' = seen \ {d} /\ UNCHANGED batch
  BY DEF Rmdir, Change, Still
<1>4. /\ TreeInv' /\ Existing' = Existing \ {d}
      /\ \A e \in Existing \cup {Top} : e # d => PathOf(e)' = PathOf(e)
  BY <1>0, <1>2, TreeShrinks
<1>5. PICK more : more = Event(d, "delete_self", Gone) OBVIOUS
<1>6. /\ more \in Seq(Events)
      /\ \A k \in 1 .. Len(more) :
            more[k].mask = "delete_self" /\ more[k].wd \in DOMAIN watches /\ watches[more[k].wd] = d
  <2>0. "delete_self" \in Masks BY DEF Masks
  <2>1. CASE more = <<>> BY <2>1
  <2>2. CASE \E e \in Events :
                 more = <<e>> /\ e.wd \in DOMAIN watches /\ watches[e.wd] = d /\ e.mask = "delete_self"
    <3>0. PICK e \in Events :
                 more = <<e>> /\ e.wd \in DOMAIN watches /\ watches[e.wd] = d /\ e.mask = "delete_self"
      BY <2>2
    <3>1. more \in Seq(Events) /\ Len(more) = 1 /\ more[1] = e BY <3>0
    <3> QED BY <3>0, <3>1
  <2> QED BY <1>0, <1>5, <2>0, <2>1, <2>2, EventIs
<1>7. Longer(more) BY <1>0, <1>2, <1>5, <1>6, LearntSelf, LongerIs DEF EventsInv
<1>8. /\ DOMAIN watches' \subseteq DOMAIN watches /\ watches' = [wd \in DOMAIN watches' |-> watches'[wd]]
      /\ \A wd \in DOMAIN watches' : watches'[wd] = watches[wd] /\ watches[wd] # d
      /\ \A wd \in DOMAIN watches : watches[wd] # d => wd \in DOMAIN watches'
  BY <1>2 DEF Watch
<1>9. KernelInv'
  <2>1. \A wd \in DOMAIN watches' : watches[wd] \in Existing' \cup {Top} BY <1>0, <1>4, <1>8 DEF KernelInv
  <2> QED BY <1>0, <1>2, <1>8, <2>1, WatchesShrink
<1>10. ASSUME NEW k \in 1 .. Len(more) PROVE SoundEvent(more[k])
  BY <1>0, <1>6 DEF SoundEvent, KernelInv, NamesInv
<1>11. ChangeOf({d}, more)
  BY <1>0, <1>2, <1>4, <1>7, <1>8, <1>9, <1>10 DEF ChangeOf, SeenInv
<1>12. ASSUME NEW k \in 1 .. Len(more), NEW f \in Existing' \cup {Top}
       PROVE  ~ GivesUp(more[k], PathOf(f)')
  <2>1. PICK wd \in DOMAIN watches : wd = more[k].wd /\ watches[wd] = d BY <1>6
  <2>2. f # d /\ f \in Existing \cup {Top} /\ PathOf(f)' = PathOf(f)
    BY <1>2, <1>4, ConstantsAssumption
  <2>3. Name(wd) # PathOf(f)
    <3>1. CASE Leaves(wd, Len(Waiting)) BY <1>0, <2>2, <3>1, LeftIsNobodys
    <3>2. CASE Name(wd) = PathOf(d)
      <4>1. PathOf(d) = path[d] /\ path[d] \in Seq(Names) /\ path[d] # <<>> BY <1>0, <1>2, PathIs
      <4>2. f \in Existing => PathOf(f) = path[f] BY <1>0, PathIs
      <4> QED BY <1>0, <1>2, <2>2, <3>2, <4>1, <4>2 DEF TreeInv, PathOf
    <3> QED BY <1>0, <2>1, <3>1, <3>2 DEF PlacesInv
  <2> QED BY <1>6, <2>1, <2>2, <2>3 DEF GivesUp, Name
<1>13. {d} \in SUBSET Dirs /\ {d} \cap Existing' = {} /\ EnterBy({d}, more) BY <1>2, <1>4 DEF EnterBy
<1>14. \A k \in 1 .. Len(more), i \in Nat :
           more[k].mask = "file" /\ i = Len(Waiting) + k => ReportInv(i)'
  BY <1>6
<1>15. LeaveBy({d}, more) BY <1>8 DEF LeaveBy
<1> QED BY <1>11, <1>12, <1>13, <1>14, <1>15, OthersKeep

(* What is above a name appended to a path is the path.                    *)
LEMMA FrontAppended ==
    ASSUME NEW S, NEW s \in Seq(S), NEW n \in S
    PROVE  Front(Append(s, n)) = s
<1>1. PICK t : t = Append(s, n) OBVIOUS
<1>2. t \in Seq(S) /\ Len(t) = Len(s) + 1 /\ Len(s) \in Nat /\ \A i \in 1 .. Len(s) : t[i] = s[i] BY <1>1
<1>3. SubSeq(t, 1, Len(s)) = s BY <1>1, <1>2
<1> QED BY <1>1, <1>2, <1>3 DEF Front

(* m is a followed by b, as far as its elements go.                        *)
Holds(m, a, b) ==
    /\ m \in Seq(Events)
    /\ \A k \in 1 .. Len(m) : \/ \E i \in 1 .. Len(a) : m[k] = a[i]
                              \/ \E i \in 1 .. Len(b) : m[k] = b[i]
    /\ \A i \in 1 .. Len(a) : \E k \in 1 .. Len(m) : m[k] = a[i]
    /\ \A i \in 1 .. Len(b) : \E k \in 1 .. Len(m) : m[k] = b[i]

(* Two sequences of events, one after the other.                           *)
LEMMA JoinHas ==
    ASSUME NEW a \in Seq(Events), NEW b \in Seq(Events), NEW m, m = a \o b
    PROVE  Holds(m, a, b)
<1>1. PICK al \in Nat, bl \in Nat : al = Len(a) /\ bl = Len(b) OBVIOUS
<1>2. m \in Seq(Events) /\ Len(m) = al + bl
      /\ \A i \in 1 .. al + bl : m[i] = IF i <= al THEN a[i] ELSE b[i - al]
  BY <1>1, ConcatProperties
<1>3. ASSUME NEW k \in 1 .. Len(m)
      PROVE  (\E i \in 1 .. Len(a) : m[k] = a[i]) \/ (\E i \in 1 .. Len(b) : m[k] = b[i])
  <2>0. k \in 1 .. al + bl BY <1>2
  <2>1. CASE k <= al
    <3>1. k \in 1 .. al BY <2>0, <2>1
    <3> QED BY <1>1, <1>2, <2>0, <2>1, <3>1
  <2>2. CASE ~ (k <= al)
    <3>1. PICK i \in 1 .. bl : i = k - al BY <2>0, <2>2
    <3> QED BY <1>1, <1>2, <2>0, <2>2, <3>1
  <2> QED BY <2>1, <2>2
<1>4. ASSUME NEW i \in 1 .. Len(a) PROVE \E k \in 1 .. Len(m) : m[k] = a[i]
  <2>1. i \in 1 .. al + bl /\ i <= al BY <1>1
  <2> QED BY <1>2, <2>1
<1>5. ASSUME NEW i \in 1 .. Len(b) PROVE \E k \in 1 .. Len(m) : m[k] = b[i]
  <2>1. al + i \in 1 .. al + bl /\ ~ (al + i <= al) /\ al + i - al = i BY <1>1
  <2>2. m[al + i] = b[i] BY <1>2, <2>1
  <2> QED BY <1>2, <2>1, <2>2
<1>6. m \in Seq(Events) BY <1>2
<1> QED BY <1>3, <1>4, <1>5, <1>6 DEF Holds

(* The events of a change, one of each kind at most.                       *)
LEMMA EventsAre ==
    ASSUME KernelInv, TreeInv, NEW dir \in Dirs \cup {Top}, NEW mask \in Masks, NEW name \in Names \cup {Gone},
           NEW s, s = Event(dir, mask, name)
    PROVE  /\ s \in Seq(Events)
           /\ \A k \in 1 .. Len(s) :
                 /\ s[k].mask = mask /\ s[k].name = name /\ s[k].wd \in DOMAIN watches /\ watches[s[k].wd] = dir
           /\ Watched(dir) => /\ Len(s) = 1 /\ Known(s[1].wd) /\ Name(s[1].wd) = PathOf(dir)
<1>1. CASE Watch(dir) = {} /\ s = <<>>
  <2>1. ~ Watched(dir) BY <1>1 DEF Watched
  <2> QED BY <1>1, <2>1
<1>2. CASE \E e \in Events :
               /\ s = <<e>> /\ e.wd \in DOMAIN watches /\ watches[e.wd] = dir /\ Watch(dir) = {e.wd}
               /\ e.mask = mask /\ e.name = name
  <2>0. PICK e \in Events :
               /\ s = <<e>> /\ e.wd \in DOMAIN watches /\ watches[e.wd] = dir /\ Watch(dir) = {e.wd}
               /\ e.mask = mask /\ e.name = name
    BY <1>2
  <2>1. s \in Seq(Events) /\ Len(s) = 1 /\ s[1] = e BY <2>0
  <2>2. Watched(dir) => Known(e.wd) /\ Name(e.wd) = PathOf(dir) BY <2>0 DEF Watched, Known, Name
  <2> QED BY <2>0, <2>1, <2>2
<1> QED BY <1>1, <1>2, EventIs

(* Events that learn a further name of their directory are otherwise the   *)
(* same.                                                                   *)
LEMMA LearnIs ==
    ASSUME NEW s \in Seq(Events), NEW d, NEW new \in Seq(Names), NEW t,
           t = [i \in DOMAIN s |-> IF s[i].dir = d THEN [s[i] EXCEPT !.names = @ \cup {new}] ELSE s[i]]
    PROVE  t \in Seq(Events) /\ AllLearnt(s, t)
<1>1. PICK n \in Nat : n = Len(s) /\ DOMAIN s = 1 .. n OBVIOUS
<1>2. ASSUME NEW i \in 1 .. n PROVE t[i] \in Events /\ Learnt(s[i], t[i])
  <2>1. PICK e \in Events : e = s[i] BY <1>1
  <2>2. [e EXCEPT !.names = @ \cup {new}] \in Events BY DEF Events
  <2>3. Learnt(e, [e EXCEPT !.names = @ \cup {new}]) BY DEF Learnt, Events
  <2>4. Learnt(e, e) BY DEF Learnt
  <2> QED BY <1>1, <2>1, <2>2, <2>3, <2>4
<1>3. t \in Seq(Events) /\ Len(t) = n
  <2>1. DOMAIN t = 1 .. n /\ t = [i \in 1 .. n |-> t[i]] BY <1>1
  <2> QED BY <1>1, <1>2, <2>1
<1> QED BY <1>1, <1>2, <1>3 DEF AllLearnt

(* A directory that is renamed is said to leave, then to come, then to     *)
(* have moved: it is known under its old name until the first of these is  *)
(* handled, and is to be found under its new name by the second.           *)
LEMMA RenameKeeps ==
    ASSUME Follows, NEW d \in Dirs, NEW dir \in Dirs \cup {Top}, NEW name \in Names, Rename(d, dir, name),
           ~ outrun'
    PROVE  Follows'
<1>0. TreeInv /\ KernelInv /\ ProgressInv /\ EventsInv /\ NamesInv /\ PlacesInv /\ SeenInv /\ FilesInv
  BY DEF Follows
<1>1. PICK old, new, from, parent :
          /\ old = path[d] /\ new = Append(PathOf(dir), name) /\ from = Last(old)
          /\ parent = CHOOSE e \in At(Front(old)) : TRUE
  OBVIOUS
<1> DEFINE Learn(s) == [i \in DOMAIN s |->
               IF s[i].dir = d THEN [s[i] EXCEPT !.names = @ \cup {new}] ELSE s[i]]
<1>2. /\ Still /\ d \in Existing /\ dir \in (Existing \cup {Top}) \ ({d} \cup Below(d))
      /\ ~ Exists(new) /\ Len(new) <= MaxDepth
      /\ queue' = Learn(queue) \o Event(parent, "moved_from", from)
                      \o Event(dir, "moved_to", name) \o Event(d, "move_self", Gone)
      /\ batch' = Learn(batch)
      /\ seen' = Notices(dir, d) /\ UNCHANGED watches
  BY <1>1 DEF Rename, Change, Still
<1>3. /\ Below(d) = {} /\ ~ Reused(new) /\ (Watch(d) # {} => Watched(parent))
      /\ path' = [e \in Dirs |->
            IF e \in {d} \cup Below(d) THEN new \o SubSeq(path[e], Len(old) + 1, Len(path[e])) ELSE path[e]]
  BY <1>1 DEF Rename
<1>4. new \in Seq(Names) /\ old \in Seq(Names) /\ old # <<>> /\ d # Top /\ PathOf(d) = old
  BY <1>0, <1>1, <1>2, PathIs
<1>5. path' = [path EXCEPT ![d] = new]
  <2>1. new \o SubSeq(path[d], Len(old) + 1, Len(path[d])) = new BY <1>1, <1>4
  <2>2. path \in [Dirs -> Paths \cup {Gone}] BY <1>0 DEF TreeInv
  <2> QED BY <1>3, <2>1, <2>2
<1>6. /\ TreeInv' /\ Existing' = Existing /\ PathOf(d)' = new
      /\ \A e \in Existing \cup {Top} : e # d => PathOf(e)' = PathOf(e)
  <2>1. dir # d BY <1>2
  <2>2. Existing \cup {d} = Existing BY <1>2
  <2> QED BY <1>0, <1>1, <1>2, <1>3, <1>5, <2>1, <2>2, TreeGrows
<1>7. from \in Names /\ old = Append(Front(old), from) /\ Front(old) \in Seq(Names)
  BY <1>1, <1>4 DEF Last, Front
<1>8. parent \in Existing \cup {Top} /\ PathOf(parent) = Front(old) /\ parent # d
  <2>1. PICK g \in Existing \cup {Top} : PathOf(g) = Front(old)
    BY <1>0, <1>1, <1>2, <1>7, ParentIs
  <2>2. Exists(Front(old)) BY <1>0, <2>1, PathIs
  <2>3. parent \in Existing \cup {Top} /\ PathOf(parent) = Front(old)
    BY <1>0, <1>1, <1>7, <2>2, AtIs
  <2>4. old # Front(old) BY <1>4 DEF Front
  <2> QED BY <1>4, <2>3, <2>4
<1>9. PICK a, b, c : /\ a = Event(parent, "moved_from", from) /\ b = Event(dir, "moved_to", name)
                     /\ c = Event(d, "move_self", Gone)
  OBVIOUS
<1>10. /\ a \in Seq(Events)
       /\ \A k \in 1 .. Len(a) : /\ a[k].mask = "moved_from" /\ a[k].name = from
                                 /\ a[k].wd \in DOMAIN watches /\ watches[a[k].wd] = parent
       /\ Watched(parent) => Len(a) = 1 /\ Known(a[1].wd) /\ Name(a[1].wd) = PathOf(parent)
  <2>1. "moved_from" \in Masks /\ parent \in Dirs \cup {Top} BY <1>8 DEF Masks, Existing
  <2> QED BY <1>0, <1>7, <1>9, <2>1, EventsAre
<1>11. /\ b \in Seq(Events)
       /\ \A k \in 1 .. Len(b) : b[k].mask = "moved_to" /\ b[k].name = name /\ b[k].wd \in DOMAIN watches
       /\ Watched(dir) => Len(b) = 1 /\ Known(b[1].wd) /\ Name(b[1].wd) = PathOf(dir)
  <2>1. "moved_to" \in Masks BY DEF Masks
  <2> QED BY <1>0, <1>9, <2>1, EventsAre
<1>12. /\ c \in Seq(Events)
       /\ \A k \in 1 .. Len(c) : c[k].mask = "move_self" /\ c[k].wd \in DOMAIN watches /\ watches[c[k].wd] = d
  <2>1. "move_self" \in Masks BY DEF Masks
  <2> QED BY <1>0, <1>9, <2>1, EventsAre
<1>13. PICK more : more = (a \o b) \o c OBVIOUS
<1>14. /\ more \in Seq(Events)
       /\ \A k \in 1 .. Len(more) : \/ \E i \in 1 .. Len(a) : more[k] = a[i]
                                    \/ \E i \in 1 .. Len(b) : more[k] = b[i]
                                    \/ \E i \in 1 .. Len(c) : more[k] = c[i]
       /\ \A i \in 1 .. Len(a) : \E k \in 1 .. Len(more) : more[k] = a[i]
       /\ \A i \in 1 .. Len(b) : \E k \in 1 .. Len(more) : more[k] = b[i]
  <2>1. PICK ab : ab = a \o b OBVIOUS
  <2>2. Holds(ab, a, b) BY <1>10, <1>11, <2>1, JoinHas
  <2>3. Holds(more, ab, c)
    <3>1. ab \in Seq(Events) /\ c \in Seq(Events) BY <1>12, <2>2 DEF Holds
    <3>2. more = ab \o c BY <1>13, <2>1
    <3> QED BY <3>1, <3>2, JoinHas
  <2>4. ASSUME NEW i \in 1 .. Len(a) PROVE \E k \in 1 .. Len(more) : more[k] = a[i]
    <3>1. PICK j \in 1 .. Len(ab) : ab[j] = a[i] BY <2>2 DEF Holds
    <3> QED BY <2>3, <3>1 DEF Holds
  <2>5. ASSUME NEW i \in 1 .. Len(b) PROVE \E k \in 1 .. Len(more) : more[k] = b[i]
    <3>1. PICK j \in 1 .. Len(ab) : ab[j] = b[i] BY <2>2 DEF Holds
    <3> QED BY <2>3, <3>1 DEF Holds
  <2>6. ASSUME NEW k \in 1 .. Len(more)
        PROVE  \/ \E i \in 1 .. Len(a) : more[k] = a[i]
               \/ \E i \in 1 .. Len(b) : more[k] = b[i]
               \/ \E i \in 1 .. Len(c) : more[k] = c[i]
    <3>1. CASE \E i \in 1 .. Len(c) : more[k] = c[i] BY <3>1
    <3>2. CASE \E i \in 1 .. Len(ab) : more[k] = ab[i]
      <4>1. PICK i \in 1 .. Len(ab) : more[k] = ab[i] BY <3>2
      <4>2. (\E j \in 1 .. Len(a) : ab[i] = a[j]) \/ (\E j \in 1 .. Len(b) : ab[i] = b[j]) BY <2>2 DEF Holds
      <4> QED BY <4>1, <4>2
    <3> QED BY <2>3, <3>1, <3>2 DEF Holds
  <2> QED BY <2>3, <2>4, <2>5, <2>6 DEF Holds
<1>15. Longer(more)
  <2>1. PICK q, bb : q = Learn(queue) /\ bb = Learn(batch) OBVIOUS
  <2>2. q \in Seq(Events) /\ bb \in Seq(Events) /\ AllLearnt(queue, q) /\ AllLearnt(batch, bb)
    BY <1>0, <1>4, <2>1, LearnIs DEF EventsInv
  <2>3. ((q \o a) \o b) \o c = q \o ((a \o b) \o c)
    <3>1. (q \o a) \o b = q \o (a \o b) BY <1>10, <1>11, <2>2, ConcatAssociative
    <3>2. a \o b \in Seq(Events) BY <1>10, <1>11, ConcatProperties
    <3>3. PICK ab \in Seq(Events) : ab = a \o b BY <3>2
    <3>4. c \in Seq(Events) /\ q \in Seq(Events) BY <1>12, <2>2
    <3>5. (q \o ab) \o c = q \o (ab \o c) BY <3>4, ConcatAssociative
    <3> QED BY <3>1, <3>3, <3>5
  <2>4. queue' = q \o more /\ batch' = bb BY <1>2, <1>9, <1>13, <2>1, <2>3
  <2> HIDE DEF Learn
  <2> QED BY <1>0, <1>14, <2>2, <2>4, LongerIs
<1> HIDE DEF Learn
<1>16. KernelInv'
  <2>1. \A wd \in DOMAIN watches : watches[wd] \in Existing' \cup {Top} BY <1>0, <1>6 DEF KernelInv
  <2>2. watches = [wd \in DOMAIN watches |-> watches[wd]] BY <1>0 DEF KernelInv
  <2> QED BY <1>0, <1>2, <2>1, <2>2, WatchesShrink
<1>17. seen' \subseteq seen \cup {d} /\ (d \in seen' => Watched(dir))
  BY <1>2 DEF Notices
<1>18. ASSUME NEW k \in 1 .. Len(more) PROVE SoundEvent(more[k])
  <2>1. ASSUME NEW i \in 1 .. Len(a), more[k] = a[i] PROVE SoundEvent(more[k])
    BY <1>0, <1>7, <1>10, <2>1 DEF SoundEvent, KernelInv
  <2>2. ASSUME NEW i \in 1 .. Len(b), more[k] = b[i] PROVE SoundEvent(more[k])
    BY <1>0, <1>11, <2>2 DEF SoundEvent, KernelInv
  <2>3. ASSUME NEW i \in 1 .. Len(c), more[k] = c[i] PROVE SoundEvent(more[k])
    BY <1>0, <1>12, <2>3 DEF SoundEvent, KernelInv, NamesInv
  <2> QED BY <1>14, <2>1, <2>2, <2>3
<1>19. ChangeOf({d}, more)
  BY <1>0, <1>2, <1>6, <1>15, <1>16, <1>17, <1>18 DEF ChangeOf, SeenInv
<1>20. \A f \in Existing : path[f] # new /\ (path[f] = old => f = d)
  <2>1. \A f \in Existing : path[f] # new BY <1>2 DEF Exists, At, Existing
  <2> QED BY <1>0, <1>1, <1>2, <2>1 DEF TreeInv
<1>21. ASSUME NEW f \in Existing' \cup {Top}
       PROVE  \/ f = d /\ PathOf(f)' = new
              \/ f \in Existing /\ f # d /\ PathOf(f)' = path[f] /\ PathOf(f) = path[f]
              \/ f = Top /\ PathOf(f)' = <<>>
  <2>1. CASE f = d BY <1>6, <2>1
  <2>2. CASE f = Top BY <2>2 DEF PathOf
  <2>3. CASE f # d /\ f # Top
    <3>1. f \in Existing BY <1>6, <2>3
    <3> QED BY <1>0, <1>6, <2>3, <3>1, PathIs
  <2> QED BY <2>1, <2>2, <2>3
<1>22. ASSUME NEW k \in 1 .. Len(more), NEW f \in Existing' \cup {Top}
       PROVE  ~ GivesUp(more[k], PathOf(f)')
  <2>0. PICK p : p = PathOf(f)' OBVIOUS
  <2>1. ASSUME NEW i \in 1 .. Len(a), more[k] = a[i] PROVE ~ GivesUp(more[k], p)
    <3>1. PICK wd \in DOMAIN watches : wd = a[i].wd /\ watches[wd] = parent BY <1>10
    <3>2. SUFFICES ASSUME p = Append(Name(wd), from) PROVE FALSE
      BY <1>10, <2>1, <3>1 DEF GivesUp, Name
    <3>3. Name(wd) \in Seq(Names) BY <1>0 DEF KernelInv, Name
    <3>4. p # <<>> BY <3>2, <3>3
    <3>5. CASE Name(wd) = PathOf(parent)
      <4>1. p = old BY <1>7, <1>8, <3>2, <3>5
      <4>2. old # new BY <1>1, <1>2, <1>20
      <4> QED BY <1>20, <1>21, <2>0, <3>4, <4>1, <4>2
    <3>6. CASE Leaves(wd, Len(Waiting))
      <4>1. \A g \in Existing \cup {Top} : Name(wd) # PathOf(g) BY <1>0, <3>6, LeftIsNobodys
      <4>2. CASE p = new
        <5>1. Name(wd) = PathOf(dir)
          <6>1. PathOf(dir) \in Seq(Names) BY <1>0, <1>2, PathIs
          <6>2. Front(new) = PathOf(dir) BY <1>1, <6>1, FrontAppended
          <6>3. Front(Append(Name(wd), from)) = Name(wd) BY <1>7, <3>3, FrontAppended
          <6> QED BY <3>2, <4>2, <6>2, <6>3
        <5> QED BY <1>2, <4>1, <5>1
      <4>3. ASSUME f \in Existing, p = path[f] PROVE FALSE
        BY <1>0, <3>2, <3>3, <4>1, <4>3, ParentIs
      <4> QED BY <1>21, <2>0, <3>4, <4>2, <4>3
    <3> QED BY <1>0, <3>1, <3>5, <3>6 DEF PlacesInv
  <2>2. ASSUME NEW i \in 1 .. Len(b), more[k] = b[i] PROVE ~ GivesUp(more[k], p)
    BY <1>11, <2>2 DEF GivesUp
  <2>3. ASSUME NEW i \in 1 .. Len(c), more[k] = c[i] PROVE ~ GivesUp(more[k], p)
    <3>1. PICK wd \in DOMAIN watches : wd = c[i].wd /\ watches[wd] = d BY <1>12
    <3>2. SUFFICES ASSUME p = Name(wd) PROVE FALSE
      BY <1>12, <2>3, <3>1 DEF GivesUp, Name
    <3>3. CASE Name(wd) = PathOf(d)
      <4>1. p = old BY <1>4, <3>2, <3>3
      <4>2. old # new BY <1>1, <1>2, <1>20
      <4> QED BY <1>4, <1>20, <1>21, <2>0, <4>1, <4>2
    <3>4. CASE Leaves(wd, Len(Waiting))
      <4>1. \A g \in Existing \cup {Top} : Name(wd) # PathOf(g) BY <1>0, <3>4, LeftIsNobodys
      <4>2. CASE p = new
        <5>1. PICK j \in 1 .. Len(Waiting) : GivesUp(Waiting[j], Name(wd)) BY <3>4 DEF Leaves
        <5>2. Waiting[j] \in Outstanding BY <1>0, WaitingIs
        <5> QED BY <1>3, <3>2, <4>2, <5>1, <5>2 DEF Reused
      <4>3. CASE f \in Existing /\ PathOf(f) = p BY <3>2, <4>1, <4>3
      <4>4. CASE p = <<>>
        <5>1. PathOf(Top) = <<>> BY DEF PathOf
        <5> QED BY <3>2, <4>1, <4>4, <5>1
      <4> QED BY <1>21, <2>0, <4>2, <4>3, <4>4
    <3> QED BY <1>0, <3>1, <3>3, <3>4 DEF PlacesInv
  <2> QED BY <1>14, <2>0, <2>1, <2>2, <2>3
<1>23. \A k \in 1 .. Len(more), i \in Nat :
           more[k].mask = "file" /\ i = Len(Waiting) + k => ReportInv(i)'
  <2>1. \A k \in 1 .. Len(more) : more[k].mask # "file" BY <1>10, <1>11, <1>12, <1>14
  <2> QED BY <2>1
<1>24. ASSUME NEW wd \in DOMAIN watches', watches[wd] \in {d}
       PROVE  \/ Leaves(wd, Len(Waiting))
              \/ \E k \in 1 .. Len(more), g \in Existing' \cup {Top} :
                    /\ more[k].mask = "moved_from" /\ GivesUp(more[k], Name(wd))
                    /\ Name(more[k].wd) = PathOf(g)'
  <2>0. wd \in DOMAIN watches /\ watches[wd] = d BY <1>2, <1>24
  <2>1. CASE Name(wd) = PathOf(d)
    <3>1. Watched(parent) BY <1>3, <2>0 DEF Watch
    <3>2. 1 \in 1 .. Len(a) /\ Known(a[1].wd) /\ Name(a[1].wd) = PathOf(parent)
      <4>1. Len(a) = 1 /\ Known(a[1].wd) /\ Name(a[1].wd) = PathOf(parent) BY <1>10, <3>1
      <4> QED BY <4>1
    <3>3. GivesUp(a[1], Name(wd)) BY <1>4, <1>7, <1>8, <1>10, <2>1, <3>2 DEF GivesUp, Name
    <3>4. PICK k \in 1 .. Len(more) : more[k] = a[1] BY <1>14, <3>2
    <3>5. parent \in Existing' \cup {Top} /\ PathOf(parent)' = PathOf(parent) BY <1>6, <1>8
    <3> QED BY <1>10, <3>2, <3>3, <3>4, <3>5
  <2> QED BY <1>0, <2>0, <2>1 DEF PlacesInv
<1>25. ASSUME NEW e \in {d} \cap seen'
       PROVE  \E k \in 1 .. Len(more), g \in Existing' \cup {Top} :
               /\ more[k].mask \in {"create", "moved_to"} /\ Known(more[k].wd)
               /\ Name(more[k].wd) = PathOf(g)' /\ Append(PathOf(g)', more[k].name) = path'[e]
  <2>1. dir \in Existing' \cup {Top} /\ PathOf(dir)' = PathOf(dir) BY <1>2, <1>6
  <2>2. path'[d] = new BY <1>4, <1>6 DEF PathOf
  <2>3. 1 \in 1 .. Len(b) /\ Known(b[1].wd) /\ Name(b[1].wd) = PathOf(dir)
    <3>1. Watched(dir) BY <1>17
    <3>2. Len(b) = 1 /\ Known(b[1].wd) /\ Name(b[1].wd) = PathOf(dir) BY <1>11, <3>1
    <3> QED BY <3>2
  <2>4. PICK k \in 1 .. Len(more) : more[k] = b[1] BY <1>14, <2>3
  <2> QED BY <1>1, <1>11, <2>1, <2>2, <2>3, <2>4
<1>26. \A f \in {d} \cap Existing' : ~ Reused(PathOf(f)')
  BY <1>3, <1>6
<1>27. {d} \in SUBSET Dirs OBVIOUS
<1>28. \A k \in 1 .. Len(more) : \A f \in Existing' \cup {Top} : ~ GivesUp(more[k], PathOf(f)')
  BY <1>22
<1>29. LeaveBy({d}, more) BY <1>24 DEF LeaveBy
<1>30. EnterBy({d}, more) BY <1>25 DEF EnterBy
<1> QED BY <1>19, <1>23, <1>26, <1>27, <1>28, <1>29, <1>30, OthersKeep

(* The first z events, one or none, have been handled.                     *)
Handled(z) ==
    /\ z \in {0, 1} /\ queue' \in Seq(Events) /\ batch' \in Seq(Events)
    /\ Len(Waiting') \in Nat /\ Len(Waiting') + z = Len(Waiting)
    /\ \A i \in 1 .. Len(Waiting') : Waiting'[i] = Waiting[i + z]

(* The handled event makes the thread give up the name.                    *)
GivenUp(z, p) == z = 1 /\ GivesUp(Waiting[1], p)

(* The maps and the watches change by this event only, and for paths that  *)
(* exist; what is watched is in the maps.                                  *)
MapsChange(z) ==
    /\ UNCHANGED <<path, self_isdir>> /\ last_wd' >= last_wd
    /\ \A p \in DOMAIN m_directory_description_map' : Name(m_directory_description_map[p])' = p
    /\ \A wd \in DOMAIN watches' :
          /\ Name(wd)' \in DOMAIN m_directory_description_map'
          /\ m_directory_description_map'[Name(wd)'] = wd
    /\ \A wd \in 1 .. last_wd :
          /\ Known(wd)' => Known(wd) /\ Name(wd)' = Name(wd)
          /\ Known(wd) => Known(wd)' \/ GivenUp(z, Name(wd))
    /\ \A p \in DOMAIN m_directory_description_map :
          /\ \A wd : GivenUp(z, p) /\ m_directory_description_map[p] = wd => ~ Known(wd)'
          /\ \/ GivenUp(z, p)
             \/ \E d \in Existing \cup {Top} : p = PathOf(d)
             \/ /\ p \in DOMAIN m_directory_description_map'
                /\ m_directory_description_map'[p] = m_directory_description_map[p]
    /\ \A wd \in DOMAIN watches' :
          \/ wd \in DOMAIN watches /\ watches'[wd] = watches[wd]
          \/ Name(wd)' = PathOf(watches'[wd])
    /\ \A wd \in DOMAIN watches :
          \/ wd \in DOMAIN watches' /\ watches'[wd] = watches[wd]
          \/ GivenUp(z, Name(wd))

(* What was coming, or entered by the handled event, is watched now.       *)
SeenChange(z) ==
    /\ seen' \subseteq Existing
    /\ \A d \in seen' : \/ d \in seen /\ ~ Coming(d) /\ ~ (z = 1 /\ EnteredBy(d, 1))
                        \/ (Watched(d) \/ Coming(d))'

(* When an event has been handled, those after it make the thread give up  *)
(* no more than before; a descriptor that none of them disturbed is known  *)
(* under the same name.                                                    *)
LEMMA HandledIs ==
    ASSUME Follows, NEW z, Handled(z), MapsChange(z)
    PROVE  /\ \A i \in 1 .. Len(Waiting') : /\ i + z \in 1 .. Len(Waiting) /\ Waiting'[i] = Waiting[i + z]
                                           /\ Waiting[i + z].wd \in 1 .. last_wd
           /\ \A i \in 1 .. Len(Waiting') : \A p : GivesUp(Waiting[i], p)' => GivesUp(Waiting[i + z], p)
           /\ \A wd \in 1 .. last_wd : \A n \in 1 .. Len(Waiting') + 1 :
                 Known(wd) /\ Undisturbed(wd, n + z) => Known(wd)' /\ Name(wd)' = Name(wd) /\ Undisturbed(wd, n)'
<1>0. TreeInv /\ KernelInv /\ ProgressInv /\ EventsInv /\ NamesInv /\ PlacesInv /\ SeenInv /\ FilesInv
  BY DEF Follows
<1>1. PICK l \in Nat : l = Len(Waiting') BY DEF Handled
<1>2. z \in {0, 1} /\ Len(Waiting) = l + z BY <1>1 DEF Handled
<1>3. ASSUME NEW i \in 1 .. l
      PROVE  i + z \in 1 .. Len(Waiting) /\ Waiting'[i] = Waiting[i + z] /\ Waiting[i + z].wd \in 1 .. last_wd
  <2>1. i + z \in 1 .. Len(Waiting) BY <1>2
  <2> QED BY <1>0, <1>1, <2>1 DEF EventsInv, Handled
<1>4. ASSUME NEW i \in 1 .. l, NEW p PROVE GivesUp(Waiting[i], p)' => GivesUp(Waiting[i + z], p)
  <2>1. PICK wd \in 1 .. last_wd : wd = Waiting[i + z].wd BY <1>3
  <2>2. Known(wd)' => Known(wd) /\ Name(wd)' = Name(wd) BY DEF MapsChange
  <2> QED BY <1>3, <2>1, <2>2 DEF GivesUp, MapsChange, Name
<1>5. ASSUME NEW wd \in 1 .. last_wd, NEW n \in 1 .. l + 1, Known(wd), Undisturbed(wd, n + z)
      PROVE  Known(wd)' /\ Name(wd)' = Name(wd) /\ Undisturbed(wd, n)'
  <2>1. ~ GivenUp(z, Name(wd))
    <3>1. z = 1 => 1 \in 1 .. (n + z) - 1 OBVIOUS
    <3> QED BY <1>5, <3>1 DEF Undisturbed, GivenUp
  <2>2. Known(wd)' /\ Name(wd)' = Name(wd) BY <1>5, <2>1 DEF MapsChange
  <2>3. ASSUME NEW j \in 1 .. n - 1 PROVE ~ GivesUp(Waiting[j], Name(wd))'
    <3>1. j \in 1 .. l /\ j + z \in 1 .. (n + z) - 1 BY <1>2
    <3>2. ~ GivesUp(Waiting[j + z], Name(wd)) BY <1>5, <3>1 DEF Undisturbed
    <3>3. PICK q : q = Name(wd) OBVIOUS
    <3>4. ~ GivesUp(Waiting[j], q)' BY <1>4, <3>1, <3>2, <3>3
    <3> QED BY <2>2, <3>3, <3>4
  <2>4. Undisturbed(wd, n)' BY <2>3 DEF Undisturbed
  <2> QED BY <2>2, <2>4
<1> QED BY <1>1, <1>3, <1>4, <1>5

(* What one of the events says of a directory that leaves, it says still   *)
(* when the first event has been handled and was not the one.              *)
LEMMA LeavesLater ==
    ASSUME Follows, NEW z, Handled(z), MapsChange(z), NEW wd \in 1 .. last_wd, Known(wd)',
           NEW n \in Nat, NEW m \in Nat, m = n + z, m <= Len(Waiting), Leaves(wd, m), ~ GivenUp(z, Name(wd))
    PROVE  Leaves(wd, n)'
<1>0. TreeInv /\ KernelInv /\ ProgressInv /\ EventsInv /\ NamesInv /\ PlacesInv /\ SeenInv /\ FilesInv
  BY DEF Follows
<1>1. PICK l \in Nat : l = Len(Waiting') BY DEF Handled
<1>2. z \in {0, 1} /\ Len(Waiting) = l + z BY <1>1 DEF Handled
<1>3. PICK k \in 1 .. m : /\ Waiting[k].mask = "moved_from" /\ GivesUp(Waiting[k], Name(wd))
                          /\ Undisturbed(Waiting[k].wd, k)
  BY DEF Leaves
<1>4. ~ (z = 1 /\ k = 1) BY <1>3 DEF GivenUp
<1>5. PICK i \in 1 .. n : k = i + z
  <2>1. k - z \in 1 .. n /\ k = (k - z) + z BY <1>2, <1>4
  <2> QED BY <2>1
<1>6. i \in 1 .. l /\ i \in 1 .. l + 1 BY <1>2
<1>7. PICK w \in 1 .. last_wd : w = Waiting[k].wd BY <1>1, <1>5, <1>6, HandledIs
<1>8. Waiting'[i] = Waiting[k] BY <1>1, <1>5, <1>6, HandledIs
<1>9. Known(w) BY <1>3, <1>7 DEF GivesUp
<1>10. Known(w)' /\ Name(w)' = Name(w) /\ Undisturbed(w, i)'
  BY <1>1, <1>3, <1>5, <1>6, <1>7, <1>9, HandledIs
<1>11. Name(wd)' = Name(wd) BY DEF MapsChange
<1>12. GivesUp(Waiting[i], Name(wd))'
  BY <1>3, <1>7, <1>8, <1>10, <1>11 DEF GivesUp, Name, MapsChange
<1>13. Undisturbed(Waiting[i].wd, i)' BY <1>7, <1>8, <1>10
<1> QED BY <1>3, <1>8, <1>12, <1>13 DEF Leaves

(* A step of the thread or of init() keeps the invariant if it changes the *)
(* maps as the handled event says.                                         *)
LEMMA MapsKeep ==
    ASSUME Follows, NEW z, Handled(z), MapsChange(z), SeenChange(z), KernelInv', ProgressInv'
    PROVE  Follows'
<1>0. TreeInv /\ KernelInv /\ ProgressInv /\ EventsInv /\ NamesInv /\ PlacesInv /\ SeenInv /\ FilesInv
  BY DEF Follows
<1>1. PICK l \in Nat : l = Len(Waiting') BY DEF Handled
<1>2. z \in {0, 1} /\ Len(Waiting) = l + z BY <1>1 DEF Handled
<1>3. TreeInv' /\ Existing' = Existing /\ \A d : PathOf(d)' = PathOf(d)
  BY <1>0 DEF TreeInv, Existing, PathOf, MapsChange
<1>4. ASSUME NEW i \in 1 .. l
      PROVE  /\ i + z \in 1 .. Len(Waiting) /\ Waiting'[i] = Waiting[i + z]
             /\ Waiting[i + z].wd \in 1 .. last_wd
  BY <1>1, HandledIs
<1>5. EventsInv'
  <2>1. ASSUME NEW i \in 1 .. l
        PROVE  /\ Waiting'[i].wd \in 1 .. last_wd'
               /\ Waiting'[i].mask \in {"moved_from", "moved_to", "create"} => Waiting'[i].name \in Names
    <3>1. Waiting'[i].wd \in 1 .. last_wd BY <1>4
    <3>2. Waiting'[i].wd \in 1 .. last_wd'
      <4>1. last_wd' >= last_wd /\ last_wd' \in Int /\ last_wd \in Int BY <1>0 DEF MapsChange, KernelInv
      <4> QED BY <3>1, <4>1
    <3> QED BY <1>0, <1>4, <3>2 DEF EventsInv
  <2> QED BY <1>1, <2>1 DEF EventsInv, Handled
<1>6. NamesInv'
  <2>1. ASSUME NEW i \in 1 .. l, NEW d \in Existing' \cup {Top} PROVE ~ GivesUp(Waiting[i], PathOf(d))'
    <3>1. PICK q : q = PathOf(d) OBVIOUS
    <3>2. ~ GivesUp(Waiting[i + z], q) BY <1>0, <1>3, <1>4, <3>1 DEF NamesInv
    <3>3. ~ GivesUp(Waiting[i], q)' BY <1>1, <3>2, HandledIs
    <3> QED BY <1>3, <3>1, <3>3
  <2>2. ASSUME NEW i \in 1 .. l, self_isdir', Known(Waiting[i].wd)',
               Waiting'[i].mask \in {"delete_self", "move_self"}
        PROVE  /\ Name(Waiting[i].wd)' \in DOMAIN m_directory_description_map'
               /\ m_directory_description_map'[Name(Waiting[i].wd)'] = Waiting'[i].wd
    <3>1. PICK wd \in 1 .. last_wd : wd = Waiting[i + z].wd /\ wd = Waiting'[i].wd BY <1>4
    <3>2. Known(wd)' /\ Known(wd) /\ Name(wd)' = Name(wd) BY <2>2, <3>1 DEF MapsChange
    <3>3. self_isdir /\ Waiting[i + z].mask \in {"delete_self", "move_self"}
      BY <1>4, <2>2 DEF MapsChange
    <3>4. /\ Name(wd) \in DOMAIN m_directory_description_map
          /\ m_directory_description_map[Name(wd)] = wd
      BY <1>0, <1>4, <3>1, <3>2, <3>3 DEF NamesInv
    <3>5. ~ GivenUp(z, Name(wd)) BY <3>2, <3>4 DEF MapsChange
    <3>6. GivesUp(Waiting[i + z], Name(wd)) BY <3>1, <3>2, <3>3 DEF GivesUp, Name
    <3>7. \A d \in Existing \cup {Top} : Name(wd) # PathOf(d) BY <1>0, <1>4, <3>6 DEF NamesInv
    <3>8. /\ Name(wd) \in DOMAIN m_directory_description_map'
          /\ m_directory_description_map'[Name(wd)] = wd
      BY <3>4, <3>5, <3>7 DEF MapsChange
    <3> QED BY <3>1, <3>2, <3>8
  <2>3. /\ \A p \in DOMAIN m_directory_description_map' : Name(m_directory_description_map[p])' = p
        /\ \A wd \in DOMAIN watches' : /\ Name(wd)' \in DOMAIN m_directory_description_map'
                                       /\ m_directory_description_map'[Name(wd)'] = wd
    BY DEF MapsChange
  <2> QED BY <1>1, <2>1, <2>2, <2>3 DEF NamesInv
<1>7. PlacesInv'
  <2> SUFFICES ASSUME NEW wd \in DOMAIN watches'
               PROVE  Name(wd)' = PathOf(watches[wd])' \/ Leaves(wd, Len(Waiting))'
    BY DEF PlacesInv
  <2>1. PICK d : d = watches'[wd] OBVIOUS
  <2>2. CASE wd \in DOMAIN watches /\ watches[wd] = d
    <3>1. wd \in 1 .. last_wd BY <1>0, <2>2 DEF KernelInv
    <3>2. Known(wd)' BY DEF Known, KernelInv
    <3>3. Name(wd)' = Name(wd) BY <3>1, <3>2 DEF MapsChange
    <3>4. CASE Name(wd) = PathOf(d) BY <1>3, <2>1, <3>3, <3>4
    <3>5. CASE Leaves(wd, Len(Waiting))
      <4>1. ~ GivenUp(z, Name(wd)) BY <1>0, <2>2, <3>2 DEF NamesInv, MapsChange
      <4>2. Leaves(wd, l)'
        <5>1. PICK m \in Nat : m = l + z /\ m <= Len(Waiting) /\ m = Len(Waiting) BY <1>2
        <5> QED BY <3>1, <3>2, <3>5, <4>1, <5>1, LeavesLater
      <4> QED BY <1>1, <4>2
    <3> QED BY <1>0, <2>2, <3>4, <3>5 DEF PlacesInv
  <2>3. CASE Name(wd)' = PathOf(d) BY <1>3, <2>1, <2>3
  <2> QED BY <2>1, <2>2, <2>3 DEF MapsChange
<1>8. SeenInv'
  <2> SUFFICES ASSUME NEW d \in seen' PROVE (Watched(d) \/ Enters(d) \/ Coming(d))'
    BY <1>3 DEF SeenInv, SeenChange
  <2>1. CASE d \in seen /\ ~ Coming(d) /\ ~ (z = 1 /\ EnteredBy(d, 1))
    <3>0. d \in Existing BY <1>0, <2>1 DEF SeenInv
    <3>1. CASE Watched(d)
      <4>1. PICK wd \in DOMAIN watches : watches[wd] = d /\ Name(wd) = PathOf(d) /\ Known(wd)
        BY <3>1 DEF Watched, Watch, Name, Known
      <4>2. ~ GivenUp(z, Name(wd))
        <5>1. z = 1 => 1 \in 1 .. Len(Waiting) BY <1>2
        <5> QED BY <1>0, <3>0, <4>1, <5>1 DEF NamesInv, GivenUp
      <4>3. wd \in DOMAIN watches' /\ watches'[wd] = d BY <4>1, <4>2 DEF MapsChange
      <4>4. wd \in 1 .. last_wd BY <1>0, <4>1 DEF KernelInv
      <4>5. Known(wd)' /\ Name(wd)' = Name(wd) BY <4>1, <4>2, <4>4 DEF MapsChange
      <4>6. Watched(d)' BY <1>3, <4>1, <4>3, <4>5 DEF Watched, Watch, Known, Name
      <4> QED BY <4>6
    <3>2. CASE Enters(d)
      <4>1. PICK k \in 1 .. Len(Waiting) : EnteredBy(d, k) BY <3>2 DEF Enters
      <4>2. ~ (z = 1 /\ k = 1) BY <2>1, <4>1
      <4>3. PICK i \in 1 .. l : k = i + z
        <5>1. k - z \in 1 .. l /\ k = (k - z) + z BY <1>2, <4>2
        <5> QED BY <5>1
      <4>4. PICK wd \in 1 .. last_wd : wd = Waiting[k].wd /\ wd = Waiting'[i].wd BY <1>4, <4>3
      <4>5. Known(wd) /\ Undisturbed(wd, i + z) BY <4>1, <4>3, <4>4 DEF EnteredBy
      <4>6. i \in 1 .. l + 1 OBVIOUS
      <4>7. Known(wd)' /\ Name(wd)' = Name(wd) /\ Undisturbed(wd, i)' BY <1>1, <4>5, <4>6, HandledIs
      <4>8. Waiting'[i] = Waiting[k] /\ path' = path BY <1>4, <4>3 DEF MapsChange
      <4>9. EnteredBy(d, i)' BY <4>1, <4>4, <4>7, <4>8 DEF EnteredBy
      <4> QED BY <1>1, <4>9 DEF Enters
    <3> QED BY <1>0, <2>1, <3>1, <3>2 DEF SeenInv
  <2>2. CASE (Watched(d) \/ Coming(d))' BY <2>2
  <2> QED BY <2>1, <2>2 DEF SeenChange
<1>9. FilesInv'
  <2> SUFFICES ASSUME NEW i \in 1 .. l, Waiting'[i].mask = "file" PROVE ReportInv(i)'
    BY <1>1 DEF FilesInv
  <2>1. PICK wd \in 1 .. last_wd : wd = Waiting[i + z].wd /\ wd = Waiting'[i].wd BY <1>4
  <2>2. ReportInv(i + z) BY <1>0, <1>4 DEF FilesInv
  <2>3. ASSUME Known(wd)'
        PROVE  \/ Name(wd)' \in Waiting'[i].names
               \/ /\ Leaves(wd, i - 1)'
                  /\ Name(wd)' \in DOMAIN m_directory_description_map'
                  /\ m_directory_description_map'[Name(wd)'] = wd
    <3>1. Known(wd) /\ Name(wd)' = Name(wd) BY <2>3 DEF MapsChange
    <3>2. CASE Name(wd) \in Waiting[i + z].names BY <1>4, <3>1, <3>2
    <3>3. CASE /\ Leaves(wd, (i + z) - 1)
               /\ Name(wd) \in DOMAIN m_directory_description_map
               /\ m_directory_description_map[Name(wd)] = wd
      <4>1. ~ GivenUp(z, Name(wd)) BY <2>3, <3>3 DEF MapsChange
      <4>2. PICK n \in Nat, m \in Nat : n = i - 1 /\ m = n + z /\ m <= Len(Waiting) /\ m = (i + z) - 1
        BY <1>2
      <4>3. Leaves(wd, m) BY <3>3, <4>2
      <4>4. Leaves(wd, n)' BY <2>3, <4>1, <4>2, <4>3, LeavesLater
      <4>5. Leaves(wd, Len(Waiting))
        <5>1. \A k \in 1 .. m : k \in 1 .. Len(Waiting) BY <1>2, <4>2
        <5> QED BY <4>3, <5>1 DEF Leaves
      <4>6. \A d \in Existing \cup {Top} : Name(wd) # PathOf(d) BY <1>0, <4>5, LeftIsNobodys
      <4>7. /\ Name(wd) \in DOMAIN m_directory_description_map'
            /\ m_directory_description_map'[Name(wd)] = wd
        BY <3>3, <4>1, <4>6 DEF MapsChange
      <4> QED BY <3>1, <4>2, <4>4, <4>7
    <3> QED BY <2>1, <2>2, <3>1, <3>2, <3>3 DEF ReportInv
  <2>4. ASSUME Waiting'[i].known PROVE Known(wd)' /\ Undisturbed(wd, i)'
    <3>1. Known(wd) /\ Undisturbed(wd, i + z) BY <1>4, <2>1, <2>2, <2>4 DEF ReportInv
    <3>2. i \in 1 .. l + 1 OBVIOUS
    <3> QED BY <1>1, <3>1, <3>2, HandledIs
  <2> QED BY <2>1, <2>3, <2>4 DEF ReportInv
<1> QED BY <1>3, <1>5, <1>6, <1>7, <1>8, <1>9 DEF Follows

(* The event taken from the batch was the first of those that wait.        *)
LEMMA EventHandled ==
    ASSUME EventsInv, batch # <<>>, batch' = Tail(batch), queue' = queue
    PROVE  Handled(1) /\ Waiting[1] = Head(batch) /\ 1 \in 1 .. Len(Waiting)
<1>1. queue \in Seq(Events) /\ batch \in Seq(Events) BY DEF EventsInv
<1>2. PICK bl \in Nat, ql \in Nat : bl = Len(batch) /\ ql = Len(queue) BY <1>1
<1>3. bl >= 1 BY <1>1, <1>2
<1>4. /\ Len(Waiting) = bl + ql
      /\ \A i \in 1 .. bl + ql : Waiting[i] = IF i <= bl THEN batch[i] ELSE queue[i - bl]
  BY <1>1, <1>2, ConcatProperties DEF Waiting
<1>5. PICK t : t = batch' OBVIOUS
<1>6. t \in Seq(Events) /\ Len(t) = bl - 1 /\ \A i \in 1 .. bl - 1 : t[i] = batch[i + 1]
  BY <1>1, <1>2, <1>5, HeadTailProperties
<1>7. PICK w : w = Waiting' OBVIOUS
<1>8. w = t \o queue BY <1>5, <1>7 DEF Waiting
<1>9. /\ Len(w) = (bl - 1) + ql
      /\ \A i \in 1 .. (bl - 1) + ql : w[i] = IF i <= bl - 1 THEN t[i] ELSE queue[i - (bl - 1)]
  <2>1. t \in Seq(Events) /\ queue \in Seq(Events) BY <1>1, <1>6
  <2>2. /\ Len(t \o queue) = Len(t) + Len(queue)
        /\ \A i \in 1 .. Len(t) + Len(queue) : (t \o queue)[i] = IF i <= Len(t) THEN t[i] ELSE queue[i - Len(t)]
    BY <2>1, ConcatProperties
  <2> QED BY <1>2, <1>6, <1>8, <2>2
<1>10. ASSUME NEW i \in 1 .. (bl - 1) + ql PROVE w[i] = Waiting[i + 1]
  <2>1. i + 1 \in 1 .. bl + ql BY <1>3
  <2>2. CASE i <= bl - 1
    <3>1. i \in 1 .. bl - 1 /\ i + 1 <= bl BY <2>2
    <3> QED BY <1>4, <1>6, <1>9, <2>1, <2>2, <3>1
  <2>3. CASE ~ (i <= bl - 1)
    <3>1. ~ (i + 1 <= bl) /\ i - (bl - 1) = (i + 1) - bl BY <1>3, <2>3
    <3> QED BY <1>4, <1>9, <2>1, <2>3, <3>1
  <2> QED BY <2>2, <2>3
<1>11. Len(w) \in Nat /\ Len(w) + 1 = bl + ql BY <1>3, <1>9
<1>12. Waiting[1] = batch[1] /\ 1 \in 1 .. Len(Waiting)
  <2>1. 1 \in 1 .. bl + ql /\ 1 <= bl BY <1>3
  <2> QED BY <1>4, <2>1
<1>13. Head(batch) = batch[1] BY <1>1
<1> QED BY <1>1, <1>4, <1>5, <1>6, <1>7, <1>9, <1>10, <1>11, <1>12, <1>13 DEF Handled

(* A step that handles no event leaves all waiting.                        *)
LEMMA NothingHandled ==
    ASSUME EventsInv, queue' \in Seq(Events), batch' \in Seq(Events), Waiting' = Waiting
    PROVE  Handled(0)
<1>1. Len(Waiting) \in Nat BY WaitingIs
<1> QED BY <1>1 DEF Handled

(* The maps stay as they are.                                              *)
LEMMA MapsStay ==
    ASSUME Follows, UNCHANGED <<path, self_isdir, kernel, maps>>, NEW z,
           \A p \in DOMAIN m_directory_description_map : ~ GivenUp(z, p)
    PROVE  MapsChange(z) /\ KernelInv'
<1>1. KernelInv /\ NamesInv BY DEF Follows
<1>2. \A wd : Known(wd)' = Known(wd) /\ Name(wd)' = Name(wd) BY DEF Known, Name, maps
<1>3. KernelInv' BY <1>1 DEF KernelInv, kernel, maps, Existing
<1>4. MapsChange(z)
  <2>1. UNCHANGED <<path, self_isdir>> /\ last_wd' >= last_wd BY <1>1 DEF KernelInv, kernel
  <2>2. \A p \in DOMAIN m_directory_description_map' : Name(m_directory_description_map[p])' = p
    BY <1>1 DEF NamesInv, maps, Name
  <2>3. \A wd \in DOMAIN watches' :
          /\ Name(wd)' \in DOMAIN m_directory_description_map'
          /\ m_directory_description_map'[Name(wd)'] = wd
    BY <1>1, <1>2 DEF NamesInv, maps, kernel
  <2> QED BY <1>2, <2>1, <2>2, <2>3 DEF MapsChange, maps, kernel
<1> QED BY <1>3, <1>4

(* The maps and the kernel forget a descriptor and its name, which the     *)
(* handled event gives up.                                                 *)
LEMMA ForgetKeeps ==
    ASSUME Follows, NEW wd, Handled(1), Known(wd), GivesUp(Waiting[1], Name(wd)),
           Name(wd) \in DOMAIN m_directory_description_map, m_directory_description_map[Name(wd)] = wd,
           watches' = Without(watches, wd),
           m_description_directory_map' = Without(m_description_directory_map, wd),
           m_directory_description_map' = Without(m_directory_description_map, Name(wd)),
           UNCHANGED <<path, self_isdir, last_wd, scan, seen>>, ProgressInv'
    PROVE  Follows'
<1>0. TreeInv /\ KernelInv /\ ProgressInv /\ EventsInv /\ NamesInv /\ PlacesInv /\ SeenInv /\ FilesInv
  BY DEF Follows
<1>1. \A v : Known(v)' <=> Known(v) /\ v # wd BY DEF Known, Without
<1>2. \A v : v # wd /\ Known(v) => Name(v)' = Name(v) BY DEF Known, Without, Name
<1>3. /\ DOMAIN m_directory_description_map' = DOMAIN m_directory_description_map \ {Name(wd)}
      /\ \A p \in DOMAIN m_directory_description_map' :
             m_directory_description_map'[p] = m_directory_description_map[p]
  BY DEF Without
<1>4. /\ DOMAIN watches' = DOMAIN watches \ {wd}
      /\ \A v \in DOMAIN watches' : watches'[v] = watches[v]
  BY DEF Without
<1>5. \A p : GivesUp(Waiting[1], p) <=> p = Name(wd) BY DEF GivesUp
<1>6. \A v \in DOMAIN m_description_directory_map : v # wd => Known(v) /\ Known(v)' BY <1>1 DEF Known
<1>7. ASSUME NEW p \in DOMAIN m_directory_description_map'
      PROVE  /\ p \in DOMAIN m_directory_description_map /\ p # Name(wd)
             /\ m_directory_description_map'[p] = m_directory_description_map[p]
             /\ m_directory_description_map[p] # wd
             /\ m_directory_description_map[p] \in DOMAIN m_description_directory_map
             /\ Name(m_directory_description_map[p]) = p
  <2>1. Name(m_directory_description_map[p]) = p BY <1>0, <1>3 DEF NamesInv
  <2> QED BY <1>0, <1>3, <2>1 DEF KernelInv
<1>8. KernelInv'
  <2>1. watches' \in [DOMAIN watches' -> Existing' \cup {Top}]
    <3>1. \A v \in DOMAIN watches' : watches'[v] \in Existing' \cup {Top}
      BY <1>0, <1>4 DEF KernelInv, Existing
    <3>2. watches' = [v \in DOMAIN watches' |-> watches'[v]] BY DEF Without
    <3> QED BY <3>1, <3>2
  <2>2. m_description_directory_map' \in [DOMAIN m_description_directory_map' -> Seq(Names)]
    BY <1>0 DEF KernelInv, Without
  <2>3. m_directory_description_map' \in [DOMAIN m_directory_description_map' -> DOMAIN m_description_directory_map']
    <3>1. \A p \in DOMAIN m_directory_description_map' :
              m_directory_description_map'[p] \in DOMAIN m_description_directory_map'
      BY <1>7 DEF Without
    <3>2. m_directory_description_map' = [p \in DOMAIN m_directory_description_map' |-> m_directory_description_map'[p]]
      BY DEF Without
    <3> QED BY <3>1, <3>2
  <2>4. DOMAIN m_description_directory_map' = DOMAIN m_description_directory_map \ {wd} BY DEF Without
  <2>5. \A v, w \in DOMAIN watches' : watches'[v] = watches'[w] => v = w BY <1>0, <1>4 DEF KernelInv
  <2> QED BY <1>0, <1>4, <2>1, <2>2, <2>3, <2>4, <2>5 DEF KernelInv
<1>9. MapsChange(1)
  <2>1. UNCHANGED <<path, self_isdir>> /\ last_wd' >= last_wd BY <1>0 DEF KernelInv
  <2>2. ASSUME NEW p \in DOMAIN m_directory_description_map'
        PROVE Name(m_directory_description_map[p])' = p
    <3>1. PICK v : v = m_directory_description_map[p] OBVIOUS
    <3>2. Name(v)' = p BY <1>2, <1>6, <1>7, <3>1
    <3> QED BY <1>7, <3>1, <3>2
  <2>3. ASSUME NEW v \in DOMAIN watches'
        PROVE  /\ Name(v)' \in DOMAIN m_directory_description_map'
               /\ m_directory_description_map'[Name(v)'] = v
    <3>1. v \in DOMAIN watches /\ v # wd BY <1>4
    <3>2. Name(v)' = Name(v) BY <1>0, <1>2, <1>6, <3>1 DEF KernelInv
    <3>3. Name(v) \in DOMAIN m_directory_description_map /\ m_directory_description_map[Name(v)] = v
      BY <1>0, <3>1 DEF NamesInv
    <3>4. Name(v) # Name(wd) BY <3>1, <3>3
    <3> QED BY <1>3, <3>2, <3>3, <3>4
  <2>4. ASSUME NEW v \in 1 .. last_wd
        PROVE  /\ Known(v)' => Known(v) /\ Name(v)' = Name(v)
               /\ Known(v) => Known(v)' \/ GivenUp(1, Name(v))
    BY <1>1, <1>2 DEF GivenUp
  <2>5. ASSUME NEW p \in DOMAIN m_directory_description_map
        PROVE  /\ \A v : GivenUp(1, p) /\ m_directory_description_map[p] = v => ~ Known(v)'
               /\ \/ GivenUp(1, p)
                  \/ /\ p \in DOMAIN m_directory_description_map'
                     /\ m_directory_description_map'[p] = m_directory_description_map[p]
    BY <1>1, <1>3, <1>5 DEF GivenUp
  <2>6. ASSUME NEW v \in DOMAIN watches
        PROVE  \/ v \in DOMAIN watches' /\ watches'[v] = watches[v]
               \/ GivenUp(1, Name(v))
    BY <1>4 DEF GivenUp
  <2>7. \A v \in DOMAIN watches' : v \in DOMAIN watches /\ watches'[v] = watches[v] BY <1>4
  <2> QED BY <2>1, <2>2, <2>3, <2>4, <2>5, <2>6, <2>7 DEF MapsChange
<1>10. SeenChange(1)
  <2> SUFFICES ASSUME NEW d \in seen PROVE ~ EnteredBy(d, 1) /\ (Coming(d) => Coming(d)')
    BY <1>0 DEF SeenChange, SeenInv
  <2>1. ~ EnteredBy(d, 1) BY DEF EnteredBy, GivesUp
  <2>2. Coming(d) => Coming(d)' BY DEF Coming, scan
  <2> QED BY <2>1, <2>2
<1> QED BY <1>8, <1>9, <1>10, MapsKeep

(* The event that is handled is not followed by any change of the maps.    *)
LEMMA PassKeeps ==
    ASSUME Follows, Handled(1), UNCHANGED <<path, self_isdir, kernel, maps, scan, seen>>, ProgressInv',
           \A p \in DOMAIN m_directory_description_map : ~ GivesUp(Waiting[1], p),
           \A d \in seen : ~ EnteredBy(d, 1)
    PROVE  Follows'
<1>1. MapsChange(1) /\ KernelInv' BY MapsStay DEF GivenUp
<1>2. \A d : Coming(d)' <=> Coming(d) BY DEF Coming, scan
<1>3. SeenChange(1) BY <1>2 DEF SeenChange, Follows, SeenInv
<1> QED BY <1>1, <1>3, MapsKeep

(* A directory that was deleted or moved is forgotten.                     *)
LEMMA HandleSelfKeeps ==
    ASSUME Follows, HandleSelf
    PROVE  Follows'
<1>0. TreeInv /\ KernelInv /\ ProgressInv /\ EventsInv /\ NamesInv /\ PlacesInv /\ SeenInv /\ FilesInv
  BY DEF Follows
<1>1. /\ pc = "run" /\ batch # <<>> /\ batch' = Tail(batch) /\ queue' = queue
      /\ UNCHANGED <<path, self_isdir, pc, scan, seen>> /\ event.mask \in {"delete_self", "move_self"}
  BY DEF HandleSelf, Handling, tree
<1>2. Handled(1) /\ Waiting[1] = event /\ 1 \in 1 .. Len(Waiting)
  BY <1>0, <1>1, EventHandled DEF event
<1>3. ProgressInv' BY <1>0, <1>1 DEF ProgressInv, scan
<1>4. PICK wd : wd = event.wd OBVIOUS
<1>5. CASE self_isdir /\ Known(wd)
  <2>1. GivesUp(Waiting[1], Name(wd)) BY <1>1, <1>2, <1>4, <1>5 DEF GivesUp, Name
  <2>2. Name(wd) \in DOMAIN m_directory_description_map /\ m_directory_description_map[Name(wd)] = wd
    BY <1>0, <1>1, <1>2, <1>4, <1>5 DEF NamesInv
  <2>3. /\ watches' = Without(watches, wd)
        /\ m_description_directory_map' = Without(m_description_directory_map, wd)
        /\ m_directory_description_map' = Without(m_directory_description_map, Name(wd))
        /\ last_wd' = last_wd
    BY <1>4, <1>5 DEF HandleSelf, RemoveDescription, Known, Name
  <2> QED BY <1>1, <1>2, <1>3, <1>5, <2>1, <2>2, <2>3, ForgetKeeps
<1>6. CASE ~ (self_isdir /\ Known(wd))
  <2>1. UNCHANGED <<kernel, maps>>
    <3>1. CASE ~ self_isdir BY <3>1 DEF HandleSelf, NoWatchChange
    <3>2. CASE self_isdir
      <4>1. /\ watches' = Without(watches, wd)
            /\ m_description_directory_map' = Without(m_description_directory_map, wd)
            /\ m_directory_description_map' = m_directory_description_map /\ last_wd' = last_wd
        BY <1>4, <1>6, <3>2 DEF HandleSelf, RemoveDescription, Known
      <4>2. wd \notin DOMAIN watches /\ wd \notin DOMAIN m_description_directory_map
        BY <1>0, <1>6, <3>2 DEF KernelInv, Known
      <4>3. Without(watches, wd) = watches
        BY <1>0, <4>2 DEF KernelInv, Without
      <4>4. Without(m_description_directory_map, wd) = m_description_directory_map
        BY <1>0, <4>2 DEF KernelInv, Without
      <4> QED BY <4>1, <4>3, <4>4 DEF kernel, maps
    <3> QED BY <3>1, <3>2
  <2>2. \A p : ~ GivesUp(Waiting[1], p) BY <1>1, <1>2, <1>4, <1>6 DEF GivesUp
  <2>3. \A d : ~ EnteredBy(d, 1) BY <1>1, <1>2 DEF EnteredBy
  <2> QED BY <1>1, <1>2, <1>3, <2>1, <2>2, <2>3, PassKeeps
<1> QED BY <1>5, <1>6

(* A directory that has left is forgotten with its watch.                  *)
LEMMA HandleMovedFromKeeps ==
    ASSUME Follows, HandleMovedFrom
    PROVE  Follows'
<1>0. TreeInv /\ KernelInv /\ ProgressInv /\ EventsInv /\ NamesInv /\ PlacesInv /\ SeenInv /\ FilesInv
  BY DEF Follows
<1>1. /\ pc = "run" /\ batch # <<>> /\ batch' = Tail(batch) /\ queue' = queue
      /\ UNCHANGED <<path, self_isdir, pc, scan, seen>> /\ event.mask = "moved_from"
  BY DEF HandleMovedFrom, Handling, tree
<1>2. Handled(1) /\ Waiting[1] = event /\ 1 \in 1 .. Len(Waiting)
  BY <1>0, <1>1, EventHandled DEF event
<1>3. ProgressInv' BY <1>0, <1>1 DEF ProgressInv, scan
<1>4. \A p : GivesUp(Waiting[1], p) <=> Known(event.wd) /\ p = Named
  BY <1>1, <1>2 DEF GivesUp, Named
<1>5. CASE Known(event.wd) /\ Named \in DOMAIN m_directory_description_map
  <2>1. PICK wd : wd = m_directory_description_map[Named] OBVIOUS
  <2>2. Name(wd) = Named /\ Known(wd) BY <1>0, <1>5, <2>1 DEF NamesInv, KernelInv, Known
  <2>3. /\ watches' = Without(watches, wd)
        /\ m_description_directory_map' = Without(m_description_directory_map, wd)
        /\ m_directory_description_map' = Without(m_directory_description_map, Name(wd))
        /\ last_wd' = last_wd
    BY <1>5, <2>1, <2>2 DEF HandleMovedFrom, RemoveDirectory
  <2>4. GivesUp(Waiting[1], Name(wd)) BY <1>4, <1>5, <2>2
  <2> QED BY <1>1, <1>2, <1>3, <1>5, <2>1, <2>2, <2>3, <2>4, ForgetKeeps
<1>6. CASE ~ (Known(event.wd) /\ Named \in DOMAIN m_directory_description_map)
  <2>1. UNCHANGED <<kernel, maps>> BY <1>6 DEF HandleMovedFrom, NoWatchChange, RemoveDirectory
  <2>2. \A p \in DOMAIN m_directory_description_map : ~ GivesUp(Waiting[1], p) BY <1>4, <1>6
  <2>3. \A d : ~ EnteredBy(d, 1) BY <1>1, <1>2 DEF EnteredBy
  <2> QED BY <1>1, <1>2, <1>3, <2>1, <2>2, <2>3, PassKeeps
<1> QED BY <1>5, <1>6

(* Reporting the change of a file changes no map.                          *)
LEMMA HandleFileKeeps ==
    ASSUME Follows, HandleFile
    PROVE  Follows'
<1>0. TreeInv /\ KernelInv /\ ProgressInv /\ EventsInv /\ NamesInv /\ PlacesInv /\ SeenInv /\ FilesInv
  BY DEF Follows
<1>1. /\ pc = "run" /\ batch # <<>> /\ batch' = Tail(batch) /\ queue' = queue
      /\ UNCHANGED <<path, self_isdir, pc, scan, seen, kernel, maps>> /\ event.mask = "file"
  BY DEF HandleFile, Handling, tree, NoWatchChange
<1>2. Handled(1) /\ Waiting[1] = event /\ 1 \in 1 .. Len(Waiting)
  BY <1>0, <1>1, EventHandled DEF event
<1>3. ProgressInv' BY <1>0, <1>1 DEF ProgressInv, scan
<1>4. \A p : ~ GivesUp(Waiting[1], p) BY <1>1, <1>2 DEF GivesUp
<1>5. \A d : ~ EnteredBy(d, 1) BY <1>1, <1>2 DEF EnteredBy
<1> QED BY <1>1, <1>2, <1>3, <1>4, <1>5, PassKeeps

(* The watch is found, or it is set up, unless the name means nothing; the *)
(* handled event is none that gives up a name.                             *)
LEMMA AppendKeeps ==
    ASSUME Follows, NEW z, Handled(z), NEW p \in Seq(Names), AppendWatch(p), ~ outrun',
           \A q : ~ GivenUp(z, q), UNCHANGED <<path, self_isdir, seen, dir_list>>, ProgressInv',
           last_wd' = last_wd \/ pc' # "idle",
           \A d \in seen : (dir_name = path[d] => dir_name' = path[d] \/ path[d] = p)
                           /\ (z = 1 /\ EnteredBy(d, 1) => path[d] = p)
    PROVE  Follows'
<1>0. TreeInv /\ KernelInv /\ ProgressInv /\ EventsInv /\ NamesInv /\ PlacesInv /\ SeenInv /\ FilesInv
  BY DEF Follows
<1>1. ASSUME NEW d \in seen, path[d] # p \/ (Watched(d))'
      PROVE  \/ d \in seen /\ ~ Coming(d) /\ ~ (z = 1 /\ EnteredBy(d, 1))
             \/ (Watched(d) \/ Coming(d))'
  BY <1>1 DEF Coming
<1>2. CASE ~ Exists(p)
  <2>1. UNCHANGED <<kernel, maps>> BY <1>2 DEF AppendWatch, NoWatchChange
  <2>2. MapsChange(z) /\ KernelInv' BY <2>1, MapsStay
  <2>3. \A d \in seen : d \in Existing /\ path[d] # p BY <1>0, <1>2, PathIs DEF SeenInv
  <2>4. SeenChange(z) BY <1>1, <2>3 DEF SeenChange
  <2> QED BY <2>2, <2>4, MapsKeep
<1>3. CASE Exists(p)
  <2>1. PICK dir : dir = CHOOSE d \in At(p) : TRUE OBVIOUS
  <2>2. dir \in Existing \cup {Top} /\ PathOf(dir) = p /\ At(p) = {dir} BY <1>0, <1>3, <2>1, AtIs
  <2>3. PICK wd : wd = IF Watch(dir) = {} THEN last_wd + 1 ELSE CHOOSE w \in Watch(dir) : TRUE OBVIOUS
  <2>4. /\ watches' = With(watches, wd, dir)
        /\ last_wd' = IF Watch(dir) = {} THEN wd ELSE last_wd
        /\ Known(wd) => Name(wd) = p
        /\ m_description_directory_map' = With(m_description_directory_map, wd, p)
        /\ m_directory_description_map' = With(m_directory_description_map, p, wd)
    BY <1>3, <2>1, <2>3 DEF AppendWatch, Name
  <2>5. ASSUME NEW d \in seen, path[d] = p PROVE d = dir
    <3>1. d \in Existing /\ PathOf(d) = p /\ d \in At(p)
      BY <1>0, <2>5, PathIs DEF SeenInv, At
    <3> QED BY <2>2, <3>1
  <2>6. SeenInv /\ \A d \in seen : d \in Existing BY <1>0 DEF SeenInv
  <2>7. CASE Watch(dir) # {}
    <3>1. wd \in DOMAIN watches /\ watches[wd] = dir BY <2>3, <2>7 DEF Watch
    <3>2. Known(wd) /\ Name(wd) = p BY <1>0, <2>4, <3>1 DEF KernelInv, Known
    <3>3. p \in DOMAIN m_directory_description_map /\ m_directory_description_map[p] = wd
      BY <1>0, <3>1, <3>2 DEF NamesInv
    <3>4. watches' = watches BY <1>0, <2>4, <3>1 DEF KernelInv, With
    <3>5. m_description_directory_map' = m_description_directory_map
      BY <1>0, <2>4, <3>2 DEF KernelInv, With, Known, Name
    <3>6. m_directory_description_map' = m_directory_description_map
      BY <1>0, <2>4, <3>3 DEF KernelInv, With
    <3>7. UNCHANGED <<kernel, maps>> BY <2>4, <2>7, <3>4, <3>5, <3>6 DEF kernel, maps
    <3>8. MapsChange(z) /\ KernelInv' BY <3>7, MapsStay
    <3>9. Watched(dir)'
      <4>1. PathOf(dir)' = p BY <2>2 DEF PathOf
      <4> QED BY <3>1, <3>2, <3>4, <3>5, <4>1 DEF Watched, Watch, Known, Name
    <3>10. SeenChange(z) BY <1>1, <2>5, <2>6, <3>9 DEF SeenChange
    <3> QED BY <3>8, <3>10, MapsKeep
  <2>8. CASE Watch(dir) = {}
    <3>1. wd = last_wd + 1 /\ last_wd' = wd /\ wd \in Nat /\ last_wd \in Nat /\ wd \notin 1 .. last_wd
      BY <1>0, <2>3, <2>4, <2>8 DEF KernelInv
    <3>2. wd \notin DOMAIN m_description_directory_map /\ wd \notin DOMAIN watches
      BY <1>0, <3>1 DEF KernelInv
    <3>3. /\ DOMAIN watches' = DOMAIN watches \cup {wd} /\ watches'[wd] = dir
          /\ \A v \in DOMAIN watches : watches'[v] = watches[v]
      BY <2>4, <3>2 DEF With
    <3>4. /\ \A v : Known(v)' <=> Known(v) \/ v = wd
          /\ Name(wd)' = p
          /\ \A v : Known(v) => Name(v)' = Name(v)
      BY <2>4, <3>2 DEF With, Known, Name
    <3>5. /\ DOMAIN m_directory_description_map' = DOMAIN m_directory_description_map \cup {p}
          /\ m_directory_description_map'[p] = wd
          /\ \A q \in DOMAIN m_directory_description_map :
                 q # p => m_directory_description_map'[q] = m_directory_description_map[q]
      BY <2>4 DEF With
    <3>6. \A v \in DOMAIN watches : watches[v] # dir /\ Known(v) /\ v \in 1 .. last_wd
      BY <1>0, <2>8 DEF Watch, KernelInv, Known
    <3>7. ASSUME NEW v \in DOMAIN watches PROVE Name(v) # p
      <4>1. CASE Name(v) = PathOf(watches[v])
        <5>1. watches[v] \in Existing \cup {Top} BY <1>0 DEF KernelInv
        <5>2. PathOf(watches[v]) # p
          <6>1. PathOf(watches[v]) = p => watches[v] \in At(p) BY <5>1 DEF At, PathOf, Existing
          <6> QED BY <2>2, <3>6, <6>1
        <5> QED BY <4>1, <5>2
      <4>2. CASE Leaves(v, Len(Waiting)) BY <1>0, <2>2, <4>2, LeftIsNobodys
      <4> QED BY <1>0, <4>1, <4>2 DEF PlacesInv
    <3>8. KernelInv'
      <4>1. watches' \in [DOMAIN watches' -> Existing' \cup {Top}]
        <5>1. \A v \in DOMAIN watches' : watches'[v] \in Existing' \cup {Top}
          BY <1>0, <2>2, <3>3 DEF KernelInv, Existing
        <5>2. watches' = [v \in DOMAIN watches' |-> watches'[v]] BY <2>4 DEF With
        <5> QED BY <5>1, <5>2
      <4>2. m_description_directory_map' \in [DOMAIN m_description_directory_map' -> Seq(Names)]
        BY <1>0, <2>4 DEF KernelInv, With
      <4>3. DOMAIN m_description_directory_map' = DOMAIN m_description_directory_map \cup {wd}
        BY <2>4 DEF With
      <4>4. m_directory_description_map' \in [DOMAIN m_directory_description_map' -> DOMAIN m_description_directory_map']
        <5>1. \A q \in DOMAIN m_directory_description_map' :
                  m_directory_description_map'[q] \in DOMAIN m_description_directory_map'
          BY <1>0, <3>5, <4>3 DEF KernelInv
        <5>2. m_directory_description_map' = [q \in DOMAIN m_directory_description_map' |-> m_directory_description_map'[q]]
          BY <2>4 DEF With
        <5> QED BY <5>1, <5>2
      <4>5. \A v, w \in DOMAIN watches' : watches'[v] = watches'[w] => v = w
        BY <1>0, <3>3, <3>6 DEF KernelInv
      <4>6. DOMAIN m_description_directory_map' \subseteq 1 .. last_wd'
        <5>1. \A v \in 1 .. last_wd : v \in 1 .. last_wd' BY <3>1
        <5>2. wd \in 1 .. last_wd' BY <3>1
        <5> QED BY <1>0, <4>3, <5>1, <5>2 DEF KernelInv
      <4>7. DOMAIN watches' \subseteq DOMAIN m_description_directory_map' BY <1>0, <3>3, <4>3 DEF KernelInv
      <4> QED BY <1>0, <3>1, <4>1, <4>2, <4>4, <4>5, <4>6, <4>7 DEF KernelInv
    <3>9. MapsChange(z)
      <4>1. UNCHANGED <<path, self_isdir>> /\ last_wd' >= last_wd BY <3>1
      <4>2. ASSUME NEW q \in DOMAIN m_directory_description_map'
            PROVE  Name(m_directory_description_map[q])' = q
        <5>1. PICK v : v = m_directory_description_map'[q] OBVIOUS
        <5>2. CASE q = p BY <3>4, <3>5, <5>1, <5>2
        <5>3. CASE q # p
          <6>1. v = m_directory_description_map[q] /\ q \in DOMAIN m_directory_description_map
            BY <3>5, <5>1, <5>3
          <6>2. Name(v) = q /\ Known(v) BY <1>0, <6>1 DEF NamesInv, KernelInv, Known
          <6> QED BY <3>4, <5>1, <6>2
        <5> QED BY <5>2, <5>3
      <4>3. ASSUME NEW v \in DOMAIN watches'
            PROVE  /\ Name(v)' \in DOMAIN m_directory_description_map'
                   /\ m_directory_description_map'[Name(v)'] = v
        <5>1. CASE v = wd BY <3>4, <3>5, <5>1
        <5>2. CASE v \in DOMAIN watches
          <6>1. Name(v)' = Name(v) /\ Name(v) # p BY <3>4, <3>6, <3>7, <5>2
          <6>2. Name(v) \in DOMAIN m_directory_description_map /\ m_directory_description_map[Name(v)] = v
            BY <1>0, <5>2 DEF NamesInv
          <6> QED BY <3>5, <6>1, <6>2
        <5> QED BY <3>3, <5>1, <5>2
      <4>4. \A v \in 1 .. last_wd : (Known(v)' => Known(v) /\ Name(v)' = Name(v)) /\ (Known(v) => Known(v)')
        BY <3>1, <3>4
      <4>5. \A q \in DOMAIN m_directory_description_map :
                \/ q = PathOf(dir)
                \/ /\ q \in DOMAIN m_directory_description_map'
                   /\ m_directory_description_map'[q] = m_directory_description_map[q]
        BY <2>2, <3>5
      <4>6. ASSUME NEW v \in DOMAIN watches'
            PROVE  \/ v \in DOMAIN watches /\ watches'[v] = watches[v]
                   \/ Name(v)' = PathOf(watches'[v])
        <5>1. CASE v = wd BY <2>2, <3>3, <3>4, <5>1
        <5>2. CASE v \in DOMAIN watches BY <3>3, <5>2
        <5> QED BY <3>3, <5>1, <5>2
      <4>7. \A v \in DOMAIN watches : v \in DOMAIN watches' /\ watches'[v] = watches[v] BY <3>3
      <4> QED BY <2>2, <4>1, <4>2, <4>3, <4>4, <4>5, <4>6, <4>7 DEF MapsChange
    <3>10. Watched(dir)'
      <4>1. PathOf(dir)' = p BY <2>2 DEF PathOf
      <4>2. wd \in DOMAIN watches' /\ watches'[wd] = dir BY <3>3
      <4>3. wd \in DOMAIN m_description_directory_map' /\ m_description_directory_map'[wd] = p BY <2>4 DEF With
      <4> QED BY <4>1, <4>2, <4>3 DEF Watched, Watch
    <3>11. SeenChange(z) BY <1>1, <2>5, <2>6, <3>10 DEF SeenChange
    <3> QED BY <3>8, <3>9, <3>11, MapsKeep
  <2> QED BY <2>7, <2>8
<1> QED BY <1>2, <1>3

(* A directory that was created or has come is watched, if it is there.    *)
LEMMA HandleEnteredKeeps ==
    ASSUME Follows, HandleEntered, ~ outrun'
    PROVE  Follows'
<1>0. TreeInv /\ KernelInv /\ ProgressInv /\ EventsInv /\ NamesInv /\ PlacesInv /\ SeenInv /\ FilesInv
  BY DEF Follows
<1>1. /\ pc = "run" /\ batch # <<>> /\ batch' = Tail(batch) /\ queue' = queue
      /\ UNCHANGED <<path, self_isdir, pc, scan, seen>> /\ event.mask \in {"create", "moved_to"}
  BY DEF HandleEntered, Handling, tree
<1>2. Handled(1) /\ Waiting[1] = event /\ 1 \in 1 .. Len(Waiting)
  BY <1>0, <1>1, EventHandled DEF event
<1>3. ProgressInv'
  <2>1. pc' = "run" /\ dir_list' = dir_list /\ dir_name' = dir_name BY <1>1 DEF scan
  <2> QED BY <1>0, <1>1, <2>1 DEF ProgressInv
<1>4. \A p : ~ GivesUp(Waiting[1], p) BY <1>1, <1>2 DEF GivesUp
<1>5. CASE Known(event.wd)
  <2>1. PICK p : p = Named OBVIOUS
  <2>2. AppendWatch(p) BY <1>5, <2>1 DEF HandleEntered
  <2>3. p \in Seq(Names)
    <3>1. Name(event.wd) \in Seq(Names) BY <1>0, <1>5 DEF KernelInv, Known, Name
    <3>2. event.name \in Names BY <1>0, <1>1, <1>2 DEF EventsInv
    <3> QED BY <2>1, <3>1, <3>2 DEF Named, Name
  <2>4. \A d : EnteredBy(d, 1) => path[d] = p BY <1>2, <2>1 DEF EnteredBy, Named, Name
  <2>5. UNCHANGED <<dir_list, dir_name>> /\ pc' # "idle" BY <1>1 DEF scan
  <2>6. \A q : ~ GivenUp(1, q) BY <1>4 DEF GivenUp
  <2> QED BY <1>1, <1>2, <1>3, <2>2, <2>3, <2>4, <2>5, <2>6, AppendKeeps
<1>6. CASE ~ Known(event.wd)
  <2>1. UNCHANGED <<kernel, maps>> BY <1>6 DEF HandleEntered, NoWatchChange
  <2>2. \A d : ~ EnteredBy(d, 1) BY <1>2, <1>6 DEF EnteredBy
  <2> QED BY <1>1, <1>2, <1>3, <1>4, <2>1, <2>2, PassKeeps
<1> QED BY <1>5, <1>6

(* init() watches a directory that its scan has come to, if it is there.   *)
LEMMA InitWatchKeeps ==
    ASSUME Follows, InitWatch, ~ outrun'
    PROVE  Follows'
<1>0. TreeInv /\ KernelInv /\ ProgressInv /\ EventsInv /\ NamesInv /\ PlacesInv /\ SeenInv /\ FilesInv
  BY DEF Follows
<1>1. /\ pc = "scan" /\ pc' = pc /\ dir_name # Gone /\ dir_name' = Gone /\ AppendWatch(dir_name)
      /\ UNCHANGED <<path, self_isdir, queue, dir_list, batch, seen>>
  BY DEF InitWatch, tree
<1>2. dir_name \in Seq(Names) BY <1>0, <1>1 DEF ProgressInv
<1>3. ProgressInv' BY <1>0, <1>1 DEF ProgressInv
<1>4. Handled(0)
  <2>1. Waiting' = Waiting BY <1>1 DEF Waiting
  <2>2. queue' \in Seq(Events) /\ batch' \in Seq(Events) BY <1>0, <1>1 DEF EventsInv
  <2> QED BY <1>0, <2>1, <2>2, NothingHandled
<1>5. \A q : ~ GivenUp(0, q) BY DEF GivenUp
<1>6. \A d \in seen : (dir_name = path[d] => dir_name' = path[d] \/ path[d] = dir_name)
                      /\ (0 = 1 /\ EnteredBy(d, 1) => path[d] = dir_name)
  OBVIOUS
<1> QED BY <1>1, <1>2, <1>3, <1>4, <1>5, <1>6, AppendKeeps

(* A step that changes neither maps nor watches, and handles nothing,      *)
(* keeps the invariant.                                                    *)
LEMMA QuietKeeps ==
    ASSUME Follows, UNCHANGED <<path, self_isdir, kernel, maps>>, queue' \in Seq(Events), batch' \in Seq(Events),
           Waiting' = Waiting, ProgressInv', seen' \subseteq Existing,
           \A d \in seen' : (d \in seen /\ (Coming(d) => Coming(d)')) \/ Coming(d)'
    PROVE  Follows'
<1>0. EventsInv BY DEF Follows
<1>1. Handled(0) BY <1>0, NothingHandled
<1>2. MapsChange(0) /\ KernelInv' BY MapsStay DEF GivenUp
<1>3. SeenChange(0) BY DEF SeenChange
<1> QED BY <1>1, <1>2, <1>3, MapsKeep

(* init() begins its scan with the directory that it was given.            *)
LEMMA InitBeginKeeps ==
    ASSUME Follows, InitBegin
    PROVE  Follows'
<1>0. TreeInv /\ KernelInv /\ ProgressInv /\ EventsInv /\ NamesInv /\ PlacesInv /\ SeenInv /\ FilesInv
  BY DEF Follows
<1>1. /\ pc = "idle" /\ pc' = "scan" /\ dir_list' = <<<<>>>> /\ seen' = Existing
      /\ UNCHANGED <<path, self_isdir, kernel, maps, queue, batch, dir_name>>
  BY DEF InitBegin, tree
<1>2. ProgressInv'
  <2>1. <<<<>>>> \in Seq(Seq(Names))
    <3>1. <<>> \in Seq(Names) OBVIOUS
    <3> QED BY <3>1
  <2> QED BY <1>0, <1>1, <2>1 DEF ProgressInv
<1>3. ASSUME NEW d \in Existing PROVE Coming(d)'
  <2>1. IsPrefix(<<>>, path[d])
    <3>1. path[d] \in Seq(Names) BY <1>0, PathIs
    <3>2. Len(<<>>) = 0 /\ Len(path[d]) \in Nat BY <3>1
    <3>3. SubSeq(<<>>, 1, 0) = <<>> /\ SubSeq(path[d], 1, 0) = <<>> BY SubSeqEmpty
    <3> QED BY <3>2, <3>3 DEF IsPrefix
  <2>2. 1 \in 1 .. Len(dir_list') /\ dir_list'[1] = <<>>
    <3>1. Len(<<<<>>>>) = 1 /\ <<<<>>>>[1] = <<>> OBVIOUS
    <3> QED BY <1>1, <3>1
  <2> QED BY <1>1, <2>1, <2>2 DEF Coming
<1>4. Waiting' = Waiting /\ queue' \in Seq(Events) /\ batch' \in Seq(Events)
  BY <1>0, <1>1 DEF Waiting, EventsInv
<1> QED BY <1>1, <1>2, <1>3, <1>4, QuietKeeps

(* An order of a finite set leaves nothing out.                            *)
LEMMA OrderIsOnto ==
    ASSUME NEW S, IsFiniteSet(S), NEW order \in SetToSeqs(S)
    PROVE  order \in Seq(S) /\ \A x \in S : \E j \in 1 .. Len(order) : order[j] = x
<1>1. PICK n \in Nat : n = Cardinality(S) BY FS_CardinalityType
<1>2. order \in Injection(1 .. n, S)
  <2>1. order \in [1 .. n -> S] /\ \A i, j \in 1 .. n : i # j => order[i] # order[j] BY <1>1 DEF SetToSeqs
  <2> QED BY <2>1 DEF Injection, IsInjective
<1>3. Cardinality(1 .. n) = n /\ IsFiniteSet(1 .. n) BY FS_Interval
<1>4. order \in Surjection(1 .. n, S) BY <1>1, <1>2, <1>3, FS_Injection
<1>5. order \in [1 .. n -> S] BY <1>1 DEF SetToSeqs
<1>6. order \in Seq(S) /\ Len(order) = n BY <1>5
<1> QED BY <1>4, <1>6 DEF Surjection

(* The scan finds finitely many directories.                               *)
LEMMA ChildrenFinite ==
    ASSUME NEW dir
    PROVE  IsFiniteSet({path[e] : e \in Children(dir)})
<1>1. IsFiniteSet(Children(dir))
  <2>1. Children(dir) \in SUBSET Dirs BY DEF Children, Existing
  <2> QED BY <2>1, ConstantsAssumption, FS_Subset
<1> DEFINE S == Children(dir)
           T == {path[e] : e \in Children(dir)}
           f == [e \in S |-> path[e]]
<1>2. f \in Surjection(S, T) BY DEF Surjection
<1> HIDE DEF f, S, T
<1>3. IsFiniteSet(S) BY <1>1 DEF S
<1>4. IsFiniteSet(T) BY <1>2, <1>3, FS_Surjection
<1> QED BY <1>4 DEF T

(* init() takes a directory to watch and appends what it finds below it.   *)
LEMMA InitScanKeeps ==
    ASSUME Follows, InitScan
    PROVE  Follows'
<1>0. TreeInv /\ KernelInv /\ ProgressInv /\ EventsInv /\ NamesInv /\ PlacesInv /\ SeenInv /\ FilesInv
  BY DEF Follows
<1>1. /\ pc = "scan" /\ pc' = pc /\ dir_name = Gone /\ dir_list # <<>>
      /\ UNCHANGED <<path, self_isdir, kernel, maps, queue, batch, seen>>
  BY DEF InitScan, tree
<1>2. dir_list \in Seq(Seq(Names)) BY <1>0 DEF ProgressInv
<1>3. PICK h : h = Head(dir_list) OBVIOUS
<1>4. PICK ll \in Nat : ll = Len(dir_list) BY <1>2
<1>5. ll >= 1 /\ h = dir_list[1] /\ h \in Seq(Names) BY <1>1, <1>2, <1>3, <1>4
<1>6. PICK t : t = Tail(dir_list) OBVIOUS
<1>7. /\ t \in Seq(Seq(Names)) /\ Len(t) = ll - 1
      /\ \A k \in 1 .. ll - 1 : t[k] = dir_list[k + 1]
  BY <1>1, <1>2, <1>4, <1>6, HeadTailProperties
<1>8. /\ ~ Exists(h) => dir_list' = t /\ dir_name' = dir_name
      /\ Exists(h) => /\ dir_name' = h
                      /\ \E order \in SetToSeqs({path[e] : e \in Children(CHOOSE d \in At(h) : TRUE)}) :
                             dir_list' = t \o order
  BY <1>3, <1>6 DEF InitScan
<1>9. PICK more \in Seq(Seq(Names)) :
          /\ dir_list' = t \o more
          /\ ~ Exists(h) => dir_name' = dir_name
          /\ Exists(h) => dir_name' = h
          /\ \A dir \in Existing \cup {Top} : PathOf(dir) = h =>
                \A e \in Children(dir) : \E j \in 1 .. Len(more) : more[j] = path[e]
  <2>1. CASE ~ Exists(h)
    <3>1. <<>> \in Seq(Seq(Names)) /\ t \o <<>> = t BY <1>7, ConcatEmptySeq
    <3>2. \A dir \in Existing \cup {Top} : PathOf(dir) # h BY <1>0, <2>1, PathIs
    <3> QED BY <1>8, <2>1, <3>1, <3>2
  <2>2. CASE Exists(h)
    <3>1. PICK dir \in Existing \cup {Top} : PathOf(dir) = h /\ At(h) = {dir} BY <1>0, <1>5, <2>2, AtIs
    <3>2. (CHOOSE d \in At(h) : TRUE) = dir BY <3>1
    <3>3. PICK order \in SetToSeqs({path[e] : e \in Children(dir)}) : dir_list' = t \o order
      BY <1>8, <2>2, <3>2
    <3>4. /\ order \in Seq({path[e] : e \in Children(dir)})
          /\ \A x \in {path[e] : e \in Children(dir)} : \E j \in 1 .. Len(order) : order[j] = x
      BY ChildrenFinite, OrderIsOnto
    <3>5. {path[e] : e \in Children(dir)} \subseteq Seq(Names) BY <1>0, PathIs DEF Children
    <3>6. order \in Seq(Seq(Names)) BY <3>4, <3>5, SeqMonotonic
    <3>7. \A g \in Existing \cup {Top} : PathOf(g) = h => g = dir
      BY <3>1 DEF At, PathOf, Existing
    <3> QED BY <1>8, <2>2, <3>3, <3>4, <3>6, <3>7
  <2> QED BY <2>1, <2>2
<1>10. PICK r, ml : r = dir_list' /\ ml = Len(more) /\ ml \in Nat OBVIOUS
<1>11. /\ r \in Seq(Seq(Names)) /\ Len(r) = (ll - 1) + ml
       /\ \A k \in 1 .. (ll - 1) + ml : r[k] = IF k <= ll - 1 THEN t[k] ELSE more[k - (ll - 1)]
  <2>1. /\ t \o more \in Seq(Seq(Names)) /\ Len(t \o more) = Len(t) + Len(more)
        /\ \A k \in 1 .. Len(t) + Len(more) : (t \o more)[k] = IF k <= Len(t) THEN t[k] ELSE more[k - Len(t)]
    <3>1. t \in Seq(Seq(Names)) BY <1>7
    <3> QED BY <3>1, ConcatProperties
  <2> QED BY <1>7, <1>9, <1>10, <2>1
<1>12. ProgressInv'
  <2>1. dir_name' \in Seq(Names) \cup {Gone} BY <1>1, <1>5, <1>9
  <2> QED BY <1>0, <1>1, <1>10, <1>11, <2>1 DEF ProgressInv
<1>13. ASSUME NEW d \in seen, Coming(d) PROVE Coming(d)'
  <2>0. d \in Existing /\ path[d] \in Seq(Names) /\ d \in Dirs BY <1>0, PathIs DEF SeenInv
  <2>1. PICK k \in 1 .. ll : IsPrefix(dir_list[k], path[d])
    <3>1. dir_name # path[d] BY <1>1, <2>0, ConstantsAssumption
    <3> QED BY <1>4, <1>13, <3>1 DEF Coming
  <2>2. SUFFICES dir_name' = path[d] \/ \E i \in 1 .. Len(r) : IsPrefix(r[i], path[d])
    BY <1>1, <1>10 DEF Coming
  <2>3. CASE k # 1
    <3>1. k - 1 \in 1 .. ll - 1 /\ k - 1 \in 1 .. (ll - 1) + ml /\ (k - 1) + 1 = k /\ k - 1 <= ll - 1
      BY <1>10, <2>3
    <3>2. r[k - 1] = dir_list[k] BY <1>7, <1>11, <3>1
    <3> QED BY <1>11, <2>1, <3>1, <3>2
  <2>4. CASE k = 1
    <3>1. IsPrefix(h, path[d]) BY <1>5, <2>1, <2>4
    <3>2. PICK n \in Nat, m \in Nat : n = Len(h) /\ m = Len(path[d]) /\ n <= m
      BY <1>5, <2>0, <3>1 DEF IsPrefix
    <3>3. h = SubSeq(path[d], 1, n)
      <4>1. SubSeq(h, 1, n) = h BY <1>5, <3>2, SubSeqFull
      <4> QED BY <3>1, <3>2, <4>1 DEF IsPrefix
    <3>4. PICK dir \in Existing \cup {Top} : PathOf(dir) = h
      <4>1. CASE n = 0
        <5>1. h = <<>> BY <1>5, <3>2, <4>1, EmptySeq
        <5> QED BY <5>1 DEF PathOf
      <4>2. CASE n # 0
        <5>1. n \in 1 .. Len(path[d]) BY <3>2, <4>2
        <5>2. PICK e \in Dirs : path[e] = h BY <1>0, <2>0, <3>3, <5>1 DEF TreeInv
        <5>3. e \in Existing BY <1>5, <5>2, ConstantsAssumption DEF Existing
        <5> QED BY <1>0, <5>2, <5>3, PathIs
      <4> QED BY <4>1, <4>2
    <3>5. Exists(h) BY <1>0, <3>4, PathIs
    <3>6. CASE n = m
      <4>1. h = path[d] BY <2>0, <3>2, <3>3, <3>6, SubSeqFull
      <4> QED BY <1>9, <3>5, <4>1
    <3>7. CASE n # m
      <4>1. n + 1 \in 1 .. Len(path[d]) /\ n + 1 \in Nat BY <3>2, <3>7
      <4>2. PICK c \in Dirs : path[c] = SubSeq(path[d], 1, n + 1) BY <1>0, <2>0, <4>1 DEF TreeInv
      <4>3. path[c] \in Seq(Names) /\ Len(path[c]) = n + 1 BY <2>0, <4>1, <4>2
      <4>4. c \in Existing BY <4>3, ConstantsAssumption DEF Existing
      <4>5. Front(path[c]) = h
        <5>1. SubSeq(path[c], 1, n) = SubSeq(path[d], 1, n) BY <2>0, <4>1, <4>2
        <5> QED BY <3>3, <4>3, <5>1 DEF Front
      <4>6. c \in Children(dir) BY <3>4, <4>4, <4>5 DEF Children
      <4>7. PICK j \in 1 .. ml : more[j] = path[c] BY <1>9, <1>10, <3>4, <4>6
      <4>8. /\ (ll - 1) + j \in 1 .. (ll - 1) + ml /\ ~ ((ll - 1) + j <= ll - 1)
            /\ ((ll - 1) + j) - (ll - 1) = j
        BY <1>5, <1>10
      <4>9. r[(ll - 1) + j] = path[c] BY <1>11, <4>7, <4>8
      <4>10. IsPrefix(path[c], path[d])
        <5>1. SubSeq(path[c], 1, Len(path[c])) = path[c] BY <4>3, SubSeqFull
        <5> QED BY <3>2, <4>1, <4>2, <4>3, <5>1 DEF IsPrefix
      <4> QED BY <1>11, <4>8, <4>9, <4>10
    <3> QED BY <3>6, <3>7
  <2> QED BY <2>3, <2>4
<1>14. Waiting' = Waiting /\ queue' \in Seq(Events) /\ batch' \in Seq(Events)
  BY <1>0, <1>1 DEF Waiting, EventsInv
<1>15. seen' \subseteq Existing BY <1>0, <1>1 DEF SeenInv
<1>16. \A d \in seen' : (d \in seen /\ (Coming(d) => Coming(d)')) \/ Coming(d)' BY <1>1, <1>13
<1> QED BY <1>1, <1>12, <1>14, <1>15, <1>16, QuietKeeps

(* init() ends, exit() begins, the thread ends, or it reads.               *)
LEMMA TurnKeeps ==
    ASSUME Follows, InitEnd \/ ExitBegin \/ ThreadEnd \/ ReadEvents
    PROVE  Follows'
<1>0. TreeInv /\ KernelInv /\ ProgressInv /\ EventsInv /\ NamesInv /\ PlacesInv /\ SeenInv /\ FilesInv
  BY DEF Follows
<1>1. UNCHANGED <<path, self_isdir, kernel, maps, scan, seen>>
  BY DEF InitEnd, ExitBegin, ThreadEnd, ReadEvents, tree
<1>2. \A d : Coming(d)' <=> Coming(d) BY <1>1 DEF Coming, scan
<1>3. seen' \subseteq Existing BY <1>0, <1>1 DEF SeenInv
<1>4. ProgressInv'
  BY <1>0, <1>1 DEF ProgressInv, InitEnd, ExitBegin, ThreadEnd, ReadEvents, scan, kernel
<1>5. Waiting' = Waiting /\ queue' \in Seq(Events) /\ batch' \in Seq(Events)
  <2>1. CASE UNCHANGED <<queue, batch>> BY <1>0, <2>1 DEF Waiting, EventsInv
  <2>2. CASE ReadEvents
    <3>1. batch = <<>> /\ batch' = queue /\ queue' = <<>> /\ queue \in Seq(Events)
      BY <1>0, <2>2 DEF ReadEvents, EventsInv
    <3>2. <<>> \o queue = queue /\ queue \o <<>> = queue BY <3>1, ConcatEmptySeq
    <3> QED BY <3>1, <3>2 DEF Waiting
  <2> QED BY <2>1, <2>2 DEF InitEnd, ExitBegin, ThreadEnd
<1> QED BY <1>1, <1>2, <1>3, <1>4, <1>5, QuietKeeps

(* Nothing is watched, known, waiting or seen.                             *)
Blank ==
    /\ watches = <<>> /\ m_description_directory_map = <<>> /\ m_directory_description_map = <<>>
    /\ queue = <<>> /\ batch = <<>> /\ seen = {}

(* The invariant holds when there is nothing to it.                        *)
LEMMA BlankFollows == Blank /\ TreeInv /\ ProgressInv /\ self_isdir \in BOOLEAN /\ last_wd \in Nat => Follows
<1> SUFFICES ASSUME Blank, TreeInv, ProgressInv, self_isdir \in BOOLEAN, last_wd \in Nat
             PROVE  Follows
  OBVIOUS
<1>1. DOMAIN watches = {} /\ DOMAIN m_description_directory_map = {} /\ DOMAIN m_directory_description_map = {}
  BY DEF Blank
<1>2. Waiting = <<>> /\ Len(Waiting) = 0 BY DEF Blank, Waiting
<1>3. KernelInv
  <2>1. \A S, T : S = {} => <<>> \in [S -> T] OBVIOUS
  <2> QED BY <1>1, <2>1 DEF KernelInv, Blank
<1>4. EventsInv BY <1>2 DEF EventsInv, Blank
<1>5. NamesInv /\ PlacesInv /\ FilesInv BY <1>1, <1>2 DEF NamesInv, PlacesInv, FilesInv
<1>6. SeenInv BY DEF SeenInv, Blank
<1> QED BY <1>3, <1>4, <1>5, <1>6 DEF Follows

(* exit() closes the descriptor, with all watches, and clears the maps.    *)
LEMMA ExitEndKeeps ==
    ASSUME Follows, ExitEnd
    PROVE  Follows'
<1>0. TreeInv /\ KernelInv /\ ProgressInv BY DEF Follows
<1>1. /\ pc = "ended" /\ pc' = "idle" /\ last_wd' = 0 /\ UNCHANGED <<path, self_isdir, dir_list, dir_name, batch>>
      /\ watches' = <<>> /\ m_description_directory_map' = <<>> /\ m_directory_description_map' = <<>>
      /\ queue' = <<>> /\ seen' = {}
  BY DEF ExitEnd, tree, scan
<1>2. Blank' BY <1>0, <1>1 DEF Blank, ProgressInv
<1>3. TreeInv' BY <1>0, <1>1 DEF TreeInv, Existing
<1>4. ProgressInv' BY <1>0, <1>1 DEF ProgressInv
<1>5. (self_isdir \in BOOLEAN)' /\ (last_wd \in Nat)' BY <1>0, <1>1 DEF KernelInv
<1> QED BY <1>2, <1>3, <1>4, <1>5, BlankFollows, PTL

(* If what is just above every directory exists, so does all above it.     *)
LEMMA TreeStarts ==
    ASSUME Init
    PROVE  TreeInv
<1>1. path \in [Dirs -> Paths \cup {Gone}] /\ \A d \in Existing : Exists(Front(path[d])) /\ At(path[d]) = {d}
  BY DEF Init
<1>2. ASSUME NEW d \in Existing, NEW e \in Existing, path[d] = path[e] PROVE d = e
  <2>1. At(path[d]) = {d} /\ At(path[e]) = {e} BY <1>1
  <2> QED BY <1>2, <2>1
<1>3. ASSUME NEW d \in Existing, NEW n \in 1 .. Len(path[d])
      PROVE  \E e \in Dirs : path[e] = SubSeq(path[d], 1, n)
  <2>1. d \in Dirs /\ path[d] \in Seq(Names) BY <1>1 DEF Existing, Paths, SeqOf
  <2>2. PICK m \in Nat : m = Len(path[d]) BY <2>1
  <2> DEFINE There(i) == \E e \in Dirs : path[e] = SubSeq(path[d], 1, i)
             Missing == {k \in 0 .. m - 1 : ~ There(m - k)}
  <2>3. SUFFICES ASSUME Missing # {} PROVE FALSE
    <3>1. m - n \in 0 .. m - 1 /\ m - (m - n) = n BY <2>2
    <3>2. m - n \notin Missing BY <2>3
    <3>3. There(n) BY <3>1, <3>2
    <3> QED BY <3>3
  <2>4. PICK k \in Missing : \A j \in Missing : k <= j
    <3>1. Missing \in SUBSET Nat OBVIOUS
    <3> HIDE DEF Missing
    <3> QED BY <2>3, <3>1, LeastNumber
  <2>5. k \in 0 .. m - 1 /\ ~ There(m - k) OBVIOUS
  <2>6. There(m)
    <3>1. SubSeq(path[d], 1, m) = path[d] BY <2>1, <2>2, SubSeqFull
    <3> QED BY <2>1, <3>1
  <2>7. k # 0
    <3> HIDE DEF There
    <3> QED BY <2>5, <2>6
  <2>8. k - 1 \in 0 .. m - 1 /\ ~ (k <= k - 1) /\ m - (k - 1) = (m - k) + 1 BY <2>5, <2>7
  <2>9. There((m - k) + 1)
    <3>1. k - 1 \notin Missing BY <2>4, <2>8
    <3> HIDE DEF There
    <3> QED BY <2>8, <3>1
  <2>10. PICK i \in Nat : i = m - k /\ i \in 1 .. m /\ i + 1 \in 1 .. m BY <2>5, <2>7
  <2>11. PICK e \in Dirs : path[e] = SubSeq(path[d], 1, i + 1) BY <2>9, <2>10
  <2>12. path[e] \in Seq(Names) /\ Len(path[e]) = i + 1 BY <2>1, <2>2, <2>10, <2>11
  <2>13. Front(path[e]) = SubSeq(path[d], 1, i)
    <3>1. SubSeq(path[e], 1, i) = SubSeq(path[d], 1, i) BY <2>1, <2>2, <2>10, <2>11
    <3> QED BY <2>12, <3>1 DEF Front
  <2>14. e \in Existing BY <2>12, ConstantsAssumption DEF Existing
  <2>15. Exists(SubSeq(path[d], 1, i)) BY <1>1, <2>13, <2>14
  <2>16. SubSeq(path[d], 1, i) # <<>>
    <3>1. Len(SubSeq(path[d], 1, i)) = i BY <2>1, <2>2, <2>10
    <3>2. Len(<<>>) = 0 /\ i # 0 BY <2>10
    <3> QED BY <3>1, <3>2
  <2>17. \E f \in Dirs : path[f] = SubSeq(path[d], 1, i) BY <2>15, <2>16 DEF Exists, At
  <2> QED BY <2>5, <2>10, <2>17
<1> QED BY <1>1, <1>2, <1>3 DEF TreeInv

(* The invariant holds before init().                                      *)
LEMMA WatcherStarts == Init => WatcherInv
<1> SUFFICES ASSUME Init PROVE WatcherInv
  OBVIOUS
<1>1. TreeInv BY TreeStarts
<1>2. Blank /\ self_isdir \in BOOLEAN /\ last_wd \in Nat /\ outrun \in BOOLEAN BY DEF Init, Blank
<1>3. ProgressInv BY DEF Init, ProgressInv
<1> QED BY <1>1, <1>2, <1>3, BlankFollows DEF WatcherInv

(* Once the tree has outrun the code, it has for good.                     *)
LEMMA OutrunStays ==
    ASSUME outrun \in BOOLEAN, Next
    PROVE  outrun' \in BOOLEAN /\ (outrun => outrun')
<1>1. CASE Others
  <2>1. ASSUME NEW d \in Dirs, NEW dir \in Dirs \cup {Top}, NEW name \in Names,
               Mkdir(d, dir, name) \/ Rename(d, dir, name)
        PROVE  outrun' \in BOOLEAN /\ (outrun => outrun')
    <3>1. CASE Mkdir(d, dir, name) BY <3>1 DEF Mkdir
    <3>2. CASE Rename(d, dir, name) BY <3>2 DEF Rename
    <3> QED BY <2>1, <3>1, <3>2
  <2> QED BY <1>1, <2>1 DEF Others, FileChange, Rmdir
<1>2. \A p : AppendWatch(p) => outrun' \in BOOLEAN /\ (outrun => outrun')
  BY DEF AppendWatch, NoWatchChange
<1>3. CASE Caller
  BY <1>2, <1>3 DEF Caller, InitBegin, InitScan, InitWatch, InitEnd, ExitBegin, ExitEnd, tree
<1>4. CASE Thread
  BY <1>2, <1>4 DEF Thread, ThreadEnd, ReadEvents, HandleSelf, HandleMovedFrom, HandleEntered, HandleFile,
     RemoveDescription, RemoveDirectory, NoWatchChange
<1> QED BY <1>1, <1>3, <1>4 DEF Next

(* Every step of the others, of the caller and of the thread keeps the     *)
(* invariant.                                                              *)
LEMMA WatcherKeeps == WatcherInv /\ [Next]_vars => WatcherInv'
<1> SUFFICES ASSUME WatcherInv, [Next]_vars PROVE WatcherInv'
  OBVIOUS
<1>1. CASE UNCHANGED vars
  <2>1. UNCHANGED <<path, self_isdir, kernel, maps, scan, queue, batch, pc, seen, outrun>>
    BY <1>1 DEF vars, tree
  <2> SUFFICES ASSUME Follows PROVE Follows'
    BY <2>1 DEF WatcherInv
  <2>2. EventsInv /\ ProgressInv /\ SeenInv BY DEF Follows
  <2>3. ProgressInv' BY <2>1, <2>2 DEF ProgressInv, kernel, scan
  <2>4. Waiting' = Waiting /\ queue' \in Seq(Events) /\ batch' \in Seq(Events)
    BY <2>1, <2>2 DEF Waiting, EventsInv
  <2>5. \A d : Coming(d)' <=> Coming(d) BY <2>1 DEF Coming, scan
  <2>6. seen' \subseteq Existing BY <2>1, <2>2 DEF SeenInv
  <2> QED BY <2>1, <2>3, <2>4, <2>5, <2>6, QuietKeeps
<1>2. CASE Next
  <2>1. outrun' \in BOOLEAN /\ (outrun => outrun') BY <1>2, OutrunStays DEF WatcherInv
  <2> SUFFICES ASSUME ~ outrun' PROVE Follows'
    BY <2>1 DEF WatcherInv
  <2>2. Follows BY <2>1 DEF WatcherInv
  <2>3. CASE Others
    <3>1. ASSUME NEW d \in Dirs \cup {Top}, FileChange(d) PROVE Follows' BY <2>2, <3>1, FileChangeKeeps
    <3>2. ASSUME NEW d \in Dirs, Rmdir(d) PROVE Follows' BY <2>2, <3>2, RmdirKeeps
    <3>3. ASSUME NEW d \in Dirs, NEW dir \in Dirs \cup {Top}, NEW name \in Names, Mkdir(d, dir, name)
          PROVE  Follows'
      BY <2>2, <3>3, MkdirKeeps
    <3>4. ASSUME NEW d \in Dirs, NEW dir \in Dirs \cup {Top}, NEW name \in Names, Rename(d, dir, name)
          PROVE  Follows'
      BY <2>2, <3>4, RenameKeeps
    <3> QED BY <2>3, <3>1, <3>2, <3>3, <3>4 DEF Others
  <2>4. CASE Caller
    BY <2>2, <2>4, InitBeginKeeps, InitScanKeeps, InitWatchKeeps, TurnKeeps, ExitEndKeeps DEF Caller
  <2>5. CASE Thread
    BY <2>2, <2>5, TurnKeeps, HandleSelfKeeps, HandleMovedFromKeeps, HandleEnteredKeeps, HandleFileKeeps
    DEF Thread
  <2> QED BY <1>2, <2>3, <2>4, <2>5 DEF Next
<1> QED BY <1>1, <1>2

(* The invariant holds in every reachable state.                           *)
LEMMA WatcherInvHolds == Spec => []WatcherInv
  BY WatcherStarts, WatcherKeeps, PTL DEF Spec

(* When nothing waits to be handled, what is left of the invariant is that *)
(* the watches follow the tree.                                            *)
LEMMA NothingWaits == WatcherInv => WatchesFollowTree
<1> SUFFICES ASSUME WatcherInv, Settled, ~ outrun
             PROVE  /\ \A d \in seen : Watched(d)
                    /\ \A wd \in DOMAIN watches :
                          /\ Known(wd) /\ m_description_directory_map[wd] = PathOf(watches[wd])
                          /\ PathOf(watches[wd]) \in DOMAIN m_directory_description_map
                          /\ m_directory_description_map[PathOf(watches[wd])] = wd
  BY DEF WatchesFollowTree
<1>0. TreeInv /\ KernelInv /\ ProgressInv /\ EventsInv /\ NamesInv /\ PlacesInv /\ SeenInv
  BY DEF WatcherInv, Follows
<1>1. Len(Waiting) = 0
  <2>1. Len(Waiting) \in Nat /\ \A i \in 1 .. Len(Waiting) : Waiting[i] \in Outstanding BY <1>0, WaitingIs
  <2>2. ASSUME Len(Waiting) # 0 PROVE FALSE
    <3>1. 1 \in 1 .. Len(Waiting) BY <2>1, <2>2
    <3> QED BY <2>1, <3>1 DEF Settled
  <2> QED BY <2>2
<1>2. ASSUME NEW d \in seen PROVE Watched(d)
  <2>1. ~ Enters(d) BY <1>1 DEF Enters
  <2>2. d \in Existing /\ dir_list = <<>> /\ dir_name = Gone BY <1>0 DEF SeenInv, ProgressInv, Settled
  <2>3. ~ Coming(d)
    <3>1. Len(dir_list) = 0 BY <2>2
    <3> QED BY <2>2, <3>1 DEF Coming, Existing
  <2> QED BY <1>0, <2>1, <2>3 DEF SeenInv
<1>3. ASSUME NEW wd \in DOMAIN watches
      PROVE  /\ Known(wd) /\ Name(wd) = PathOf(watches[wd])
             /\ Name(wd) \in DOMAIN m_directory_description_map
             /\ m_directory_description_map[Name(wd)] = wd
  <2>1. ~ Leaves(wd, Len(Waiting)) BY <1>1 DEF Leaves
  <2> QED BY <1>0, <2>1 DEF PlacesInv, NamesInv, KernelInv, Known
<1> QED BY <1>2, <1>3 DEF Name

(* When the thread has handled every event, every directory that init()    *)
(* saw or an event announced is watched, every watch is on an existing     *)
(* directory and known under that directory's path, and the two maps agree *)
(* about it, unless the tree has outrun the code in one of the ways that   *)
(* outrun names.                                                           *)
THEOREM WatchesFollowTreeHolds == Spec => []WatchesFollowTree
  BY WatcherInvHolds, NothingWaits, PTL

(* A change of a file is reported under a path that its directory had when *)
(* it changed or later, and is reported at all if its directory was        *)
(* watched under its path at the time, with the same exception.            *)
THEOREM ReportsAreTrueHolds == Spec => ReportsAreTrue
<1>1. WatcherInv => [HandleFile /\ ~ outrun =>
          /\ Known(event.wd) => m_description_directory_map[event.wd] \in event.names
          /\ event.known => Known(event.wd)]_vars
  <2> SUFFICES ASSUME WatcherInv, HandleFile, ~ outrun
               PROVE  /\ Known(event.wd) => m_description_directory_map[event.wd] \in event.names
                      /\ event.known => Known(event.wd)
    OBVIOUS
  <2>1. EventsInv /\ FilesInv BY DEF WatcherInv, Follows
  <2>2. batch # <<>> /\ batch' = Tail(batch) /\ queue' = queue /\ event.mask = "file"
    BY DEF HandleFile, Handling
  <2>3. Waiting[1] = event /\ 1 \in 1 .. Len(Waiting) BY <2>1, <2>2, EventHandled DEF event
  <2>4. ReportInv(1) BY <2>1, <2>2, <2>3 DEF FilesInv
  <2>5. \A wd : ~ Leaves(wd, 1 - 1) BY DEF Leaves
  <2> QED BY <2>3, <2>4, <2>5 DEF ReportInv, Name
<1> QED BY <1>1, WatcherInvHolds, PTL DEF ReportsAreTrue
=============================================================================
