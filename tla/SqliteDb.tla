------------------------------ MODULE SqliteDb ------------------------------
(***************************************************************************)
(* SQLiteDB of sqlite/sqlite.hpp with the statements it caches by their    *)
(* text and one that the caller created and keeps.  One object, used by    *)
(* one thread: init() and exit() may come in any order with the rest, and  *)
(* another process locks the same file.                                    *)
(*                                                                         *)
(* The texts are one INSERT of one parameter into a unique column and one  *)
(* SELECT of it.  What SQLite does is modelled as far as the calls show    *)
(* it: which call is refused, which lock a transaction or a reader holds.  *)
(* That the busy timeout of a "multi" connection waits before it refuses,  *)
(* and that a step refused at its own commit keeps a lock, is left out.    *)
(***************************************************************************)
EXTENDS Integers

CONSTANTS
    Values,             \* what is bound to the parameter
    NoValue,            \* not bound, or no row
    MaxConns            \* bound: connections opened

ASSUME SqliteAssumption == NoValue \notin Values /\ MaxConns \in Nat

VARIABLES
    sqlite_,            \* the connection, 0 is nullptr
    conns,              \* how many were opened
    conn,               \* what SQLite knows of each
    stmt,               \* readers_ and writers_, and the caller's statement
    content,            \* the rows in the file
    wal, table,         \* the file is in WAL mode; it has the table
    other,              \* the lock of another process
    ack,                \* ghost: what the caller was told about each row
    step,               \* exit(): how many of its calls are done, 0 outside
    opening,            \* exit() was called by init()
    kept                \* ghost: connections of which the caller had a
                        \* statement when exit() was called

exitVars == <<step, opening, kept>>
dbVars == <<sqlite_, conns, conn, stmt, content, wal, table, other, ack, exitVars>>

Conns == 1 .. MaxConns
Caches == {"reader", "writer"}
Slots == Caches \cup {"created"}

\* "sick": sqlite3_open() failed, but gave a handle.
NewConn == [is |-> "closed", tx |-> "none", dirty |-> {}]
Connections == [is : {"closed", "open", "sick"}, dirty : SUBSET Values,
                tx : {"none", "deferred", "read", "write", "exclusive"}]

Absent == [kind |-> "absent", conn |-> 0]
Bad(c) == [kind |-> "bad", conn |-> c]
Prepared(kind, c) == [kind |-> kind, conn |-> c, state |-> "ready", setIndex |-> 0,
                      bound |-> NoValue, given |-> NoValue]
Statements ==
    {Absent} \cup {Bad(c) : c \in 0 .. MaxConns} \cup
    [kind : Caches, conn : Conns, state : {"ready", "row", "busy", "done"},
     setIndex : 0 .. 1,
     bound : Values \cup {NoValue}, given : Values \cup {NoValue}]

Good(st) == st.kind \in Caches
Of(st, c) == Good(st) /\ st.conn = c
Put(s, st) == stmt' = [stmt EXCEPT ![s] = st]

SqliteInit ==
    /\ sqlite_ = 0 /\ conns = 0
    /\ conn = [c \in Conns |-> NewConn]
    /\ stmt = [s \in Slots |-> Absent]
    /\ content = {} /\ wal = FALSE /\ table \in BOOLEAN
    /\ other = "none"
    /\ ack = [v \in Values |-> "none"]
    /\ step = 0 /\ opening = FALSE /\ kept = {}

-----------------------------------------------------------------------------
(* SQLite: locks.                                                          *)

Reads(c) ==
    \/ conn[c].tx = "read"
    \/ \E s \in Slots : Of(stmt[s], c) /\ stmt[s].state = "row"

OtherReads(c) == other = "shared" \/ \E d \in Conns \ {c} : Reads(d)
OtherWrites(c) ==
    other = "reserved" \/ \E d \in Conns \ {c} : conn[d].tx \in {"write", "exclusive"}
OtherExcludes(c) ==
    ~ wal /\ \E d \in Conns \ {c} : conn[d].tx = "exclusive"

MayRead(c) == Reads(c) \/ ~ OtherExcludes(c)
MayWrite(c) == ~ OtherWrites(c)
MayCommit(c) == wal \/ ~ OtherReads(c)

Other ==
    /\ other' \in {"none", "shared", "reserved"} \ {other}
    /\ other' = "shared" => wal \/ \A c \in Conns : conn[c].tx # "exclusive"
    /\ other' = "reserved" => \A c \in Conns : conn[c].tx \notin {"write", "exclusive"}
    /\ UNCHANGED <<sqlite_, conns, conn, stmt, content, wal, table, ack, exitVars>>

-----------------------------------------------------------------------------
(* SQLiteDB: init(), exit(), transactions.  A call that is refused returns *)
(* false and changes nothing.                                              *)

Tell(told) == ack' = [v \in Values |-> IF ack[v] = "pending" THEN told ELSE ack[v]]

\* readers_.clear() and writers_.clear() finalise what they hold.
ClearCache(s) ==
    /\ Put(s, Absent)
    /\ UNCHANGED <<sqlite_, conn, ack>>

\* sqlite3_close() refuses while a statement of the connection is left, which
\* stays as it is then, with its transaction; else that is rolled back.  In
\* either case the connection is forgotten.
CloseDb ==
    /\ sqlite_' = 0
    /\ conn' = IF sqlite_ = 0 \/ \E s \in Slots : Of(stmt[s], sqlite_) THEN conn
               ELSE [conn EXCEPT ![sqlite_] = NewConn]
    /\ Tell("none")
    /\ UNCHANGED stmt

\* Defect: the connection is closed before the writers are finalised.
ExitOrderSwapped == <<"readers", "close", "writers">>

ExitOrder == <<"readers", "writers", "close">>

\* The next call of an exit() of its own, of the destructor (o is FALSE), or of
\* init(), which goes on after the last one.
DbExit(o) ==
    /\ step < 3 /\ (step > 0 => o = opening)
    /\ step' = IF step = 2 /\ ~o THEN 0 ELSE step + 1
    /\ opening' = (o /\ step < 2)
    /\ kept' = IF step = 0 /\ Of(stmt["created"], sqlite_) THEN kept \cup {sqlite_} ELSE kept
    /\ \/ ExitOrder[step + 1] = "readers" /\ ClearCache("reader")
       \/ ExitOrder[step + 1] = "writers" /\ ClearCache("writer")
       \/ ExitOrder[step + 1] = "close" /\ CloseDb
    /\ UNCHANGED <<conns, content, wal, table, other>>

\* init() of a path that is empty: closed is what remains.
DbInitInvalid ==
    /\ step = 3 /\ step' = 0
    /\ UNCHANGED <<sqlite_, conns, conn, stmt, content, wal, table, other, ack, opening, kept>>

\* sqlite3_open(): what it could not open is kept as well.  The mode is changed
\* by a pragma whose failure init() does not report.
Opened(is, multi) ==
    /\ conns < MaxConns
    /\ conns' = conns + 1 /\ sqlite_' = conns'
    /\ conn' = [conn EXCEPT ![conns'].is = is]
    /\ wal' = \/ wal
              \/ /\ multi /\ is = "open" /\ other = "none"
                 /\ \A c \in Conns : conn[c].tx \in {"none", "deferred"} /\ ~ Reads(c)
    /\ UNCHANGED <<stmt, content, table, other, ack, opening, kept>>

\* Defect: init() opens without calling exit() first.
DbInitOver(is, multi) == step = 0 /\ UNCHANGED step /\ Opened(is, multi)

DbInit(is, multi) == step = 3 /\ step' = 0 /\ Opened(is, multi)

IsOpen == sqlite_ # 0 /\ conn[sqlite_].is = "open"
InTransaction == IsOpen /\ conn[sqlite_].tx # "none"

\* transaction_begin(), _immediate() and _exclusive().
TransactionBegin(tx) ==
    /\ IsOpen /\ ~ InTransaction
    /\ tx # "deferred" => MayWrite(sqlite_)
    /\ tx = "exclusive" => MayCommit(sqlite_)
    /\ conn' = [conn EXCEPT ![sqlite_].tx = tx]
    /\ UNCHANGED <<sqlite_, conns, stmt, content, wal, table, other, ack>>

Ends == conn' = [conn EXCEPT ![sqlite_].tx = "none", ![sqlite_].dirty = {}]

\* A write that was refused and not reset counts as under way.
TransactionCommit ==
    /\ InTransaction
    /\ conn[sqlite_].tx \in {"write", "exclusive"} => MayCommit(sqlite_)
    /\ \A s \in Slots : Of(stmt[s], sqlite_) /\ stmt[s].kind = "writer" => stmt[s].state # "busy"
    /\ content' = content \cup conn[sqlite_].dirty
    /\ Ends /\ Tell("promised")
    /\ UNCHANGED <<sqlite_, conns, stmt, wal, table, other>>

TransactionRollback ==
    /\ InTransaction
    /\ Ends /\ Tell("none")
    /\ UNCHANGED <<sqlite_, conns, stmt, content, wal, table, other>>

\* Defect: the two ways out are mixed up, and a success is reported.
TransactionEndSwapped ==
    \/ InTransaction /\ Ends /\ Tell("promised")
       /\ UNCHANGED <<sqlite_, conns, stmt, content, wal, table, other>>
    \/ TransactionCommit

TransactionEnd == TransactionCommit \/ TransactionRollback

\* execute("CREATE TABLE ..."), outside a transaction.
CreateTable ==
    /\ IsOpen /\ ~ InTransaction /\ ~ table
    /\ MayWrite(sqlite_) /\ MayCommit(sqlite_)
    /\ table' = TRUE
    /\ UNCHANGED <<sqlite_, conns, conn, stmt, content, wal, other, ack>>

-----------------------------------------------------------------------------
(* Statements.                                                             *)

\* The constructor.
Prepare(kind) == IF IsOpen /\ table THEN Prepared(kind, sqlite_) ELSE Bad(sqlite_)

\* Defect: the index of the next parameter is not taken back.
AfterResetGoesOn(st) ==
    IF Good(st) THEN [st EXCEPT !.state = "ready", !.given = NoValue] ELSE st

\* reset(): the bindings stay.
AfterReset(st) ==
    IF Good(st) THEN [st EXCEPT !.state = "ready", !.setIndex = 0, !.given = NoValue] ELSE st

StatementStep(s, st) ==
    /\ Put(s, st)
    /\ UNCHANGED <<sqlite_, conns, conn, content, wal, table, other, ack>>

\* create_reader() and create_writer().
Create(kind) ==
    /\ stmt["created"].kind = "absent"
    /\ StatementStep("created", Prepare(kind))

\* get_reader() and get_writer(): one that could not be prepared is kept too.
GetStatement(s) ==
    StatementStep(s, IF stmt[s].kind = "absent" THEN Prepare(s) ELSE AfterReset(stmt[s]))

\* reset() by the caller.
Reset(s) == Good(stmt[s]) /\ StatementStep(s, AfterReset(stmt[s]))

\* clear() or the end of the caller's statement: an entry of a cache stays.
Clear(s) ==
    /\ Good(stmt[s])
    /\ StatementStep(s, IF s \in Caches THEN Bad(stmt[s].conn) ELSE Absent)

\* The next parameter: a writer has one, and it can be bound until the
\* statement has been stepped.  "given" is the first value after a reset.
Set(s, v) ==
    LET st == stmt[s]
        ready == st.kind = "writer" /\ st.state = "ready" IN
    /\ Good(st)
    /\ StatementStep(s, [st EXCEPT !.setIndex = 1,
                                   !.bound = IF ready /\ st.setIndex = 0 THEN v ELSE @,
                                   !.given = IF ready /\ @ = NoValue THEN v ELSE @])

\* write(): a step that is refused, by a lock or as the row is there already,
\* is no error to it.
View(c) == content \cup conn[c].dirty
Refused(s) ==
    LET c == stmt[s].conn IN
    \/ ~ MayWrite(c)
    \/ conn[c].tx = "none" /\ stmt[s].bound \notin View(c) /\ ~ MayCommit(c)

WriteRefused(s) ==
    /\ stmt[s].kind = "writer" /\ stmt[s].bound # NoValue /\ Refused(s)
    /\ StatementStep(s, [stmt[s] EXCEPT !.state = "busy"])

WriteDone(s) ==
    LET st == stmt[s]  c == st.conn  tx == conn[c].tx IN
    /\ st.kind = "writer" /\ st.bound # NoValue /\ ~ Refused(s)
    /\ Put(s, [st EXCEPT !.state = "done", !.given = NoValue])
    /\ IF tx = "none"
       THEN content' = content \cup {st.bound} /\ UNCHANGED conn
       ELSE /\ conn' = [conn EXCEPT ![c].tx = IF @ = "exclusive" THEN @ ELSE "write",
                                    ![c].dirty = @ \cup ({st.bound} \ content)]
            /\ UNCHANGED content
    /\ ack' = [ack EXCEPT ![st.bound] =
                  IF tx = "none" \/ st.bound \in content THEN "promised"
                  ELSE IF c = sqlite_ THEN "pending" ELSE @]
    /\ UNCHANGED <<sqlite_, conns, wal, table, other>>

\* read(): a row, or the end or a refusal, which leave the reader as it was
\* before the first row.
Read(s) ==
    LET st == stmt[s]  c == st.conn IN
    /\ st.kind = "reader"
    /\ \E result \in {"ready", "row"} :
        /\ result = "row" => MayRead(c) /\ View(c) # {}
        /\ Put(s, [st EXCEPT !.state = result])
    /\ conn' = [conn EXCEPT ![c].tx = IF @ = "deferred" /\ MayRead(c) THEN "read" ELSE @]
    /\ UNCHANGED <<sqlite_, conns, content, wal, table, other, ack>>

\* There is one thread: no call begins while another is under way.
Call ==
    \/ CreateTable
    \/ \E tx \in {"deferred", "write", "exclusive"} : TransactionBegin(tx)
    \/ TransactionEnd
    \/ \E kind \in Caches : Create(kind) \/ GetStatement(kind)
    \/ \E s \in Slots :
          \/ Reset(s) \/ Clear(s) \/ WriteRefused(s) \/ WriteDone(s) \/ Read(s)
          \/ \E v \in Values : Set(s, v)

DbNext ==
    \/ Other \/ DbInitInvalid
    \/ \E o \in BOOLEAN : DbExit(o)
    \/ \E is \in {"open", "sick"}, multi \in BOOLEAN : DbInit(is, multi)
    \/ step = 0 /\ Call /\ UNCHANGED exitVars

SqliteSpec == SqliteInit /\ [][DbNext]_dbVars
-----------------------------------------------------------------------------
(* Properties.                                                             *)

SqliteTypeOK ==
    /\ sqlite_ \in 0 .. conns /\ conns \in 0 .. MaxConns
    /\ conn \in [Conns -> Connections] /\ stmt \in [Slots -> Statements]
    /\ content \subseteq Values /\ wal \in BOOLEAN /\ table \in BOOLEAN
    /\ other \in {"none", "shared", "reserved"}
    /\ ack \in [Values -> {"none", "pending", "promised"}]
    /\ step \in 0 .. 3 /\ opening \in BOOLEAN /\ kept \subseteq Conns

(* Whatever the order of init(), exit() and get_...(), a cached statement, *)
(* also one that could not be prepared, was made for the connection that   *)
(* is open now, and no statement outlives its connection.  The first value *)
(* given since a statement was reset is the one the next write() stores,   *)
(* although the bindings of the last row are still there.                  *)
StatementsBelong ==
    /\ SqliteTypeOK
    /\ \A s \in Caches : stmt[s].kind # "absent" => stmt[s].conn = sqlite_
    /\ \A s \in Slots : Good(stmt[s]) =>
          /\ conn[stmt[s].conn].is = "open"
          /\ stmt[s].given # NoValue => stmt[s].bound = stmt[s].given

(* A connection that is not in use any more is closed, and holds no lock   *)
(* and no transaction.  The exception are those of which the caller had a  *)
(* statement when it called exit() or init(): for the statements of the    *)
(* caches it is the order of the calls in exit() that sees to it, while    *)
(* connections, transactions and other processes come and go.              *)
ExitFreesTheFile == \A c \in Conns \ kept : c # sqlite_ => conn[c] = NewConn

(* A row is in the file if write() returned true and so did the end of its *)
(* transaction: a failed commit, exit() or init() break no promise.  The   *)
(* exception is a write() refused by a lock, which returns true as well.   *)
PromisesKept == \A v \in Values : ack[v] = "promised" => v \in content
=============================================================================
