------------------------------ MODULE MysqlApi ------------------------------
(***************************************************************************)
(* mysql_api: statements sent over a connection that the server may drop   *)
(* at any moment, and that is made again when it was.                      *)
(*                                                                         *)
(* A call runs in steps, so that the connection can break between them.    *)
(* The client library and the server are external: a statement whose       *)
(* answer is lost may have been executed.                                  *)
(***************************************************************************)
EXTENDS Integers

CONSTANT MaxQueries      \* bound: statements

ASSUME MysqlApiAssumption == MaxQueries \in Nat

VARIABLES
    msp,         \* no handle, or its msp: NULL, a connection, a broken one
    reachable,   \* the server accepts connections
    opened,      \* MYSQL objects that are not closed
    pending,     \* the statement whose rows wait on the connection, or 0
    errno,       \* mysql_errno: "none" (0), "lost", "sql" or "other"
    call,        \* the call that runs, and where it is
    executed,    \* the last statement, how often it was executed, and the last
                 \* one that was answered
    last         \* what the last call returned

mysqlVars == <<msp, reachable, opened, pending, errno, call, executed, last>>

Idle == [at |-> "idle", api |-> "none", kind |-> "none", retry |-> FALSE, tried |-> FALSE]

NoCall == [api |-> "none", ret |-> 0, retry |-> FALSE, rows |-> 0]

MysqlInit ==
    /\ msp = "nohandle" /\ reachable \in BOOLEAN
    /\ opened = 0 /\ pending = 0 /\ errno = "none"
    /\ call = Idle /\ executed = [n |-> 0, times |-> 0, answered |-> 0] /\ last = NoCall

Return(r, rows) ==
    /\ call' = Idle
    /\ last' = [api |-> call.api, ret |-> r, retry |-> call.retry, rows |-> rows]

---------------------------------------------------------------------------
(* The server. *)

ServerChanges ==
    /\ \/ reachable' = TRUE /\ UNCHANGED msp
       \/ reachable' = FALSE /\ msp' = IF msp = "live" THEN "broken" ELSE msp
    /\ UNCHANGED <<opened, pending, errno, call, executed, last>>

DropsConnection ==
    /\ msp = "live" /\ msp' = "broken"
    /\ UNCHANGED <<reachable, opened, pending, errno, call, executed, last>>

---------------------------------------------------------------------------
(* Connecting. *)

\* _mysql_conn, with the steps before mysql_real_connect that may fail too.
\* What the calls put in the place of msp when it fails is NULL.
ConnOk ==
    /\ reachable
    /\ msp' = "live" /\ opened' = opened + 1
    /\ pending' = 0 /\ errno' = "none"

ConnFail == msp' = "NULL" /\ UNCHANGED <<opened, pending, errno>>

\* _mysql_init frees the handle of a connection that failed.
MysqlConnect ==
    /\ msp = "nohandle" /\ call = Idle
    /\ ConnOk \/ UNCHANGED <<msp, opened, pending, errno>>
    /\ UNCHANGED <<reachable, call, executed, last>>

MysqlDisconnect ==
    /\ msp # "nohandle" /\ call = Idle
    /\ opened' = IF msp = "NULL" THEN opened ELSE opened - 1
    /\ msp' = "nohandle" /\ pending' = 0 /\ errno' = "none" /\ last' = NoCall
    /\ UNCHANGED <<reachable, call, executed>>

---------------------------------------------------------------------------
(* The calls. *)

Starts(api, kind, retry) ==
    /\ msp # "nohandle" /\ call = Idle
    /\ call' = [at |-> IF msp = "NULL" THEN "connect" ELSE "work", api |-> api,
                kind |-> kind, retry |-> retry, tried |-> FALSE]
    /\ last' = NoCall
    /\ UNCHANGED <<msp, reachable, opened, pending, errno>>

MysqlQuery(kind, retry) ==
    /\ executed.n < MaxQueries
    /\ Starts("query", kind, retry)
    /\ executed' = [executed EXCEPT !.n = @ + 1, !.times = 0]

MysqlStoreResult(retry) == Starts("store", "none", retry) /\ UNCHANGED executed

\* _mysql_options and _mysql_set_server_option set nothing that outlives the
\* connection, and do not look whether it was set.
MysqlOptions == Starts("option", "none", FALSE) /\ UNCHANGED executed

\* At the start of a call without a connection, or again in the middle.
Connects ==
    /\ call.at = "connect"
    /\ \/ ConnOk /\ call' = [call EXCEPT !.at = "work"] /\ UNCHANGED last
       \/ ConnFail /\ Return(IF call.api = "option" THEN -2 ELSE -1, 0)
    /\ UNCHANGED <<reachable, executed>>

\* Variant: the try is not counted.
LostAgain ==
    /\ msp' = "broken" /\ pending' = 0
    /\ IF call.retry
       THEN /\ call' = [call EXCEPT !.at = "connect"] /\ opened' = opened - 1
            /\ errno' = "none" /\ UNCHANGED last
       ELSE Return(0, 0) /\ errno' = "lost" /\ UNCHANGED opened

\* One more try, with a new connection, if the caller wants it and it is the
\* first.  Otherwise the loop is left as after a success.
Lost ==
    /\ msp' = "broken" /\ pending' = 0
    /\ IF call.retry /\ ~call.tried
       THEN /\ call' = [call EXCEPT !.at = "connect", !.tried = TRUE]
            /\ opened' = opened - 1
            /\ errno' = "none"
            /\ UNCHANGED last
       ELSE Return(0, 0) /\ errno' = "lost" /\ UNCHANGED opened

Working(api) == call.at = "work" /\ call.api = api /\ UNCHANGED reachable

\* A connection with rows on it takes no statement.
QueryRefused ==
    /\ Working("query") /\ msp = "live"
    /\ \/ pending # 0 /\ errno' = "other" /\ Return(-1, 0)
       \/ pending = 0 /\ call.kind = "bad" /\ errno' = "sql" /\ Return(1064, 0)
    /\ UNCHANGED <<msp, opened, pending, executed>>

QueryDone ==
    /\ Working("query") /\ msp = "live" /\ pending = 0 /\ call.kind # "bad"
    /\ executed' = [executed EXCEPT !.times = @ + 1, !.answered = executed.n]
    /\ pending' = IF call.kind = "select" THEN executed.n ELSE 0
    /\ errno' = "none" /\ Return(0, 0)
    /\ UNCHANGED <<msp, opened>>

QueryLost ==
    /\ Working("query")
    /\ \/ /\ msp = "live" /\ pending = 0 /\ call.kind # "bad"
          /\ executed' = [executed EXCEPT !.times = @ + 1]
       \/ msp = "broken" /\ UNCHANGED executed
    /\ Lost

StoreRows ==
    /\ Working("store") /\ msp = "live" /\ pending # 0
    /\ Return(0, pending) /\ pending' = 0 /\ errno' = "none"
    /\ UNCHANGED <<msp, opened, executed>>

\* The rows did not come, or there are none to come and the last statement
\* was lost.
StoreLost ==
    /\ Working("store")
    /\ IF pending # 0 THEN msp = "broken" ELSE errno = "lost"
    /\ Lost
    /\ UNCHANGED executed

StoreNothing ==
    /\ Working("store") /\ pending = 0 /\ errno # "lost"
    /\ Return(0, 0)
    /\ UNCHANGED <<msp, opened, pending, errno, executed>>

SetOption ==
    /\ Working("option")
    /\ Return(0, 0)
    /\ UNCHANGED <<msp, opened, pending, errno, executed>>

MysqlNext ==
    \/ ServerChanges \/ DropsConnection \/ MysqlConnect \/ MysqlDisconnect
    \/ \E retry \in BOOLEAN :
        \/ \E kind \in {"select", "update", "bad"} : MysqlQuery(kind, retry)
        \/ MysqlStoreResult(retry)
    \/ MysqlOptions \/ Connects \/ QueryRefused \/ QueryDone \/ QueryLost
    \/ StoreRows \/ StoreLost \/ StoreNothing \/ SetOption

---------------------------------------------------------------------------
(* Properties. *)

MysqlTypeOK ==
    /\ msp \in {"nohandle", "NULL", "live", "broken"} /\ reachable \in BOOLEAN
    /\ pending \in 0 .. MaxQueries /\ errno \in {"none", "lost", "sql", "other"}
    /\ call.at \in {"idle", "connect", "work"}
    /\ executed.n \in 0 .. MaxQueries

\* Whenever the connection breaks and is made again: a statement reported as
\* done was executed unless mysql_errno still says that the connection was
\* lost (the return value alone does not tell), one reported as refused was
\* not; none is executed twice without MYSQL_CONN_RETRY, or three times with
\* it; rows are those of the last statement that was answered; and no
\* connection is left open but the one of the handle.
AnswersAreTrue ==
    /\ MysqlTypeOK
    /\ last.api = "query" => CASE last.ret = 0  -> errno = "lost" \/ executed.times > 0
                               [] last.ret > 0  -> executed.times = 0
                               [] OTHER         -> TRUE
    /\ last.api = "query" => executed.times <= IF last.retry THEN 2 ELSE 1
    /\ last.rows # 0 => last.rows = executed.answered
    /\ opened = IF msp \in {"live", "broken"} /\ call.at # "connect" THEN 1 ELSE 0
=============================================================================
