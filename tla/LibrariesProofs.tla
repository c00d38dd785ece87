-------------------------- MODULE LibrariesProofs --------------------------
(***************************************************************************)
(* For every value of the constants: what the calls of mysql_api, ctapi_mc *)
(* and ctapi_curl return is true, what opus_api writes is complete, and    *)
(* nothing is put where something else still is: the descriptors that      *)
(* ctserver's child hands to the program it runs, and the texts of         *)
(* libstralloc in its static space and on the heap.                        *)
(*                                                                         *)
(* Each library has an inductive invariant about its own variables; the    *)
(* steps of the others leave these alone.                                  *)
(***************************************************************************)
EXTENDS Libraries, NatSets, FiniteSetTheorems, SequenceTheorems

---------------------------------------------------------------------------
(* ctapi_mc. *)

\* A length that fits into a char is stored as it is.
LEMMA SmallMeant ==
    ASSUME NEW len \in Lengths, Small(len)
    PROVE  Stored(len) \in Nat /\ Meant(len) = Stored(len)
<1>1. len \in Nat /\ CharSize \in Nat \ {0}
  BY ApiMcAssumption
<1>2. len % CharSize \in Nat /\ (len < CharSize => len % CharSize = len)
  BY <1>1
<1> QED BY <1>2 DEF Stored, Meant

\* Since the server may forget a value at any time, a user holds it for
\* possible at all times that there is none.
McInv == ReturnsAreTrue /\ DOMAIN known = Keys /\ \A k \in Keys : 0 \in known[k]

\* McInv is inductive.
LEMMA McStep == McInv /\ [McNext]_mcVars => McInv'
<1> SUFFICES ASSUME McInv, [McNext]_mcVars
             PROVE  McInv'
  OBVIOUS
<1> USE DEF McInv, ReturnsAreTrue
<1>1. ASSUME NEW k \in Keys, GetMc(k)
      PROVE  McInv'
  BY <1>1 DEF GetMc, Learn
<1>2. ASSUME NEW k \in Keys, DeleteMc(k) \/ DeleteMcFails(k)
      PROVE  McInv'
  BY <1>2 DEF DeleteMc, DeleteMcFails, Learn
<1>3. ASSUME NEW k \in Keys, Forget(k)
      PROVE  McInv'
  BY <1>3 DEF Forget
<1>4. ASSUME NEW k \in Keys, NEW len \in Lengths, SetMc(k, len)
      PROVE  McInv'
  BY <1>4, SmallMeant DEF SetMc, Learn
<1>5. ASSUME NEW k \in Keys, NEW len \in Lengths, SetMcFails(k, len)
      PROVE  McInv'
  BY <1>5, SmallMeant DEF SetMcFails, Doubt
<1>6. CASE UNCHANGED mcVars
  BY <1>6 DEF mcVars
<1> QED BY <1>1, <1>2, <1>3, <1>4, <1>5, <1>6 DEF McNext

---------------------------------------------------------------------------
(* ctapi_curl. *)

\* A buffer as pstr_t describes it.
Str == [str : BOOLEAN, size : Nat, len : Nat]

\* Between the requests there is no buffer, so that one whose initialisation
\* fails has nothing to lose.
CurlInv ==
    /\ headers \in Str /\ data \in Str
    /\ came \in [headers : Nat, data : Nat]
    /\ request \in {"idle", "running", "done", "failed"}
    /\ request = "idle" => headers = NoStr /\ data = NoStr
    /\ AnswerIsKept

\* A piece that is received is in the buffer, with room for the zero.
LEMMA ReceiveHolds ==
    ASSUME NEW p \in Str, NEW m \in Nat, Holds(p, m), NEW n \in Pieces
    PROVE  Receive(p, n) \in Str /\ Holds(Receive(p, n), m + n)
<1>1. n \in Nat /\ n > 0 /\ BufSize \in Nat \ {0}
  BY CurlApiAssumption
<1>2. /\ Buffer(p) \in Str /\ Buffer(p).str
      /\ Buffer(p).len = m /\ Buffer(p).size > m
  BY <1>1 DEF Buffer, Str, Holds
<1>3. /\ Grown(Buffer(p), n) \in Str /\ Grown(Buffer(p), n).str
      /\ Grown(Buffer(p), n).len = m
      /\ Grown(Buffer(p), n).size > m + n
  <2>1. \A q \in Str : q.str /\ q.len = m /\ q.size > m =>
            /\ Grown(q, n) \in Str /\ Grown(q, n).str /\ Grown(q, n).len = m
            /\ Grown(q, n).size > m + n
    BY <1>1 DEF Grown, Str
  <2> QED BY <1>2, <2>1
<1>4. \A q \in Str : q.str /\ q.len = m /\ q.size > m + n =>
          /\ [q EXCEPT !.len = @ + n] \in Str
          /\ Holds([q EXCEPT !.len = @ + n], m + n)
  BY <1>1 DEF Holds, Str
<1> QED BY <1>3, <1>4 DEF Receive

\* So is what came before, when a piece is refused.
LEMMA RefusedHolds ==
    ASSUME NEW p \in Str, NEW m \in Nat, Holds(p, m), NEW n \in Pieces,
           NEW q \in Refused(p, n)
    PROVE  q \in Str /\ Holds(q, m)
<1>1. Buffer(p) \in Str /\ Holds(Buffer(p), m)
  BY CurlApiAssumption DEF Buffer, Holds, Str
<1>2. q \in {p, Buffer(p)}
  BY DEF Refused
<1> QED BY <1>1, <1>2

\* CurlInv is inductive.
LEMMA CurlStep == CurlInv /\ [CurlNext]_curlVars => CurlInv'
<1> SUFFICES ASSUME CurlInv, [CurlNext]_curlVars
             PROVE  CurlInv'
  OBVIOUS
<1> USE DEF CurlInv, AnswerIsKept
<1>1. CASE CurlEasyInit
  BY <1>1 DEF CurlEasyInit
<1>2. CASE CurlInitFails
  <2>1. headers = NoStr /\ data = NoStr /\ NoStr.len = 0
    BY <1>2 DEF CurlInitFails, NoStr
  <2>2. came.headers = 0 /\ came.data = 0
    BY <2>1 DEF Holds
  <2>3. /\ headers' = [headers EXCEPT !.str = FALSE, !.size = 0]
        /\ UNCHANGED <<data, came>> /\ curlRet' = 0 /\ request' = "failed"
    BY <1>2 DEF CurlInitFails
  <2>4. headers' \in Str /\ ~headers'.str /\ headers'.len = headers.len
    BY <2>3 DEF Str
  <2> QED BY <2>1, <2>2, <2>3, <2>4 DEF Holds
<1>3. ASSUME NEW n \in Pieces, ReciveHeader(n)
      PROVE  CurlInv'
  <2>1. headers' \in Str /\ Holds(headers', came.headers + n)
    BY <1>3, ReceiveHolds DEF ReciveHeader
  <2>2. came' = [headers |-> came.headers + n, data |-> came.data] /\ n \in Nat
    BY <1>3, CurlApiAssumption DEF ReciveHeader
  <2> QED BY <1>3, <2>1, <2>2 DEF ReciveHeader
<1>4. ASSUME NEW n \in Pieces, ReciveData(n)
      PROVE  CurlInv'
  <2>1. data' \in Str /\ Holds(data', came.data + n)
    BY <1>4, ReceiveHolds DEF ReciveData
  <2>2. came' = [headers |-> came.headers, data |-> came.data + n] /\ n \in Nat
    BY <1>4, CurlApiAssumption DEF ReciveData
  <2> QED BY <1>4, <2>1, <2>2 DEF ReciveData
<1>5. ASSUME NEW h \in Str, NEW d \in Str, NEW how \in {"done", "failed"},
             Holds(h, came.headers), Holds(d, came.data), Ends(h, d, how)
      PROVE  CurlInv'
  BY <1>5 DEF Ends, Holds
<1>6. CASE PerformOk
  BY <1>5, <1>6 DEF PerformOk
<1>7. CASE PerformFails
  BY <1>5, <1>7, RefusedHolds DEF PerformFails
<1>8. CASE CallerFrees
  BY <1>8 DEF CallerFrees, NoStr, Str, Holds
<1>9. CASE UNCHANGED curlVars
  BY <1>9 DEF curlVars
<1> QED BY <1>1, <1>2, <1>3, <1>4, <1>6, <1>7, <1>8, <1>9 DEF CurlNext

---------------------------------------------------------------------------
(* mysql_api. *)

Calls ==
    [at : {"idle", "connect", "work"}, api : {"none", "query", "store", "option"},
     kind : {"none", "select", "update", "bad"}, retry : BOOLEAN, tried : BOOLEAN]

Answers ==
    [api : {"none", "query", "store", "option"}, ret : Int, retry : BOOLEAN, rows : Nat]

Executions == [n : 0 .. MaxQueries, times : Nat, answered : Nat]

\* Every call that runs, and every answer it gave.
MysqlTypes ==
    /\ MysqlTypeOK
    /\ call \in Calls /\ last \in Answers /\ executed \in Executions
    /\ opened \in Int

\* An answer is kept until the next call starts.  While a statement runs it
\* was executed at most as often as it was tried before, and never when the
\* server refuses it; rows on the connection are those of the last answer.
MysqlInv ==
    /\ MysqlTypes
    /\ call.at # "idle" \/ msp = "nohandle" => last = NoCall
    /\ msp = "nohandle" => call = Idle
    /\ call.at = "idle" => call = Idle
    /\ call.at = "work" => msp \in {"live", "broken"}
    /\ call.tried => call.retry
    /\ call.api = "query" =>
        /\ executed.times <= 1
        /\ ~call.tried \/ call.kind = "bad" => executed.times = 0
    /\ pending # 0 => pending = executed.answered
    /\ AnswersAreTrue

\* What holds when no call runs, and before one has returned.
LEMMA IdleFacts ==
    /\ Idle \in Calls /\ Idle.at = "idle" /\ ~Idle.tried /\ Idle.api = "none"
    /\ NoCall \in Answers /\ NoCall.api = "none" /\ NoCall.rows = 0
BY DEF Idle, Calls, NoCall, Answers

\* Losing the connection ends the call, or it is tried once more.
LEMMA LostStep ==
    ASSUME MysqlInv, call.at = "work", msp \in {"live", "broken"}, Lost,
           UNCHANGED reachable,
           \/ UNCHANGED executed
           \/ call.kind # "bad" /\ executed' = [executed EXCEPT !.times = @ + 1]
    PROVE  MysqlInv'
<1>1. MysqlTypes /\ last = NoCall /\ opened = 1
  BY DEF MysqlInv, MysqlTypes, MysqlTypeOK, AnswersAreTrue
<1>2. /\ executed' \in Executions /\ executed'.n = executed.n
      /\ executed'.answered = executed.answered
      /\ executed' = executed \/ (call.kind # "bad" /\ executed'.times = executed.times + 1)
  BY <1>1 DEF MysqlTypes, Executions
<1>3. CASE call.retry /\ ~call.tried
  <2>1. /\ call' = [call EXCEPT !.at = "connect", !.tried = TRUE]
        /\ msp' = "broken" /\ pending' = 0 /\ opened' = 0 /\ errno' = "none"
        /\ last' = NoCall /\ reachable' = reachable
    BY <1>1, <1>3 DEF Lost
  <2>2. /\ call' \in Calls /\ call'.at = "connect" /\ call'.tried /\ call'.retry
        /\ call'.api = call.api /\ call'.kind = call.kind
    BY <1>1, <1>3, <2>1 DEF MysqlTypes, Calls
  <2>3. NoCall \in Answers /\ NoCall.api = "none" /\ NoCall.rows = 0
    BY DEF NoCall, Answers
  <2>4. MysqlTypeOK'
    <3>1. reachable' \in BOOLEAN
      BY <1>1, <2>1, Zenon DEF MysqlTypes, MysqlTypeOK
    <3>2. pending' \in 0 .. MaxQueries
      BY <2>1, MysqlApiAssumption
    <3>3. executed'.n \in 0 .. MaxQueries
      BY <1>2 DEF Executions
    <3> QED BY <2>1, <2>2, <3>1, <3>2, <3>3 DEF MysqlTypeOK
  <2>5. AnswersAreTrue'
    BY <2>1, <2>2, <2>3, <2>4 DEF AnswersAreTrue
  <2>6. call.api = "query" => /\ executed'.times <= 1
                              /\ call.kind = "bad" => executed'.times = 0
    <3>1. executed.times \in Nat
      BY <1>1 DEF MysqlTypes, Executions
    <3>2. call.api = "query" => executed.times = 0
      BY <1>3, Zenon DEF MysqlInv
    <3>3. CASE executed' = executed
      BY <3>1, <3>2, <3>3
    <3>4. CASE call.kind # "bad" /\ executed'.times = executed.times + 1
      BY <3>1, <3>2, <3>4
    <3> QED BY <1>2, <3>3, <3>4
  <2>7. MysqlTypes'
    BY <1>2, <2>1, <2>2, <2>3, <2>4 DEF MysqlTypes
  <2> QED BY <2>1, <2>2, <2>5, <2>6, <2>7, Zenon DEF MysqlInv
<1>4. CASE ~(call.retry /\ ~call.tried)
  <2>1. /\ call' = Idle /\ msp' = "broken" /\ pending' = 0 /\ opened' = 1
        /\ last' = [api |-> call.api, ret |-> 0, retry |-> call.retry, rows |-> 0]
        /\ errno' = "lost" /\ reachable' = reachable
    BY <1>1, <1>4 DEF Lost, Return
  <2>2. Idle \in Calls /\ Idle.at = "idle" /\ ~Idle.tried /\ Idle.api = "none"
    BY DEF Idle, Calls
  <2>3. /\ last' \in Answers /\ last'.api = call.api /\ last'.ret = 0
        /\ last'.retry = call.retry /\ last'.rows = 0
    BY <1>1, <2>1 DEF MysqlTypes, Calls, Answers
  <2>4. MysqlTypeOK'
    <3>1. reachable' \in BOOLEAN
      BY <1>1, <2>1, Zenon DEF MysqlTypes, MysqlTypeOK
    <3>2. pending' \in 0 .. MaxQueries
      BY <2>1, MysqlApiAssumption
    <3>3. executed'.n \in 0 .. MaxQueries
      BY <1>2 DEF Executions
    <3> QED BY <2>1, <2>2, <3>1, <3>2, <3>3 DEF MysqlTypeOK
  <2>5. call.api = "query" => executed'.times <= IF call.retry THEN 2 ELSE 1
    <3>1. executed.times \in Nat
      BY <1>1 DEF MysqlTypes, Executions
    <3>2. call.api = "query" => executed.times <= 1 /\ (~call.retry => executed.times = 0)
      BY Zenon DEF MysqlInv
    <3>3. executed'.times \in {executed.times, executed.times + 1}
      BY <1>2
    <3> QED BY <3>1, <3>2, <3>3
  <2>6. AnswersAreTrue'
    BY <2>1, <2>2, <2>3, <2>4, <2>5 DEF AnswersAreTrue
  <2> QED BY <1>1, <1>2, <2>1, <2>2, <2>3, <2>4, <2>6 DEF MysqlInv, MysqlTypes
<1> QED BY <1>3, <1>4

\* The server goes away or comes back.
LEMMA ServerStep ==
    ASSUME MysqlInv, ServerChanges \/ DropsConnection
    PROVE  MysqlInv'
<1>1. /\ UNCHANGED <<opened, pending, errno, call, executed, last>>
      /\ msp' = msp \/ (msp = "live" /\ msp' = "broken")
  BY DEF ServerChanges, DropsConnection
<1>2. reachable' \in BOOLEAN
  BY Zenon DEF ServerChanges, DropsConnection, MysqlInv, MysqlTypes, MysqlTypeOK
<1>3. MysqlTypes'
  BY <1>1, <1>2 DEF MysqlInv, MysqlTypes, MysqlTypeOK
<1>4. AnswersAreTrue'
  BY <1>1, <1>3 DEF MysqlInv, MysqlTypes, AnswersAreTrue
<1> QED BY <1>1, <1>3, <1>4 DEF MysqlInv

\* The handle is made or freed.
LEMMA HandleStep ==
    ASSUME MysqlInv, MysqlConnect \/ MysqlDisconnect
    PROVE  MysqlInv'
<1>1. UNCHANGED <<reachable, call, executed>> /\ call = Idle /\ last' = NoCall
  BY DEF MysqlConnect, MysqlDisconnect, MysqlInv
<1>2. pending' \in {pending, 0} /\ errno' \in {errno, "none"}
  BY DEF MysqlConnect, ConnOk, MysqlDisconnect
<1>3. /\ MysqlTypes /\ msp \in {"nohandle", "NULL", "live", "broken"}
      /\ msp \in {"live", "broken"} => opened = 1
      /\ msp \notin {"live", "broken"} => opened = 0
  BY <1>1, IdleFacts DEF MysqlInv, MysqlTypes, MysqlTypeOK, AnswersAreTrue
<1>4. \/ msp' = "live" /\ opened' = 1
      \/ msp' = "nohandle" /\ opened' = 0
  <2>1. CASE MysqlConnect
    BY <1>3, <2>1 DEF MysqlConnect, ConnOk
  <2>2. CASE MysqlDisconnect
    BY <1>3, <2>2 DEF MysqlDisconnect
  <2> QED BY <2>1, <2>2
<1>5. MysqlTypes'
  <2>1. reachable' \in BOOLEAN
    BY <1>1, <1>3, Zenon DEF MysqlTypes, MysqlTypeOK
  <2>2. pending' \in 0 .. MaxQueries
    BY <1>2, <1>3, MysqlApiAssumption DEF MysqlTypes, MysqlTypeOK
  <2>3. errno' \in {"none", "lost", "sql", "other"}
    BY <1>2, <1>3 DEF MysqlTypes, MysqlTypeOK
  <2>4. MysqlTypeOK'
    BY <1>1, <1>3, <1>4, <2>1, <2>2, <2>3 DEF MysqlTypes, MysqlTypeOK
  <2> QED BY <1>1, <1>3, <1>4, <2>4, IdleFacts DEF MysqlTypes
<1>6. AnswersAreTrue'
  BY <1>1, <1>4, <1>5, IdleFacts DEF MysqlTypes, AnswersAreTrue
<1>7. pending' # 0 => pending' = executed'.answered
  BY <1>1, <1>2 DEF MysqlInv
<1> QED BY <1>1, <1>4, <1>5, <1>6, <1>7, IdleFacts DEF MysqlInv

\* A call starts.
LEMMA StartStep ==
    ASSUME MysqlInv,
           \/ \E retry \in BOOLEAN :
                \/ \E kind \in {"select", "update", "bad"} : MysqlQuery(kind, retry)
                \/ MysqlStoreResult(retry)
           \/ MysqlOptions
    PROVE  MysqlInv'
<1>1. PICK api \in {"query", "store", "option"}, kind \in {"none", "select", "update", "bad"},
           retry \in BOOLEAN :
        /\ Starts(api, kind, retry)
        /\ \/ api # "query" /\ UNCHANGED executed
           \/ executed.n < MaxQueries /\ executed' = [executed EXCEPT !.n = @ + 1, !.times = 0]
  BY DEF MysqlQuery, MysqlStoreResult, MysqlOptions
<1>2. /\ call' \in Calls /\ ~call'.tried /\ call'.api = api
      /\ call'.at = IF msp = "NULL" THEN "connect" ELSE "work"
  BY <1>1 DEF Starts, Calls
<1>3. /\ msp # "nohandle" /\ call = Idle /\ last' = NoCall
      /\ UNCHANGED <<msp, reachable, opened, pending, errno>>
  BY <1>1 DEF Starts
<1>4. /\ executed' \in Executions /\ executed'.answered = executed.answered
      /\ api = "query" => executed'.times = 0
  <2>1. executed \in Executions
    BY DEF MysqlInv, MysqlTypes
  <2>2. CASE api # "query" /\ UNCHANGED executed
    BY <2>1, <2>2
  <2>3. CASE /\ executed.n < MaxQueries
             /\ executed' = [executed EXCEPT !.n = @ + 1, !.times = 0]
    <3>1. executed.n + 1 \in 0 .. MaxQueries
      BY <2>1, <2>3, MysqlApiAssumption DEF Executions
    <3> QED BY <2>1, <2>3, <3>1 DEF Executions
  <2> QED BY <1>1, <2>2, <2>3
<1>5. executed'.n \in 0 .. MaxQueries
  BY <1>4 DEF Executions
<1>6. MysqlTypes'
  BY <1>2, <1>3, <1>4, <1>5, IdleFacts DEF MysqlInv, MysqlTypes, MysqlTypeOK
<1>7. opened' = IF msp' \in {"live", "broken"} /\ call'.at # "connect" THEN 1 ELSE 0
  BY <1>2, <1>3, IdleFacts DEF MysqlInv, AnswersAreTrue
<1>8. AnswersAreTrue'
  BY <1>3, <1>6, <1>7, IdleFacts DEF MysqlTypes, AnswersAreTrue
<1>9. msp' \in {"NULL", "live", "broken"}
  BY <1>3 DEF MysqlInv, MysqlTypes, MysqlTypeOK
<1>10. call'.api = "query" => executed'.times <= 1 /\ executed'.times = 0
  BY <1>2, <1>4
<1>11. pending' # 0 => pending' = executed'.answered
  BY <1>3, <1>4 DEF MysqlInv
<1>12. call'.at # "idle" /\ (call'.at = "work" => msp' \in {"live", "broken"})
  BY <1>2, <1>3, <1>9
<1> QED BY <1>2, <1>3, <1>6, <1>8, <1>9, <1>10, <1>11, <1>12, Zenon DEF MysqlInv

\* A call connects, for the first time or again.
LEMMA ConnectsStep ==
    ASSUME MysqlInv, Connects
    PROVE  MysqlInv'
<1>1. /\ MysqlTypes /\ last = NoCall /\ opened = 0 /\ call.at = "connect"
      /\ UNCHANGED <<reachable, executed>>
  BY DEF MysqlInv, AnswersAreTrue, Connects
<1>2. reachable' \in BOOLEAN
  BY <1>1, Zenon DEF MysqlTypes, MysqlTypeOK
<1>3. CASE ConnOk /\ call' = [call EXCEPT !.at = "work"] /\ UNCHANGED last
  <2>1. /\ call' \in Calls /\ call'.at = "work" /\ call'.api = call.api
        /\ call'.kind = call.kind /\ call'.tried = call.tried /\ call'.retry = call.retry
    BY <1>1, <1>3 DEF MysqlTypes, Calls
  <2>2. /\ msp' = "live" /\ opened' = 1 /\ pending' = 0 /\ errno' = "none"
        /\ last' = NoCall
    BY <1>1, <1>3 DEF ConnOk
  <2>3. MysqlTypes'
    BY <1>1, <1>2, <2>1, <2>2, IdleFacts, MysqlApiAssumption DEF MysqlTypes, MysqlTypeOK
  <2>4. AnswersAreTrue'
    BY <2>1, <2>2, <2>3, IdleFacts DEF MysqlTypes, AnswersAreTrue
  <2>5. executed'.times = executed.times
    BY <1>1
  <2> QED BY <2>1, <2>2, <2>3, <2>4, <2>5, Zenon DEF MysqlInv
<1>4. CASE ConnFail /\ Return(IF call.api = "option" THEN -2 ELSE -1, 0)
  <2>1. /\ msp' = "NULL" /\ opened' = 0 /\ UNCHANGED <<pending, errno>> /\ call' = Idle
        /\ last' = [api |-> call.api, ret |-> IF call.api = "option" THEN -2 ELSE -1,
                    retry |-> call.retry, rows |-> 0]
    BY <1>1, <1>4 DEF ConnFail, Return
  <2>2. /\ last' \in Answers /\ last'.api = call.api /\ last'.retry = call.retry
        /\ last'.rows = 0 /\ last'.ret < 0
    BY <1>1, <2>1 DEF MysqlTypes, Calls, Answers
  <2>3. MysqlTypes'
    BY <1>1, <1>2, <2>1, <2>2, IdleFacts DEF MysqlTypes, MysqlTypeOK
  <2>4. call.api = "query" => executed'.times <= IF call.retry THEN 2 ELSE 1
    <3>1. executed'.times \in Nat
      BY <1>1 DEF MysqlTypes, Executions
    <3>2. call.api = "query" => executed'.times <= 1
      BY <1>1 DEF MysqlInv
    <3> QED BY <3>1, <3>2
  <2>5. AnswersAreTrue'
    <3>1. last'.ret # 0 /\ ~(last'.ret > 0)
      BY <2>2, <2>3 DEF MysqlTypes, Answers
    <3> QED BY <2>1, <2>2, <2>3, <2>4, <3>1, IdleFacts DEF MysqlTypes, AnswersAreTrue
  <2>6. pending' # 0 => pending' = executed'.answered
    BY <1>1, <2>1 DEF MysqlInv
  <2> QED BY <2>1, <2>3, <2>5, <2>6, IdleFacts DEF MysqlInv
<1> QED BY <1>3, <1>4 DEF Connects

\* A call returns with an answer of the connection.
LEMMA ReturnStep ==
    ASSUME MysqlInv, call.at = "work", NEW r \in Int, NEW rows \in Nat, Return(r, rows),
           UNCHANGED <<msp, reachable, opened>>,
           executed' \in Executions,
           errno' \in {errno, "none", "other", "sql"},
           pending' \in 0 .. MaxQueries,
           pending' # 0 => pending' = executed'.answered,
           rows # 0 => rows = executed'.answered,
           call.api = "query" =>
                /\ executed'.times <= IF call.retry THEN 2 ELSE 1
                /\ r = 0 => executed'.times > 0
                /\ r > 0 => executed'.times = 0
    PROVE  MysqlInv'
<1>1. MysqlTypes /\ msp' \in {"live", "broken"} /\ opened' = 1
  BY DEF MysqlInv, AnswersAreTrue
<1>2. /\ call' = Idle
      /\ last' = [api |-> call.api, ret |-> r, retry |-> call.retry, rows |-> rows]
  BY DEF Return
<1>3. /\ last' \in Answers /\ last'.api = call.api /\ last'.retry = call.retry
      /\ last'.rows = rows /\ last'.ret = r
  BY <1>1, <1>2 DEF MysqlTypes, Calls, Answers
<1>4. reachable' \in BOOLEAN
  BY <1>1, Zenon DEF MysqlTypes, MysqlTypeOK
<1>5. executed'.n \in 0 .. MaxQueries /\ executed'.times \in Nat
  BY DEF Executions
<1>6. MysqlTypes'
  BY <1>1, <1>2, <1>3, <1>4, <1>5, IdleFacts DEF MysqlTypes, MysqlTypeOK
<1>7. AnswersAreTrue'
  BY <1>1, <1>2, <1>3, <1>5, <1>6, IdleFacts DEF MysqlTypes, AnswersAreTrue
<1> QED BY <1>1, <1>2, <1>6, <1>7, IdleFacts DEF MysqlInv

\* A statement is refused or done.
LEMMA QueryStep ==
    ASSUME MysqlInv, QueryRefused \/ QueryDone
    PROVE  MysqlInv'
<1>1. /\ MysqlTypes /\ call.at = "work" /\ call.api = "query"
      /\ UNCHANGED <<msp, reachable, opened>>
  BY DEF MysqlInv, QueryRefused, QueryDone, Working
<1>2. executed \in Executions /\ executed.times \in Nat /\ pending \in 0 .. MaxQueries
  BY <1>1 DEF MysqlTypes, MysqlTypeOK, Executions
<1>3. executed.times <= 1 /\ (~call.tried \/ call.kind = "bad" => executed.times = 0)
  BY <1>1, Zenon DEF MysqlInv
<1>4. executed.times <= IF call.retry THEN 1 ELSE 0
  <2>1. ~call.retry => executed.times = 0
    BY <1>3, Zenon DEF MysqlInv
  <2> QED BY <1>2, <1>3, <2>1
<1>5. pending # 0 => pending = executed.answered
  BY DEF MysqlInv
<1>6. ASSUME QueryRefused, pending # 0, errno' = "other", Return(-1, 0)
      PROVE  MysqlInv'
  BY <1>1, <1>2, <1>4, <1>5, <1>6, ReturnStep DEF QueryRefused
<1>7. ASSUME QueryRefused, call.kind = "bad", errno' = "sql", Return(1064, 0)
      PROVE  MysqlInv'
  BY <1>1, <1>2, <1>3, <1>5, <1>7, ReturnStep DEF QueryRefused
<1>8. CASE QueryDone
  <2>1. /\ executed' = [executed EXCEPT !.times = @ + 1, !.answered = executed.n]
        /\ pending' \in {0, executed.n} /\ errno' = "none" /\ Return(0, 0)
    BY <1>8 DEF QueryDone
  <2>2. /\ executed' \in Executions /\ executed'.times = executed.times + 1
        /\ executed'.answered = executed.n /\ executed.n \in 0 .. MaxQueries
    <3>1. executed.n \in 0 .. MaxQueries /\ executed.n \in Nat /\ executed.times + 1 \in Nat
      BY <1>2, MysqlApiAssumption DEF Executions
    <3> QED BY <1>2, <2>1, <3>1 DEF Executions
  <2>3. pending' \in 0 .. MaxQueries /\ (pending' # 0 => pending' = executed'.answered)
    BY <2>1, <2>2, MysqlApiAssumption
  <2>4. executed'.times <= IF call.retry THEN 2 ELSE 1
    BY <1>2, <1>4, <2>2
  <2>5. executed'.times > 0
    BY <1>2, <2>2
  <2> QED BY <1>1, <2>1, <2>2, <2>3, <2>4, <2>5, ReturnStep
<1> QED BY <1>6, <1>7, <1>8 DEF QueryRefused

\* The other calls return, with rows or without.
LEMMA StoreStep ==
    ASSUME MysqlInv, StoreRows \/ StoreNothing \/ SetOption
    PROVE  MysqlInv'
<1>1. /\ MysqlTypes /\ call.at = "work" /\ call.api # "query"
      /\ UNCHANGED <<msp, reachable, opened, executed>>
  BY DEF MysqlInv, StoreRows, StoreNothing, SetOption, Working
<1>2. executed \in Executions /\ pending \in 0 .. MaxQueries /\ pending \in Nat
  BY <1>1, MysqlApiAssumption DEF MysqlTypes, MysqlTypeOK
<1>3. pending # 0 => pending = executed.answered
  BY DEF MysqlInv
<1>4. CASE StoreRows
  <2>1. Return(0, pending) /\ pending' = 0 /\ errno' = "none"
    BY <1>4 DEF StoreRows
  <2>2. pending' \in 0 .. MaxQueries
    BY <2>1, MysqlApiAssumption
  <2> QED BY <1>1, <1>2, <1>3, <2>1, <2>2, ReturnStep
<1>5. CASE StoreNothing \/ SetOption
  <2>1. Return(0, 0) /\ UNCHANGED <<pending, errno>>
    BY <1>5 DEF StoreNothing, SetOption
  <2> QED BY <1>1, <1>2, <1>3, <2>1, ReturnStep
<1> QED BY <1>4, <1>5

\* MysqlInv is inductive.
LEMMA MysqlStep == MysqlInv /\ [MysqlNext]_mysqlVars => MysqlInv'
<1> SUFFICES ASSUME MysqlInv, [MysqlNext]_mysqlVars
             PROVE  MysqlInv'
  OBVIOUS
<1>1. call.at = "work" => msp \in {"live", "broken"}
  BY DEF MysqlInv
<1>2. CASE QueryLost
  BY <1>1, <1>2, LostStep DEF QueryLost, Working
<1>3. CASE StoreLost
  BY <1>1, <1>3, LostStep DEF StoreLost, Working
<1>4. CASE UNCHANGED mysqlVars
  BY <1>4 DEF mysqlVars, MysqlInv, MysqlTypes, MysqlTypeOK, AnswersAreTrue
<1>5. CASE MysqlNext
  BY <1>2, <1>3, <1>5, ServerStep, HandleStep, StartStep, ConnectsStep, QueryStep,
     StoreStep DEF MysqlNext
<1> QED BY <1>4, <1>5

---------------------------------------------------------------------------
(* opus_api.  Where a packet ends is a sum, which is a recursive function. *)

\* EndOf is that sum.
LEMMA EndOfIs ==
    ASSUME NEW p \in Seq(Int)
    PROVE  \E f : /\ f = [k \in 0 .. Len(p) |-> IF k = 0 THEN 0 ELSE f[k - 1] + PacketSize(p[k])]
                  /\ \A n : EndOf(p, n) = f[n]
<1> DEFINE Is(f) == f = [k \in 0 .. Len(p) |-> IF k = 0 THEN 0 ELSE f[k - 1] + PacketSize(p[k])]
           F == CHOOSE f : Is(f)
           g == [k \in 1 .. Len(p) |-> PacketSize(p[k])]
<1>1. \A k \in 1 .. Len(p) : g[k] \in Int
  BY DEF PacketSize, Field
<1>2. \E f : Is(f)
  <2>1. \A k \in 1 .. Len(p) : g[k] = PacketSize(p[k])
    OBVIOUS
  <2>2. Len(p) \in Nat
    OBVIOUS
  <2> HIDE DEF g
  <2>3. PICK f : f = [k \in 0 .. Len(p) |-> IF k = 0 THEN 0 ELSE f[k - 1] + g[k]]
    BY <1>1, <2>2, Sums
  <2> DEFINE h == [k \in 0 .. Len(p) |-> IF k = 0 THEN 0 ELSE f[k - 1] + PacketSize(p[k])]
  <2>4. ASSUME NEW k \in 0 .. Len(p) PROVE f[k] = h[k]
    <3>1. f[k] = IF k = 0 THEN 0 ELSE f[k - 1] + g[k]
      BY <2>3
    <3>2. CASE k = 0
      BY <3>1, <3>2
    <3>3. CASE k # 0
      BY <2>1, <2>2, <3>1, <3>3
    <3> QED BY <3>2, <3>3
  <2>5. f = [k \in 0 .. Len(p) |-> f[k]]
    BY <2>3
  <2>6. h = [k \in 0 .. Len(p) |-> h[k]]
    OBVIOUS
  <2>7. f = h
    <3> HIDE DEF h
    <3> QED BY <2>4, <2>5, <2>6
  <2>8. Is(f)
    BY <2>7
  <2> QED BY <2>8
<1>3. Is(F)
  <2> HIDE DEF Is
  <2> QED BY <1>2
<1>4. \A n : EndOf(p, n) = F[n]
  BY DEF EndOf
<1> HIDE DEF F
<1> QED BY <1>3, <1>4

\* What a call for one file of packets relies on: where the packets end.
LEMMA PacketEnds ==
    ASSUME NEW p \in Seq(Int)
    PROVE  /\ EndOf(p, 0) = 0
           /\ \A n \in 0 .. Len(p) : EndOf(p, n) \in Nat
           /\ \A n \in 0 .. Len(p) - 1 : EndOf(p, n + 1) = EndOf(p, n) + PacketSize(p[n + 1])
<1> DEFINE len == Len(p)
<1>1. len \in Nat /\ \A k \in 1 .. len : PacketSize(p[k]) \in Nat
  BY DEF PacketSize, Field
<1>2. PICK f : /\ f = [k \in 0 .. len |-> IF k = 0 THEN 0 ELSE f[k - 1] + PacketSize(p[k])]
               /\ \A n : EndOf(p, n) = f[n]
  BY EndOfIs
<1>3. f[0] = 0 /\ \A k \in 1 .. len : f[k] = f[k - 1] + PacketSize(p[k])
  <2>1. 0 \in 0 .. len /\ \A k \in 1 .. len : k \in 0 .. len /\ k # 0
    BY <1>1
  <2> HIDE DEF len
  <2>2. \A k \in 0 .. len : f[k] = IF k = 0 THEN 0 ELSE f[k - 1] + PacketSize(p[k])
    BY <1>2
  <2> QED BY <2>1, <2>2
<1>4. \A n \in 0 .. len - 1 : f[n + 1] = f[n] + PacketSize(p[n + 1])
  <2>1. ASSUME NEW n \in 0 .. len - 1 PROVE n + 1 \in 1 .. len /\ n + 1 - 1 = n
    BY <1>1
  <2> HIDE DEF len
  <2> QED BY <1>3, <2>1
<1> HIDE DEF len
<1> DEFINE S == {n \in Nat : n <= len => f[n] \in Nat}
<1>5. 0 \in S
  BY <1>3
<1>6. ASSUME NEW n \in Nat, n \in S PROVE n + 1 \in S
  <2> SUFFICES ASSUME n + 1 <= len PROVE f[n + 1] \in Nat
    OBVIOUS
  <2>1. n \in 0 .. len - 1 /\ n + 1 \in 1 .. len /\ f[n] \in Nat
    BY <1>1, <1>6
  <2>2. f[n + 1] = f[n] + PacketSize(p[n + 1]) /\ PacketSize(p[n + 1]) \in Nat
    BY <1>1, <1>4, <2>1
  <2> QED BY <2>1, <2>2
<1> HIDE DEF S
<1>7. \A n \in Nat : n \in S
  BY <1>5, <1>6, NatSet
<1>8. \A n \in 0 .. len : f[n] \in Nat
  BY <1>1, <1>7 DEF S
<1>9. EndOf(p, 0) = 0
  BY <1>2, <1>3, Zenon
<1>10. \A n \in 0 .. len : EndOf(p, n) \in Nat
  BY <1>2, <1>8, Zenon
<1>11. \A n \in 0 .. len - 1 : EndOf(p, n + 1) = EndOf(p, n) + PacketSize(p[n + 1])
  BY <1>2, <1>4, Zenon
<1> QED BY <1>9, <1>10, <1>11, Zenon DEF len

\* A packet takes at least the two fields of its length.
LEMMA EndsGrow ==
    ASSUME NEW p \in Seq(Int), NEW m \in 0 .. Len(p), NEW n \in 0 .. Len(p), m < n
    PROVE  EndOf(p, m) + 8 <= EndOf(p, n)
<1> DEFINE len == Len(p)
           S   == {k \in Nat : m + k + 1 <= len => EndOf(p, m) + 8 <= EndOf(p, m + k + 1)}
<1>1. len \in Nat /\ m \in Nat /\ n \in Nat /\ n <= len
  OBVIOUS
<1>2. \A k \in 0 .. len : EndOf(p, k) \in Nat
  BY PacketEnds, Zenon
<1>3. \A k \in 0 .. len - 1 :
        EndOf(p, k + 1) = EndOf(p, k) + PacketSize(p[k + 1]) /\ PacketSize(p[k + 1]) >= 8
        /\ PacketSize(p[k + 1]) \in Nat
  <2>1. \A k \in 1 .. len : PacketSize(p[k]) >= 8 /\ PacketSize(p[k]) \in Nat
    BY DEF PacketSize, Field
  <2>2. \A k \in 0 .. len - 1 : k + 1 \in 1 .. len
    BY <1>1
  <2>3. \A k \in 0 .. len - 1 : EndOf(p, k + 1) = EndOf(p, k) + PacketSize(p[k + 1])
    BY PacketEnds, Zenon
  <2> HIDE DEF len
  <2> QED BY <2>1, <2>2, <2>3
<1> HIDE DEF len
<1>4. 0 \in S
  <2> SUFFICES ASSUME m + 1 <= len PROVE EndOf(p, m) + 8 <= EndOf(p, m + 1)
    BY <1>1
  <2>1. m \in 0 .. len - 1 /\ m \in 0 .. len
    BY <1>1
  <2> QED BY <1>2, <1>3, <2>1
<1>5. ASSUME NEW k \in Nat, k \in S PROVE k + 1 \in S
  <2> SUFFICES ASSUME m + k + 2 <= len PROVE EndOf(p, m) + 8 <= EndOf(p, m + k + 2)
    BY <1>1
  <2>1. /\ m + k + 1 \in 0 .. len - 1 /\ m + k + 1 \in 0 .. len /\ m \in 0 .. len
        /\ (m + k + 1) + 1 = m + k + 2
    BY <1>1
  <2>2. EndOf(p, m) + 8 <= EndOf(p, m + k + 1)
    BY <1>1, <1>5
  <2>3. EndOf(p, m + k + 2) = EndOf(p, m + k + 1) + PacketSize(p[m + k + 2])
        /\ PacketSize(p[m + k + 2]) >= 8 /\ PacketSize(p[m + k + 2]) \in Nat
    BY <1>3, <2>1
  <2>4. EndOf(p, m) \in Nat /\ EndOf(p, m + k + 1) \in Nat
    BY <1>2, <2>1
  <2> QED BY <2>2, <2>3, <2>4
<1> HIDE DEF S
<1>6. \A k \in Nat : k \in S
  BY <1>4, <1>5, NatSet
<1>7. n - m - 1 \in Nat /\ m + (n - m - 1) + 1 = n
  BY <1>1
<1>8. n - m - 1 \in S
  BY <1>6, <1>7
<1>9. m + (n - m - 1) + 1 <= len => EndOf(p, m) + 8 <= EndOf(p, m + (n - m - 1) + 1)
  BY <1>8 DEF S
<1> QED BY <1>1, <1>7, <1>9

\* q is p with x behind it, and so are the ends of its packets.
Longer(p, q, x) ==
    /\ q \in Seq(Int) /\ Len(q) = Len(p) + 1 /\ q[Len(p) + 1] = x
    /\ \A n \in 1 .. Len(p) : q[n] = p[n]
    /\ \A n \in 0 .. Len(p) : EndOf(q, n) = EndOf(p, n)
    /\ EndOf(q, Len(p) + 1) = EndOf(p, Len(p)) + PacketSize(x)

\* A packet behind the others leaves their ends.
LEMMA EndsKept ==
    ASSUME NEW p \in Seq(Int), NEW x \in Int, NEW q, q = Append(p, x)
    PROVE  Longer(p, q, x)
<1> DEFINE len == Len(p)
           S   == {n \in Nat : n <= len => EndOf(q, n) = EndOf(p, n)}
<1>1. /\ q \in Seq(Int) /\ Len(q) = len + 1 /\ q[len + 1] = x /\ len \in Nat
      /\ \A n \in 1 .. len : q[n] = p[n]
  OBVIOUS
<1>2. /\ EndOf(p, 0) = 0 /\ EndOf(q, 0) = 0
      /\ \A n \in 0 .. len - 1 : EndOf(p, n + 1) = EndOf(p, n) + PacketSize(p[n + 1])
      /\ \A n \in 0 .. len : EndOf(q, n + 1) = EndOf(q, n) + PacketSize(q[n + 1])
  <2>1. len = Len(q) - 1
    BY <1>1
  <2>2. /\ EndOf(p, 0) = 0
        /\ \A n \in 0 .. len - 1 : EndOf(p, n + 1) = EndOf(p, n) + PacketSize(p[n + 1])
    BY PacketEnds, Zenon
  <2>3. /\ EndOf(q, 0) = 0
        /\ \A n \in 0 .. Len(q) - 1 : EndOf(q, n + 1) = EndOf(q, n) + PacketSize(q[n + 1])
    BY <1>1, PacketEnds, Zenon
  <2> HIDE DEF len
  <2> QED BY <2>1, <2>2, <2>3, Zenon
<1> HIDE DEF len
<1>3. 0 \in S
  BY <1>2
<1>4. ASSUME NEW n \in Nat, n \in S PROVE n + 1 \in S
  <2> SUFFICES ASSUME n + 1 <= len PROVE EndOf(q, n + 1) = EndOf(p, n + 1)
    OBVIOUS
  <2>1. n \in 0 .. len - 1 /\ n \in 0 .. len /\ n + 1 \in 1 .. len /\ n <= len
    BY <1>1
  <2>2. EndOf(q, n) = EndOf(p, n) /\ q[n + 1] = p[n + 1]
    BY <1>1, <1>4, <2>1
  <2> QED BY <1>2, <2>1, <2>2
<1> HIDE DEF S
<1>5. \A n \in Nat : n \in S
  BY <1>3, <1>4, NatSet
<1>6. \A n \in 0 .. len : EndOf(q, n) = EndOf(p, n)
  BY <1>1, <1>5 DEF S
<1>7. EndOf(q, len + 1) = EndOf(p, len) + PacketSize(x)
  <2>1. len \in 0 .. len
    BY <1>1
  <2> QED BY <1>1, <1>2, <1>6, <2>1
<1> QED BY <1>1, <1>6, <1>7 DEF len, Longer

\* As many frames as it takes to be behind the last sample, with the one that is
\* not full, are one more than the full ones.
LEMMA Rounded ==
    ASSUME NEW s \in Nat, NEW F \in Nat \ {0}, NEW L \in Nat, F * L > s, F * L <= s + F
    PROVE  L = s \div F + 1
<1> DEFINE q == s \div F
<1>1. q \in Int /\ F * q <= s /\ s < F * q + F
  BY SMTT(30)
<1> HIDE DEF q
<1>2. ASSUME NEW a \in Int, NEW b \in Int, F * a < F * b PROVE a < b
  BY <1>2, SMTT(30)
<1>3. F * (L - 1) = F * L - F /\ F * (q + 1) = F * q + F
  BY <1>1
<1>4. F * (L - 1) < F * (q + 1) /\ F * q < F * L
  BY <1>1, <1>3
<1>5. L - 1 < q + 1 /\ q < L
  BY <1>1, <1>2, <1>4
<1> QED BY <1>1, <1>5 DEF q

\* The places of the packets that were heard.
Heard(s) == {i \in DOMAIN s : s[i]}

\* One packet more is one sound more if it is heard.
LEMMA HeardMore ==
    ASSUME NEW s \in Seq(BOOLEAN), NEW b \in BOOLEAN, NEW t, t = Append(s, b)
    PROVE  /\ Cardinality(Heard(s)) \in Nat
           /\ Cardinality(Heard(t)) = Cardinality(Heard(s)) + IF b THEN 1 ELSE 0
<1> DEFINE len == Len(s)
<1>1. /\ len \in Nat /\ DOMAIN s = 1 .. len /\ DOMAIN t = 1 .. len + 1
      /\ \A i \in 1 .. len : t[i] = s[i]
      /\ t[len + 1] = b
  OBVIOUS
<1> HIDE DEF len
<1>2. IsFiniteSet(Heard(s)) /\ Cardinality(Heard(s)) \in Nat
  <2>1. IsFiniteSet(1 .. len)
    BY <1>1, FS_Interval
  <2>2. Heard(s) \subseteq 1 .. len
    BY <1>1 DEF Heard
  <2> QED BY <2>1, <2>2, FS_Subset, FS_CardinalityType
<1>3. len + 1 \notin Heard(s)
  BY <1>1 DEF Heard
<1>4. CASE b
  <2>1. Heard(t) = Heard(s) \cup {len + 1}
    BY <1>1, <1>4 DEF Heard
  <2>2. Cardinality(Heard(t)) = Cardinality(Heard(s)) + 1
    BY <1>2, <1>3, <2>1, FS_AddElement
  <2> QED BY <1>2, <1>4, <2>2
<1>5. CASE ~b
  <2>1. Heard(t) = Heard(s)
    BY <1>1, <1>5 DEF Heard
  <2> QED BY <1>2, <1>5, <2>1
<1> QED BY <1>4, <1>5

OpusTypes ==
    /\ working \in {"nothing", "encode", "decode"}
    /\ held = IF working = "nothing" THEN {} ELSE All
    /\ samples \in Nat /\ packets \in Seq(Int) /\ at \in Nat
    /\ onDisk \in Nat /\ onDisk <= Offset(Len(packets))
    /\ played \in Seq(BOOLEAN) /\ header \in [wanted : BOOLEAN, size : Nat]

\* Every turn of the loop has taken one frame and written one packet.
Encoding ==
    working = "encode" => at = FrameSize * Len(packets) /\ at <= samples + FrameSize

\* Every turn of the loop has read one packet, that is there unless it has no
\* bytes, and counted one frame for the header if it was heard.
Decoding ==
    working = "decode" =>
        /\ at = Len(played) /\ at <= Len(packets) /\ wavSays = 0
        /\ \A n \in 1 .. at : Offset(n) <= onDisk \/ packets[n] = 0
        /\ header.wanted => header.size = Sounds * FrameSize

\* SamplesArrive speaks of the calls that have returned.
OpusInv ==
    /\ OpusTypes /\ Encoding /\ Decoding
    /\ working # "nothing" => done = Nothing
    /\ SamplesArrive

\* While no call has returned, SamplesArrive only says what is held.
LEMMA NothingDone ==
    ASSUME held' = IF working' = "nothing" THEN {} ELSE All, done' = Nothing
    PROVE  SamplesArrive'
<1>1. /\ done' # [call |-> "encode", ok |-> TRUE] /\ done' # [call |-> "decode", ok |-> TRUE]
      /\ done' # [call |-> "decode", ok |-> FALSE]
  BY DEF Nothing
<1> QED BY <1>1 DEF SamplesArrive

\* What a frame does.
LEMMA EncodeFrameStep ==
    ASSUME OpusInv, NEW len \in PacketLens, EncodeFrame(len)
    PROVE  OpusInv'
<1>1. /\ working = "encode" /\ at <= samples /\ at' = at + FrameSize
      /\ packets' = Append(packets, len)
      /\ UNCHANGED <<working, held, samples, onDisk, played, header, wavSays, done>>
  BY DEF EncodeFrame
<1>2. OpusTypes /\ Encoding /\ done = Nothing
  BY <1>1 DEF OpusInv
<1>3. len \in Nat /\ FrameSize \in Nat
  BY OpusAssumption
<1>4. /\ samples \in Nat /\ packets \in Seq(Int) /\ at \in Nat /\ Len(packets) \in Nat
      /\ onDisk \in Nat /\ onDisk <= Offset(Len(packets))
      /\ at = FrameSize * Len(packets)
  BY <1>1, <1>2 DEF OpusTypes, Encoding
<1>5. /\ packets' \in Seq(Int) /\ Len(packets') = Len(packets) + 1
      /\ EndOf(packets', Len(packets) + 1) = EndOf(packets, Len(packets)) + PacketSize(len)
      /\ EndOf(packets, Len(packets)) \in Nat /\ PacketSize(len) \in Nat
  <2>1. len \in Int
    BY <1>3
  <2>2. PacketSize(len) \in Nat
    BY <1>3 DEF PacketSize, Field
  <2>3. Len(packets) \in 0 .. Len(packets)
    BY <1>4
  <2>4. /\ packets' \in Seq(Int) /\ Len(packets') = Len(packets) + 1
        /\ EndOf(packets', Len(packets) + 1) = EndOf(packets, Len(packets)) + PacketSize(len)
    <3>1. Longer(packets, packets', len)
      BY <1>1, <1>4, <2>1, EndsKept
    <3> QED BY <3>1 DEF Longer
  <2>5. EndOf(packets, Len(packets)) \in Nat
    BY <1>4, <2>3, PacketEnds
  <2> QED BY <2>2, <2>4, <2>5
<1>6. onDisk' <= Offset(Len(packets))'
  BY <1>1, <1>4, <1>5 DEF Offset
<1>7. OpusTypes'
  <2>1. at' \in Nat
    BY <1>1, <1>3, <1>4
  <2> QED BY <1>1, <1>2, <1>5, <1>6, <2>1 DEF OpusTypes
<1>8. Encoding'
  <2>1. FrameSize * (Len(packets) + 1) = FrameSize * Len(packets) + FrameSize
    BY <1>3, <1>4
  <2>2. at' = FrameSize * Len(packets')
    BY <1>1, <1>4, <1>5, <2>1
  <2>3. at' <= samples' + FrameSize
    BY <1>1, <1>3, <1>4
  <2> QED BY <2>2, <2>3 DEF Encoding
<1>9. Decoding' /\ done' = Nothing
  BY <1>1, <1>2 DEF Decoding
<1>10. SamplesArrive'
  <2>1. held' = IF working' = "nothing" THEN {} ELSE All
    BY <1>7 DEF OpusTypes
  <2> QED BY <1>9, <2>1, NothingDone
<1> QED BY <1>7, <1>8, <1>9, <1>10 DEF OpusInv

\* How an encoding ends.
LEMMA EncodeReturns ==
    ASSUME OpusInv, EncodeEnds \/ EncodeFails
    PROVE  OpusInv'
<1>1. /\ working = "encode" /\ working' = "nothing" /\ held' = {}
      /\ UNCHANGED <<samples, at, played, header, wavSays>>
  BY DEF EncodeEnds, EncodeFails, Returns
<1>2. /\ samples \in Nat /\ packets \in Seq(Int) /\ at \in Nat /\ Len(packets) \in Nat
      /\ played \in Seq(BOOLEAN) /\ header \in [wanted : BOOLEAN, size : Nat]
      /\ at = FrameSize * Len(packets) /\ at <= samples + FrameSize
  BY <1>1 DEF OpusInv, OpusTypes, Encoding
<1>3. Offset(Len(packets)) \in Nat
  <2>1. Len(packets) \in 0 .. Len(packets)
    BY <1>2
  <2> QED BY <1>2, <2>1, PacketEnds, Zenon DEF Offset
<1>4. Encoding' /\ Decoding' /\ (working' # "nothing" => done' = Nothing)
  BY <1>1 DEF Encoding, Decoding
<1>5. CASE EncodeEnds
  <2>1. /\ at > samples /\ packets' = packets /\ onDisk' \in 0 .. Offset(Len(packets))
        /\ done' = [call |-> "encode", ok |-> TRUE]
    BY <1>1, <1>5 DEF EncodeEnds, Returns, Flushed
  <2>2. onDisk' \in Nat /\ onDisk' <= Offset(Len(packets))'
    BY <1>3, <2>1 DEF Offset
  <2>3. OpusTypes'
    BY <1>1, <1>2, <2>1, <2>2 DEF OpusTypes
  <2>4. Len(packets) = samples \div FrameSize + 1
    <3>1. FrameSize \in Nat \ {0}
      BY OpusAssumption
    <3>2. FrameSize * Len(packets) > samples /\ FrameSize * Len(packets) <= samples + FrameSize
      BY <1>2, <2>1
    <3> QED BY <1>2, <3>1, <3>2, Rounded
  <2>5. SamplesArrive'
    <3>1. done' # [call |-> "decode", ok |-> TRUE] /\ done' # [call |-> "decode", ok |-> FALSE]
      BY <2>1
    <3>2. Len(packets') = samples' \div FrameSize + 1
      BY <1>1, <2>1, <2>4
    <3> QED BY <1>1, <2>2, <3>1, <3>2 DEF SamplesArrive
  <2> QED BY <1>4, <2>3, <2>5 DEF OpusInv
<1>6. CASE EncodeFails
  <2>1. done' = [call |-> "encode", ok |-> FALSE]
    BY <1>1, <1>6 DEF EncodeFails, Returns
  <2>2. packets' \in Seq(Int) /\ onDisk' \in Nat /\ onDisk' <= Offset(Len(packets))'
    <3>1. CASE Flushed /\ UNCHANGED packets
      BY <1>2, <1>3, <3>1 DEF Flushed, Offset
    <3>2. ASSUME NEW len \in PacketLens, packets' = Append(packets, len),
                 onDisk' \in 0 .. Offset(Len(packets)) + PacketSize(len) - 1
          PROVE  packets' \in Seq(Int) /\ onDisk' \in Nat /\ onDisk' <= Offset(Len(packets))'
      <4>1. len \in Int
        BY OpusAssumption
      <4>2. PacketSize(len) \in Nat
        BY <4>1 DEF PacketSize, Field
      <4>3. /\ packets' \in Seq(Int) /\ Len(packets') = Len(packets) + 1
            /\ EndOf(packets', Len(packets) + 1)
                    = EndOf(packets, Len(packets)) + PacketSize(len)
        <5>1. packets \in Seq(Int) /\ packets' = Append(packets, len)
          BY <1>2, <3>2
        <5>2. Longer(packets, packets', len)
          BY <4>1, <5>1, EndsKept
        <5> QED BY <5>2 DEF Longer
      <4>4. EndOf(packets', Len(packets')) = EndOf(packets, Len(packets)) + PacketSize(len)
        BY <4>3
      <4> QED BY <1>3, <3>2, <4>2, <4>3, <4>4 DEF Offset
    <3> QED BY <1>6, <3>1, <3>2 DEF EncodeFails
  <2>3. OpusTypes'
    BY <1>1, <1>2, <2>2 DEF OpusTypes
  <2>4. SamplesArrive'
    <3>1. /\ done' # [call |-> "encode", ok |-> TRUE] /\ done' # [call |-> "decode", ok |-> TRUE]
          /\ done' # [call |-> "decode", ok |-> FALSE]
      BY <2>1
    <3> QED BY <1>1, <3>1 DEF SamplesArrive
  <2> QED BY <1>4, <2>3, <2>4 DEF OpusInv
<1> QED BY <1>5, <1>6

\* A packet that was read leaves what was read before it, and is there itself.
LEMMA DecodePacketStep ==
    ASSUME OpusInv, DecodePacket \/ DecodePacketError
    PROVE  OpusInv'
<1>1. /\ working = "decode" /\ ~AtEnd /\ Complete /\ at' = at + 1
      /\ UNCHANGED <<working, held, samples, packets, onDisk, wavSays, done>>
  BY DEF DecodePacket, DecodePacketError
<1>2. OpusTypes /\ Decoding /\ done = Nothing
  BY <1>1 DEF OpusInv
<1>3. /\ packets \in Seq(Int) /\ at \in Nat /\ onDisk \in Nat /\ played \in Seq(BOOLEAN)
      /\ Len(packets) \in Nat /\ onDisk <= Offset(Len(packets))
      /\ header \in [wanted : BOOLEAN, size : Nat]
      /\ at = Len(played) /\ at <= Len(packets) /\ wavSays = 0
      /\ \A n \in 1 .. at : Offset(n) <= onDisk \/ packets[n] = 0
      /\ header.wanted => header.size = Sounds * FrameSize
  BY <1>1, <1>2 DEF OpusTypes, Decoding
<1>4. \A n \in 0 .. Len(packets) : Offset(n) \in Nat
  BY <1>3, PacketEnds, Zenon DEF Offset
<1>5. at < Len(packets)
  <2>1. at \in 0 .. Len(packets)
    BY <1>3
  <2>2. onDisk >= Offset(at) + 4
    BY <1>1, <1>3, <1>4, <2>1 DEF AtEnd, Left, Field
  <2> SUFFICES ASSUME at = Len(packets) PROVE FALSE
    BY <1>3
  <2> QED BY <1>3, <1>4, <2>1, <2>2
<1>6. Offset(at + 1) <= onDisk \/ packets[at + 1] = 0
  <2>1. at \in 0 .. Len(packets) - 1 /\ at \in 0 .. Len(packets) /\ at + 1 \in 0 .. Len(packets)
    BY <1>3, <1>5
  <2>2. Offset(at + 1) = Offset(at) + PacketSize(packets[at + 1])
    BY <1>3, <2>1, PacketEnds, Zenon DEF Offset
  <2>3. PacketSize(packets[at + 1]) \in Nat
    <3>1. packets[at + 1] \in Int
      BY <1>3, <1>5
    <3> QED BY <3>1 DEF PacketSize, Field
  <2>4. packets[at + 1] = 0 \/ onDisk - Offset(at) >= PacketSize(packets[at + 1])
    BY <1>1 DEF Complete, Left, NextLen
  <2> QED BY <1>3, <1>4, <2>1, <2>2, <2>3, <2>4
<1>7. PICK b \in BOOLEAN :
        /\ played' = Append(played, b)
        /\ header' = IF b /\ header.wanted THEN [header EXCEPT !.size = @ + FrameSize]
                     ELSE header
  <2>1. CASE DecodePacket
    BY <2>1 DEF DecodePacket
  <2>2. CASE DecodePacketError
    BY <2>2 DEF DecodePacketError
  <2> QED BY <2>1, <2>2
<1>8. FrameSize \in Nat
  BY OpusAssumption
<1>9. played' \in Seq(BOOLEAN) /\ Len(played') = Len(played) + 1
  BY <1>3, <1>7
<1>10. /\ header' \in [wanted : BOOLEAN, size : Nat]
       /\ header'.wanted => header'.size = Sounds' * FrameSize
  <2> DEFINE old == Cardinality(Heard(played))
             new == Cardinality(Heard(played'))
  <2>1. old \in Nat /\ new = old + IF b THEN 1 ELSE 0
    BY <1>3, <1>7, HeardMore
  <2>2. Sounds = old /\ Sounds' = new
    BY DEF Sounds, Heard
  <2> HIDE DEF old, new
  <2>3. header.size \in Nat /\ header.wanted \in BOOLEAN
    BY <1>3
  <2>4. /\ header'.wanted = header.wanted
        /\ header'.size = IF b /\ header.wanted THEN header.size + FrameSize ELSE header.size
        /\ header' \in [wanted : BOOLEAN, size : Nat]
    <3>1. CASE b /\ header.wanted
      <4>1. header' = [header EXCEPT !.size = @ + FrameSize]
        BY <1>7, <3>1
      <4>2. header = [wanted |-> header.wanted, size |-> header.size]
        BY <1>3
      <4>3. header' = [wanted |-> header.wanted, size |-> header.size + FrameSize]
        BY <4>1, <4>2
      <4>4. header.size + FrameSize \in Nat
        BY <1>8, <2>3
      <4> QED BY <2>3, <3>1, <4>3, <4>4
    <3>2. CASE ~(b /\ header.wanted)
      <4>1. header' = header
        BY <1>7, <3>2
      <4> QED BY <1>3, <3>2, <4>1
    <3> QED BY <3>1, <3>2
  <2>5. (old + 1) * FrameSize = old * FrameSize + FrameSize
    BY <1>8, <2>1
  <2>6. header.wanted => header.size = old * FrameSize
    BY <1>3, <2>2
  <2>7. header.wanted => header'.size = new * FrameSize
    <3>1. CASE b
      BY <2>1, <2>4, <2>5, <2>6, <3>1
    <3>2. CASE ~b
      <4>1. new = old
        BY <2>1, <3>2
      <4> QED BY <2>4, <2>6, <3>2, <4>1
    <3> QED BY <3>1, <3>2
  <2> QED BY <2>2, <2>4, <2>7
<1>11. OpusTypes'
  <2>1. at' \in Nat
    BY <1>1, <1>3
  <2>2. onDisk' <= Offset(Len(packets))'
    BY <1>1, <1>3 DEF Offset
  <2> QED BY <1>1, <1>2, <1>9, <1>10, <2>1, <2>2 DEF OpusTypes
<1>12. Decoding'
  <2>1. at' = Len(played') /\ at' <= Len(packets')
    BY <1>1, <1>3, <1>5, <1>9
  <2>2. ASSUME NEW n \in 1 .. at' PROVE Offset(n)' <= onDisk' \/ packets'[n] = 0
    <3>1. CASE n = at + 1
      BY <1>1, <1>6, <3>1 DEF Offset
    <3>2. CASE n # at + 1
      <4>1. n \in 1 .. at
        BY <1>1, <1>3, <3>2
      <4> QED BY <1>1, <1>3, <4>1 DEF Offset
    <3> QED BY <3>1, <3>2
  <2> QED BY <1>1, <1>3, <1>10, <2>1, <2>2 DEF Decoding
<1>13. Encoding' /\ done' = Nothing
  BY <1>1, <1>2 DEF Encoding
<1>14. SamplesArrive'
  <2>1. held' = IF working' = "nothing" THEN {} ELSE All
    BY <1>11 DEF OpusTypes
  <2> QED BY <1>13, <2>1, NothingDone
<1> QED BY <1>11, <1>12, <1>13, <1>14 DEF OpusInv

\* How a decoding ends: at the end of the file nothing that is whole is left.
LEMMA DecodeReturns ==
    ASSUME OpusInv, DecodeEnds \/ DecodeFails
    PROVE  OpusInv'
<1>1. /\ working = "decode" /\ working' = "nothing" /\ held' = {}
      /\ UNCHANGED <<samples, packets, onDisk, at, played, header>>
  BY DEF DecodeEnds, DecodeFails, Returns
<1>2. OpusTypes /\ Decoding
  BY <1>1 DEF OpusInv
<1>3. /\ packets \in Seq(Int) /\ at \in Nat /\ onDisk \in Nat
      /\ Len(packets) \in Nat
      /\ at = Len(played) /\ at <= Len(packets) /\ wavSays = 0
      /\ \A n \in 1 .. at : Offset(n) <= onDisk \/ packets[n] = 0
      /\ header.wanted => header.size = Sounds * FrameSize
  BY <1>1, <1>2 DEF OpusTypes, Decoding
<1>4. OpusTypes'
  BY <1>1, <1>2 DEF OpusTypes, Offset
<1>5. Encoding' /\ Decoding' /\ (working' # "nothing" => done' = Nothing)
  BY <1>1 DEF Encoding, Decoding
<1>6. \A n \in 1 .. at : n \in Whole \/ packets[n] = 0
  BY <1>3 DEF Whole
<1>7. Whole' = Whole /\ Sounds' = Sounds
  BY <1>1 DEF Whole, Sounds, Offset
<1>8. CASE DecodeFails
  <2>1. done' = [call |-> "decode", ok |-> FALSE] /\ wavSays' = wavSays
    BY <1>1, <1>8 DEF DecodeFails, Returns
  <2>2. done' # [call |-> "encode", ok |-> TRUE] /\ done' # [call |-> "decode", ok |-> TRUE]
    BY <2>1
  <2>3. wavSays' = 0 /\ \A n \in 1 .. Len(played') : n \in Whole' \/ packets'[n] = 0
    BY <1>1, <1>3, <1>6, <1>7, <2>1
  <2>4. SamplesArrive'
    BY <1>1, <2>2, <2>3 DEF SamplesArrive
  <2> QED BY <1>4, <1>5, <2>4 DEF OpusInv
<1>9. CASE DecodeEnds
  <2>1. /\ done' = [call |-> "decode", ok |-> TRUE] /\ AtEnd
        /\ wavSays' = IF header.wanted THEN header.size ELSE 0
    BY <1>1, <1>9 DEF DecodeEnds, Returns
  <2>2. done' # [call |-> "encode", ok |-> TRUE] /\ done' # [call |-> "decode", ok |-> FALSE]
    BY <2>1
  <2>3. Whole \subseteq 1 .. at
    <3> SUFFICES ASSUME NEW n \in Whole, n > at PROVE FALSE
      BY <1>3 DEF Whole
    <3>1. n \in 1 .. Len(packets) /\ Offset(n) <= onDisk
      BY DEF Whole
    <3>2. n \in 0 .. Len(packets) /\ at \in 0 .. Len(packets) /\ at < n
      BY <1>3, <3>1
    <3>3. Offset(at) + 8 <= Offset(n) /\ Offset(at) \in Nat /\ Offset(n) \in Nat
      <4>1. EndOf(packets, at) + 8 <= EndOf(packets, n)
        BY <1>3, <3>2, EndsGrow
      <4>2. EndOf(packets, at) \in Nat /\ EndOf(packets, n) \in Nat
        BY <1>3, <3>2, PacketEnds
      <4> QED BY <4>1, <4>2 DEF Offset
    <3>4. onDisk - Offset(at) < 4
      BY <2>1 DEF AtEnd, Left, Field
    <3> QED BY <1>3, <3>1, <3>3, <3>4
  <2>4. /\ at' = Len(played') /\ Whole' \subseteq 1 .. at'
        /\ \A n \in 1 .. at' \ Whole' : packets'[n] = 0
    BY <1>1, <1>3, <1>6, <1>7, <2>3
  <2>5. wavSays' = IF header'.wanted THEN Sounds' * FrameSize ELSE 0
    BY <1>1, <1>3, <1>7, <2>1
  <2>6. SamplesArrive'
    BY <1>1, <2>1, <2>2, <2>4, <2>5 DEF SamplesArrive
  <2> QED BY <1>4, <1>5, <2>6 DEF OpusInv
<1> QED BY <1>8, <1>9

\* OpusInv is inductive.
LEMMA OpusStep == OpusInv /\ [OpusNext]_opusVars => OpusInv'
<1> SUFFICES ASSUME OpusInv, [OpusNext]_opusVars PROVE OpusInv'
  OBVIOUS
<1>1. OpusTypes
  BY DEF OpusInv
<1>2. CASE UNCHANGED opusVars
  BY <1>2 DEF opusVars, OpusInv, OpusTypes, Encoding, Decoding, SamplesArrive, Offset,
              Whole, Sounds
<1>3. ASSUME EncodeStarts \/ EncodeCannotStart \/ DecodeCannotStart
                \/ \E wav \in BOOLEAN : DecodeStarts(wav)
      PROVE  OpusInv'
  <2>1. /\ done' = Nothing /\ at' = 0 /\ working = "nothing" /\ samples' = samples
        /\ \/ working' = "nothing" /\ held' = held
           \/ working' = "encode" /\ held' = All /\ packets' = <<>>
           \/ /\ working' = "decode" /\ held' = All
              /\ played' = <<>> /\ wavSays' = 0 /\ header'.size = 0
        /\ \/ packets' = packets /\ onDisk' = onDisk
           \/ packets' = <<>> /\ onDisk' = 0
        /\ played' = played \/ played' = <<>>
        /\ header' = header \/ header' \in [wanted : BOOLEAN, size : {0}]
    <3>1. CASE EncodeStarts
      BY <3>1 DEF EncodeStarts, Opened
    <3>2. CASE EncodeCannotStart
      BY <3>2 DEF EncodeCannotStart, Opened
    <3>3. CASE DecodeCannotStart
      BY <3>3 DEF DecodeCannotStart, Opened
    <3>4. ASSUME NEW wav \in BOOLEAN, DecodeStarts(wav)
          PROVE  /\ done' = Nothing /\ at' = 0 /\ working = "nothing" /\ samples' = samples
                 /\ working' = "decode" /\ held' = All
                 /\ played' = <<>> /\ wavSays' = 0 /\ header'.size = 0
                 /\ packets' = packets /\ onDisk' = onDisk
                 /\ header' \in [wanted : BOOLEAN, size : {0}]
      BY <3>4 DEF DecodeStarts, Opened
    <3> QED BY <1>3, <3>1, <3>2, <3>3, <3>4
  <2>2. Len(packets') \in Nat /\ packets' \in Seq(Int) /\ onDisk' \in Nat
    <3>1. packets \in Seq(Int) /\ onDisk \in Nat /\ <<>> \in Seq(Int)
      BY <1>1 DEF OpusTypes
    <3>2. CASE packets' = packets /\ onDisk' = onDisk
      BY <3>1, <3>2
    <3>3. CASE packets' = <<>> /\ onDisk' = 0
      BY <3>1, <3>3
    <3> QED BY <2>1, <3>2, <3>3
  <2>3. onDisk' <= Offset(Len(packets))'
    <3>1. CASE packets' = packets /\ onDisk' = onDisk
      BY <1>1, <3>1 DEF OpusTypes, Offset
    <3>2. CASE packets' = <<>> /\ onDisk' = 0
      <4>1. <<>> \in Seq(Int) /\ Len(<<>>) = 0
        OBVIOUS
      <4>2. EndOf(<<>>, 0) = 0
        BY <4>1, PacketEnds
      <4> QED BY <3>2, <4>1, <4>2 DEF Offset
    <3> QED BY <2>1, <3>1, <3>2
  <2>4. OpusTypes'
    <3>1. played' \in Seq(BOOLEAN) /\ header' \in [wanted : BOOLEAN, size : Nat]
      <4>1. /\ played \in Seq(BOOLEAN) /\ <<>> \in Seq(BOOLEAN)
            /\ header \in [wanted : BOOLEAN, size : Nat]
        BY <1>1 DEF OpusTypes
      <4>2. played' \in Seq(BOOLEAN)
        BY <2>1, <4>1
      <4>3. header' \in [wanted : BOOLEAN, size : Nat]
        BY <2>1, <4>1
      <4> QED BY <4>2, <4>3
    <3>2. /\ working' \in {"nothing", "encode", "decode"}
          /\ held' = IF working' = "nothing" THEN {} ELSE All
      BY <1>1, <2>1 DEF OpusTypes
    <3>3. samples' \in Nat /\ at' \in Nat
      BY <1>1, <2>1 DEF OpusTypes
    <3> QED BY <2>2, <2>3, <3>1, <3>2, <3>3 DEF OpusTypes
  <2>5. Encoding'
    <3>1. FrameSize \in Nat /\ samples \in Nat
      BY <1>1, OpusAssumption DEF OpusTypes
    <3>2. CASE packets' = <<>> /\ working' = "encode"
      BY <2>1, <3>1, <3>2 DEF Encoding
    <3> QED BY <2>1, <3>2 DEF Encoding
  <2>6. Decoding'
    <3> SUFFICES ASSUME working' = "decode" PROVE Decoding'
      BY DEF Decoding
    <3>1. played' = <<>> /\ wavSays' = 0 /\ header'.size = 0 /\ at' = 0
      BY <2>1
    <3>2. Sounds' = 0
      <4>1. {i \in DOMAIN <<>> : (<<>>)[i]} = {}
        OBVIOUS
      <4> QED BY <3>1, <4>1, FS_EmptySet DEF Sounds
    <3>3. FrameSize \in Nat
      BY OpusAssumption
    <3> QED BY <2>2, <3>1, <3>2, <3>3 DEF Decoding
  <2>7. SamplesArrive'
    <3>1. held' = IF working' = "nothing" THEN {} ELSE All
      BY <2>4 DEF OpusTypes
    <3> QED BY <2>1, <3>1, NothingDone
  <2> QED BY <2>1, <2>4, <2>5, <2>6, <2>7 DEF OpusInv
<1>4. CASE EncodeEnds \/ EncodeFails
  BY <1>4, EncodeReturns
<1>5. ASSUME NEW len \in PacketLens, EncodeFrame(len) PROVE OpusInv'
  BY <1>5, EncodeFrameStep
<1>6. CASE DecodePacket \/ DecodePacketError
  BY <1>6, DecodePacketStep
<1>7. CASE DecodeEnds \/ DecodeFails
  BY <1>7, DecodeReturns
<1>8. CASE OpusDies
  <2>1. /\ working' = "nothing" /\ held' = {} /\ done' = Nothing
        /\ UNCHANGED <<samples, packets, at, played, header>>
        /\ onDisk' \in 0 .. Offset(Len(packets)) \/ onDisk' = onDisk
    BY <1>8 DEF OpusDies, Flushed
  <2>2. Offset(Len(packets)) \in Nat /\ Offset(Len(packets))' = Offset(Len(packets))
    <3>1. packets \in Seq(Int) /\ Len(packets) \in 0 .. Len(packets)
      BY <1>1 DEF OpusTypes
    <3>2. EndOf(packets, Len(packets)) \in Nat
      BY <3>1, PacketEnds
    <3> QED BY <2>1, <3>2 DEF Offset
  <2>3. onDisk' \in Nat /\ onDisk' <= Offset(Len(packets))'
    BY <1>1, <2>1, <2>2 DEF OpusTypes
  <2>4. OpusTypes'
    BY <1>1, <2>1, <2>3 DEF OpusTypes
  <2>5. Encoding' /\ Decoding'
    BY <2>1 DEF Encoding, Decoding
  <2> QED BY <2>1, <2>4, <2>5, NothingDone DEF OpusInv
<1> QED BY <1>2, <1>3, <1>4, <1>5, <1>6, <1>7, <1>8 DEF OpusNext

---------------------------------------------------------------------------
(* The program that uses the libraries. *)

LibInv == MysqlInv /\ McInv /\ CurlInv /\ OpusInv

\* All the libraries start idle.
LEMMA InitLibInv == Init => LibInv
<1> SUFFICES ASSUME Init
             PROVE  LibInv
  OBVIOUS
<1>1. McInv
  BY DEF Init, McInit, McInv, ReturnsAreTrue
<1>2. CurlInv
  BY DEF Init, CurlInit, CurlInv, AnswerIsKept, Holds, NoStr, Str
<1>3. MysqlInv
  <2>1. /\ msp = "nohandle" /\ opened = 0 /\ pending = 0 /\ errno = "none"
        /\ call = Idle /\ last = NoCall
        /\ executed = [n |-> 0, times |-> 0, answered |-> 0]
    BY DEF Init, MysqlInit
  <2>2. reachable \in BOOLEAN
    BY Zenon DEF Init, MysqlInit
  <2>3. executed \in Executions /\ 0 \in 0 .. MaxQueries
    BY <2>1, MysqlApiAssumption DEF Executions
  <2>4. MysqlTypes
    BY <2>1, <2>2, <2>3, IdleFacts DEF MysqlTypes, MysqlTypeOK
  <2>5. AnswersAreTrue
    BY <2>1, <2>4, IdleFacts DEF MysqlTypes, AnswersAreTrue
  <2> QED BY <2>1, <2>4, <2>5, IdleFacts DEF MysqlInv
<1>4. OpusInv
  <2>1. OpusInit
    BY DEF Init
  <2>2. /\ working = "nothing" /\ held = {} /\ done = Nothing /\ at = 0 /\ played = <<>>
        /\ packets \in Foreign \cup {<<>>} /\ onDisk \in 0 .. Offset(Len(packets))
        /\ header = [wanted |-> FALSE, size |-> 0] /\ samples \in 0 .. MaxSamples
    BY <2>1 DEF OpusInit
  <2>3. packets \in Seq(Int) /\ <<>> \in Seq(BOOLEAN)
    <3>1. <<>> \in Seq(Int) /\ <<>> \in Seq(BOOLEAN)
      OBVIOUS
    <3>2. Foreign \subseteq Seq(Int)
      BY OpusAssumption
    <3> QED BY <2>2, <3>1, <3>2
  <2>4. Len(packets) \in 0 .. Len(packets)
    BY <2>3
  <2>5. Offset(Len(packets)) \in Nat
    BY <2>3, <2>4, PacketEnds, Zenon DEF Offset
  <2>6. OpusTypes
    BY <2>2, <2>3, <2>5, OpusAssumption DEF OpusTypes
  <2>7. SamplesArrive
    BY <2>2 DEF SamplesArrive, Nothing
  <2> QED BY <2>2, <2>6, <2>7 DEF OpusInv, Encoding, Decoding
<1> QED BY <1>1, <1>2, <1>3, <1>4 DEF LibInv

\* A step of the program is one of the library it uses, and a stutter of the others.
LEMMA NextLibInv == LibInv /\ [Next]_vars => LibInv'
<1> SUFFICES ASSUME LibInv, [Next]_vars
             PROVE  LibInv'
  OBVIOUS
<1>1. [MysqlNext]_mysqlVars /\ [McNext]_mcVars /\ [CurlNext]_curlVars
      /\ [OpusNext]_opusVars
  BY DEF Next, vars, UsesMysqlApi, UsesApiMc, UsesCurlApi, UsesBase64, UsesUtf8,
     UsesStrAlloc, UsesOpus, UsesFdMove
<1> QED BY <1>1, MysqlStep, McStep, CurlStep, OpusStep DEF LibInv

\* The invariant holds in every state.
LEMMA LibInvariant == Spec => []LibInv
BY InitLibInv, NextLibInv, PTL DEF Spec

\* Wherever the server breaks the connection, and however often it is made
\* again: what mysql_api has returned is true of the statement, the rows are
\* those of the last answer, and no connection is left open.
THEOREM MysqlAnswers == Spec => []AnswersAreTrue
<1>1. LibInv => AnswersAreTrue
  BY DEF LibInv, MysqlInv
<1> QED BY <1>1, LibInvariant, PTL

\* For any keys, any lengths and any width of a char: what memcached has for a
\* key is none, or a value that its user holds for possible.
THEOREM MemcachedReturns == Spec => []ReturnsAreTrue
<1>1. LibInv => ReturnsAreTrue
  BY DEF LibInv, McInv
<1> QED BY <1>1, LibInvariant, PTL

\* For pieces of any lengths and any size of the first buffer: every byte that
\* came is in its buffer, with room for the zero, and is counted in the return.
THEOREM CurlKeepsAnswers == Spec => []AnswerIsKept
<1>1. LibInv => AnswerIsKept
  BY DEF LibInv, CurlInv
<1> QED BY <1>1, LibInvariant, PTL

\* For frames and packets of any sizes, files from anywhere, and a codec, a disk
\* and a program that fail anywhere: what a call of opus_api says was encoded or
\* decoded was, in order, and nothing stays open.
THEOREM OpusDelivers == Spec => []SamplesArrive
<1>1. LibInv => SamplesArrive
  BY DEF LibInv, OpusInv
<1> QED BY <1>1, LibInvariant, PTL

---------------------------------------------------------------------------
(* The descriptors.  From the first socket to fork nothing is closed, and  *)
(* the kernel gives the lowest number that is free: the numbers of what    *)
(* the master opens rise in the order in which it opens them, so that the  *)
(* connection is not below 2 and the ends of the pipes are behind it.      *)

Kinds == {"std", "free", "syslog", "old"} \cup OpenedByMaster

Olds == {x \in Fds : fd[x] = "old"}

FdTypeOK ==
    /\ fd \in [Fds -> Kinds]
    /\ num \in [OpenedByMaster -> Fds \cup {NoFd}]
    /\ logfd \in Fds \cup {NoFd}
    /\ \A x \in Fds : fd[x] = "syslog" => x = logfd

\* Before syslog is asked for.
LogPhase ==
    /\ step = <<"log">> /\ logfd = NoFd
    /\ \A x \in Fds : fd[x] \in {"std", "free"} /\ (x > 2 => fd[x] = "free")

\* The master has opened the first k - 1.
OpenPhase(k) ==
    /\ step = IF k = 8 THEN <<"fork">> ELSE SubSeq(Order, k, 7)
    /\ \A i \in 1 .. k - 1 :
        /\ num[Order[i]] \in Fds
        /\ \A x \in Fds : fd[x] = Order[i] <=> x = num[Order[i]]
        /\ \A x \in 0 .. num[Order[i]] : fd[x] # "free"
    /\ \A i, j \in 1 .. k - 1 : i < j => num[Order[i]] < num[Order[j]]
    /\ \A i \in k .. 7 : \A x \in Fds : fd[x] # Order[i]
    /\ Cardinality(Olds) <= MaxOld
    /\ \A x \in Fds : x >= 3 + k + Cardinality(Olds) => fd[x] = "free"

\* Where the child has what it hands on.
HandsOn(conn, pi1r, pi2w) ==
    /\ \A x \in Fds : /\ fd[x] = "conn" <=> x = conn
                      /\ fd[x] = "pi1r" <=> x = pi1r
                      /\ fd[x] = "pi2w" <=> x = pi2w
                      /\ fd[x] \notin {"pi1w", "pi2r", "listen"}
    /\ conn \in Fds /\ pi1r \in Fds /\ pi2w \in Fds

\* The connection is moved first, then what comes from the child, then what
\* goes to it.
MovePhase ==
    /\ num["conn"] \in Fds /\ num["pi1r"] \in Fds /\ num["pi2w"] \in Fds
    /\ num["conn"] >= 2 /\ num["pi1r"] >= 3 /\ num["pi2w"] >= 4
    /\ \/ step = <<"move", "conn", 2>> /\ HandsOn(num["conn"], num["pi1r"], num["pi2w"])
       \/ step = <<"move", "pi1r", 0>> /\ HandsOn(2, num["pi1r"], num["pi2w"])
       \/ step = <<"move", "pi2w", 1>> /\ HandsOn(2, 0, num["pi2w"])

FdInv ==
    /\ FdTypeOK
    /\ \/ LogPhase
       \/ \E k \in 1 .. 8 : OpenPhase(k)
       \/ MovePhase
       \/ step = <<"exec">> /\ HandsOn(2, 0, 1)
       \/ step = <<"run">> /\ InPlace

\* What is opened has seven different names, none of which means anything else.
LEMMA OrderFacts ==
    /\ Len(Order) = 7 /\ Order \in Seq(OpenedByMaster)
    /\ \A i \in 1 .. 7 : Order[i] \in OpenedByMaster
    /\ \A i, j \in 1 .. 7 : Order[i] = Order[j] => i = j
    /\ OpenedByMaster = {"listen", "epoll", "conn", "pi1r", "pi1w", "pi2r", "pi2w"}
    /\ Order[1] = "listen" /\ Order[2] = "epoll" /\ Order[3] = "conn" /\ Order[4] = "pi1r"
    /\ Order[5] = "pi1w" /\ Order[6] = "pi2r" /\ Order[7] = "pi2w"
<1>1. /\ Len(Order) = 7
      /\ Order[1] = "listen" /\ Order[2] = "epoll" /\ Order[3] = "conn"
      /\ Order[4] = "pi1r" /\ Order[5] = "pi1w" /\ Order[6] = "pi2r" /\ Order[7] = "pi2w"
  BY DEF Order
<1>2. \A i \in 1 .. 7 : i \in {1, 2, 3, 4, 5, 6, 7}
  OBVIOUS
<1>3. OpenedByMaster = {"listen", "epoll", "conn", "pi1r", "pi1w", "pi2r", "pi2w"}
  BY <1>1, <1>2 DEF OpenedByMaster
<1>4. \A i \in 1 .. 7 : Order[i] \in OpenedByMaster
  BY <1>1, <1>2, <1>3
<1>5. \A i, j \in 1 .. 7 : Order[i] = Order[j] => i = j
  BY <1>1, <1>2
<1>6. Order \in Seq(OpenedByMaster)
  BY <1>3 DEF Order
<1> QED BY <1>1, <1>3, <1>4, <1>5, <1>6

\* How many numbers the table has, and the one that stands for no descriptor.
LEMMA FdsAre == Fds = 0 .. 10 + MaxOld /\ NoFd = 11 + MaxOld /\ MaxOld \in Nat
BY OrderFacts, FdMoveAssumption DEF Fds, NoFd

\* The kernel's lowest number is free, and all below it are taken.
LEMMA LowestIs ==
    ASSUME NEW t, NEW i \in Fds, t[i] = "free"
    PROVE  /\ Lowest(t) \in Fds /\ t[Lowest(t)] = "free"
           /\ \A j \in 0 .. Lowest(t) - 1 : t[j] # "free"
<1> DEFINE T == {x \in Fds : t[x] = "free"}
<1>1. T \subseteq Nat /\ T # {}
  BY FdsAre
<1>2. PICK m \in T : \A x \in T : m <= x
  BY <1>1, LeastOf
<1>3. \A j \in 0 .. m - 1 : t[j] # "free"
  <2> SUFFICES ASSUME NEW j \in 0 .. m - 1, t[j] = "free" PROVE FALSE
    OBVIOUS
  <2>1. j \in T
    BY <1>2, FdsAre
  <2> QED BY <1>2, <2>1, FdsAre
<1>4. \E x \in Fds : t[x] = "free" /\ \A j \in 0 .. x - 1 : t[j] # "free"
  BY <1>2, <1>3
<1> QED BY <1>4 DEF Lowest

\* There are finitely many pipes to other children.
LEMMA OldsFinite == IsFiniteSet(Fds) /\ IsFiniteSet(Olds) /\ Cardinality(Olds) \in Nat
<1>1. IsFiniteSet(Fds)
  BY FdsAre, FS_Interval
<1>2. IsFiniteSet(Olds)
  BY <1>1, FS_Subset DEF Olds
<1> QED BY <1>1, <1>2, FS_CardinalityType

\* What is opened at the lowest number, a message's socket, the k-th thing of
\* the master's or an end that it keeps, is behind all that was opened before.
LEMMA TakeLowest ==
    ASSUME FdTypeOK, NEW k \in 1 .. 8, OpenPhase(k), k + Cardinality(Olds) <= 7 + MaxOld
    PROVE  /\ Lowest(fd) \in Fds /\ fd[Lowest(fd)] = "free"
           /\ \A j \in 0 .. Lowest(fd) - 1 : fd[j] # "free"
           /\ Lowest(fd) <= 3 + k + Cardinality(Olds)
           /\ \A i \in 1 .. k - 1 : num[Order[i]] < Lowest(fd)
<1>1. 3 + k + Cardinality(Olds) \in Fds
  BY FdsAre, OldsFinite
<1>2. fd[3 + k + Cardinality(Olds)] = "free"
  BY <1>1, OldsFinite DEF OpenPhase
<1>3. /\ Lowest(fd) \in Fds /\ fd[Lowest(fd)] = "free"
      /\ \A j \in 0 .. Lowest(fd) - 1 : fd[j] # "free"
  BY <1>1, <1>2, LowestIs
<1> HIDE DEF Fds, NoFd
<1>4. Lowest(fd) <= 3 + k + Cardinality(Olds)
  BY <1>1, <1>2, <1>3, FdsAre, OldsFinite
<1>5. ASSUME NEW i \in 1 .. k - 1 PROVE num[Order[i]] < Lowest(fd)
  <2>1. /\ num[Order[i]] \in Fds
        /\ \A x \in 0 .. num[Order[i]] : fd[x] # "free"
    BY <1>5 DEF OpenPhase
  <2>2. Lowest(fd) \notin 0 .. num[Order[i]]
    BY <1>3, <2>1
  <2> QED BY <1>3, <2>1, <2>2, FdsAre
<1> QED BY <1>3, <1>4, <1>5

\* Before and after syslog is asked for.
LEMMA LogStep ==
    ASSUME FdInv, CreateDaemon \/ CtLog
    PROVE  FdInv'
<1>1. step = <<"log">> /\ LogPhase
  <2>1. step = <<"log">>
    BY DEF CreateDaemon, CtLog
  <2>2. ASSUME NEW k \in 1 .. 8, OpenPhase(k) PROVE FALSE
    <3>1. step[1] = IF k = 8 THEN "fork" ELSE Order[k]
      BY <2>2, OrderFacts DEF OpenPhase
    <3>2. step[1] # "log"
      BY <3>1, OrderFacts
    <3> QED BY <2>1, <3>2
  <2> QED BY <2>1, <2>2 DEF FdInv, MovePhase
<1>2. FdTypeOK /\ OpenedByMaster \cap {"std", "free", "syslog", "old"} = {}
  BY OrderFacts DEF FdInv
<1>3. CASE CreateDaemon
  <2>1. fd' = [x \in Fds |-> "free"] /\ UNCHANGED <<num, logfd, step>>
    BY <1>3 DEF CreateDaemon
  <2>2. FdTypeOK'
    BY <1>2, <2>1 DEF FdTypeOK, Kinds
  <2>3. LogPhase'
    BY <1>1, <2>1 DEF LogPhase
  <2> QED BY <2>2, <2>3 DEF FdInv
<1>4. CASE CtLog
  <2>1. /\ \/ logfd' = Lowest(fd) /\ fd' = [fd EXCEPT ![Lowest(fd)] = "syslog"]
           \/ UNCHANGED <<fd, logfd>>
        /\ step' = Order /\ UNCHANGED num
    BY <1>4 DEF CtLog
  <2>2. Lowest(fd) \in Fds /\ fd[Lowest(fd)] = "free" /\ Lowest(fd) <= 3
    <3>1. 3 \in Fds /\ fd[3] = "free"
      BY <1>1, FdsAre DEF LogPhase
    <3>2. /\ Lowest(fd) \in Fds /\ fd[Lowest(fd)] = "free"
          /\ \A j \in 0 .. Lowest(fd) - 1 : fd[j] # "free"
      BY <3>1, LowestIs
    <3> QED BY <3>1, <3>2, FdsAre
  <2>3. fd' \in [Fds -> {"std", "free", "syslog"}]
    BY <1>1, <1>2, <2>1, <2>2 DEF LogPhase, FdTypeOK
  <2>4. FdTypeOK'
    <3>1. fd' \in [Fds -> Kinds]
      BY <2>3 DEF Kinds
    <3>2. \A x \in Fds : fd'[x] = "syslog" => x = logfd'
      BY <1>1, <1>2, <2>1, <2>2 DEF FdTypeOK, LogPhase
    <3> QED BY <1>2, <2>1, <2>2, <3>1, <3>2 DEF FdTypeOK
  <2>5. Olds' = {} /\ Cardinality(Olds') = 0
    <3>1. Olds' = {}
      BY <2>3 DEF Olds
    <3> QED BY <3>1, FS_EmptySet
  <2>6. \A x \in Fds : x >= 4 => fd'[x] = "free"
    BY <1>1, <1>2, <2>1, <2>2, FdsAre DEF LogPhase, FdTypeOK
  <2>7. \A i \in 1 .. 7 : \A x \in Fds : fd'[x] # Order[i]
    BY <1>2, <2>3, OrderFacts
  <2>8. step' = SubSeq(Order, 1, 7)
    BY <2>1, OrderFacts
  <2>9. OpenPhase(1)'
    BY <2>5, <2>6, <2>7, <2>8, FdMoveAssumption DEF OpenPhase
  <2> QED BY <2>4, <2>9 DEF FdInv
<1> QED BY <1>3, <1>4

\* What is next says where the program is.
LEMMA StepSays ==
    ASSUME NEW k \in 1 .. 8, OpenPhase(k)
    PROVE  /\ k = 8 => step = <<"fork">>
           /\ k # 8 => /\ step[1] = Order[k] /\ Head(step) = Order[k] /\ Len(step) = 8 - k
                       /\ Tail(step) = SubSeq(Order, k + 1, 7)
           /\ step[1] \notin {"log", "move", "exec", "run"}
<1>1. CASE k = 8
  <2>1. step = <<"fork">>
    BY <1>1 DEF OpenPhase
  <2> QED BY <1>1, <2>1
<1>2. CASE k # 8
  <2>1. step = SubSeq(Order, k, 7) /\ k \in 1 .. 7
    BY <1>2 DEF OpenPhase
  <2>2. /\ Len(step) = 8 - k /\ step \in Seq(OpenedByMaster)
        /\ \A i \in 1 .. 8 - k : step[i] = Order[k + i - 1]
    BY <2>1, OrderFacts, SubSeqProperties, SMTT(30)
  <2>3. step[1] = Order[k] /\ Head(step) = Order[k]
    BY <2>1, <2>2
  <2>4. Tail(step) = SubSeq(Order, k + 1, 7)
    <3>1. /\ SubSeq(Order, k + 1, 7) \in Seq(OpenedByMaster)
          /\ Len(SubSeq(Order, k + 1, 7)) = 7 - k
          /\ \A i \in 1 .. 7 - k : SubSeq(Order, k + 1, 7)[i] = Order[k + i]
      BY <2>1, OrderFacts, SubSeqProperties, SMTT(30)
    <3>2. /\ Tail(step) \in Seq(OpenedByMaster) /\ Len(Tail(step)) = 7 - k
          /\ \A i \in 1 .. 7 - k : Tail(step)[i] = step[i + 1]
      <4>1. step # <<>>
        <5>1. Len(step) # 0 /\ Len(<<>>) = 0
          BY <2>1, <2>2
        <5> QED BY <5>1, Zenon
      <4>2. /\ Tail(step) \in Seq(OpenedByMaster) /\ Len(Tail(step)) = Len(step) - 1
            /\ \A i \in 1 .. Len(Tail(step)) : Tail(step)[i] = step[i + 1]
        BY <2>2, <4>1, HeadTailProperties
      <4>3. Len(step) - 1 = 7 - k
        BY <2>1, <2>2
      <4> QED BY <4>2, <4>3, Zenon
    <3>3. \A i \in 1 .. 7 - k : Tail(step)[i] = SubSeq(Order, k + 1, 7)[i]
      BY <2>1, <2>2, <3>1, <3>2
    <3> QED BY <3>1, <3>2, <3>3, SeqEqual
  <2> QED BY <1>2, <2>1, <2>2, <2>3, <2>4, OrderFacts
<1> QED BY <1>1, <1>2

\* The master opens the next thing.
LEMMA OpenStep ==
    ASSUME FdInv, Open
    PROVE  FdInv'
<1>1. PICK k \in 1 .. 8 : OpenPhase(k)
  BY OrderFacts DEF FdInv, Open, LogPhase, MovePhase
<1>2. /\ k \in 1 .. 7 /\ Head(step) = Order[k]
      /\ step' = IF k = 7 THEN <<"fork">> ELSE SubSeq(Order, k + 1, 7)
  <2>1. k # 8
    BY <1>1, StepSays, OrderFacts DEF Open
  <2>2. /\ Head(step) = Order[k] /\ Len(step) = 8 - k
        /\ Tail(step) = SubSeq(Order, k + 1, 7)
    BY <1>1, <2>1, StepSays
  <2>3. step' = IF Len(step) = 1 THEN <<"fork">> ELSE Tail(step)
    BY DEF Open
  <2>4. k \in 1 .. 7 /\ (Len(step) = 1 <=> k = 7)
    BY <2>1, <2>2
  <2> QED BY <2>2, <2>3, <2>4, Zenon
<1> DEFINE l == Lowest(fd)
<1>3. /\ fd' = [fd EXCEPT ![l] = Order[k]] /\ num' = [num EXCEPT ![Order[k]] = l]
      /\ UNCHANGED logfd
  BY <1>2 DEF Open
<1>4. FdTypeOK /\ Cardinality(Olds) <= MaxOld
  BY <1>1 DEF FdInv, OpenPhase
<1>5. /\ l \in Fds /\ fd[l] = "free" /\ (\A j \in 0 .. l - 1 : fd[j] # "free")
      /\ l <= 3 + k + Cardinality(Olds)
      /\ \A i \in 1 .. k - 1 : num[Order[i]] < l
  <2>1. k + Cardinality(Olds) <= 7 + MaxOld
    BY <1>2, <1>4, OldsFinite, FdMoveAssumption
  <2> QED BY <1>1, <1>2, <1>4, <2>1, TakeLowest
<1> HIDE DEF l
<1>6. Order[k] \in OpenedByMaster /\ Order[k] \notin {"std", "free", "syslog", "old"}
  BY <1>2, OrderFacts
<1>7. FdTypeOK'
  BY <1>3, <1>4, <1>5, <1>6 DEF FdTypeOK, Kinds
<1>8. Olds' = Olds
  BY <1>3, <1>4, <1>5, <1>6 DEF Olds, FdTypeOK
<1>9. \A x \in Fds : fd'[x] = IF x = l THEN Order[k] ELSE fd[x]
  BY <1>3, <1>4 DEF FdTypeOK
<1>10. \A i \in 1 .. 7 : num'[Order[i]] = IF i = k THEN l ELSE num[Order[i]]
  BY <1>2, <1>3, <1>4, OrderFacts DEF FdTypeOK
<1>11. ASSUME NEW i \in 1 .. k
       PROVE  /\ num'[Order[i]] \in Fds
              /\ \A x \in Fds : fd'[x] = Order[i] <=> x = num'[Order[i]]
              /\ \A x \in 0 .. num'[Order[i]] : fd'[x] # "free"
  <2>1. CASE i = k
    <3>1. num'[Order[i]] = l
      BY <1>2, <1>10, <2>1
    <3>2. \A x \in Fds : fd[x] # Order[k]
      BY <1>1, <1>2 DEF OpenPhase
    <3>3. \A x \in 0 .. l : x \in Fds /\ (x = l \/ x \in 0 .. l - 1)
      BY <1>5, FdsAre
    <3> QED BY <1>5, <1>6, <1>9, <2>1, <3>1, <3>2, <3>3
  <2>2. CASE i # k
    <3>1. i \in 1 .. k - 1 /\ i \in 1 .. 7 /\ num'[Order[i]] = num[Order[i]]
      BY <1>2, <1>10, <2>2
    <3>2. /\ num[Order[i]] \in Fds
          /\ \A x \in Fds : fd[x] = Order[i] <=> x = num[Order[i]]
          /\ \A x \in 0 .. num[Order[i]] : fd[x] # "free"
      BY <1>1, <3>1 DEF OpenPhase
    <3>3. Order[i] # Order[k] /\ num[Order[i]] # l
      <4>1. Order[i] # Order[k]
        BY <1>2, <2>2, <3>1, OrderFacts
      <4>2. num[Order[i]] < l /\ l \in Int /\ num[Order[i]] \in Int
        BY <1>5, <3>1, <3>2, FdsAre
      <4> QED BY <4>1, <4>2
    <3>4. \A x \in 0 .. num[Order[i]] : x \in Fds
      BY <3>2, FdsAre
    <3> QED BY <1>6, <1>9, <3>1, <3>2, <3>3, <3>4
  <2> QED BY <2>1, <2>2
<1>12. \A i, j \in 1 .. k : i < j => num'[Order[i]] < num'[Order[j]]
  <2> SUFFICES ASSUME NEW i \in 1 .. k, NEW j \in 1 .. k, i < j
               PROVE  num'[Order[i]] < num'[Order[j]]
    OBVIOUS
  <2>1. i \in 1 .. 7 /\ j \in 1 .. 7 /\ i # k /\ i \in 1 .. k - 1
    BY <1>2
  <2>2. CASE j = k
    BY <1>5, <1>10, <2>1, <2>2
  <2>3. CASE j # k
    <3>1. j \in 1 .. k - 1
      BY <2>3
    <3> QED BY <1>1, <1>10, <2>1, <2>3, <3>1 DEF OpenPhase
  <2> QED BY <2>2, <2>3
<1>13. \A i \in k + 1 .. 7 : \A x \in Fds : fd'[x] # Order[i]
  <2> SUFFICES ASSUME NEW i \in k + 1 .. 7, NEW x \in Fds PROVE fd'[x] # Order[i]
    OBVIOUS
  <2>1. i \in k .. 7 /\ i \in 1 .. 7 /\ i # k
    BY <1>2
  <2>2. fd[x] # Order[i] /\ Order[i] # Order[k]
    BY <1>1, <1>2, <2>1, OrderFacts DEF OpenPhase
  <2> QED BY <1>9, <2>2
<1>14. \A x \in Fds : x >= 3 + (k + 1) + Cardinality(Olds') => fd'[x] = "free"
  <2> SUFFICES ASSUME NEW x \in Fds, x >= 3 + (k + 1) + Cardinality(Olds)
               PROVE  fd'[x] = "free"
    BY <1>8
  <2>1. x >= 3 + k + Cardinality(Olds) /\ x # l
    BY <1>2, <1>5, OldsFinite, FdsAre
  <2> QED BY <1>1, <1>9, <2>1 DEF OpenPhase
<1>15. k + 1 \in 1 .. 8 /\ k + 1 - 1 = k /\ (k + 1 = 8 <=> k = 7)
  BY <1>2
<1>16. OpenPhase(k + 1)'
  BY <1>2, <1>4, <1>8, <1>11, <1>12, <1>13, <1>14, <1>15 DEF OpenPhase
<1> QED BY <1>7, <1>15, <1>16 DEF FdInv

\* An end of another child's pipe is in front of the connection.
LEMMA OtherChildStep ==
    ASSUME FdInv, OtherChild
    PROVE  FdInv'
<1>1. PICK k \in 1 .. 8 : OpenPhase(k)
  BY OrderFacts DEF FdInv, OtherChild, LogPhase, MovePhase
<1>2. k = 3
  <2>1. step[1] = "conn"
    BY DEF OtherChild
  <2>2. k # 8
    BY <1>1, <2>1, StepSays
  <2> QED BY <1>1, <2>1, <2>2, StepSays, OrderFacts
<1> DEFINE l == Lowest(fd)
<1>3. /\ fd' = [fd EXCEPT ![l] = "old"] /\ UNCHANGED <<num, logfd, step>>
      /\ Cardinality(Olds) < MaxOld
  BY DEF OtherChild, Olds
<1>4. FdTypeOK
  BY DEF FdInv
<1>5. /\ l \in Fds /\ fd[l] = "free" /\ (\A j \in 0 .. l - 1 : fd[j] # "free")
      /\ l <= 3 + k + Cardinality(Olds)
      /\ \A i \in 1 .. k - 1 : num[Order[i]] < l
  <2>1. k + Cardinality(Olds) <= 7 + MaxOld
    BY <1>2, <1>3, OldsFinite, FdMoveAssumption
  <2> QED BY <1>1, <1>4, <2>1, TakeLowest
<1> HIDE DEF l
<1>6. FdTypeOK'
  BY <1>3, <1>4, <1>5 DEF FdTypeOK, Kinds
<1>7. \A x \in Fds : fd'[x] = IF x = l THEN "old" ELSE fd[x]
  BY <1>3, <1>4 DEF FdTypeOK
<1>8. Cardinality(Olds') = Cardinality(Olds) + 1
  <2>1. Olds' = Olds \cup {l} /\ l \notin Olds
    BY <1>5, <1>7 DEF Olds
  <2> QED BY <2>1, OldsFinite, FS_AddElement
<1>9. \A i \in 1 .. 7 : Order[i] \notin {"old", "free"}
  BY OrderFacts
<1>10. \A i \in 1 .. k - 1 :
        /\ num'[Order[i]] \in Fds
        /\ \A x \in Fds : fd'[x] = Order[i] <=> x = num'[Order[i]]
        /\ \A x \in 0 .. num'[Order[i]] : fd'[x] # "free"
  <2> SUFFICES ASSUME NEW i \in 1 .. k - 1
               PROVE  /\ num[Order[i]] \in Fds
                      /\ \A x \in Fds : fd'[x] = Order[i] <=> x = num[Order[i]]
                      /\ \A x \in 0 .. num[Order[i]] : fd'[x] # "free"
    BY <1>3
  <2>1. /\ num[Order[i]] \in Fds /\ num[Order[i]] # l
        /\ \A x \in Fds : fd[x] = Order[i] <=> x = num[Order[i]]
        /\ \A x \in 0 .. num[Order[i]] : fd[x] # "free"
    BY <1>1, <1>5, FdsAre DEF OpenPhase
  <2>2. \A x \in 0 .. num[Order[i]] : x \in Fds
    BY <2>1, FdsAre
  <2>3. i \in 1 .. 7
    BY <1>2
  <2> QED BY <1>7, <1>9, <2>1, <2>2, <2>3
<1>11. \A i, j \in 1 .. k - 1 : i < j => num'[Order[i]] < num'[Order[j]]
  BY <1>1, <1>3 DEF OpenPhase
<1>12. \A i \in k .. 7 : \A x \in Fds : fd'[x] # Order[i]
  <2> SUFFICES ASSUME NEW i \in k .. 7, NEW x \in Fds PROVE fd'[x] # Order[i]
    OBVIOUS
  <2>1. i \in 1 .. 7 /\ fd[x] # Order[i]
    BY <1>1, <1>2 DEF OpenPhase
  <2> QED BY <1>7, <1>9, <2>1
<1>13. \A x \in Fds : x >= 3 + k + Cardinality(Olds') => fd'[x] = "free"
  <2> SUFFICES ASSUME NEW x \in Fds, x >= 3 + k + Cardinality(Olds')
               PROVE  fd'[x] = "free"
    OBVIOUS
  <2>1. x >= 3 + k + Cardinality(Olds) /\ x # l
    BY <1>2, <1>5, <1>8, OldsFinite, FdsAre
  <2> QED BY <1>1, <1>7, <2>1 DEF OpenPhase
<1>14. Cardinality(Olds') <= MaxOld
  BY <1>3, <1>8, OldsFinite, FdMoveAssumption
<1>15. OpenPhase(k)'
  BY <1>1, <1>3, <1>10, <1>11, <1>12, <1>13, <1>14 DEF OpenPhase
<1> QED BY <1>6, <1>15 DEF FdInv

\* The child has nothing of the master's any more.
LEMMA ChildClosesStep ==
    ASSUME FdInv, ChildCloses
    PROVE  FdInv'
<1>1. PICK k \in 1 .. 8 : OpenPhase(k)
  BY DEF FdInv, ChildCloses, LogPhase, MovePhase
<1>2. k = 8
  BY <1>1, StepSays, OrderFacts DEF ChildCloses
<1>3. /\ \A i \in 1 .. 7 : /\ num[Order[i]] \in Fds
                           /\ \A x \in Fds : fd[x] = Order[i] <=> x = num[Order[i]]
      /\ \A i, j \in 1 .. 7 : i < j => num[Order[i]] < num[Order[j]]
  BY <1>1, <1>2 DEF OpenPhase
<1>4. /\ num["listen"] \in Nat /\ num["epoll"] \in Nat /\ num["conn"] \in Nat
      /\ num["pi1r"] \in Nat /\ num["pi1w"] \in Nat /\ num["pi2r"] \in Nat
      /\ num["pi2w"] \in Nat
      /\ num["listen"] < num["epoll"] /\ num["epoll"] < num["conn"]
      /\ num["conn"] < num["pi1r"] /\ num["pi1r"] < num["pi1w"]
      /\ num["pi1w"] < num["pi2r"] /\ num["pi2r"] < num["pi2w"]
  BY <1>3, OrderFacts, FdsAre
<1>5. /\ num["conn"] \in Fds /\ num["pi1r"] \in Fds /\ num["pi2w"] \in Fds
      /\ \A x \in Fds : /\ fd[x] = "conn" <=> x = num["conn"]
                        /\ fd[x] = "pi1r" <=> x = num["pi1r"]
                        /\ fd[x] = "pi2w" <=> x = num["pi2w"]
                        /\ fd[x] = "pi1w" <=> x = num["pi1w"]
                        /\ fd[x] = "pi2r" <=> x = num["pi2r"]
                        /\ fd[x] = "listen" <=> x = num["listen"]
  BY <1>3, OrderFacts
<1>6. num["conn"] >= 2 /\ num["pi1r"] >= 3 /\ num["pi2w"] >= 4
  BY <1>4
<1>7. /\ fd' = [x \in Fds |-> IF x \in {num["pi1w"], num["pi2r"], num["listen"]}
                              THEN "free" ELSE fd[x]]
      /\ step' = <<"move", "conn", 2>> /\ UNCHANGED <<num, logfd>>
  BY DEF ChildCloses
<1>8. FdTypeOK'
  BY <1>7 DEF FdInv, FdTypeOK, Kinds
<1>9. HandsOn(num["conn"], num["pi1r"], num["pi2w"])'
  BY <1>4, <1>5, <1>7 DEF HandsOn
<1>10. MovePhase'
  BY <1>5, <1>6, <1>7, <1>9 DEF MovePhase, HandsOn
<1> QED BY <1>8, <1>10 DEF FdInv

\* A move meets no number that an earlier one has replaced.
LEMMA ChildMovesStep ==
    ASSUME FdInv, ChildMoves
    PROVE  FdInv'
<1>1. MovePhase
  <2>1. step[1] = "move"
    BY DEF ChildMoves
  <2>2. \A k \in 1 .. 8 : OpenPhase(k) => FALSE
    BY <2>1, StepSays
  <2> QED BY <2>1, <2>2 DEF FdInv, LogPhase
<1>2. FdTypeOK /\ UNCHANGED <<num, logfd>>
  BY DEF FdInv, ChildMoves
<1>3. {0, 1, 2} \subseteq Fds /\ Fds \subseteq Nat
  BY FdsAre
<1>4. ASSUME NEW to \in {0, 1, 2}, NEW from \in Fds, fd[from] # "syslog",
             fd' = FdMove(fd, to, from)
      PROVE  /\ FdTypeOK'
             /\ \A x \in Fds : fd'[x] = IF x = to THEN fd[from]
                                        ELSE IF x = from THEN "free" ELSE fd[x]
  <2>1. \A x \in Fds : fd'[x] = IF x = to THEN fd[from]
                                ELSE IF x = from THEN "free" ELSE fd[x]
    BY <1>2, <1>3, <1>4 DEF FdMove, FdCopy, FdTypeOK
  <2>2. fd' \in [Fds -> Kinds]
    BY <1>2, <1>3, <1>4 DEF FdMove, FdCopy, FdTypeOK, Kinds
  <2> QED BY <1>2, <1>4, <2>1, <2>2 DEF FdTypeOK
<1>5. CASE step = <<"move", "conn", 2>> /\ HandsOn(num["conn"], num["pi1r"], num["pi2w"])
  <2>1. /\ num["conn"] \in Fds /\ num["conn"] >= 2 /\ fd[num["conn"]] = "conn"
        /\ num["pi1r"] \in Fds /\ num["pi2w"] \in Fds
        /\ num["pi1r"] >= 3 /\ num["pi2w"] >= 4
    BY <1>1, <1>5 DEF MovePhase, HandsOn
  <2>2. step[2] = "conn" /\ step[3] = 2 /\ Moves["conn"] = <<"move", "pi1r", 0>>
    BY <1>5 DEF Moves
  <2>3. step' = <<"move", "pi1r", 0>> /\ fd' = FdMove(fd, 2, num["conn"])
    BY <2>1, <2>2 DEF ChildMoves
  <2>4. FdTypeOK' /\ \A x \in Fds : fd'[x] = IF x = 2 THEN "conn"
                                             ELSE IF x = num["conn"] THEN "free" ELSE fd[x]
    BY <1>4, <2>1, <2>3
  <2>5. HandsOn(2, num["pi1r"], num["pi2w"])'
    BY <1>2, <1>3, <1>5, <2>1, <2>4 DEF HandsOn
  <2>6. MovePhase'
    BY <1>1, <1>2, <2>3, <2>5 DEF MovePhase
  <2> QED BY <2>4, <2>6 DEF FdInv
<1>6. CASE step = <<"move", "pi1r", 0>> /\ HandsOn(2, num["pi1r"], num["pi2w"])
  <2>1. /\ num["pi1r"] \in Fds /\ num["pi1r"] >= 3 /\ fd[num["pi1r"]] = "pi1r"
        /\ num["pi2w"] \in Fds /\ num["pi2w"] >= 4
    BY <1>1, <1>6 DEF MovePhase, HandsOn
  <2>2. step[2] = "pi1r" /\ step[3] = 0 /\ Moves["pi1r"] = <<"move", "pi2w", 1>>
    BY <1>6 DEF Moves
  <2>3. step' = <<"move", "pi2w", 1>> /\ fd' = FdMove(fd, 0, num["pi1r"])
    BY <2>1, <2>2 DEF ChildMoves
  <2>4. FdTypeOK' /\ \A x \in Fds : fd'[x] = IF x = 0 THEN "pi1r"
                                             ELSE IF x = num["pi1r"] THEN "free" ELSE fd[x]
    BY <1>4, <2>1, <2>3
  <2>5. HandsOn(2, 0, num["pi2w"])'
    BY <1>2, <1>3, <1>6, <2>1, <2>4 DEF HandsOn
  <2>6. MovePhase'
    BY <1>1, <1>2, <2>3, <2>5 DEF MovePhase
  <2> QED BY <2>4, <2>6 DEF FdInv
<1>7. CASE step = <<"move", "pi2w", 1>> /\ HandsOn(2, 0, num["pi2w"])
  <2>1. num["pi2w"] \in Fds /\ num["pi2w"] >= 4 /\ fd[num["pi2w"]] = "pi2w"
    BY <1>1, <1>7 DEF MovePhase, HandsOn
  <2>2. step[2] = "pi2w" /\ step[3] = 1 /\ Moves["pi2w"] = <<"exec">>
    BY <1>7 DEF Moves
  <2>3. step' = <<"exec">> /\ fd' = FdMove(fd, 1, num["pi2w"])
    BY <2>1, <2>2 DEF ChildMoves
  <2>4. FdTypeOK' /\ \A x \in Fds : fd'[x] = IF x = 1 THEN "pi2w"
                                             ELSE IF x = num["pi2w"] THEN "free" ELSE fd[x]
    BY <1>4, <2>1, <2>3
  <2>5. HandsOn(2, 0, 1)'
    BY <1>3, <1>7, <2>1, <2>4 DEF HandsOn
  <2> QED BY <2>3, <2>4, <2>5 DEF FdInv
<1> QED BY <1>1, <1>5, <1>6, <1>7 DEF MovePhase

\* A last message, or none, and the program is run.
LEMMA ExecStep ==
    ASSUME FdInv, ExecLogs \/ Exec
    PROVE  FdInv'
<1>1. step = <<"exec">> /\ step' = <<"run">> /\ UNCHANGED <<num, logfd>>
  BY DEF ExecLogs, Exec
<1>2. HandsOn(2, 0, 1)
  <2>1. \A k \in 1 .. 8 : OpenPhase(k) => FALSE
    BY <1>1, StepSays
  <2> QED BY <1>1, <2>1 DEF FdInv, LogPhase, MovePhase
<1>3. FdTypeOK
  BY DEF FdInv
<1>4. /\ fd' \in [Fds -> Kinds]
      /\ \A x \in Fds : /\ fd'[x] # "syslog"
                        /\ fd'[x] = fd[x] \/ fd'[x] = "free"
                        /\ fd'[x] # fd[x] /\ x # logfd => fd[x] = "syslog"
  <2>1. CASE logfd # NoFd /\ fd' = [fd EXCEPT ![logfd] = "free"]
    BY <1>3, <2>1 DEF FdTypeOK, Kinds
  <2>2. CASE logfd # NoFd /\ fd[logfd] = "conn" /\ UNCHANGED fd
    BY <1>3, <2>2 DEF FdTypeOK
  <2>3. CASE logfd = NoFd /\ UNCHANGED fd
    BY <1>3, <2>3, FdsAre DEF FdTypeOK
  <2>4. CASE fd' = [x \in Fds |-> IF fd[x] = "syslog" THEN "free" ELSE fd[x]]
    BY <1>3, <2>4 DEF FdTypeOK, Kinds
  <2> QED BY <2>1, <2>2, <2>3, <2>4 DEF ExecLogs, Exec
<1>5. FdTypeOK'
  BY <1>1, <1>3, <1>4 DEF FdTypeOK
<1>6. ASSUME NEW e \in {"conn", "pi1r", "pi2w"}, NEW y \in {0, 1, 2},
             \A x \in Fds : fd[x] = e <=> x = y
      PROVE  At(e)' \in {{y}} \cup IF logfd = y THEN {{}} ELSE {}
  <2>1. At(e)' = {x \in Fds : fd'[x] = e}
    BY DEF At
  <2>2. \A x \in Fds : fd'[x] = e => x = y
    BY <1>4, <1>6
  <2>3. logfd # y => fd'[y] = e /\ y \in Fds
    BY <1>4, <1>6, FdsAre
  <2> QED BY <2>1, <2>2, <2>3
<1>7. At("syslog")' = {}
  BY <1>4 DEF At
<1>8. At("pi1w")' = {} /\ At("pi2r")' = {} /\ At("listen")' = {}
  BY <1>2, <1>4 DEF At, HandsOn
<1>9. InPlace'
  <2>1. At("pi1r")' \in {{0}} \cup IF logfd = 0 THEN {{}} ELSE {}
    BY <1>2, <1>6 DEF HandsOn
  <2>2. At("pi2w")' \in {{1}} \cup IF logfd = 1 THEN {{}} ELSE {}
    BY <1>2, <1>6 DEF HandsOn
  <2>3. At("conn")' \in {{2}} \cup IF logfd = 2 THEN {{}} ELSE {}
    BY <1>2, <1>6 DEF HandsOn
  <2>4. step' # <<"exit">> /\ (logfd' = NoFd \/ logfd' \in Fds)
    BY <1>1, <1>3 DEF FdTypeOK
  <2> QED BY <1>1, <1>7, <1>8, <2>1, <2>2, <2>3, <2>4 DEF InPlace
<1> QED BY <1>1, <1>5, <1>9 DEF FdInv

\* FdInv is inductive.
LEMMA FdStep == FdInv /\ [FdNext]_fdVars => FdInv'
<1> SUFFICES ASSUME FdInv, [FdNext]_fdVars
             PROVE  FdInv'
  OBVIOUS
<1>1. CASE UNCHANGED fdVars
  <2>1. UNCHANGED <<fd, num, logfd, step>>
    BY <1>1 DEF fdVars
  <2>2. /\ FdTypeOK' /\ (LogPhase => LogPhase') /\ (MovePhase => MovePhase')
        /\ HandsOn(2, 0, 1)' = HandsOn(2, 0, 1)
    BY <2>1 DEF FdInv, FdTypeOK, LogPhase, MovePhase, HandsOn
  <2>3. \A k \in 1 .. 8 : OpenPhase(k) => OpenPhase(k)'
    BY <2>1 DEF OpenPhase, Olds
  <2>4. InPlace' = InPlace
    BY <2>1 DEF InPlace, At
  <2> QED BY <2>1, <2>2, <2>3, <2>4 DEF FdInv
<1>2. CASE FdNext
  BY <1>2, LogStep, OpenStep, OtherChildStep, ChildClosesStep, ChildMovesStep, ExecStep
     DEF FdNext
<1> QED BY <1>1, <1>2

\* FdInv says that the child never ends for a source that is not open.
LEMMA FdInvInPlace == FdInv => InPlace
<1> SUFFICES ASSUME FdInv PROVE InPlace
  OBVIOUS
<1>1. logfd = NoFd \/ logfd \in Fds
  BY DEF FdInv, FdTypeOK
<1>2. CASE \E k \in 1 .. 8 : OpenPhase(k)
  <2>1. PICK k \in 1 .. 8 : OpenPhase(k)
    BY <1>2
  <2>2. step # <<"run">> /\ step # <<"exit">>
    <3>1. k # 8 => step[1] \in OpenedByMaster
      BY <2>1, StepSays, OrderFacts
    <3> QED BY <2>1, <3>1, StepSays, OrderFacts
  <2> QED BY <1>1, <2>2 DEF InPlace
<1>3. CASE LogPhase \/ MovePhase \/ step = <<"exec">>
  BY <1>1, <1>3 DEF InPlace, LogPhase, MovePhase
<1> QED BY <1>2, <1>3 DEF FdInv

---------------------------------------------------------------------------
(* The texts.  The space is given out from its end down, so that a block   *)
(* from it is below all the others; and what a text is moved to is larger  *)
(* than what it was moved for.                                             *)

Chars == {"?"} \cup UNION {{w[i] : i \in DOMAIN w} : w \in Words}

Blocks == [at : {"NULL", "space", "heap"}, off : Nat, size : Nat]

StrTypeOK ==
    /\ sa \in [Handles -> [s : Blocks, a : Nat, len : Nat, bytes : Seq(Chars)]]
    /\ saMeant \in [Handles -> Seq(Chars)]
    /\ avail \in 0 .. SpaceSize /\ heap \in Int
    /\ \A h \in Handles : sa[h].s.at = "NULL" <=> sa[h].s = NoBlock

\* One text alone, when the space is given out down to from.
TextKept(x, meant, from) ==
    /\ x.len = Len(meant) /\ x.len = Len(x.bytes)
    /\ \A i \in 1 .. x.len : x.bytes[i] \in {meant[i], "?"}
    /\ x.s # NoBlock => x.len < x.a /\ x.a <= x.s.size
    /\ x.s.at = "space" => from <= x.s.off /\ x.s.off + x.s.size <= SpaceSize

\* Two blocks of the space do not overlap.
Apart(b, c) == b.off + b.size <= c.off \/ c.off + c.size <= b.off

OnHeap == {h \in Handles : sa[h].s.at = "heap"}

StrInv ==
    /\ StrTypeOK
    /\ \A h \in Handles : TextKept(sa[h], saMeant[h], avail)
    /\ \A g, h \in Handles :
        g # h /\ sa[g].s.at = "space" /\ sa[h].s.at = "space" => Apart(sa[g].s, sa[h].s)
    /\ heap = Cardinality(OnHeap)

\* A block is larger than what it is for.
LEMMA AlignedFits == ASSUME NEW n \in Nat PROVE Aligned(n) \in Nat /\ Aligned(n) > n
<1>1. n % Alignment \in 0 .. Alignment - 1
  BY StrAllocAssumption
<1> QED BY <1>1, StrAllocAssumption DEF Aligned

\* stralloc_readyplus asks for at least what is needed, and an eighth.
LEMMA EnlargedFits == ASSUME NEW n \in Nat PROVE Enlarged(n) \in Nat /\ Enlarged(n) >= n
<1>1. n \div 8 \in Nat
  OBVIOUS
<1> QED BY <1>1, StrAllocAssumption DEF Enlarged

\* The block for n bytes is in what is left of the space, or is from the heap.
LEMMA BlockFits ==
    ASSUME NEW n \in Nat, avail \in Nat
    PROVE  /\ Block(n) \in Blocks /\ Block(n) # NoBlock /\ Block(n).at \in {"space", "heap"}
           /\ Block(n).size > n
           /\ Block(n).at = "space" =>
                /\ FromSpace(n) /\ Block(n).off = avail - Block(n).size
           /\ FromSpace(n) => avail - Aligned(n) \in Nat /\ Block(n).size = Aligned(n)
BY AlignedFits DEF Block, Blocks, NoBlock, FromSpace

\* The texts on the heap after one of them got another block.
LEMMA HeapCounts ==
    ASSUME NEW h \in Handles, StrTypeOK, StrTypeOK', heap = Cardinality(OnHeap),
           heap' = heap + Heaps(sa'[h].s) - Heaps(sa[h].s),
           \A g \in Handles \ {h} : sa'[g] = sa[g]
    PROVE  heap' = Cardinality(OnHeap')
<1>1. IsFiniteSet(OnHeap) /\ Cardinality(OnHeap) \in Nat
  BY StrAllocAssumption, FS_Subset, FS_CardinalityType DEF OnHeap
<1>2. CASE sa'[h].s.at = "heap" /\ sa[h].s.at # "heap"
  <2>1. OnHeap' = OnHeap \cup {h} /\ h \notin OnHeap
    BY <1>2 DEF OnHeap
  <2>2. Cardinality(OnHeap') = Cardinality(OnHeap) + 1
    BY <1>1, <2>1, FS_AddElement
  <2> QED BY <1>1, <1>2, <2>2 DEF Heaps
<1>3. CASE sa'[h].s.at # "heap" /\ sa[h].s.at = "heap"
  <2>1. OnHeap' = OnHeap \ {h} /\ h \in OnHeap
    BY <1>3 DEF OnHeap
  <2>2. Cardinality(OnHeap') = Cardinality(OnHeap) - 1
    BY <1>1, <2>1, FS_RemoveElement
  <2> QED BY <1>1, <1>3, <2>2 DEF Heaps
<1>4. CASE sa'[h].s.at = "heap" <=> sa[h].s.at = "heap"
  <2>1. OnHeap' = OnHeap
    BY <1>4 DEF OnHeap
  <2>2. heap' = heap
    BY <1>1, <1>4 DEF Heaps
  <2> QED BY <2>1, <2>2
<1> QED BY <1>2, <1>3, <1>4

\* A text gets new bytes, in its block or in a new one.
LEMMA MadeStep ==
    ASSUME StrInv, NEW h \in Handles, NEW n \in Nat, NEW bytes \in Seq(Chars),
           NEW len \in Nat, NEW meant \in Seq(Chars),
           len < n, len = Len(bytes), len = Len(meant),
           \A i \in 1 .. len : bytes[i] \in {meant[i], "?"},
           Made(h, n, bytes, len, meant)
    PROVE  StrInv'
<1> DEFINE x    == sa[h]
           need == IF x.s = NoBlock THEN n ELSE Enlarged(n)
           grow == x.s = NoBlock \/ n > x.a
           y    == [s |-> IF grow THEN Block(need) ELSE x.s,
                    a |-> IF grow THEN need ELSE x.a, len |-> len, bytes |-> bytes]
<1>1. /\ IF grow THEN Takes(need) ELSE UNCHANGED avail
      /\ heap' = heap + IF grow THEN Heaps(Block(need)) - Heaps(x.s) ELSE 0
      /\ sa' = [sa EXCEPT ![h] = y]
      /\ saMeant' = [saMeant EXCEPT ![h] = meant]
  BY DEF Made
<1>2. /\ StrTypeOK /\ x \in [s : Blocks, a : Nat, len : Nat, bytes : Seq(Chars)]
      /\ x.s \in Blocks /\ x.a \in Nat
  BY DEF StrInv, StrTypeOK
<1>3. need \in Nat /\ need >= n
  BY EnlargedFits
<1>4. /\ Block(need) \in Blocks /\ Block(need) # NoBlock
      /\ Block(need).at \in {"space", "heap"} /\ Block(need).size > need
      /\ Block(need).at = "space" =>
            FromSpace(need) /\ Block(need).off = avail - Block(need).size
      /\ FromSpace(need) => avail - Aligned(need) \in Nat /\ Block(need).size = Aligned(need)
  <2>1. avail \in Nat
    BY <1>2, StrAllocAssumption DEF StrTypeOK
  <2> HIDE DEF need
  <2> QED BY <1>3, <2>1, BlockFits
<1> HIDE DEF need
<1>5. /\ y.s \in Blocks /\ y.a \in Nat /\ y.len = len /\ y.bytes = bytes
      /\ len < y.a
      /\ y \in [s : Blocks, a : Nat, len : Nat, bytes : Seq(Chars)]
      /\ y.s = IF grow THEN Block(need) ELSE x.s
      /\ y.a = IF grow THEN need ELSE x.a
  BY <1>2, <1>3, <1>4
<1> HIDE DEF grow, y
<1>6. /\ avail' \in 0 .. SpaceSize /\ avail' <= avail
      /\ y.s.at = "space" /\ grow => avail' = y.s.off /\ y.s.off + y.s.size = avail
      /\ ~grow => avail' = avail
  <2>1. avail \in 0 .. SpaceSize /\ SpaceSize \in Nat
    BY <1>2, StrAllocAssumption DEF StrTypeOK
  <2>2. CASE ~grow
    BY <1>1, <2>1, <2>2
  <2>3. CASE grow
    <3>1. avail' = IF FromSpace(need) THEN avail - Aligned(need) ELSE avail
      BY <1>1, <2>3 DEF Takes
    <3>2. Aligned(need) \in Nat
      BY <1>3, AlignedFits
    <3>3. CASE FromSpace(need)
      <4>1. y.s = Block(need) /\ avail' = avail - Aligned(need)
        BY <1>5, <2>3, <3>1, <3>3
      <4>2. avail' \in Nat /\ avail' <= avail /\ Block(need).size = Aligned(need)
        BY <1>4, <2>1, <3>2, <3>3, <4>1
      <4> QED BY <1>4, <2>1, <2>3, <3>2, <4>1, <4>2
    <3>4. CASE ~FromSpace(need)
      BY <1>4, <1>5, <2>1, <2>3, <3>1, <3>4
    <3> QED BY <3>3, <3>4
  <2> QED BY <2>2, <2>3
<1>7. /\ \A g \in Handles : sa'[g] = IF g = h THEN y ELSE sa[g]
      /\ \A g \in Handles : saMeant'[g] = IF g = h THEN meant ELSE saMeant[g]
  BY <1>1, <1>2 DEF StrTypeOK
<1>8. y.s.at # "NULL" /\ y.s # NoBlock
  BY <1>2, <1>4, <1>5 DEF StrTypeOK, grow
<1>9. StrTypeOK'
  <2>1. sa' \in [Handles -> [s : Blocks, a : Nat, len : Nat, bytes : Seq(Chars)]]
    BY <1>1, <1>2, <1>5 DEF StrTypeOK
  <2>2. saMeant' \in [Handles -> Seq(Chars)]
    BY <1>1, <1>2 DEF StrTypeOK
  <2>3. heap' \in Int
    BY <1>1, <1>2 DEF StrTypeOK, Heaps
  <2>4. \A g \in Handles : sa'[g].s.at = "NULL" <=> sa'[g].s = NoBlock
    BY <1>2, <1>7, <1>8 DEF StrTypeOK
  <2> QED BY <1>6, <2>1, <2>2, <2>3, <2>4 DEF StrTypeOK
<1>10. TextKept(x, saMeant[h], avail)
  BY DEF StrInv
<1>11. TextKept(y, meant, avail')
  <2>1. y.a <= y.s.size
    <3>1. CASE grow
      BY <1>3, <1>4, <1>5, <3>1 DEF Blocks
    <3>2. CASE ~grow
      BY <1>5, <1>10, <3>2 DEF TextKept, grow
    <3> QED BY <3>1, <3>2
  <2>2. y.s.at = "space" => avail' <= y.s.off /\ y.s.off + y.s.size <= SpaceSize
    <3>1. CASE grow
      <4>1. avail <= SpaceSize
        BY <1>2, StrAllocAssumption DEF StrTypeOK
      <4> QED BY <1>5, <1>6, <3>1, <4>1, StrAllocAssumption DEF Blocks
    <3>2. CASE ~grow
      BY <1>5, <1>6, <1>10, <3>2 DEF TextKept
    <3> QED BY <3>1, <3>2
  <2> QED BY <1>5, <2>1, <2>2 DEF TextKept
<1>12. \A g \in Handles : TextKept(sa[g], saMeant[g], avail)'
  <2> SUFFICES ASSUME NEW g \in Handles PROVE TextKept(sa[g], saMeant[g], avail)'
    OBVIOUS
  <2>1. CASE g = h
    BY <1>7, <1>11, <2>1 DEF TextKept
  <2>2. CASE g # h
    <3>1. TextKept(sa[g], saMeant[g], avail) /\ sa[g].s.off \in Nat
      BY <1>2 DEF StrInv, StrTypeOK, Blocks
    <3>2. sa[g].s.at = "space" => avail' <= sa[g].s.off
      BY <1>2, <1>6, <3>1 DEF TextKept, StrTypeOK
    <3> QED BY <1>7, <2>2, <3>1, <3>2 DEF TextKept
  <2> QED BY <2>1, <2>2
<1>13. ASSUME NEW g \in Handles \ {h}, y.s.at = "space", sa[g].s.at = "space"
       PROVE  Apart(y.s, sa[g].s) /\ Apart(sa[g].s, y.s)
  <2>1. CASE grow
    <3>1. avail <= sa[g].s.off
      BY <1>13 DEF StrInv, TextKept
    <3>2. y.s.off + y.s.size = avail
      BY <1>6, <1>13, <2>1
    <3> QED BY <3>1, <3>2 DEF Apart
  <2>2. CASE ~grow
    BY <1>5, <1>13, <2>2 DEF StrInv
  <2> QED BY <2>1, <2>2
<1>14. \A f, g \in Handles :
        f # g /\ sa'[f].s.at = "space" /\ sa'[g].s.at = "space" => Apart(sa'[f].s, sa'[g].s)
  BY <1>7, <1>13 DEF StrInv
<1>15. heap' = Cardinality(OnHeap')
  <2>1. sa'[h] = y /\ (~grow => y.s = x.s)
    BY <1>5, <1>7
  <2>2. heap' = heap + Heaps(sa'[h].s) - Heaps(sa[h].s)
    BY <1>1, <1>2, <1>5, <2>1 DEF Heaps, StrTypeOK
  <2> QED BY <1>2, <1>7, <1>9, <2>2, HeapCounts DEF StrInv
<1> QED BY <1>9, <1>12, <1>14, <1>15, Zenon DEF StrInv, Apart

\* There is no memory for a text, or it is given back.
LEMMA NotMadeStep ==
    ASSUME StrInv, NEW h \in Handles, NEW n \in Nat, NotMade(h, n)
    PROVE  StrInv'
<1>1. /\ sa' = [sa EXCEPT ![h].a = IF sa[h].s = NoBlock THEN n ELSE @]
      /\ UNCHANGED <<avail, heap, saMeant>> /\ StrTypeOK
  BY DEF NotMade, StrInv
<1>2. /\ sa' \in [Handles -> [s : Blocks, a : Nat, len : Nat, bytes : Seq(Chars)]]
      /\ \A g \in Handles : /\ sa'[g].s = sa[g].s /\ sa'[g].len = sa[g].len
                            /\ sa'[g].bytes = sa[g].bytes
                            /\ sa[g].s # NoBlock => sa'[g].a = sa[g].a
  BY <1>1 DEF StrTypeOK
<1>3. StrTypeOK'
  BY <1>1, <1>2 DEF StrTypeOK
<1>4. \A g \in Handles : TextKept(sa'[g], saMeant'[g], avail')
  BY <1>1, <1>2 DEF StrInv, TextKept
<1>5. \A f, g \in Handles :
        f # g /\ sa'[f].s.at = "space" /\ sa'[g].s.at = "space" => Apart(sa'[f].s, sa'[g].s)
  BY <1>2 DEF StrInv
<1>6. OnHeap' = OnHeap
  BY <1>2 DEF OnHeap
<1> QED BY <1>1, <1>3, <1>4, <1>5, <1>6 DEF StrInv

\* stralloc_free gives the block of a text back, and nothing else changes.
LEMMA StrFreeStep ==
    ASSUME StrInv, NEW h \in Handles, StrFree(h)
    PROVE  StrInv'
<1>1. /\ heap' = heap - Heaps(sa[h].s) /\ UNCHANGED avail
      /\ sa' = [sa EXCEPT ![h] = NoText] /\ saMeant' = [saMeant EXCEPT ![h] = <<>>]
      /\ StrTypeOK
  BY DEF StrFree, StrInv
<1>2. /\ NoText \in [s : Blocks, a : Nat, len : Nat, bytes : Seq(Chars)]
      /\ NoText.s = NoBlock /\ NoBlock.at = "NULL" /\ NoText.len = 0
      /\ NoText.bytes = <<>> /\ Len(<<>>) = 0 /\ <<>> \in Seq(Chars)
  BY DEF NoText, NoBlock, Blocks
<1>3. \A g \in Handles : /\ sa'[g] = IF g = h THEN NoText ELSE sa[g]
                         /\ saMeant'[g] = IF g = h THEN <<>> ELSE saMeant[g]
  BY <1>1 DEF StrTypeOK
<1>4. StrTypeOK'
  <2>1. sa' \in [Handles -> [s : Blocks, a : Nat, len : Nat, bytes : Seq(Chars)]]
    BY <1>1, <1>2 DEF StrTypeOK
  <2>2. saMeant' \in [Handles -> Seq(Chars)]
    BY <1>1, <1>2 DEF StrTypeOK
  <2>3. avail' \in 0 .. SpaceSize /\ heap' \in Int
    BY <1>1 DEF StrTypeOK, Heaps
  <2>4. \A g \in Handles : sa'[g].s.at = "NULL" <=> sa'[g].s = NoBlock
    BY <1>1, <1>2, <1>3 DEF StrTypeOK
  <2> QED BY <2>1, <2>2, <2>3, <2>4 DEF StrTypeOK
<1>5. \A g \in Handles : TextKept(sa'[g], saMeant'[g], avail')
  <2> SUFFICES ASSUME NEW g \in Handles PROVE TextKept(sa'[g], saMeant'[g], avail')
    OBVIOUS
  <2>1. CASE g = h
    BY <1>2, <1>3, <2>1 DEF TextKept
  <2>2. CASE g # h
    BY <1>1, <1>3, <2>2 DEF StrInv
  <2> QED BY <2>1, <2>2
<1>6. \A f, g \in Handles :
        f # g /\ sa'[f].s.at = "space" /\ sa'[g].s.at = "space" => Apart(sa'[f].s, sa'[g].s)
  BY <1>2, <1>3 DEF StrInv
<1>7. heap' = Cardinality(OnHeap')
  <2>1. heap' = heap + Heaps(sa'[h].s) - Heaps(sa[h].s)
    BY <1>1, <1>2, <1>3 DEF Heaps, StrTypeOK
  <2> QED BY <1>1, <1>3, <1>4, <2>1, HeapCounts DEF StrInv
<1> QED BY <1>4, <1>5, <1>6, <1>7 DEF StrInv

\* What is copied is what it is, also where it is not what was meant.
LEMMA CopybStep ==
    ASSUME StrInv, NEW h \in Handles, NEW word \in Seq(Chars), Copyb(h, word)
    PROVE  StrInv'
<1>1. Len(word) + 1 \in Nat /\ Len(word) \in Nat /\ Len(word) < Len(word) + 1
  OBVIOUS
<1>2. Made(h, Len(word) + 1, word, Len(word), word)
  BY DEF Copyb
<1> QED BY <1>1, <1>2, MadeStep

\* Two texts that are as they were meant, or not known, are so one behind the
\* other.
LEMMA KnownBehind ==
    ASSUME NEW b \in Seq(Chars), NEW c \in Seq(Chars), NEW mb \in Seq(Chars),
           NEW mc \in Seq(Chars), Len(b) = Len(mb), Len(c) = Len(mc),
           \A i \in 1 .. Len(b) : b[i] \in {mb[i], "?"},
           \A i \in 1 .. Len(c) : c[i] \in {mc[i], "?"}
    PROVE  /\ b \o c \in Seq(Chars) /\ mb \o mc \in Seq(Chars)
           /\ Len(b \o c) = Len(b) + Len(c) /\ Len(mb \o mc) = Len(b) + Len(c)
           /\ \A i \in 1 .. Len(b) + Len(c) : (b \o c)[i] \in {(mb \o mc)[i], "?"}
<1> DEFINE Both(s, t) ==
            /\ s \o t \in Seq(Chars) /\ Len(s \o t) = Len(s) + Len(t)
            /\ \A i \in 1 .. Len(s) + Len(t) :
                  (s \o t)[i] = IF i <= Len(s) THEN s[i] ELSE t[i - Len(s)]
<1>0. \A s, t \in Seq(Chars) : Both(s, t)
  BY ConcatProperties
<1>1. Both(b, c)
  BY <1>0, Zenon
<1>2. Both(mb, mc)
  BY <1>0, Zenon
<1>3. ASSUME NEW i \in 1 .. Len(b) + Len(c)
      PROVE  (b \o c)[i] \in {(mb \o mc)[i], "?"}
  <2>1. CASE i <= Len(b)
    BY <1>1, <1>2, <2>1
  <2>2. CASE ~(i <= Len(b))
    <3>1. i - Len(b) \in 1 .. Len(c)
      BY <2>2
    <3> QED BY <1>1, <1>2, <2>2, <3>1
  <2> QED BY <2>1, <2>2
<1> QED BY <1>1, <1>2, <1>3

\* What is appended comes behind what was there, or is not known.
LEMMA CatbStep ==
    ASSUME StrInv, NEW h \in Handles, NEW from, NEW word \in Seq(Chars),
           Catb(h, from, word)
    PROVE  StrInv'
<1>1. PICK add : /\ add = IF Freed(h, from, Len(word) + sa[h].len + 1)
                          THEN Unknown(Len(word)) ELSE word
                 /\ Made(h, Len(word) + sa[h].len + 1, sa[h].bytes \o add,
                         sa[h].len + Len(word), saMeant[h] \o word)
  BY DEF Catb
<1>2. /\ sa[h].len \in Nat /\ sa[h].bytes \in Seq(Chars) /\ saMeant[h] \in Seq(Chars)
      /\ sa[h].len = Len(saMeant[h]) /\ sa[h].len = Len(sa[h].bytes)
      /\ \A i \in 1 .. sa[h].len : sa[h].bytes[i] \in {saMeant[h][i], "?"}
  BY DEF StrInv, StrTypeOK, TextKept
<1>3. /\ add \in Seq(Chars) /\ Len(add) = Len(word)
      /\ \A i \in 1 .. Len(add) : add[i] \in {word[i], "?"}
  <2>1. CASE add = word
    BY <2>1
  <2>2. CASE add = Unknown(Len(word))
    <3>1. Len(word) \in Nat
      OBVIOUS
    <3>2. add = [i \in 1 .. Len(word) |-> "?"]
      BY <2>2 DEF Unknown
    <3>3. add \in [1 .. Len(word) -> Chars]
      <4>1. "?" \in Chars
        BY DEF Chars
      <4> QED BY <3>2, <4>1, Zenon
    <3>4. add \in Seq(Chars)
      BY <3>1, <3>3, SeqDef
    <3> QED BY <3>1, <3>2, <3>4
  <2> QED BY <1>1, <2>1, <2>2
<1>4. /\ sa[h].bytes \o add \in Seq(Chars) /\ saMeant[h] \o word \in Seq(Chars)
      /\ Len(sa[h].bytes \o add) = sa[h].len + Len(word)
      /\ Len(saMeant[h] \o word) = sa[h].len + Len(word)
      /\ \A i \in 1 .. sa[h].len + Len(word) :
            (sa[h].bytes \o add)[i] \in {(saMeant[h] \o word)[i], "?"}
  <2>1. /\ Len(sa[h].bytes) = Len(saMeant[h])
        /\ \A i \in 1 .. Len(sa[h].bytes) : sa[h].bytes[i] \in {saMeant[h][i], "?"}
    BY <1>2, Zenon
  <2>2. /\ sa[h].bytes \o add \in Seq(Chars) /\ saMeant[h] \o word \in Seq(Chars)
        /\ Len(sa[h].bytes \o add) = Len(sa[h].bytes) + Len(add)
        /\ Len(saMeant[h] \o word) = Len(sa[h].bytes) + Len(add)
        /\ \A i \in 1 .. Len(sa[h].bytes) + Len(add) :
              (sa[h].bytes \o add)[i] \in {(saMeant[h] \o word)[i], "?"}
    <3> DEFINE b  == sa[h].bytes
               mb == saMeant[h]
    <3>1. /\ b \in Seq(Chars) /\ mb \in Seq(Chars) /\ Len(b) = Len(mb)
          /\ \A i \in 1 .. Len(b) : b[i] \in {mb[i], "?"}
          /\ add \in Seq(Chars) /\ Len(add) = Len(word)
      BY <1>2, <1>3, <2>1, Zenon
    <3> HIDE DEF b, mb
    <3>2. /\ b \o add \in Seq(Chars) /\ mb \o word \in Seq(Chars)
          /\ Len(b \o add) = Len(b) + Len(add) /\ Len(mb \o word) = Len(b) + Len(add)
          /\ \A i \in 1 .. Len(b) + Len(add) : (b \o add)[i] \in {(mb \o word)[i], "?"}
      BY <1>3, <3>1, KnownBehind
    <3> QED BY <3>2 DEF b, mb
  <2> QED BY <1>2, <1>3, <2>2, Zenon
<1>5. /\ Len(word) + sa[h].len + 1 \in Nat /\ sa[h].len + Len(word) \in Nat
      /\ sa[h].len + Len(word) < Len(word) + sa[h].len + 1
  BY <1>2
<1> QED BY <1>1, <1>4, <1>5, MadeStep

\* StrInv is inductive.
LEMMA StrStep == StrInv /\ [StrNext]_strVars => StrInv'
<1> SUFFICES ASSUME StrInv, [StrNext]_strVars
             PROVE  StrInv'
  OBVIOUS
<1>1. CASE UNCHANGED strVars
  <2>1. UNCHANGED <<sa, avail, heap, saMeant>>
    BY <1>1 DEF strVars
  <2> QED BY <2>1 DEF StrInv, StrTypeOK, OnHeap
<1>2. ASSUME NEW h \in Handles, NEW word \in Words,
             Copys(h, word) \/ Cats(h, word) \/ CopyFails(h, word) \/ CatFails(h, word)
      PROVE  StrInv'
  <2>1. word \in Seq(Chars) /\ Len(word) + 1 \in Nat
    <3>1. {word[i] : i \in DOMAIN word} \subseteq Chars
      BY DEF Chars
    <3>2. word \in Seq({word[i] : i \in DOMAIN word})
      BY StrAllocAssumption
    <3>3. word \in Seq(Chars)
      BY <3>1, <3>2, SeqMonotonic
    <3> QED BY <3>3
  <2>2. sa[h].len + Len(word) + 1 \in Nat
    BY <2>1 DEF StrInv, StrTypeOK
  <2>3. Copyb(h, word) \/ Catb(h, "none", word) \/ NotMade(h, Len(word) + 1)
        \/ NotMade(h, sa[h].len + Len(word) + 1)
    BY <1>2 DEF Copys, Cats, CopyFails, CatFails
  <2> QED BY <2>1, <2>2, <2>3, CopybStep, CatbStep, NotMadeStep
<1>3. ASSUME NEW h \in Handles, NEW src \in Handles, Copy(h, src) \/ Cat(h, src)
      PROVE  StrInv'
  <2>1. sa[src].bytes \in Seq(Chars)
    BY DEF StrInv, StrTypeOK
  <2>2. Copyb(h, sa[src].bytes) \/ Catb(h, src, sa[src].bytes)
    BY <1>3 DEF Copy, Cat
  <2> QED BY <2>1, <2>2, CopybStep, CatbStep
<1>4. CASE StrNext
  BY <1>2, <1>3, <1>4, StrFreeStep DEF StrNext
<1> QED BY <1>1, <1>4

\* StrInv says of the texts and their blocks what is promised.
LEMMA StrInvKept == StrInv => TextsAreKept
<1> SUFFICES ASSUME StrInv PROVE TextsAreKept
  OBVIOUS
<1>1. heap = Cardinality({h \in Handles : sa[h].s.at = "heap"})
  BY DEF StrInv, OnHeap
<1>2. ASSUME NEW h \in Handles
      PROVE  LET x == sa[h]
             IN  /\ x.s.at \in {"NULL", "space", "heap"}
                 /\ x.len = Len(saMeant[h]) /\ x.len = Len(x.bytes)
                 /\ \A i \in 1 .. x.len : x.bytes[i] \in {saMeant[h][i], "?"}
                 /\ x.s # NoBlock => x.len < x.a /\ x.a <= x.s.size
                 /\ x.s.at = "space" => InSpace(h) \subseteq avail .. SpaceSize - 1
                 /\ \A g \in Handles \ {h} :
                     x.s.at = "space" /\ sa[g].s.at = "space"
                        => InSpace(h) \cap InSpace(g) = {}
  <2>1. \A g \in Handles : sa[g].s.off \in Nat /\ sa[g].s.size \in Nat
    BY DEF StrInv, StrTypeOK, Blocks
  <2>2. sa[h].s.at = "space" => InSpace(h) \subseteq avail .. SpaceSize - 1
    <3>1. avail \in Nat /\ SpaceSize \in Nat
      BY StrAllocAssumption DEF StrInv, StrTypeOK
    <3>2. sa[h].s.at = "space" =>
              avail <= sa[h].s.off /\ sa[h].s.off + sa[h].s.size <= SpaceSize
      BY DEF StrInv, TextKept
    <3> QED BY <2>1, <3>1, <3>2 DEF InSpace
  <2>3. ASSUME NEW g \in Handles \ {h}, sa[h].s.at = "space", sa[g].s.at = "space"
        PROVE  InSpace(h) \cap InSpace(g) = {}
    <3>1. Apart(sa[h].s, sa[g].s)
      BY <2>3 DEF StrInv
    <3> QED BY <2>1, <3>1 DEF InSpace, Apart
  <2>4. sa[h].s.at \in {"NULL", "space", "heap"}
    BY DEF StrInv, StrTypeOK, Blocks
  <2>5. TextKept(sa[h], saMeant[h], avail)
    BY DEF StrInv
  <2> QED BY <2>2, <2>3, <2>4, <2>5 DEF TextKept
<1> QED BY <1>1, <1>2 DEF TextsAreKept

---------------------------------------------------------------------------
(* The program that uses the libraries. *)

\* At first only the three standard descriptors may be taken, and no text has
\* a block.
LEMMA InitPlaces == Init => FdInv /\ StrInv
<1> SUFFICES ASSUME Init PROVE FdInv /\ StrInv
  OBVIOUS
<1>1. FdInv
  <2>1. FdInit
    BY DEF Init
  <2>2. /\ fd \in [Fds -> {"std", "free"}] /\ \A x \in Fds : x > 2 => fd[x] = "free"
        /\ num = [e \in OpenedByMaster |-> NoFd] /\ logfd = NoFd /\ step = <<"log">>
    BY <2>1 DEF FdInit
  <2>3. FdTypeOK
    BY <2>2 DEF FdTypeOK, Kinds
  <2>4. LogPhase
    BY <2>2 DEF LogPhase
  <2> QED BY <2>3, <2>4 DEF FdInv
<1>2. StrInv
  <2>1. /\ sa = [h \in Handles |-> NoText] /\ saMeant = [h \in Handles |-> <<>>]
        /\ avail = SpaceSize /\ heap = 0
    BY DEF Init, StrInit
  <2>2. /\ NoText \in [s : Blocks, a : Nat, len : Nat, bytes : Seq(Chars)]
        /\ NoText.s = NoBlock /\ NoBlock.at = "NULL" /\ NoText.len = 0
        /\ NoText.bytes = <<>> /\ Len(<<>>) = 0 /\ <<>> \in Seq(Chars)
    BY DEF NoText, NoBlock, Blocks
  <2>3. StrTypeOK
    BY <2>1, <2>2, StrAllocAssumption DEF StrTypeOK
  <2>4. \A h \in Handles : TextKept(sa[h], saMeant[h], avail)
    BY <2>1, <2>2 DEF TextKept
  <2>5. OnHeap = {}
    BY <2>1, <2>2 DEF OnHeap
  <2> QED BY <2>1, <2>2, <2>3, <2>4, <2>5, FS_EmptySet DEF StrInv
<1> QED BY <1>1, <1>2

\* A step moves descriptors or changes texts, or is of another library.
LEMMA NextPlaces == FdInv /\ StrInv /\ [Next]_vars => FdInv' /\ StrInv'
<1> SUFFICES ASSUME FdInv, StrInv, [Next]_vars
             PROVE  FdInv' /\ StrInv'
  OBVIOUS
<1>1. [StrNext]_strVars /\ [FdNext]_fdVars
  BY DEF Next, vars, UsesMysqlApi, UsesApiMc, UsesCurlApi, UsesBase64, UsesUtf8,
     UsesStrAlloc, UsesOpus, UsesFdMove
<1> QED BY <1>1, FdStep, StrStep

\* The two invariants hold in every state.
LEMMA PlacesInvariant == Spec => [](FdInv /\ StrInv)
BY InitPlaces, NextPlaces, PTL DEF Spec

\* Whatever was open when ctserver was started, with and without syslog, and
\* however many pipes it has to other children: the program that is run finds
\* the ends of its pipes on 0 and 1, the connection on 2 and nothing of the
\* master's, and no move takes the number of something still to be moved.
THEOREM DescriptorsAreInPlace == Spec => []InPlace
BY FdInvInPlace, PlacesInvariant, PTL

\* For any texts, any size of the static space and any alignment: a text is
\* what it should be and fits in its block, no two blocks of the space overlap,
\* and every block from the heap belongs to a text.
THEOREM TextsKeepTheirBlocks == Spec => []TextsAreKept
BY StrInvKept, PlacesInvariant, PTL
=============================================================================
