------------------------------ MODULE CurlApi ------------------------------
(***************************************************************************)
(* ctapi_curl: a request whose answer comes in pieces, headers and data,   *)
(* each kept in a buffer that grows.  libcurl is external: it calls the    *)
(* callbacks with pieces, and may fail at any moment.  A piece is a number *)
(* of bytes.                                                               *)
(***************************************************************************)
EXTENDS Naturals

CONSTANTS
    Pieces,      \* lengths of what one callback gets
    BufSize,     \* BUF_SIZE
    MaxAnswer    \* bound: bytes of a part of the answer when its last piece comes

ASSUME CurlApiAssumption ==
    /\ Pieces \subseteq Nat \ {0} /\ MaxAnswer \in Nat
    /\ BufSize \in Nat \ {0}

VARIABLES
    headers, data,   \* pstr_t: whether there is a buffer, its size and length
    came,            \* the bytes libcurl has handed over in this request
    request,         \* idle, running, or how it ended
    curlRet

curlVars == <<headers, data, came, request, curlRet>>

NoStr == [str |-> FALSE, size |-> 0, len |-> 0]

CurlInit ==
    /\ headers = NoStr /\ data = NoStr
    /\ came = [headers |-> 0, data |-> 0]
    /\ request = "idle" /\ curlRet = 0

CurlEasyInit ==
    /\ request = "idle"
    /\ request' = "running"
    /\ UNCHANGED <<headers, data, came, curlRet>>

\* Only the buffer for the headers is freed, and its length stays.
CurlInitFails ==
    /\ request = "idle"
    /\ headers' = [headers EXCEPT !.str = FALSE, !.size = 0]
    /\ request' = "failed" /\ curlRet' = 0
    /\ UNCHANGED <<data, came>>

Buffer(p) == IF p.str THEN p ELSE [str |-> TRUE, size |-> BufSize, len |-> 0]

\* Variant: without room for the zero.
GrownTight(p, n) == IF p.size - p.len < n THEN [p EXCEPT !.size = @ * 2 + n] ELSE p

\* Room for the piece and a zero behind it.
Grown(p, n) ==
    IF p.size - p.len < n + 1 THEN [p EXCEPT !.size = @ * 2 + n + 1] ELSE p

Receive(p, n) == [Grown(Buffer(p), n) EXCEPT !.len = @ + n]

\* The buffers that are left when a piece is refused because there was no
\* memory for the first buffer, or for a larger one.
Refused(p, n) ==
    (IF p.str THEN {} ELSE {p}) \cup
    (IF Grown(Buffer(p), n) = Buffer(p) THEN {} ELSE {Buffer(p)})

ReciveHeader(n) ==
    /\ request = "running" /\ came.data = 0 /\ came.headers < MaxAnswer
    /\ headers' = Receive(headers, n)
    /\ came' = [came EXCEPT !.headers = @ + n]
    /\ UNCHANGED <<data, request, curlRet>>

ReciveData(n) ==
    /\ request = "running" /\ came.headers > 0 /\ came.data < MaxAnswer
    /\ data' = Receive(data, n)
    /\ came' = [came EXCEPT !.data = @ + n]
    /\ UNCHANGED <<headers, request, curlRet>>

\* curl_easy_perform is over: what it says makes no difference to the return.
Ends(h, d, how) ==
    /\ headers' = h /\ data' = d
    /\ request' = how /\ curlRet' = h.len + d.len
    /\ UNCHANGED came

PerformOk == request = "running" /\ came.headers > 0 /\ Ends(headers, data, "done")

PerformFails ==
    /\ request = "running"
    /\ \/ Ends(headers, data, "failed")
       \/ \E n \in Pieces :
            \/ \E h \in Refused(headers, n) : came.data = 0 /\ Ends(h, data, "failed")
            \/ \E d \in Refused(data, n) : came.headers > 0 /\ Ends(headers, d, "failed")

\* The caller frees both texts and sets them back, as sample.c does.
CallerFrees ==
    /\ request \in {"done", "failed"}
    /\ headers' = NoStr /\ data' = NoStr /\ came' = [headers |-> 0, data |-> 0]
    /\ request' = "idle" /\ curlRet' = 0

CurlNext ==
    \/ CurlEasyInit \/ CurlInitFails \/ PerformOk \/ PerformFails \/ CallerFrees
    \/ \E n \in Pieces : ReciveHeader(n) \/ ReciveData(n)
---------------------------------------------------------------------------
(* Properties. *)

Holds(p, n) == p.len = n /\ (p.str => p.len < p.size) /\ (~p.str => p.len = 0)

\* However an answer is cut into pieces and wherever it breaks off, each
\* buffer has all the bytes of its part that libcurl handed over, with room
\* for the zero behind them, and the return is their number.  So 0 means that
\* nothing came, not that the request failed.
AnswerIsKept ==
    /\ Holds(headers, came.headers) /\ Holds(data, came.data)
    /\ request \in {"done", "failed"} => curlRet = came.headers + came.data
=============================================================================
