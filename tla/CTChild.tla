------------------------------- MODULE CTChild -------------------------------
(***************************************************************************)
(* ctchild (ctserver/src/ctchild.c, ctlogicprocess.c): the process that     *)
(* serves one client.  Its epoll loop watches the client's socket and the   *)
(* pipe from the master, both edge-triggered; an event of the socket reads  *)
(* all there is into a new MFILE, then socket_protocol_process answers it   *)
(* line by line.  The socket does not block, so any write may fail.         *)
(*                                                                         *)
(* What the client sends is a sequence of pieces, and a position in it      *)
(* stands for the piece there.  The MFILE holds the positions               *)
(* base + 1 .. got, of which those up to at are read.                       *)
(***************************************************************************)
EXTENDS Integers, Sequences

CONSTANTS
    Streams,      \* what a client may send: a prefix of one of these
    BufPieces,    \* what one read can return (BUF_SIZE)
    MaxFaults     \* bound on failed calls while the client is there

\* Text of a command; the letters QUIT; text that reaches the end of the line
\* buffer; the end of a line; a zero byte.
Piece == {"cmd", "quit", "long", "nl", "nul"}

ASSUME CTChildAssumption ==
    /\ Streams \subseteq Seq(Piece)
    /\ BufPieces \in Nat \ {0}
    /\ MaxFaults \in Nat

VARIABLES
    sent,         \* what the client has sent, in pieces
    closed,       \* the client has closed or reset the connection
    masterGone,   \* the master holds its end of the pipe no more
    pc,           \* where the child is
    ready,        \* descriptors on the kernel's ready list
    batch,        \* events of epoll_evts that are not handled yet
    got,          \* pieces read from the socket
    base,         \* where the MFILE begins
    at,           \* what mread_line has returned of it
    length,       \* local of read_buf_to_mfp_from_sockfd
    longLine,     \* read_line_finish is 0
    replies,      \* history: what the child has answered
    failed,       \* history: a write has failed
    faults        \* failures injected so far

client == <<sent, closed, masterGone>>
mfile == <<got, base, at>>
vars == <<sent, closed, masterGone, pc, ready, batch, got, base, at, length,
          longLine, replies, failed, faults>>

Fd == {"client", "pfd_r"}

\* An answer: the pieces lo .. hi of an MFILE that begins behind from; their
\* echo, the echo of the rest of a long line, or "220 Bye.".
Reply == [from : Nat, lo : Nat, hi : Nat, kind : {"echo", "rest", "bye"}]

TypeOK ==
    /\ sent \in Seq(Piece)
    /\ closed \in BOOLEAN /\ masterGone \in BOOLEAN
    /\ pc \in {"start", "wait", "loop", "read", "answer", "rest", "exit", "gone"}
    /\ ready \subseteq Fd /\ batch \subseteq Fd
    /\ got \in 0 .. Len(sent) /\ at \in 0 .. got /\ base \in 0 .. at
    /\ length \in Nat
    /\ longLine \in BOOLEAN
    /\ replies \in Seq(Reply)
    /\ failed \in BOOLEAN /\ faults \in 0 .. MaxFaults

Init ==
    /\ sent = <<>> /\ closed = FALSE /\ masterGone = FALSE
    /\ pc = "start"
    /\ ready = {} /\ batch = {}
    /\ got = 0 /\ base = 0 /\ at = 0
    /\ length = 0 /\ longLine = FALSE
    /\ replies = <<>> /\ failed = FALSE /\ faults = 0

-----------------------------------------------------------------------------
(* The client and the master *)

\* The kernel puts a descriptor that is watched on the ready list.
Wake(fd) == ready' = IF pc \in {"start", "exit", "gone"} THEN ready ELSE ready \cup {fd}

ClientSend(p) ==
    /\ ~closed
    /\ \E s \in Streams : Len(s) > Len(sent) /\ SubSeq(s, 1, Len(sent) + 1) = Append(sent, p)
    /\ sent' = Append(sent, p)
    /\ Wake("client")
    /\ UNCHANGED <<closed, masterGone, pc, batch, mfile, length, longLine,
                   replies, failed, faults>>

ClientClose ==
    /\ ~closed
    /\ closed' = TRUE
    /\ Wake("client")
    /\ UNCHANGED <<sent, masterGone, pc, batch, mfile, length, longLine,
                   replies, failed, faults>>

MasterEnds ==
    /\ ~masterGone
    /\ masterGone' = TRUE
    /\ Wake("pfd_r")
    /\ UNCHANGED <<sent, closed, pc, batch, mfile, length, longLine, replies,
                   failed, faults>>

-----------------------------------------------------------------------------
(* main: start and the epoll loop *)

Unread == got < Len(sent)

\* What epoll_wait may report: EPOLLIN of the socket, EPOLLHUP of the pipe.
Reportable(fd) == IF fd = "client" THEN Unread \/ closed ELSE masterGone

\* The greeting is written, both descriptors are watched.
Start ==
    /\ pc = "start"
    /\ ready' = {fd \in Fd : Reportable(fd)}
    /\ pc' = "wait"
    /\ UNCHANGED <<client, batch, mfile, length, longLine, replies, failed,
                   faults>>

\* epoll_create or epoll_ctl fails.
StartFail ==
    /\ pc = "start"
    /\ faults < MaxFaults
    /\ faults' = faults + 1
    /\ pc' = "gone"
    /\ UNCHANGED <<client, ready, batch, mfile, length, longLine, replies,
                   failed>>

EpollWait ==
    /\ pc = "wait"
    /\ \E fd \in ready : Reportable(fd)
    /\ batch' = {fd \in ready : Reportable(fd)}
    /\ ready' = {}
    /\ pc' = "loop"
    /\ UNCHANGED <<client, mfile, length, longLine, replies, failed, faults>>

\* Nothing happened for rw_timeout: the child exits.
Timeout ==
    /\ pc = "wait"
    /\ \A fd \in ready : ~Reportable(fd)
    /\ pc' = "gone"
    /\ UNCHANGED <<client, ready, batch, mfile, length, longLine, replies,
                   failed, faults>>

BatchEnd ==
    /\ pc = "loop"
    /\ batch = {}
    /\ pc' = "wait"
    /\ UNCHANGED <<client, ready, batch, mfile, length, longLine, replies,
                   failed, faults>>

\* The pipe of the master hung up: it is logged.
HandleParent ==
    /\ pc = "loop"
    /\ "pfd_r" \in batch
    /\ batch' = batch \ {"pfd_r"}
    /\ UNCHANGED <<client, pc, ready, mfile, length, longLine, replies, failed,
                   faults>>

\* Variant: one MFILE for all events, which mseek reads from its beginning.
SameMfp == base' = base /\ at' = base

\* Variant: the new MFILE is read from where the last one was left.
MfpKeepsPosition == base' = got /\ at' = at

\* mopen: an empty MFILE.
NewMfp == base' = got /\ at' = got

HandleClient ==
    /\ pc = "loop"
    /\ "client" \in batch
    /\ batch' = batch \ {"client"}
    /\ NewMfp
    /\ length' = 0
    /\ pc' = "read"
    /\ UNCHANGED <<client, ready, got, longLine, replies, failed, faults>>

-----------------------------------------------------------------------------
(* read_buf_to_mfp_from_sockfd *)

\* Variant: no loop: one read is enough.
DrainedAfterOne == length > 0

\* read returns EAGAIN.
Drained == ~Unread /\ ~closed

ReadSome ==
    /\ pc = "read"
    /\ Unread
    /\ got' = IF got + BufPieces < Len(sent) THEN got + BufPieces ELSE Len(sent)
    /\ length' = length + 1         \* what mwrite returns, not the bytes
    /\ UNCHANGED <<client, pc, ready, batch, base, at, longLine, replies,
                   failed, faults>>

\* EAGAIN: length is returned, and socket_protocol_process is called for it.
ReadDone ==
    /\ pc = "read"
    /\ Drained
    /\ pc' = IF length > 0 THEN "answer" ELSE "exit"
    /\ longLine' = FALSE
    /\ UNCHANGED <<client, ready, batch, mfile, length, replies, failed, faults>>

\* The end of the stream or an error: what was read before it is not looked
\* at, and the descriptors are closed.
ReadEnd ==
    /\ pc = "read"
    /\ ~Unread /\ closed
    /\ pc' = "exit"
    /\ UNCHANGED <<client, ready, batch, mfile, length, longLine, replies,
                   failed, faults>>

Exit ==
    /\ pc = "exit"
    /\ pc' = "gone"
    /\ UNCHANGED <<client, ready, batch, mfile, length, longLine, replies,
                   failed, faults>>

-----------------------------------------------------------------------------
(* mread_line and socket_protocol_process *)

Stops == {"nl", "long", "nul"}

\* What the next mread_line returns reaches to here: the end of the line, of
\* the line buffer or of the MFILE, or a zero byte.
ChunkEnd ==
    CHOOSE q \in at + 1 .. got :
        /\ sent[q] \in Stops \/ q = got
        /\ \A r \in at + 1 .. q - 1 : sent[r] \notin Stops

\* It returns 0 and an empty buffer.
Empty == at < got => sent[at + 1] = "nul"

\* It returns 0 and a full buffer: the line is longer than the buffer.
Filled == sent[ChunkEnd] = "long"

\* Variant: QUIT is looked for once, in front of the loop.
IsFirstQuit == at = base /\ SubSeq(sent, at + 1, ChunkEnd) = <<"quit", "nl">>

IsQuit == SubSeq(sent, at + 1, ChunkEnd) = <<"quit", "nl">>

Answered(kind) ==
    replies' = Append(replies, [from |-> base, lo |-> at + 1, hi |-> ChunkEnd,
                                kind |-> kind])

WriteMayFail == closed \/ faults < MaxFaults

CountFailure ==
    /\ WriteMayFail
    /\ failed' = TRUE
    /\ faults' = IF closed THEN faults ELSE faults + 1

\* The MFILE is read to its end, or to a zero byte at the start of a line:
\* what is behind that is not looked at.
AnswerDone ==
    /\ pc = "answer"
    /\ Empty
    /\ pc' = "loop"
    /\ UNCHANGED <<client, ready, batch, mfile, length, longLine, replies,
                   failed, faults>>

\* QUIT: the rest is read and dropped, "220 Bye." is written, _exit(110).
AnswerQuit ==
    /\ pc = "answer"
    /\ ~Empty /\ IsQuit
    /\ \/ Answered("bye") /\ UNCHANGED <<failed, faults>>
       \/ CountFailure /\ UNCHANGED replies
    /\ at' = got
    /\ pc' = "gone"
    /\ UNCHANGED <<client, ready, batch, got, base, length, longLine>>

\* Any other line is echoed from its second word on.  Once a line was longer
\* than the buffer, the code goes on to its rest: read_line_finish stays 0.
AnswerLine ==
    /\ pc = "answer"
    /\ ~Empty /\ ~IsQuit
    /\ Answered("echo")
    /\ at' = ChunkEnd
    /\ longLine' = (longLine \/ Filled)
    /\ pc' = IF longLine' THEN "rest" ELSE "answer"
    /\ UNCHANGED <<client, ready, batch, got, base, length, failed, faults>>

\* The middle of a long line: n is 0, and write is asked for 0 bytes.
RestSkip ==
    /\ pc = "rest"
    /\ ~Empty /\ Filled
    /\ at' = ChunkEnd
    /\ UNCHANGED <<client, pc, ready, batch, got, base, length, longLine,
                   replies, failed, faults>>

\* The end of a long line, or the whole of a line behind one.
RestLast ==
    /\ pc = "rest"
    /\ ~Empty /\ ~Filled
    /\ Answered("rest")
    /\ at' = ChunkEnd
    /\ pc' = "answer"
    /\ UNCHANGED <<client, ready, batch, got, base, length, longLine, failed,
                   faults>>

\* There is no rest; a zero byte is passed over.
RestNone ==
    /\ pc = "rest"
    /\ Empty
    /\ at' = IF at = got THEN at ELSE at + 1
    /\ pc' = "answer"
    /\ UNCHANGED <<client, ready, batch, got, base, length, longLine, replies,
                   failed, faults>>

\* write fails: socket_protocol_process returns, and what is left of the
\* MFILE is not looked at.
WriteFail ==
    /\ pc \in {"answer", "rest"}
    /\ ~Empty /\ (pc = "answer" => ~IsQuit)
    /\ CountFailure
    /\ at' = ChunkEnd
    /\ pc' = "loop"
    /\ UNCHANGED <<client, ready, batch, got, base, length, longLine, replies>>

-----------------------------------------------------------------------------

Outside == (\E p \in Piece : ClientSend(p)) \/ ClientClose \/ MasterEnds

Child ==
    \/ Start \/ EpollWait \/ BatchEnd \/ HandleParent \/ HandleClient
    \/ ReadSome \/ ReadDone \/ ReadEnd \/ Exit
    \/ AnswerDone \/ AnswerQuit \/ AnswerLine \/ RestSkip \/ RestLast
    \/ RestNone \/ WriteFail

Next == Outside \/ Child \/ StartFail \/ Timeout

Spec == Init /\ [][Next]_vars

\* The child runs.  Nothing is assumed of the timeout, the client, the master.
FairSpec == Spec /\ WF_vars(Child)

-----------------------------------------------------------------------------
(* Safety *)

\* An edge is reported once: when the child goes to sleep, whatever the client
\* sent or did since the last read is on the ready list, so neither data nor
\* the end of the stream waits for the next edge, or for the timeout.
NoEdgeLost ==
    /\ pc = "wait" /\ Reportable("client") => "client" \in ready
    /\ pc = "loop" /\ Reportable("client") => "client" \in ready \cup batch

\* Across events, however the client's writes were cut into segments: nothing
\* is answered twice or out of order, and when the child sleeps all it has
\* read is answered, unless a write failed or a line was too long or held a
\* zero byte.
AnsweredInOrder ==
    /\ \A k \in 1 .. Len(replies) - 1 : replies[k].hi < replies[k + 1].lo
    /\ (pc = "wait" /\ ~failed /\ \A p \in 1 .. got : sent[p] \notin {"long", "nul"})
        => \A p \in 1 .. got :
            \E k \in 1 .. Len(replies) : p \in replies[k].lo .. replies[k].hi

\* QUIT ends the session: a line that is QUIT is echoed, as any other, only if
\* a line longer than the buffer came before it in the same event.
QuitIsObeyed ==
    \A k \in 1 .. Len(replies) :
        LET r == replies[k]
        IN  (r.kind # "bye" /\ SubSeq(sent, r.lo, r.hi) = <<"quit", "nl">>)
            => \E p \in r.from + 1 .. r.lo - 1 : sent[p] = "long"

-----------------------------------------------------------------------------
(* Liveness *)

\* A child whose client is gone ends, without the help of the timeout.
ChildEnds == closed ~> pc = "gone"

\* What the client sends is read in the end, or the child is gone.
EverythingIsRead == Unread ~> (~Unread \/ pc = "gone")
=============================================================================
