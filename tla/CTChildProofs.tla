---------------------------- MODULE CTChildProofs ----------------------------
(***************************************************************************)
(* CTChild, for every set of sessions a client may hold, every buffer and   *)
(* every number of failures.                                               *)
(*                                                                         *)
(* No edge of the client's socket is lost.  NoEdgeLost speaks of the two    *)
(* places where the loop waits or takes an event; it is kept because the    *)
(* edges that come while a batch is answered are kept too.                  *)
(*                                                                         *)
(* The answers are in order, complete, and end at QUIT.  The invariant      *)
(* behind this says what is answered in the middle of an event, and that    *)
(* the mode for the rest of a long line is only entered behind one.         *)
(***************************************************************************)
EXTENDS CTChild, NatSets, TLAPS

\* What the client sent, and how much of it is read.
ReadInv ==
    /\ sent \in Seq(Piece)
    /\ got \in 0 .. Len(sent)

\* The socket is drained before its MFILE is answered, so what comes later
\* is an edge of its own.
EdgeInv ==
    Reportable("client") =>
        /\ pc \in {"wait", "answer", "rest"} => "client" \in ready
        /\ pc = "loop" => "client" \in ready \cup batch

EInv == ReadInv /\ EdgeInv

\* A piece is sent behind the others.
LEMMA SendReadInv ==
    ASSUME ReadInv, NEW p \in Piece, ClientSend(p)
    PROVE  ReadInv'
<1>1. /\ sent' = Append(sent, p)
      /\ got' = got
  BY DEF ClientSend, mfile
<1>2. sent' \in Seq(Piece) /\ Len(sent') = Len(sent) + 1
  BY <1>1 DEF ReadInv
<1> QED BY <1>1, <1>2 DEF ReadInv

\* The amount that is read stays within what was sent.
LEMMA NextReadInv == ReadInv /\ [Next]_vars => ReadInv'
<1> SUFFICES ASSUME ReadInv, [Next]_vars
             PROVE  ReadInv'
  OBVIOUS
<1>1. CASE \E p \in Piece : ClientSend(p)
  BY <1>1, SendReadInv
<1>2. CASE ReadSome
  <2>1. sent' = sent /\ Len(sent) \in Nat /\ got < Len(sent)
    BY <1>2 DEF ReadSome, Unread, client, ReadInv
  <2>2. got' = IF got + BufPieces < Len(sent) THEN got + BufPieces ELSE Len(sent)
    BY <1>2 DEF ReadSome
  <2> QED BY <2>1, <2>2, CTChildAssumption DEF ReadInv
<1>3. CASE UNCHANGED <<sent, got>>
  BY <1>3 DEF ReadInv
<1>4. CASE ~(\E p \in Piece : ClientSend(p)) /\ ~ReadSome
  <2>1. UNCHANGED <<sent, got>>
    BY <1>4 DEF Next, Outside, Child, vars, client, mfile, ClientClose,
       MasterEnds, Start, StartFail, EpollWait, Timeout, BatchEnd,
       HandleParent, HandleClient, ReadDone, ReadEnd, Exit, AnswerDone,
       AnswerQuit, AnswerLine, RestSkip, RestLast, RestNone, WriteFail
  <2> QED BY <2>1, <1>3
<1> QED BY <1>1, <1>2, <1>4

\* An edge that comes is put on the ready list.
LEMMA OutsideEdge ==
    ASSUME EInv, Outside
    PROVE  EdgeInv'
<1>1. CASE \E p \in Piece : ClientSend(p)
  BY <1>1 DEF ClientSend, Wake, EdgeInv
<1>2. CASE ClientClose
  BY <1>2 DEF ClientClose, Wake, EdgeInv
<1>3. CASE MasterEnds
  BY <1>3 DEF MasterEnds, Wake, EInv, EdgeInv, Reportable, Unread, mfile
<1> QED BY <1>1, <1>2, <1>3 DEF Outside

\* The loop takes the edge over into the batch and handles it there.
LEMMA LoopEdge ==
    ASSUME EInv,
           Start \/ EpollWait \/ BatchEnd \/ HandleParent \/ HandleClient
    PROVE  EdgeInv'
<1>1. CASE Start
  BY <1>1 DEF Start, EdgeInv, Reportable, Unread, client, mfile, Fd
<1>2. CASE EpollWait
  BY <1>2 DEF EpollWait, EInv, EdgeInv, Reportable, Unread, client, mfile
<1>3. CASE BatchEnd
  BY <1>3 DEF BatchEnd, EInv, EdgeInv, Reportable, Unread, client, mfile
<1>4. CASE HandleParent
  BY <1>4 DEF HandleParent, EInv, EdgeInv, Reportable, Unread, client, mfile
<1>5. CASE HandleClient
  BY <1>5 DEF HandleClient, EdgeInv
<1> QED BY <1>1, <1>2, <1>3, <1>4, <1>5

\* Only a drained socket is answered.
LEMMA ReadEdge ==
    ASSUME EInv, ReadSome \/ ReadDone \/ ReadEnd \/ Exit
    PROVE  EdgeInv'
<1>1. CASE ReadSome
  BY <1>1 DEF ReadSome, EdgeInv
<1>2. CASE ReadDone
  BY <1>2 DEF ReadDone, EdgeInv, Reportable, Drained, Unread, client, mfile
<1>3. CASE ReadEnd
  BY <1>3 DEF ReadEnd, EdgeInv
<1>4. CASE Exit
  BY <1>4 DEF Exit, EdgeInv
<1> QED BY <1>1, <1>2, <1>3, <1>4

\* Answering leaves the socket and the ready list alone.
LEMMA AnswerEdge ==
    ASSUME EInv,
           \/ AnswerDone \/ AnswerQuit \/ AnswerLine \/ RestSkip
           \/ RestLast \/ RestNone \/ WriteFail
    PROVE  EdgeInv'
<1>1. /\ pc \in {"answer", "rest"}
      /\ pc' \in {"answer", "rest", "loop", "gone"}
      /\ UNCHANGED <<sent, closed, got, ready>>
  BY DEF AnswerDone, AnswerQuit, AnswerLine, RestSkip, RestLast, RestNone,
     WriteFail, client, mfile
<1>2. Reportable("client")' <=> Reportable("client")
  BY <1>1 DEF Reportable, Unread
<1>3. Reportable("client") => "client" \in ready
  BY <1>1 DEF EInv, EdgeInv
<1> QED BY <1>1, <1>2, <1>3 DEF EdgeInv

\* EInv is inductive.
LEMMA NextEInv == EInv /\ [Next]_vars => EInv'
<1> SUFFICES ASSUME EInv, [Next]_vars
             PROVE  EInv'
  OBVIOUS
<1>1. ReadInv'
  BY NextReadInv DEF EInv
<1>2. EdgeInv'
  <2>1. CASE Outside
    BY <2>1, OutsideEdge
  <2>2. CASE Child
    BY <2>2, LoopEdge, ReadEdge, AnswerEdge DEF Child
  <2>3. CASE StartFail \/ Timeout
    BY <2>3 DEF StartFail, Timeout, EdgeInv
  <2>4. CASE UNCHANGED vars
    BY <2>4 DEF vars, EInv, EdgeInv, Reportable, Unread
  <2> QED BY <2>1, <2>2, <2>3, <2>4 DEF Next
<1> QED BY <1>1, <1>2 DEF EInv

\* Whatever the client sends, in whatever segments, and whatever fails: when
\* the child sleeps in epoll_wait, data it has not read or an end of stream it
\* has not seen is on the kernel's ready list.
THEOREM EdgesAreKept == Spec => []NoEdgeLost
<1>1. Init => EInv
  BY DEF Init, EInv, ReadInv, EdgeInv, Piece
<1>2. EInv => NoEdgeLost
  BY DEF EInv, EdgeInv, NoEdgeLost
<1> QED BY <1>1, <1>2, NextEInv, PTL DEF Spec

-----------------------------------------------------------------------------
(* The answers *)

\* An answer lies in what is read, and the answers are in order.
ReplyInv ==
    /\ \A k \in 1 .. Len(replies) :
          LET r == replies[k] IN r.from < r.lo /\ r.lo <= r.hi /\ r.hi <= at
    /\ \A k \in 1 .. Len(replies) - 1 : replies[k].hi < replies[k + 1].lo

\* The rest of a long line is looked for only behind a long line of the same
\* event.
LongInv ==
    /\ pc = "rest" => longLine
    /\ (pc \in {"answer", "rest"} /\ longLine) =>
          \E p \in base + 1 .. at : sent[p] = "long"

\* Nothing that was read is too long or holds a zero byte.
Clean == \A p \in 1 .. got : sent[p] \notin {"long", "nul"}

IsAnswered(p) == \E k \in 1 .. Len(replies) : p \in replies[k].lo .. replies[k].hi

\* As long as no write failed and the input is clean, everything up to the
\* position in the MFILE is answered, and outside of an event all of it.
CoverInv ==
    (pc # "gone" /\ ~failed /\ Clean) =>
        /\ \A p \in 1 .. at : IsAnswered(p)
        /\ pc \in {"start", "wait", "loop"} => at = got

AInv == TypeOK /\ ReplyInv /\ LongInv /\ CoverInv /\ QuitIsObeyed

\* mread_line always comes to an end: ChunkEnd is the first stop behind the
\* position, or the end of what was read.
LEMMA ChunkEndIs ==
    ASSUME at \in Nat, got \in Nat, at < got
    PROVE  /\ ChunkEnd \in at + 1 .. got
           /\ sent[ChunkEnd] \in Stops \/ ChunkEnd = got
           /\ \A r \in at + 1 .. ChunkEnd - 1 : sent[r] \notin Stops
<1> DEFINE T == {q \in at + 1 .. got : sent[q] \in Stops \/ q = got}
<1>1. T \subseteq Nat /\ got \in T
  OBVIOUS
<1>2. PICK m \in T : \A k \in T : m <= k
  BY <1>1, LeastOf
<1>3. /\ m \in at + 1 .. got
      /\ sent[m] \in Stops \/ m = got
      /\ \A r \in at + 1 .. m - 1 : sent[r] \notin Stops
  BY <1>2
<1> QED BY <1>3 DEF ChunkEnd

\* The numbers and sequences of AInv.
LEMMA ChildTypes ==
    ASSUME TypeOK
    PROVE  /\ at \in Nat /\ got \in Nat /\ base \in Nat /\ Len(sent) \in Nat
           /\ base <= at /\ at <= got /\ got <= Len(sent)
           /\ Len(replies) \in Nat
           /\ \A k \in 1 .. Len(replies) : replies[k] \in Reply
BY DEF TypeOK

\* A line that is there lies in what was read.
LEMMA ChunkInRead ==
    ASSUME TypeOK, ~Empty
    PROVE  /\ at < got /\ ChunkEnd \in at + 1 .. got
           /\ sent[at + 1] # "nul"
BY ChunkEndIs, ChildTypes DEF Empty

\* Steps that leave the answers, the MFILE and the input alone.
LEMMA AnswerFrame ==
    ASSUME AInv, UNCHANGED <<replies, sent, got, base, at>>
    PROVE  /\ ReplyInv' /\ QuitIsObeyed'
           /\ Clean' = Clean /\ \A p : IsAnswered(p)' = IsAnswered(p)
<1>1. ReplyInv'
  BY DEF AInv, ReplyInv
<1>2. QuitIsObeyed'
  BY DEF AInv, QuitIsObeyed
<1> QED BY <1>1, <1>2 DEF Clean, IsAnswered

\* What the client sends later changes no answer and no part of the input
\* that was answered.
LEMMA SendKeepsInput ==
    ASSUME TypeOK, NEW x \in Piece, sent' = Append(sent, x)
    PROVE  /\ sent' \in Seq(Piece) /\ Len(sent') = Len(sent) + 1
           /\ \A p \in 1 .. Len(sent) : sent'[p] = sent[p]
           /\ \A lo, hi \in Nat : 1 <= lo /\ hi <= Len(sent) =>
                SubSeq(sent', lo, hi) = SubSeq(sent, lo, hi)
<1>1. /\ sent' \in Seq(Piece) /\ Len(sent') = Len(sent) + 1
      /\ \A p \in 1 .. Len(sent) : sent'[p] = sent[p]
  BY DEF TypeOK
<1>2. ASSUME NEW lo \in Nat, NEW hi \in Nat, 1 <= lo, hi <= Len(sent)
      PROVE  SubSeq(sent', lo, hi) = SubSeq(sent, lo, hi)
  BY <1>1, <1>2 DEF TypeOK
<1> QED BY <1>1, <1>2

\* The client sends, the client closes, the master ends.
LEMMA OutsideAInv ==
    ASSUME AInv, Outside
    PROVE  AInv'
<1>1. ASSUME NEW x \in Piece, ClientSend(x)
      PROVE  AInv'
  <2>1. /\ sent' = Append(sent, x)
        /\ UNCHANGED <<closed, masterGone, pc, batch, got, base, at, length, longLine,
                       replies, failed, faults>>
        /\ ready' \subseteq ready \cup {"client"}
    BY <1>1 DEF ClientSend, Wake, mfile
  <2>2. /\ sent' \in Seq(Piece) /\ Len(sent') = Len(sent) + 1
        /\ \A p \in 1 .. Len(sent) : sent'[p] = sent[p]
        /\ \A lo, hi \in Nat : 1 <= lo /\ hi <= Len(sent) =>
             SubSeq(sent', lo, hi) = SubSeq(sent, lo, hi)
    BY <2>1, SendKeepsInput DEF AInv
  <2>3. TypeOK'
    BY <2>1, <2>2, ChildTypes DEF AInv, TypeOK, Fd
  <2>4. ReplyInv'
    BY <2>1 DEF AInv, ReplyInv
  <2>5. LongInv'
    BY <2>1, <2>2, ChildTypes DEF AInv, LongInv
  <2>6. CoverInv'
    <3>1. Clean' = Clean
      BY <2>1, <2>2, ChildTypes DEF AInv, Clean
    <3>2. \A p : IsAnswered(p)' = IsAnswered(p)
      BY <2>1 DEF IsAnswered
    <3> QED BY <2>1, <3>1, <3>2 DEF AInv, CoverInv
  <2>7. QuitIsObeyed'
    <3> SUFFICES ASSUME NEW k \in 1 .. Len(replies), replies[k].kind # "bye",
                        SubSeq(sent', replies[k].lo, replies[k].hi) = <<"quit", "nl">>
                 PROVE  \E p \in replies[k].from + 1 .. replies[k].lo - 1 : sent'[p] = "long"
      BY <2>1 DEF QuitIsObeyed
    <3>1. /\ replies[k].from \in Nat /\ replies[k].lo \in Nat /\ replies[k].hi \in Nat
          /\ 1 <= replies[k].lo /\ replies[k].lo <= replies[k].hi
          /\ replies[k].hi <= Len(sent)
      BY ChildTypes DEF AInv, ReplyInv, Reply
    <3>2. SubSeq(sent, replies[k].lo, replies[k].hi) = <<"quit", "nl">>
      BY <2>2, <3>1
    <3>3. PICK p \in replies[k].from + 1 .. replies[k].lo - 1 : sent[p] = "long"
      BY <3>2 DEF AInv, QuitIsObeyed
    <3>4. Len(sent) \in Nat
      BY ChildTypes DEF AInv
    <3>5. p \in 1 .. Len(sent)
      BY <3>1, <3>3, <3>4
    <3> QED BY <2>2, <3>3, <3>5
  <2> QED BY <2>3, <2>4, <2>5, <2>6, <2>7 DEF AInv
<1>2. CASE ClientClose \/ MasterEnds
  <2>1. /\ UNCHANGED <<sent, pc, batch, got, base, at, length, longLine, replies, failed, faults>>
        /\ closed' \in BOOLEAN /\ masterGone' \in BOOLEAN /\ ready' \subseteq Fd
    BY <1>2 DEF ClientClose, MasterEnds, Wake, mfile, AInv, TypeOK, Fd
  <2>2. TypeOK' /\ LongInv'
    BY <2>1 DEF AInv, TypeOK, LongInv
  <2>3. ReplyInv' /\ QuitIsObeyed' /\ CoverInv'
    BY <2>1, AnswerFrame DEF AInv, CoverInv
  <2> QED BY <2>2, <2>3 DEF AInv
<1> QED BY <1>1, <1>2 DEF Outside

\* Sleeping, taking events, and ending.
LEMMA LoopAInv ==
    ASSUME AInv,
           \/ Start \/ EpollWait \/ BatchEnd \/ HandleParent
           \/ StartFail \/ Timeout \/ ReadEnd \/ Exit
    PROVE  AInv'
<1>1. /\ UNCHANGED <<sent, closed, masterGone, got, base, at, length, longLine, replies, failed>>
      /\ pc' \in {"wait", "loop", "exit", "gone"}
      /\ pc' \in {"wait", "loop"} => pc \in {"start", "wait", "loop"}
      /\ pc # "gone"
      /\ ready' \subseteq Fd /\ batch' \subseteq Fd
      /\ faults' \in 0 .. MaxFaults
  BY CTChildAssumption
  DEF Start, EpollWait, BatchEnd, HandleParent, StartFail, Timeout, ReadEnd, Exit,
      client, mfile, AInv, TypeOK
<1>2. TypeOK'
  BY <1>1 DEF AInv, TypeOK
<1>3. LongInv'
  BY <1>1 DEF LongInv
<1>4. ReplyInv' /\ QuitIsObeyed' /\ CoverInv'
  BY <1>1, AnswerFrame DEF AInv, CoverInv
<1> QED BY <1>2, <1>3, <1>4 DEF AInv

\* A new MFILE begins where the last one ended, and outside of an event
\* nothing of that one is left unanswered.
LEMMA HandleClientAInv ==
    ASSUME AInv, HandleClient
    PROVE  AInv'
<1>1. /\ pc = "loop" /\ pc' = "read" /\ base' = got /\ at' = got /\ got' = got
      /\ length' = 0 /\ batch' \subseteq batch
      /\ UNCHANGED <<sent, closed, masterGone, ready, longLine, replies, failed, faults>>
  BY DEF HandleClient, NewMfp, client
<1>2. TypeOK'
  BY <1>1, ChildTypes DEF AInv, TypeOK
<1>3. ReplyInv'
  BY <1>1, ChildTypes DEF AInv, ReplyInv, Reply
<1>4. LongInv' /\ QuitIsObeyed'
  BY <1>1 DEF AInv, LongInv, QuitIsObeyed
<1>5. CoverInv'
  <2> SUFFICES ASSUME ~failed, Clean
               PROVE  \A p \in 1 .. got : IsAnswered(p)
    BY <1>1 DEF CoverInv, Clean, IsAnswered
  <2> QED BY <1>1 DEF AInv, CoverInv
<1> QED BY <1>2, <1>3, <1>4, <1>5 DEF AInv

\* The socket is read.
LEMMA ReadAInv ==
    ASSUME AInv, ReadSome \/ ReadDone
    PROVE  AInv'
<1>1. CASE ReadSome
  <2>1. /\ pc = "read" /\ pc' = "read" /\ got < Len(sent)
        /\ got' = IF got + BufPieces < Len(sent) THEN got + BufPieces ELSE Len(sent)
        /\ length' = length + 1
        /\ UNCHANGED <<sent, closed, masterGone, ready, batch, base, at, longLine,
                       replies, failed, faults>>
    BY <1>1 DEF ReadSome, Unread, client
  <2>2. got' \in 0 .. Len(sent) /\ got <= got'
    BY <2>1, ChildTypes, CTChildAssumption DEF AInv
  <2>3. TypeOK'
    <3>1. at \in 0 .. got' /\ length' \in Nat
      BY <2>1, <2>2, ChildTypes DEF AInv, TypeOK
    <3> QED BY <2>1, <2>2, <3>1 DEF AInv, TypeOK
  <2>4. ReplyInv' /\ LongInv' /\ QuitIsObeyed'
    BY <2>1 DEF AInv, ReplyInv, LongInv, QuitIsObeyed
  <2>5. CoverInv'
    <3>1. Clean' => Clean
      BY <2>1, <2>2, ChildTypes DEF AInv, Clean
    <3>2. \A p : IsAnswered(p)' = IsAnswered(p)
      BY <2>1 DEF IsAnswered
    <3> QED BY <2>1, <3>1, <3>2 DEF AInv, CoverInv
  <2> QED BY <2>3, <2>4, <2>5 DEF AInv
<1>2. CASE ReadDone
  <2>1. /\ pc = "read" /\ pc' \in {"answer", "exit"} /\ longLine' = FALSE
        /\ UNCHANGED <<sent, closed, masterGone, ready, batch, got, base, at, length,
                       replies, failed, faults>>
    BY <1>2 DEF ReadDone, client, mfile
  <2>2. TypeOK' /\ LongInv'
    BY <2>1 DEF AInv, TypeOK, LongInv
  <2>3. ReplyInv' /\ QuitIsObeyed' /\ CoverInv'
    BY <2>1, AnswerFrame DEF AInv, CoverInv
  <2> QED BY <2>2, <2>3 DEF AInv
<1> QED BY <1>1, <1>2

\* An answer to the next line goes behind the others.
LEMMA AnswerAppended ==
    ASSUME AInv, ~Empty, NEW kind \in {"echo", "rest", "bye"}, Answered(kind),
           UNCHANGED <<sent, got, base>>,
           at' \in Nat, ChunkEnd <= at',
           \/ kind = "bye" \/ ~IsQuit
           \/ \E p \in base + 1 .. at : sent[p] = "long"
    PROVE  /\ replies' \in Seq(Reply)
           /\ ReplyInv' /\ QuitIsObeyed'
           /\ \A p : IsAnswered(p) \/ p \in at + 1 .. ChunkEnd => IsAnswered(p)'
<1> DEFINE n == Len(replies)
           new == [from |-> base, lo |-> at + 1, hi |-> ChunkEnd, kind |-> kind]
<1>1. /\ at < got /\ ChunkEnd \in at + 1 .. got
      /\ at \in Nat /\ base \in Nat /\ base <= at /\ got \in Nat /\ n \in Nat
      /\ replies \in Seq(Reply)
  BY ChunkInRead, ChildTypes DEF AInv, TypeOK
<1>2. new \in Reply
  BY <1>1 DEF Reply
<1>3. replies' = Append(replies, new)
  BY DEF Answered
<1>4. /\ replies' \in Seq(Reply) /\ Len(replies') = n + 1
      /\ \A k \in 1 .. n : replies'[k] = replies[k]
      /\ replies'[n + 1] = new
  BY <1>1, <1>2, <1>3
<1>5. \A k \in 1 .. n : replies[k].from < replies[k].lo /\ replies[k].lo <= replies[k].hi
                        /\ replies[k].hi <= at /\ replies[k].hi \in Nat
  BY ChildTypes DEF AInv, ReplyInv, Reply
<1>6. ReplyInv'
  <2>1. ASSUME NEW k \in 1 .. n + 1
        PROVE  replies'[k].from < replies'[k].lo /\ replies'[k].lo <= replies'[k].hi
               /\ replies'[k].hi <= at'
    <3>1. CASE k = n + 1
      BY <1>1, <1>4, <3>1
    <3>2. CASE k # n + 1
      <4>1. k \in 1 .. n
        BY <1>1, <3>2
      <4> QED BY <1>1, <1>4, <1>5, <4>1
    <3> QED BY <3>1, <3>2
  <2>2. ASSUME NEW k \in 1 .. n
        PROVE  replies'[k].hi < replies'[k + 1].lo
    <3>1. CASE k = n
      BY <1>1, <1>4, <1>5, <3>1
    <3>2. CASE k # n
      <4>1. k \in 1 .. n - 1 /\ k + 1 \in 1 .. n
        BY <1>1, <3>2
      <4> QED BY <1>4, <4>1 DEF AInv, ReplyInv
    <3> QED BY <3>1, <3>2
  <2>3. Len(replies') = n + 1 /\ Len(replies') - 1 = n
    BY <1>1, <1>4
  <2> QED BY <2>1, <2>2, <2>3 DEF ReplyInv
<1>7. QuitIsObeyed'
  <2> SUFFICES ASSUME NEW k \in 1 .. n + 1, replies'[k].kind # "bye",
                      SubSeq(sent, replies'[k].lo, replies'[k].hi) = <<"quit", "nl">>
               PROVE  \E p \in replies'[k].from + 1 .. replies'[k].lo - 1 : sent[p] = "long"
    BY <1>4 DEF QuitIsObeyed
  <2>1. CASE k = n + 1
    <3>1. replies'[k] = new
      BY <1>4, <2>1
    <3>2. kind # "bye" /\ IsQuit
      BY <3>1 DEF IsQuit
    <3>3. \E p \in base + 1 .. at : sent[p] = "long"
      BY <3>2
    <3>4. new.from = base /\ new.lo - 1 = at
      BY <1>1
    <3> QED BY <3>1, <3>3, <3>4
  <2>2. CASE k # n + 1
    <3>1. k \in 1 .. n
      BY <1>1, <2>2
    <3> QED BY <1>4, <3>1 DEF AInv, QuitIsObeyed
  <2> QED BY <2>1, <2>2
<1>8. ASSUME NEW p, IsAnswered(p) \/ p \in at + 1 .. ChunkEnd
      PROVE  IsAnswered(p)'
  <2>1. CASE IsAnswered(p)
    BY <1>1, <1>4, <2>1 DEF IsAnswered
  <2>2. CASE p \in at + 1 .. ChunkEnd
    <3>1. n + 1 \in 1 .. Len(replies') /\ p \in replies'[n + 1].lo .. replies'[n + 1].hi
      BY <1>1, <1>4, <2>2
    <3> QED BY <3>1 DEF IsAnswered
  <2> QED BY <1>8, <2>1, <2>2
<1> QED BY <1>4, <1>6, <1>7, <1>8

\* The end of the MFILE: clean input is answered to its end.
LEMMA AnswerDoneAInv ==
    ASSUME AInv, AnswerDone
    PROVE  AInv'
<1>1. /\ pc = "answer" /\ Empty /\ pc' = "loop"
      /\ UNCHANGED <<sent, closed, masterGone, ready, batch, got, base, at, length,
                     longLine, replies, failed, faults>>
  BY DEF AnswerDone, client, mfile
<1>2. TypeOK' /\ LongInv'
  BY <1>1 DEF AInv, TypeOK, LongInv
<1>3. ReplyInv' /\ QuitIsObeyed' /\ Clean' = Clean /\ \A p : IsAnswered(p)' = IsAnswered(p)
  BY <1>1, AnswerFrame
<1>4. Clean => at = got
  <2> SUFFICES ASSUME Clean, at < got PROVE FALSE
    BY ChildTypes DEF AInv
  <2>1. at + 1 \in 1 .. got /\ sent[at + 1] = "nul"
    BY <1>1, ChildTypes DEF Empty, AInv
  <2> QED BY <2>1 DEF Clean
<1>5. CoverInv'
  BY <1>1, <1>3, <1>4 DEF AInv, CoverInv
<1> QED BY <1>2, <1>3, <1>5 DEF AInv

\* QUIT: it is the last answer, if there is one.
LEMMA AnswerQuitAInv ==
    ASSUME AInv, AnswerQuit
    PROVE  AInv'
<1>1. /\ ~Empty /\ at' = got /\ pc' = "gone"
      /\ UNCHANGED <<sent, closed, masterGone, ready, batch, got, base, length, longLine>>
  BY DEF AnswerQuit, client
<1>2. /\ at < got /\ ChunkEnd \in at + 1 .. got
      /\ at \in Nat /\ got \in Nat /\ base \in Nat /\ base <= at
  BY <1>1, ChunkInRead, ChildTypes DEF AInv
<1>3. /\ replies' \in Seq(Reply) /\ ReplyInv' /\ QuitIsObeyed'
      /\ failed' \in BOOLEAN /\ faults' \in 0 .. MaxFaults
  <2>1. CASE Answered("bye") /\ UNCHANGED <<failed, faults>>
    <3>1. at' \in Nat /\ ChunkEnd <= at'
      BY <1>1, <1>2
    <3> QED BY <1>1, <2>1, <3>1, AnswerAppended DEF AInv, TypeOK
  <2>2. CASE CountFailure /\ UNCHANGED replies
    <3>1. ReplyInv'
      BY <1>1, <1>2, <2>2, ChildTypes DEF AInv, ReplyInv, Reply
    <3>2. QuitIsObeyed'
      BY <1>1, <2>2 DEF AInv, QuitIsObeyed
    <3>3. failed' \in BOOLEAN /\ faults' \in 0 .. MaxFaults
      BY <2>2, CTChildAssumption DEF CountFailure, WriteMayFail, AInv, TypeOK
    <3> QED BY <2>2, <3>1, <3>2, <3>3 DEF AInv, TypeOK
  <2> QED BY <2>1, <2>2 DEF AnswerQuit
<1>4. TypeOK'
  BY <1>1, <1>2, <1>3 DEF AInv, TypeOK
<1>5. LongInv' /\ CoverInv'
  BY <1>1 DEF LongInv, CoverInv
<1> QED BY <1>3, <1>4, <1>5 DEF AInv

\* A line is echoed.
LEMMA AnswerLineAInv ==
    ASSUME AInv, AnswerLine
    PROVE  AInv'
<1>1. /\ pc = "answer" /\ ~Empty /\ ~IsQuit /\ Answered("echo") /\ at' = ChunkEnd
      /\ longLine' = (longLine \/ Filled)
      /\ pc' = IF longLine' THEN "rest" ELSE "answer"
      /\ UNCHANGED <<sent, closed, masterGone, ready, batch, got, base, length, failed, faults>>
  BY DEF AnswerLine, client
<1>2. /\ at < got /\ ChunkEnd \in at + 1 .. got
      /\ at \in Nat /\ got \in Nat /\ base \in Nat /\ base <= at
  BY <1>1, ChunkInRead, ChildTypes DEF AInv
<1>3. /\ replies' \in Seq(Reply) /\ ReplyInv' /\ QuitIsObeyed'
      /\ \A p : IsAnswered(p) \/ p \in at + 1 .. ChunkEnd => IsAnswered(p)'
  BY <1>1, <1>2, AnswerAppended
<1>4. TypeOK'
  BY <1>1, <1>2, <1>3 DEF AInv, TypeOK
<1>5. LongInv'
  <2> SUFFICES ASSUME longLine' PROVE \E p \in base + 1 .. at' : sent[p] = "long"
    BY <1>1 DEF LongInv
  <2>1. CASE longLine
    <3>1. PICK p \in base + 1 .. at : sent[p] = "long"
      BY <1>1, <2>1 DEF AInv, LongInv
    <3>2. p \in base + 1 .. at'
      BY <1>1, <1>2
    <3> QED BY <3>1, <3>2
  <2>2. CASE Filled
    <3>1. ChunkEnd \in base + 1 .. at' /\ sent[ChunkEnd] = "long"
      BY <1>1, <1>2, <2>2 DEF Filled
    <3> QED BY <3>1
  <2> QED BY <1>1, <2>1, <2>2
<1>6. CoverInv'
  <2> SUFFICES ASSUME ~failed, Clean
               PROVE  \A p \in 1 .. ChunkEnd : IsAnswered(p)'
    BY <1>1 DEF CoverInv, Clean
  <2>1. \A p \in 1 .. at : IsAnswered(p)
    BY <1>1 DEF AInv, CoverInv
  <2> QED BY <1>2, <1>3, <2>1
<1> QED BY <1>3, <1>4, <1>5, <1>6 DEF AInv

\* In the mode for the rest of a long line the input is not clean, so only
\* the types, the order and the long line itself matter.
LEMMA RestIsNotClean ==
    ASSUME AInv, pc = "rest"
    PROVE  /\ ~Clean
           /\ \E p \in base + 1 .. at : sent[p] = "long"
<1>1. PICK p \in base + 1 .. at : sent[p] = "long"
  BY DEF AInv, LongInv
<1>2. p \in 1 .. got
  BY ChildTypes DEF AInv
<1> QED BY <1>1, <1>2 DEF Clean

\* The middle, the end and the lack of the rest of a long line.
LEMMA RestAInv ==
    ASSUME AInv, RestSkip \/ RestLast \/ RestNone
    PROVE  AInv'
<1>1. /\ pc = "rest" /\ pc' \in {"rest", "answer"}
      /\ UNCHANGED <<sent, closed, masterGone, ready, batch, got, base, length, longLine,
                     failed, faults>>
  BY DEF RestSkip, RestLast, RestNone, client
<1>2. at \in Nat /\ got \in Nat /\ base \in Nat /\ base <= at /\ at <= got
  BY ChildTypes DEF AInv
<1>3. at' \in at .. got
  <2>1. CASE RestSkip \/ RestLast
    BY <1>2, <2>1, ChunkInRead DEF RestSkip, RestLast, AInv
  <2>2. CASE RestNone
    BY <1>2, <2>2 DEF RestNone
  <2> QED BY <2>1, <2>2
<1>4. ~Clean /\ \E p \in base + 1 .. at : sent[p] = "long"
  BY <1>1, RestIsNotClean
<1>5. replies' \in Seq(Reply) /\ ReplyInv' /\ QuitIsObeyed'
  <2>1. CASE RestLast
    <3>1. ~Empty /\ Answered("rest") /\ at' = ChunkEnd
      BY <2>1 DEF RestLast
    <3>2. at' \in Nat /\ ChunkEnd <= at'
      BY <1>2, <1>3, <3>1
    <3> QED BY <1>1, <1>4, <3>1, <3>2, AnswerAppended
  <2>2. CASE RestSkip \/ RestNone
    <3>1. replies' = replies
      BY <2>2 DEF RestSkip, RestNone
    <3>2. ReplyInv'
      <4>1. ASSUME NEW k \in 1 .. Len(replies)
            PROVE  /\ replies[k].from < replies[k].lo /\ replies[k].lo <= replies[k].hi
                   /\ replies[k].hi <= at'
        <5>1. replies[k].hi \in Int /\ replies[k].hi <= at
          BY ChildTypes DEF AInv, ReplyInv, Reply
        <5>2. replies[k].hi <= at'
          BY <1>2, <1>3, <5>1
        <5> QED BY <5>2 DEF AInv, ReplyInv
      <4> QED BY <3>1, <4>1 DEF AInv, ReplyInv
    <3>3. QuitIsObeyed'
      BY <1>1, <3>1 DEF AInv, QuitIsObeyed
    <3> QED BY <3>1, <3>2, <3>3 DEF AInv, TypeOK
  <2> QED BY <2>1, <2>2
<1>6. TypeOK'
  <2>1. at' \in 0 .. got /\ base \in 0 .. at'
    BY <1>2, <1>3
  <2> QED BY <1>1, <1>5, <2>1 DEF AInv, TypeOK
<1>7. LongInv'
  <2>1. PICK p \in base + 1 .. at : sent[p] = "long"
    BY <1>4
  <2>2. p \in base + 1 .. at'
    BY <1>2, <1>3
  <2> QED BY <1>1, <2>1, <2>2 DEF AInv, LongInv
<1>8. CoverInv'
  BY <1>1, <1>4 DEF CoverInv, Clean
<1> QED BY <1>5, <1>6, <1>7, <1>8 DEF AInv

\* A write that fails ends the answers to this event.
LEMMA WriteFailAInv ==
    ASSUME AInv, WriteFail
    PROVE  AInv'
<1>1. /\ ~Empty /\ failed' = TRUE /\ at' = ChunkEnd /\ pc' = "loop"
      /\ UNCHANGED <<sent, closed, masterGone, ready, batch, got, base, length, longLine,
                     replies>>
  BY DEF WriteFail, CountFailure, client
<1>2. faults' \in 0 .. MaxFaults
  BY CTChildAssumption DEF WriteFail, CountFailure, WriteMayFail, AInv, TypeOK
<1>3. /\ at < got /\ ChunkEnd \in at + 1 .. got
      /\ at \in Nat /\ got \in Nat /\ base \in Nat /\ base <= at
  BY <1>1, ChunkInRead, ChildTypes DEF AInv
<1>4. TypeOK'
  BY <1>1, <1>2, <1>3 DEF AInv, TypeOK
<1>5. ReplyInv'
  BY <1>1, <1>3, ChildTypes DEF AInv, ReplyInv, Reply
<1>6. QuitIsObeyed' /\ LongInv' /\ CoverInv'
  BY <1>1 DEF AInv, QuitIsObeyed, LongInv, CoverInv
<1> QED BY <1>4, <1>5, <1>6 DEF AInv

\* AInv is inductive.
LEMMA NextAInv == AInv /\ [Next]_vars => AInv'
<1> SUFFICES ASSUME AInv, [Next]_vars
             PROVE  AInv'
  OBVIOUS
<1>1. CASE Outside
  BY <1>1, OutsideAInv
<1>2. CASE Child
  <2>1. CASE Start \/ EpollWait \/ BatchEnd \/ HandleParent \/ ReadEnd \/ Exit
    BY <2>1, LoopAInv
  <2>2. CASE HandleClient \/ ReadSome \/ ReadDone
    BY <2>2, HandleClientAInv, ReadAInv
  <2>3. CASE AnswerDone \/ AnswerQuit \/ AnswerLine \/ WriteFail
    BY <2>3, AnswerDoneAInv, AnswerQuitAInv, AnswerLineAInv, WriteFailAInv
  <2>4. CASE RestSkip \/ RestLast \/ RestNone
    BY <2>4, RestAInv
  <2> QED BY <1>2, <2>1, <2>2, <2>3, <2>4 DEF Child
<1>3. CASE StartFail \/ Timeout
  BY <1>3, LoopAInv
<1>4. CASE UNCHANGED vars
  <2>1. TypeOK' /\ LongInv'
    BY <1>4 DEF vars, AInv, TypeOK, LongInv
  <2> QED BY <1>4, <2>1, AnswerFrame DEF vars, AInv, CoverInv
<1> QED BY <1>1, <1>2, <1>3, <1>4 DEF Next

\* A child that has just been started has read and answered nothing.
LEMMA InitAInv == Init => AInv
<1> SUFFICES ASSUME Init PROVE AInv
  OBVIOUS
<1>1. /\ sent = <<>> /\ replies = <<>> /\ Len(sent) = 0 /\ Len(replies) = 0
      /\ sent \in Seq(Piece) /\ replies \in Seq(Reply)
  BY DEF Init
<1>2. TypeOK
  <2>1. /\ closed \in BOOLEAN /\ masterGone \in BOOLEAN
        /\ longLine \in BOOLEAN /\ failed \in BOOLEAN
    BY Zenon DEF Init
  <2>2. got \in 0 .. Len(sent) /\ at \in 0 .. got /\ base \in 0 .. at /\ length \in Nat
    BY <1>1 DEF Init
  <2>3. ready \subseteq Fd /\ batch \subseteq Fd /\ faults \in 0 .. MaxFaults
    BY CTChildAssumption DEF Init
  <2>4. pc \in {"start", "wait", "loop", "read", "answer", "rest", "exit", "gone"}
    BY DEF Init
  <2> QED BY <1>1, <2>1, <2>2, <2>3, <2>4 DEF TypeOK
<1>3. ReplyInv /\ LongInv /\ CoverInv /\ QuitIsObeyed
  BY <1>1 DEF Init, ReplyInv, LongInv, CoverInv, QuitIsObeyed
<1> QED BY <1>2, <1>3 DEF AInv

\* The invariant of ctchild's answers holds in every behaviour.
THEOREM AnswersInvariance == Spec => []AInv
BY InitAInv, NextAInv, PTL DEF Spec

\* Every variable keeps its type: the positions stay in order, whatever the
\* client sends and whichever write fails.
THEOREM ChildIsTyped == Spec => []TypeOK
<1>1. AInv => TypeOK
  BY DEF AInv
<1> QED BY <1>1, AnswersInvariance, PTL

\* Nothing is answered twice or out of order, across events and segments; and
\* when the child sleeps all of a clean input that it has read is answered.
THEOREM AnswersAreInOrder == Spec => []AnsweredInOrder
<1>1. AInv => AnsweredInOrder
  BY DEF AInv, ReplyInv, CoverInv, Clean, IsAnswered, AnsweredInOrder
<1> QED BY <1>1, AnswersInvariance, PTL

\* A line that is QUIT is answered as any other only behind a line that was
\* longer than the buffer, in the same event.
THEOREM QuitEndsTheSession == Spec => []QuitIsObeyed
<1>1. AInv => QuitIsObeyed
  BY DEF AInv
<1> QED BY <1>1, AnswersInvariance, PTL
=============================================================================
