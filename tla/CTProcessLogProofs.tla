------------------------- MODULE CTProcessLogProofs -------------------------
(***************************************************************************)
(* CTProcessLog: types, what a restart may rely on, and the table of        *)
(* children under its signal handler, for every log, number of days,        *)
(* restarts, slots and processes.                                          *)
(*                                                                         *)
(* A master that is started again knows only the offset of its day.  So     *)
(* the invariant speaks of the offset files of all days and not only of     *)
(* the one that is open: what lies in front of an offset is settled, and    *)
(* every child's session lies in front of the offset of its day.            *)
(***************************************************************************)
EXTENDS CTProcessLog, TLAPS

InHand == {"save", "pick", "fork", "used", "pid"}

\* The log has room, and a head that is not its last piece has its rest.
LogInv ==
    /\ Len(log) <= MaxPieces
    /\ \A p \in 1 .. Len(log) : \A q \in 1 .. Len(log) :
          (log[p] \in LineHead /\ q = p + 1) => log[q] = "rest"

\* The positions lie within the log; the session in hand is a head that was
\* passed.
PlaceInv ==
    /\ pos <= Len(log)
    /\ \A d \in Days : saved[d] <= Len(log)
    /\ IF pc \in InHand
       THEN session \in 1 .. pos /\ log[session] \in LineHead
       ELSE session = 0
    /\ pc = "save" => log[pos] # "start"

\* What lies in front of an offset that is saved is settled, except for the
\* session that is saved and not forked yet.
SettledInv ==
    \A d \in Days : \A p \in 1 .. saved[d] : log[p] \in LineHead =>
        \/ p \in missed
        \/ p = session /\ pc \in {"pick", "fork"}
        \/ \E e \in Days : <<p, e>> \in given

\* The sessions that were given away on a day lie in front of its offset; the
\* master is behind its offset, and a session it has not saved yet is, too.
OffsetInv ==
    /\ \A g \in given : g[1] <= saved[g[2]]
    /\ pc # "down" => saved[startDay] <= pos
    /\ pc = "save" => saved[startDay] < session
    /\ pc \in {"pick", "fork", "used", "pid"} => saved[startDay] = pos
    /\ pc \in {"pick", "fork"} => <<session, startDay>> \notin given
    /\ pc \in {"used", "pid"} => <<session, startDay>> \in given

\* An idle slot names no process, nor does the one that was chosen, until its
\* pid is stored; and no process outlives its master in the table.
TableInv ==
    /\ \A i \in Slots : childs_t[i].used = 0 => childs_t[i].pid = NoChild
    /\ (pc \in {"fork", "used", "pid"} /\ idx # -1) => childs_t[idx].pid = NoChild
    /\ (pc = "pid" /\ idx # -1) => childs_t[idx].used = 1
    /\ pc = "down" => \A c \in Childs : status[c] = "none"

LInv ==
    /\ TypeOK /\ LogInv /\ PlaceInv /\ SettledInv /\ NothingSkipped
    /\ NeverSavedInside /\ OffsetInv /\ TableInv

Pieces == LineHead \cup {"rest", "other"}

-----------------------------------------------------------------------------
(* Whoever writes the log *)

\* What is written goes behind the log and leaves what is there alone; the
\* rest of a line follows its head.
LEMMA LogGrows ==
    ASSUME TypeOK, LogInv, WriteLog
    PROVE  /\ log' \in Seq(Pieces)
           /\ Len(log') >= Len(log)
           /\ \A p \in 1 .. Len(log) : log'[p] = log[p]
           /\ LogInv'
<1> DEFINE n == Len(log)
<1>1. log \in Seq(Pieces) /\ n \in Nat
  BY DEF TypeOK, Pieces
<1>2. ASSUME NEW x \in Pieces, AppendToLog(<<x>>), HalfLine => x = "rest"
      PROVE  /\ log' \in Seq(Pieces)
             /\ Len(log') >= Len(log)
             /\ \A p \in 1 .. Len(log) : log'[p] = log[p]
             /\ LogInv'
  <2>1. /\ log' = log \o <<x>> /\ n + 1 <= MaxPieces
    BY <1>2 DEF AppendToLog
  <2>2. /\ log' \in Seq(Pieces) /\ Len(log') = n + 1
        /\ \A p \in 1 .. n : log'[p] = log[p]
        /\ log'[n + 1] = x
    BY <1>1, <2>1
  <2>3. ASSUME NEW p \in 1 .. n + 1, NEW q \in 1 .. n + 1, log'[p] \in LineHead, q = p + 1
        PROVE  log'[q] = "rest"
    <3>1. p \in 1 .. n /\ log[p] \in LineHead
      BY <2>2, <2>3, <1>1
    <3>2. CASE q = n + 1
      <4>1. HalfLine
        BY <1>1, <2>3, <3>1, <3>2 DEF HalfLine
      <4> QED BY <1>2, <2>2, <3>2, <4>1
    <3>3. CASE q # n + 1
      BY <1>1, <2>2, <2>3, <3>1, <3>3 DEF LogInv
    <3> QED BY <3>2, <3>3
  <2> QED BY <1>1, <2>1, <2>2, <2>3 DEF LogInv
<1>3. ASSUME AppendToLog(<<"start", "rest">>), ~HalfLine
      PROVE  /\ log' \in Seq(Pieces)
             /\ Len(log') >= Len(log)
             /\ \A p \in 1 .. Len(log) : log'[p] = log[p]
             /\ LogInv'
  <2>1. /\ log' = log \o <<"start", "rest">> /\ n + 2 <= MaxPieces
    BY <1>3 DEF AppendToLog
  <2>2. <<"start", "rest">> \in Seq(Pieces) /\ Len(<<"start", "rest">>) = 2
    BY DEF Pieces, LineHead
  <2>3. /\ log' \in Seq(Pieces) /\ Len(log') = n + 2
        /\ \A p \in 1 .. n : log'[p] = log[p]
        /\ log'[n + 1] = "start" /\ log'[n + 2] = "rest"
    BY <1>1, <2>1, <2>2
  <2>4. ASSUME NEW p \in 1 .. n + 2, NEW q \in 1 .. n + 2, log'[p] \in LineHead, q = p + 1
        PROVE  log'[q] = "rest"
    <3>1. CASE p \in 1 .. n /\ q \in 1 .. n
      BY <2>3, <2>4, <3>1 DEF LogInv
    <3>2. CASE p = n
      BY <1>1, <1>3, <2>3, <2>4, <3>2 DEF HalfLine
    <3>3. CASE p = n + 1
      BY <2>3, <2>4, <3>3
    <3> QED BY <1>1, <2>4, <3>1, <3>2, <3>3
  <2> QED BY <1>1, <2>1, <2>3, <2>4 DEF LogInv
<1>4. QED BY <1>2, <1>3 DEF WriteLog, Pieces, LineHead

\* The log that has grown keeps every part of the invariant.
LEMMA WriteLogLInv ==
    ASSUME LInv, WriteLog
    PROVE  LInv'
<1>1. /\ log' \in Seq(Pieces)
      /\ Len(log') >= Len(log)
      /\ \A p \in 1 .. Len(log) : log'[p] = log[p]
      /\ LogInv'
  BY LogGrows DEF LInv
<1>2. UNCHANGED <<day, saved, starts, pc, startDay, pos, eof, idx, session, forked,
                  childs_t, corrupt, status, sigchld, given, missed>>
      /\ quiet' = FALSE
  BY DEF WriteLog, AppendToLog, process, kids
<1>3. Len(log) \in Nat /\ Len(log') \in Nat /\ pos \in Nat /\ \A d \in Days : saved[d] \in Nat
  BY <1>1 DEF LInv, TypeOK, Offset
<1>4. TypeOK'
  BY <1>1, <1>2 DEF LInv, TypeOK, Pieces
<1>5. PlaceInv'
  BY <1>1, <1>2, <1>3 DEF LInv, PlaceInv, InHand
<1>6. SettledInv'
  BY <1>1, <1>2, <1>3 DEF LInv, SettledInv, PlaceInv
<1>7. NothingSkipped'
  <2>1. Passed' = Passed
    BY <1>1, <1>2, <1>3 DEF LInv, Passed, PlaceInv
  <2> QED BY <1>2, <2>1 DEF LInv, NothingSkipped
<1>8. NeverSavedInside'
  BY <1>1, <1>2, <1>3 DEF LInv, NeverSavedInside, PlaceInv
<1>9. OffsetInv' /\ TableInv'
  BY <1>2 DEF LInv, OffsetInv, TableInv
<1> QED BY <1>1, <1>4, <1>5, <1>6, <1>7, <1>8, <1>9 DEF LInv

-----------------------------------------------------------------------------
(* The steps of the master and of its children *)

\* Steps that leave the log, the offsets and what was given away alone.
LEMMA OffsetFrame ==
    ASSUME LInv,
           UNCHANGED <<log, saved, startDay, pos, session, given, missed>>,
           pc' = pc \/ <<pc, pc'>> \in {<<"pick", "fork">>, <<"used", "pid">>}
    PROVE  /\ LogInv' /\ PlaceInv' /\ SettledInv' /\ NothingSkipped'
           /\ NeverSavedInside' /\ OffsetInv'
<1>1. LogInv' /\ NeverSavedInside'
  BY DEF LInv, LogInv, NeverSavedInside
<1>2. PlaceInv'
  BY DEF LInv, PlaceInv, InHand
<1>3. SettledInv'
  BY DEF LInv, SettledInv
<1>4. NothingSkipped'
  BY DEF LInv, NothingSkipped, Passed
<1>5. OffsetInv'
  BY DEF LInv, OffsetInv
<1> QED BY <1>1, <1>2, <1>3, <1>4, <1>5

\* The clock, the end of writing, the end of a child.
LEMMA OutsideLInv ==
    ASSUME LInv, LogGoesQuiet \/ Midnight \/ \E c \in Childs : ChildExit(c)
    PROVE  LInv'
<1>1. CASE LogGoesQuiet
  <2>1. TypeOK' /\ TableInv'
    BY <1>1 DEF LogGoesQuiet, process, kids, LInv, TypeOK, TableInv
  <2> QED BY <1>1, <2>1, OffsetFrame DEF LogGoesQuiet, process, LInv
<1>2. CASE Midnight
  <2>1. day' \in Days
    BY <1>2, CTProcessLogAssumption DEF Midnight, LInv, TypeOK, Days
  <2>2. TypeOK' /\ TableInv'
    BY <1>2, <2>1 DEF Midnight, process, kids, LInv, TypeOK, TableInv
  <2> QED BY <1>2, <2>2, OffsetFrame DEF Midnight, process, LInv
<1>3. ASSUME NEW c \in Childs, ChildExit(c)
      PROVE  LInv'
  <2>1. pc # "down"
    BY <1>3 DEF ChildExit, LInv, TableInv
  <2>2. TypeOK' /\ TableInv'
    BY <1>3, <2>1 DEF ChildExit, env, process, LInv, TypeOK, TableInv
  <2> QED BY <1>3, <2>2, OffsetFrame DEF ChildExit, env, process, LInv
<1> QED BY <1>1, <1>2, <1>3

\* A master that starts goes on behind what its day's offset settles.
LEMMA StartLInv ==
    ASSUME LInv, Start
    PROVE  LInv'
<1>1. /\ pc = "down" /\ pc' = "read" /\ startDay' = day /\ pos' = saved[day]
      /\ session = 0 /\ day \in Days
      /\ UNCHANGED <<log, quiet, day, saved, idx, session, forked, status,
                     sigchld, given, missed>>
  BY DEF Start, ResumeAt, env, kids, LInv, TypeOK, PlaceInv, InHand
<1>2. TypeOK'
  <2>1. starts' \in 0 .. MaxStarts
    BY CTProcessLogAssumption DEF Start, LInv, TypeOK
  <2>2. childs_t' \in [Slots -> ChildRec] /\ eof' = FALSE /\ corrupt' = FALSE
    BY DEF Start, ChildRec, IdleRec
  <2>3. startDay' \in Days /\ pos' \in Offset
    BY <1>1 DEF LInv, TypeOK
  <2> QED BY <1>1, <2>1, <2>2, <2>3 DEF LInv, TypeOK
<1>3. LogInv' /\ NeverSavedInside'
  BY <1>1 DEF LInv, LogInv, NeverSavedInside
<1>4. PlaceInv'
  BY <1>1 DEF LInv, PlaceInv, InHand
<1>5. SettledInv'
  BY <1>1 DEF LInv, SettledInv
<1>6. NothingSkipped'
  BY <1>1 DEF LInv, SettledInv, NothingSkipped, Passed
<1>7. OffsetInv'
  BY <1>1 DEF LInv, TypeOK, OffsetInv, Offset
<1>8. TableInv'
  BY <1>1 DEF Start, LInv, TableInv, IdleRec
<1> QED BY <1>2, <1>3, <1>4, <1>5, <1>6, <1>7, <1>8 DEF LInv

\* A master that ends or is killed: what it had saved and not forked is
\* missed, and everything else in front of an offset stays settled.
LEMMA GoneLInv ==
    ASSUME LInv, Gone, pc # "down",
           missed' = IF pc \in {"pick", "fork"} THEN missed \cup {session} ELSE missed
    PROVE  LInv'
<1>1. /\ pc' = "down" /\ session' = 0 /\ idx' = -1 /\ forked' = NoChild
      /\ status' = [c \in Childs |-> "none"] /\ sigchld' = FALSE
      /\ UNCHANGED <<log, quiet, day, saved, starts, startDay, pos, eof,
                     childs_t, corrupt, given>>
  BY DEF Gone, env
<1>2. TypeOK'
  <2>1. missed' \subseteq Offset
    BY DEF LInv, TypeOK
  <2>2. 0 \in Offset
    BY CTProcessLogAssumption DEF Offset
  <2> QED BY <1>1, <2>1, <2>2 DEF LInv, TypeOK
<1>3. LogInv' /\ NeverSavedInside' /\ NothingSkipped'
  BY <1>1 DEF LInv, LogInv, NeverSavedInside, NothingSkipped
<1>4. PlaceInv'
  BY <1>1 DEF LInv, PlaceInv, InHand
<1>5. SettledInv'
  BY <1>1 DEF LInv, SettledInv
<1>6. OffsetInv'
  BY <1>1 DEF LInv, OffsetInv
<1>7. TableInv'
  BY <1>1 DEF LInv, TableInv
<1> QED BY <1>2, <1>3, <1>4, <1>5, <1>6, <1>7 DEF LInv

\* The end of the file is met.
LEMMA ReadNothingLInv ==
    ASSUME LInv, ReadNothing
    PROVE  LInv'
<1>1. CASE quiet /\ Gone /\ UNCHANGED missed
  BY <1>1, GoneLInv DEF ReadNothing
<1>2. CASE ~(quiet /\ Gone /\ UNCHANGED missed)
  <2>1. /\ UNCHANGED <<log, quiet, day, saved, starts, pc, startDay, pos, idx, session,
                       forked, childs_t, corrupt, status, sigchld, given, missed>>
        /\ eof' = TRUE
    BY <1>2 DEF ReadNothing, env, kids
  <2>2. TypeOK' /\ TableInv'
    BY <2>1 DEF LInv, TypeOK, TableInv
  <2> QED BY <2>1, <2>2, OffsetFrame DEF LInv
<1> QED BY <1>1, <1>2

\* What fgets returns: a whole line with its rest, a part of one, or a line
\* that starts no session.
LEMMA LineRead ==
    ASSUME LInv, ReadLine
    PROVE  LET p == pos + 1
           IN  /\ pc = "read" /\ session = 0 /\ p \in 1 .. Len(log)
               /\ pos' \in {p, p + 1} /\ pos' <= Len(log)
               /\ pos' = p + 1 => log[p + 1] = "rest"
               /\ IF pc' = "save"
                  THEN session' = p /\ log[p] \in LineHead /\ log[pos'] # "start"
                  ELSE pc' = "read" /\ session' = 0
               /\ log[p] \in LineHead => session' = p \/ p \in missed'
               /\ missed' \in {missed, missed \cup {p}}
               /\ UNCHANGED <<log, quiet, day, saved, starts, startDay, idx, forked,
                              childs_t, corrupt, status, sigchld, given>>
<1> DEFINE p == pos + 1
           whole == log[p] \in LineHead /\ p < Len(log)
           part == log[p] \in LineHead /\ p = Len(log)
           found == whole \/ (part /\ log[p] = "match")
<1>1. /\ pc = "read" /\ ~AtEnd
      /\ pos' = IF whole THEN p + 1 ELSE p
      /\ session' = IF found THEN p ELSE 0
      /\ pc' = IF found THEN "save" ELSE "read"
      /\ missed' = IF part /\ ~found THEN missed \cup {p} ELSE missed
      /\ UNCHANGED <<log, quiet, day, saved, starts, startDay, idx, forked,
                     childs_t, corrupt, status, sigchld, given>>
  BY DEF ReadLine, env, kids
<1>2. Len(log) \in Nat /\ pos \in Nat
  BY DEF LInv, TypeOK, Offset
<1>3. session = 0
  BY <1>1 DEF LInv, PlaceInv, InHand
<1>4. p \in 1 .. Len(log)
  BY <1>1, <1>2 DEF AtEnd
<1>5. pos' \in {p, p + 1} /\ pos' <= Len(log)
  BY <1>1, <1>2, <1>4
<1>6. whole => log[p + 1] = "rest"
  <2> SUFFICES ASSUME whole PROVE log[p + 1] = "rest"
    OBVIOUS
  <2>1. p + 1 \in 1 .. Len(log)
    BY <1>2, <1>4
  <2> QED BY <1>4, <2>1 DEF LInv, LogInv
<1>7. pos' = p + 1 => log[p + 1] = "rest"
  BY <1>1, <1>2, <1>6
<1>8. log[p] \in LineHead => whole \/ part
  BY <1>2, <1>4
<1>9. found => log[pos'] # "start"
  BY <1>1, <1>6
<1> QED BY <1>1, <1>3, <1>4, <1>5, <1>7, <1>8, <1>9

\* A line is read: a session that starts with it is in hand, or missed.
LEMMA ReadLineLInv ==
    ASSUME LInv, ReadLine
    PROVE  LInv'
<1> DEFINE p == pos + 1
<1>1. /\ pc = "read" /\ session = 0 /\ p \in 1 .. Len(log)
      /\ pos' \in {p, p + 1} /\ pos' <= Len(log)
      /\ pos' = p + 1 => log[p + 1] = "rest"
      /\ IF pc' = "save"
         THEN session' = p /\ log[p] \in LineHead /\ log[pos'] # "start"
         ELSE pc' = "read" /\ session' = 0
      /\ log[p] \in LineHead => session' = p \/ p \in missed'
      /\ missed' \in {missed, missed \cup {p}}
      /\ UNCHANGED <<log, quiet, day, saved, starts, startDay, idx, forked,
                     childs_t, corrupt, status, sigchld, given>>
  BY LineRead
<1>2. /\ Len(log) \in Nat /\ pos \in Nat /\ Len(log) <= MaxPieces /\ MaxPieces \in Nat
      /\ startDay \in Days /\ saved[startDay] \in Nat
  BY CTProcessLogAssumption DEF LInv, TypeOK, LogInv, Offset
<1>3. TypeOK'
  <2>1. eof' \in BOOLEAN
    BY DEF ReadLine, LInv, TypeOK
  <2>2. pos' \in Offset /\ p \in Offset /\ 0 \in Offset
    BY <1>1, <1>2 DEF Offset
  <2>3. session' \in Offset /\ missed' \subseteq Offset
    BY <1>1, <2>2 DEF LInv, TypeOK
  <2> QED BY <1>1, <2>1, <2>2, <2>3 DEF LInv, TypeOK
<1>4. LogInv' /\ NeverSavedInside'
  BY <1>1 DEF LInv, LogInv, NeverSavedInside
<1>5. PlaceInv'
  BY <1>1, <1>2 DEF LInv, PlaceInv, InHand
<1>6. SettledInv'
  BY <1>1 DEF LInv, SettledInv
<1>7. NothingSkipped'
  <2>1. ASSUME NEW q \in Passed'
        PROVE  \/ q \in missed'
               \/ q = session'
               \/ \E d \in Days : <<q, d>> \in given'
    <3>1. q \in 1 .. pos' /\ log[q] \in LineHead
      BY <1>1, <2>1 DEF Passed
    <3>2. CASE q <= pos
      <4>1. q \in Passed /\ q # session
        BY <1>1, <1>2, <3>1, <3>2 DEF Passed
      <4> QED BY <1>1, <4>1 DEF LInv, NothingSkipped
    <3>3. CASE q = p
      BY <1>1, <3>1, <3>3
    <3>4. CASE q = p + 1
      <4>1. pos' = p + 1
        BY <1>1, <1>2, <3>1, <3>4
      <4> QED BY <1>1, <3>1, <3>4, <4>1 DEF LineHead
    <3>5. q <= pos \/ q = p \/ q = p + 1
      BY <1>1, <1>2, <3>1
    <3> QED BY <3>2, <3>3, <3>4, <3>5
  <2> QED BY <2>1 DEF NothingSkipped
<1>8. OffsetInv'
  BY <1>1, <1>2 DEF LInv, OffsetInv
<1>9. TableInv'
  BY <1>1 DEF LInv, TableInv
<1> QED BY <1>3, <1>4, <1>5, <1>6, <1>7, <1>8, <1>9 DEF LInv

\* The offset behind the session in hand is saved: it only moves forward, and
\* all in front of it is settled but for that session.
LEMMA SaveOffsetLInv ==
    ASSUME LInv, SaveOffset
    PROVE  LInv'
<1>1. /\ pc = "save" /\ pc' = "pick"
      /\ saved' = [saved EXCEPT ![startDay] = pos]
      /\ UNCHANGED <<log, quiet, day, starts, startDay, pos, eof, idx, session, forked,
                     childs_t, corrupt, status, sigchld, given, missed>>
  BY DEF SaveOffset, OffsetToSave, env, process, kids
<1>2. /\ startDay \in Days /\ saved \in [Days -> Offset] /\ pos \in Nat /\ session \in Nat
      /\ Len(log) \in Nat /\ \A d \in Days : saved[d] \in Nat
      /\ given \subseteq Offset \X Days
  BY DEF LInv, TypeOK, Offset
<1>3. /\ saved'[startDay] = pos
      /\ \A d \in Days : d # startDay => saved'[d] = saved[d]
  BY <1>1, <1>2
<1>4. saved[startDay] < session /\ session <= pos
  BY <1>1 DEF LInv, OffsetInv, PlaceInv, InHand
<1>5. TypeOK'
  BY <1>1 DEF LInv, TypeOK
<1>6. LogInv'
  BY <1>1 DEF LInv, LogInv
<1>7. NeverSavedInside'
  <2>1. log[pos] # "start"
    BY <1>1 DEF LInv, PlaceInv
  <2> QED BY <1>1, <1>3, <2>1 DEF LInv, NeverSavedInside
<1>8. PlaceInv'
  BY <1>1, <1>3 DEF LInv, PlaceInv, InHand
<1>9. NothingSkipped'
  BY <1>1 DEF LInv, NothingSkipped, Passed
<1>10. SettledInv'
  <2> SUFFICES ASSUME NEW d \in Days, NEW p \in 1 .. saved'[d], log[p] \in LineHead
               PROVE  \/ p \in missed
                      \/ p = session
                      \/ \E e \in Days : <<p, e>> \in given
    BY <1>1 DEF SettledInv
  <2>1. CASE d = startDay
    <3>1. p \in Passed
      BY <1>2, <1>3, <2>1 DEF Passed, LInv, PlaceInv
    <3> QED BY <1>1, <3>1 DEF LInv, NothingSkipped
  <2>2. CASE d # startDay
    BY <1>1, <1>3, <2>2 DEF LInv, SettledInv
  <2> QED BY <2>1, <2>2
<1>11. OffsetInv'
  <2>1. ASSUME NEW g \in given
        PROVE  g[1] <= saved'[g[2]] /\ g # <<session, startDay>>
    <3>1. g[1] <= saved[g[2]] /\ g[1] \in Nat /\ g[2] \in Days
      BY <1>2 DEF LInv, OffsetInv, Offset
    <3>2. CASE g[2] = startDay
      BY <1>2, <1>3, <1>4, <3>1, <3>2
    <3>3. CASE g[2] # startDay
      BY <1>3, <3>1, <3>3
    <3> QED BY <3>2, <3>3
  <2>2. <<session, startDay>> \notin given
    BY <2>1
  <2> QED BY <1>1, <1>2, <1>3, <2>1, <2>2 DEF OffsetInv
<1>12. TableInv'
  BY <1>1 DEF LInv, TableInv
<1> QED BY <1>5, <1>6, <1>7, <1>8, <1>9, <1>10, <1>11, <1>12 DEF LInv

\* An idle slot is chosen, or none: index -1.
LEMMA PickSlotLInv ==
    ASSUME LInv, PickSlot
    PROVE  LInv'
<1>1. /\ pc = "pick" /\ pc' = "fork"
      /\ UNCHANGED <<log, quiet, day, saved, starts, startDay, pos, eof, session, forked,
                     childs_t, corrupt, status, sigchld, given, missed>>
  BY DEF PickSlot, env, kids
<1>2. idx' = -1 \/ (idx' \in Slots /\ childs_t[idx'].used = 0)
  BY DEF PickSlot, Idle
<1>3. TypeOK'
  BY <1>1, <1>2 DEF LInv, TypeOK
<1>4. TableInv'
  BY <1>1, <1>2 DEF LInv, TableInv
<1> QED BY <1>1, <1>3, <1>4, OffsetFrame DEF LInv

\* The session in hand is given to a child.
LEMMA ForkLInv ==
    ASSUME LInv, NEW c \in Childs, Fork(c)
    PROVE  LInv'
<1>1. /\ pc = "fork" /\ pc' = "used" /\ forked' = c
      /\ given' = given \cup {<<session, startDay>>}
      /\ status' = [status EXCEPT ![c] = "running"]
      /\ UNCHANGED <<log, quiet, day, saved, starts, startDay, pos, eof, idx, session,
                     childs_t, corrupt, sigchld, missed>>
  BY DEF Fork, env
<1>2. /\ session \in 1 .. pos /\ saved[startDay] = pos
      /\ session \in Offset /\ startDay \in Days
  BY <1>1 DEF LInv, PlaceInv, OffsetInv, InHand, TypeOK
<1>3. TypeOK'
  BY <1>1, <1>2 DEF LInv, TypeOK
<1>4. LogInv' /\ NeverSavedInside'
  BY <1>1 DEF LInv, LogInv, NeverSavedInside
<1>5. PlaceInv'
  BY <1>1 DEF LInv, PlaceInv, InHand
<1>6. SettledInv' /\ NothingSkipped'
  BY <1>1, <1>2 DEF LInv, SettledInv, NothingSkipped, Passed
<1>7. OffsetInv'
  <2>1. \A g \in given' : g[1] <= saved[g[2]]
    BY <1>1, <1>2 DEF LInv, OffsetInv, TypeOK
  <2> QED BY <1>1, <1>2, <2>1 DEF LInv, OffsetInv
<1>8. TableInv'
  BY <1>1 DEF LInv, TableInv
<1> QED BY <1>3, <1>4, <1>5, <1>6, <1>7, <1>8 DEF LInv

\* The slot is marked as used, or the word in front of the table.
LEMMA StoreUsedLInv ==
    ASSUME LInv, StoreUsed
    PROVE  LInv'
<1>1. /\ pc = "used" /\ pc' = "pid"
      /\ UNCHANGED <<log, quiet, day, saved, starts, startDay, pos, eof, idx, session,
                     forked, status, sigchld, given, missed>>
  BY DEF StoreUsed, env, kids
<1>2. idx \in Slots \cup {-1} /\ childs_t \in [Slots -> ChildRec]
  BY DEF LInv, TypeOK
<1>3. CASE idx = -1
  <2>1. childs_t' = childs_t /\ corrupt' = TRUE
    BY <1>3 DEF StoreUsed
  <2>2. TypeOK' /\ TableInv'
    BY <1>1, <1>3, <2>1 DEF LInv, TypeOK, TableInv
  <2> QED BY <1>1, <2>2, OffsetFrame DEF LInv
<1>4. CASE idx # -1
  <2>1. childs_t' = [childs_t EXCEPT ![idx].used = 1] /\ corrupt' = corrupt /\ idx \in Slots
    BY <1>2, <1>4 DEF StoreUsed
  <2>2. /\ childs_t' \in [Slots -> ChildRec]
        /\ childs_t'[idx].used = 1
        /\ \A i \in Slots : childs_t'[i].pid = childs_t[i].pid
        /\ \A i \in Slots \ {idx} : childs_t'[i] = childs_t[i]
    BY <1>2, <2>1 DEF ChildRec
  <2>3. TypeOK'
    BY <1>1, <2>1, <2>2 DEF LInv, TypeOK
  <2>4. TableInv'
    BY <1>1, <2>1, <2>2 DEF LInv, TableInv
  <2> QED BY <1>1, <2>3, <2>4, OffsetFrame DEF LInv
<1> QED BY <1>3, <1>4

\* The pid is stored, and the session is in hand no more.
LEMMA StorePidLInv ==
    ASSUME LInv, StorePid
    PROVE  LInv'
<1>1. /\ pc = "pid" /\ pc' = "read" /\ idx' = -1 /\ session' = 0 /\ forked' = NoChild
      /\ childs_t' = IF idx = -1 THEN childs_t ELSE [childs_t EXCEPT ![idx].pid = forked]
      /\ UNCHANGED <<log, quiet, day, saved, starts, startDay, pos, eof,
                     corrupt, status, sigchld, given, missed>>
  BY DEF StorePid, env, kids
<1>2. /\ idx \in Slots \cup {-1} /\ childs_t \in [Slots -> ChildRec]
      /\ forked \in Childs \cup {NoChild} /\ startDay \in Days
  BY DEF LInv, TypeOK
<1>3. <<session, startDay>> \in given
  BY <1>1 DEF LInv, OffsetInv
<1>4. /\ childs_t' \in [Slots -> ChildRec]
      /\ \A i \in Slots : childs_t'[i].used = childs_t[i].used
      /\ \A i \in Slots \ {idx} : childs_t'[i] = childs_t[i]
  BY <1>1, <1>2 DEF ChildRec
<1>5. TypeOK'
  <2>1. 0 \in Offset
    BY CTProcessLogAssumption DEF Offset
  <2> QED BY <1>1, <1>4, <2>1 DEF LInv, TypeOK
<1>6. LogInv' /\ NeverSavedInside'
  BY <1>1 DEF LInv, LogInv, NeverSavedInside
<1>7. PlaceInv'
  BY <1>1 DEF LInv, PlaceInv, InHand
<1>8. SettledInv'
  BY <1>1 DEF LInv, SettledInv
<1>9. NothingSkipped'
  BY <1>1, <1>2, <1>3 DEF LInv, NothingSkipped, Passed
<1>10. OffsetInv'
  BY <1>1, <1>2 DEF LInv, OffsetInv, TypeOK, Offset
<1>11. TableInv'
  <2>1. ASSUME NEW i \in Slots, childs_t'[i].used = 0
        PROVE  childs_t'[i].pid = NoChild
    <3>1. childs_t[i].used = 0 /\ i # idx
      BY <1>1, <1>4, <2>1 DEF LInv, TableInv, Slots
    <3> QED BY <1>4, <3>1 DEF LInv, TableInv
  <2> QED BY <1>1, <2>1 DEF TableInv
<1> QED BY <1>5, <1>6, <1>7, <1>8, <1>9, <1>10, <1>11 DEF LInv

\* The handler idles whole slots, and none that is chosen.
LEMMA SigchldExitLInv ==
    ASSUME LInv, SigchldExit
    PROVE  LInv'
<1> DEFINE Z == {c \in Childs : status[c] = "zombie"}
<1>1. /\ pc # "down" /\ sigchld' = FALSE
      /\ status' = [c \in Childs |-> IF c \in Z THEN "none" ELSE status[c]]
      /\ childs_t' = [i \in Slots |-> IF Cleaned(i, Z) THEN IdleRec ELSE childs_t[i]]
      /\ UNCHANGED <<log, quiet, day, saved, starts, pc, startDay, pos, eof, idx, session,
                     forked, corrupt, given, missed>>
  BY DEF SigchldExit, env
<1>2. /\ childs_t \in [Slots -> ChildRec] /\ idx \in Slots \cup {-1}
      /\ status \in [Childs -> {"none", "running", "zombie"}]
      /\ NoChild \notin Z /\ IdleRec \in ChildRec
  BY CTProcessLogAssumption DEF LInv, TypeOK, ChildRec, IdleRec
<1>3. \A i \in Slots : childs_t'[i] = IdleRec \/ childs_t'[i] = childs_t[i]
  BY <1>1
<1>4. \A i \in Slots : childs_t[i].pid = NoChild => childs_t'[i] = childs_t[i]
  BY <1>1, <1>2 DEF Cleaned
<1>5. TypeOK'
  <2>1. childs_t' \in [Slots -> ChildRec]
    BY <1>1, <1>2
  <2>2. status' \in [Childs -> {"none", "running", "zombie"}]
    BY <1>1, <1>2
  <2> QED BY <1>1, <2>1, <2>2 DEF LInv, TypeOK
<1>6. TableInv'
  BY <1>1, <1>2, <1>3, <1>4 DEF LInv, TableInv, IdleRec
<1> QED BY <1>1, <1>5, <1>6, OffsetFrame DEF LInv

-----------------------------------------------------------------------------
(* The theorems *)

\* The program starts with an empty log, no offsets and no children.
LEMMA InitLInv == Init => LInv
<1> SUFFICES ASSUME Init PROVE LInv
  OBVIOUS
<1>1. log = <<>> /\ Len(log) = 0 /\ log \in Seq(LineHead \cup {"rest", "other"})
  BY DEF Init
<1>2. 0 \in Days /\ 0 \in Offset /\ 0 \in 0 .. MaxStarts
  BY CTProcessLogAssumption DEF Days, Offset
<1>3. TypeOK
  BY <1>1, <1>2 DEF Init, TypeOK, ChildRec, IdleRec
<1>4. LogInv /\ PlaceInv /\ SettledInv /\ NothingSkipped /\ NeverSavedInside
  BY <1>1, CTProcessLogAssumption
  DEF Init, LogInv, PlaceInv, InHand, SettledInv, NothingSkipped, NeverSavedInside
<1>5. OffsetInv /\ TableInv
  BY DEF Init, OffsetInv, TableInv, IdleRec
<1> QED BY <1>3, <1>4, <1>5 DEF LInv

\* LInv is inductive: one case per action.
LEMMA NextLInv == LInv /\ [Next]_vars => LInv'
<1> SUFFICES ASSUME LInv, [Next]_vars
             PROVE  LInv'
  OBVIOUS
<1>1. CASE WriteLog
  BY <1>1, WriteLogLInv
<1>2. CASE LogGoesQuiet \/ Midnight \/ \E c \in Childs : ChildExit(c)
  BY <1>2, OutsideLInv
<1>3. CASE Start
  BY <1>3, StartLInv
<1>4. CASE Crash
  BY <1>4, GoneLInv DEF Crash
<1>5. CASE Master
  <2>1. CASE ReadNothing
    BY <2>1, ReadNothingLInv
  <2>2. CASE ReadLine
    BY <2>2, ReadLineLInv
  <2>3. CASE SaveOffset
    BY <2>3, SaveOffsetLInv
  <2>4. CASE PickSlot
    BY <2>4, PickSlotLInv
  <2>5. CASE \E c \in Childs : Fork(c)
    BY <2>5, ForkLInv
  <2>6. CASE StoreUsed
    BY <2>6, StoreUsedLInv
  <2>7. CASE StorePid
    BY <2>7, StorePidLInv
  <2> QED BY <1>5, <2>1, <2>2, <2>3, <2>4, <2>5, <2>6, <2>7 DEF Master
<1>6. CASE SigchldExit
  BY <1>6, SigchldExitLInv
<1>7. CASE UNCHANGED vars
  <2>1. TypeOK' /\ TableInv'
    BY <1>7 DEF vars, LInv, TypeOK, TableInv
  <2> QED BY <1>7, <2>1, OffsetFrame DEF vars, LInv
<1> QED BY <1>1, <1>2, <1>3, <1>4, <1>5, <1>6, <1>7 DEF Next

\* The invariant of ctprocesslog holds in every behaviour.
THEOREM LogInvariance == Spec => []LInv
BY InitLInv, NextLInv, PTL DEF Spec

\* Every variable keeps its type.
THEOREM LogTypes == Spec => []TypeOK
<1>1. LInv => TypeOK
  BY DEF LInv
<1> QED BY <1>1, LogInvariance, PTL

\* However the log grows, the master is killed and started again, and days
\* pass: a session start the master has passed was given to a child, is in
\* hand, or is one of the two known losses.
THEOREM NothingIsSkipped == Spec => []NothingSkipped
<1>1. LInv => NothingSkipped
  BY DEF LInv
<1> QED BY <1>1, LogInvariance, PTL

\* No offset file ever points into the strings that identify a session.
THEOREM OffsetsAreBehindLines == Spec => []NeverSavedInside
<1>1. LInv => NeverSavedInside
  BY DEF LInv
<1> QED BY <1>1, LogInvariance, PTL

\* Because the offset is saved before fork, no session is given to a second
\* child under the offset of the same day, wherever the master is killed.
THEOREM NoSessionTwiceADay == Spec => OneChildPerSessionAndDay
<1>1. LInv /\ [Next]_vars =>
        [(pc = "fork" /\ pc' = "used") => <<session, startDay>> \notin given]_vars
  BY DEF LInv, OffsetInv
<1> QED BY <1>1, LogInvariance, PTL DEF Spec, OneChildPerSessionAndDay

\* A running child that a slot names is named by it in the next state, or is
\* the one the master has just forked.
LEMMA SlotIsKept ==
    ASSUME LInv, [Next]_vars,
           NEW c \in Childs, status[c] = "running", status'[c] = "running",
           pc' # "down",
           NEW i \in Slots, childs_t[i].pid = c
    PROVE  childs_t'[i].pid = c
<1>1. c # NoChild /\ pc # "down"
  BY CTProcessLogAssumption DEF LInv, TableInv
<1>2. CASE StoreUsed
  BY <1>2 DEF StoreUsed, LInv, TypeOK, ChildRec
<1>3. CASE StorePid
  <2>1. i # idx
    BY <1>1, <1>3 DEF StorePid, LInv, TableInv, Slots
  <2> QED BY <1>3, <2>1 DEF StorePid, LInv, TypeOK
<1>4. CASE SigchldExit
  <2> DEFINE Z == {d \in Childs : status[d] = "zombie"}
  <2>1. ~Cleaned(i, Z)
    BY DEF Cleaned
  <2> QED BY <1>4, <2>1 DEF SigchldExit
<1>5. CASE ~StoreUsed /\ ~StorePid /\ ~SigchldExit
  BY <1>1, <1>5
  DEF Next, Master, WriteLog, AppendToLog, LogGoesQuiet, Midnight, ChildExit, Start,
      Crash, Gone, ReadNothing, ReadLine, SaveOffset, PickSlot, Fork, process, vars
<1> QED BY <1>2, <1>3, <1>4, <1>5

\* The handler and the master, whose steps interleave, never take the slot of
\* a running child away.
THEOREM SlotsAreKept == Spec => LiveChildKeepsSlot
<1>1. LInv /\ [Next]_vars =>
        [\A c \in Childs :
           (status[c] = "running" /\ status'[c] = "running" /\ pc' # "down"
              /\ c # forked /\ c \notin Unslotted) => c \notin Unslotted']_vars
  <2> SUFFICES ASSUME LInv, [Next]_vars, NEW c \in Childs,
                      status[c] = "running", status'[c] = "running", pc' # "down",
                      c # forked, c \notin Unslotted
               PROVE  c \notin Unslotted'
    OBVIOUS
  <2>1. PICK i \in Slots : childs_t[i].pid = c
    BY DEF Unslotted
  <2>2. childs_t'[i].pid = c
    BY <2>1, SlotIsKept
  <2> QED BY <2>2 DEF Unslotted, Slots
<1> QED BY <1>1, LogInvariance, PTL DEF Spec, LiveChildKeepsSlot
=============================================================================
