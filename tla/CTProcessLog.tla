---------------------------- MODULE CTProcessLog ----------------------------
(***************************************************************************)
(* ctprocesslog (ctprocesslog/ctmaster.c): a master process reads a log    *)
(* that is being written, and forks a child for every line that starts a   *)
(* session, passing it the offset behind that line.  The offset is saved   *)
(* in a mapped file whose name holds the day the master was started.       *)
(* SIGCHLD may interrupt the master between any two of its steps.          *)
(*                                                                         *)
(* The log is a sequence of pieces.  A line that starts a session has a    *)
(* head and a "rest" with the newline: whoever writes the log may be half  *)
(* way through it when the master reads.  The head is cut within the       *)
(* strings that identify the line ("start") or behind them ("match").  A   *)
(* session is named by the place of its head.                              *)
(***************************************************************************)
EXTENDS Integers, Sequences, FiniteSets

CONSTANTS
    MaxChilds,    \* config_t.max_childs
    Childs,       \* process numbers; the system may give one out again
    NoChild,      \* pid -1
    LastDay,      \* bound on the days that pass
    MaxPieces,    \* bound on the length of the log
    MaxStarts,    \* bound on how often the master is started
    StickyEof     \* the C library: a stream that met the end stays there

ASSUME CTProcessLogAssumption ==
    /\ MaxChilds \in Nat
    /\ NoChild \notin Childs
    /\ LastDay \in Nat /\ MaxPieces \in Nat /\ MaxStarts \in Nat
    /\ StickyEof \in BOOLEAN

VARIABLES
    log,        \* the file being analysed
    quiet,      \* it was not modified for exit_time seconds
    day,        \* today
    saved,      \* the offset files, one per day; 0 when there is none
    starts,     \* how often the master was started
    pc,         \* where the master is; "down" when it does not run
    startDay,   \* the day in the name of the offset file it has open
    pos,        \* what its stream has read
    eof,        \* its stream has met the end of the file
    idx,        \* local i of process_via_child
    session,    \* the session start it has just read, 0 when none
    forked,     \* local pid of process_via_child
    childs_t,   \* the table of children
    corrupt,    \* childs_t[-1] was written
    status,     \* the life of each process
    sigchld,    \* SIGCHLD is pending
    given,      \* history: <<session, day of the offset file>> of each child
    missed      \* history: sessions whose strings were read in two parts, or
                \* were saved by a master that died before it forked

env == <<log, quiet, day>>
process == <<startDay, pos, eof, idx, session, forked, childs_t, corrupt>>
kids == <<status, sigchld>>
vars == <<log, quiet, day, saved, starts, pc, startDay, pos, eof, idx, session,
          forked, childs_t, corrupt, status, sigchld, given, missed>>

LineHead == {"start", "match"}

Slots == 0 .. MaxChilds
Days == 0 .. LastDay
Offset == 0 .. MaxPieces
ChildRec == [used : {0, 1}, pid : Childs \cup {NoChild}]

\* Variant: memset to zero instead of -1.
ZeroedRec == [used |-> 0, pid |-> 0]

IdleRec == [used |-> 0, pid |-> NoChild]

TypeOK ==
    /\ log \in Seq(LineHead \cup {"rest", "other"})
    /\ quiet \in BOOLEAN /\ day \in Days
    /\ saved \in [Days -> Offset]
    /\ starts \in 0 .. MaxStarts
    /\ pc \in {"down", "read", "save", "pick", "fork", "used", "pid"}
    /\ startDay \in Days /\ pos \in Offset /\ eof \in BOOLEAN
    /\ idx \in Slots \cup {-1} /\ session \in Offset
    /\ forked \in Childs \cup {NoChild}
    /\ childs_t \in [Slots -> ChildRec] /\ corrupt \in BOOLEAN
    /\ status \in [Childs -> {"none", "running", "zombie"}]
    /\ sigchld \in BOOLEAN
    /\ given \subseteq Offset \X Days /\ missed \subseteq Offset

Init ==
    /\ log = <<>> /\ quiet = FALSE /\ day = 0
    /\ saved = [d \in Days |-> 0]
    /\ starts = 0 /\ pc = "down" /\ startDay = 0 /\ pos = 0 /\ eof = FALSE
    /\ idx = -1 /\ session = 0 /\ forked = NoChild
    /\ childs_t = [i \in Slots |-> IdleRec] /\ corrupt = FALSE
    /\ status = [c \in Childs |-> "none"] /\ sigchld = FALSE
    /\ given = {} /\ missed = {}

-----------------------------------------------------------------------------
(* The outside: whoever writes the log, the clock, the children *)

AppendToLog(pieces) ==
    /\ Len(log) + Len(pieces) <= MaxPieces
    /\ log' = log \o pieces
    /\ quiet' = FALSE
    /\ UNCHANGED <<day, saved, starts, pc, process, kids, given, missed>>

HalfLine == log # <<>> /\ log[Len(log)] \in LineHead

\* A line that starts a session is written at once or in two parts.
WriteLog ==
    \/ HalfLine /\ AppendToLog(<<"rest">>)
    \/ ~HalfLine /\ Len(log) + 2 <= MaxPieces
         /\ \/ AppendToLog(<<"start", "rest">>)
            \/ \E h \in LineHead : AppendToLog(<<h>>)
    \/ ~HalfLine /\ AppendToLog(<<"other">>)

LogGoesQuiet ==
    /\ ~quiet
    /\ quiet' = TRUE
    /\ UNCHANGED <<log, day, saved, starts, pc, process, kids, given, missed>>

Midnight ==
    /\ day < LastDay
    /\ day' = day + 1
    /\ UNCHANGED <<log, quiet, saved, starts, pc, process, kids, given, missed>>

\* A child exits at once: what it does is left to the user of the program.
ChildExit(c) ==
    /\ status[c] = "running"
    /\ status' = [status EXCEPT ![c] = "zombie"]
    /\ sigchld' = TRUE
    /\ UNCHANGED <<env, saved, starts, pc, process, given, missed>>

-----------------------------------------------------------------------------
(* The master is started, ends, is killed *)

\* Variant: only what is written from now on is of interest.
ResumeAtEnd == Len(log)

ResumeAt == saved[day]

\* main, up to the loop: the offset file of today, if it holds something,
\* says where to go on.
Start ==
    /\ pc = "down" /\ starts < MaxStarts
    /\ starts' = starts + 1
    /\ startDay' = day
    /\ pos' = ResumeAt
    /\ eof' = FALSE
    /\ childs_t' = [i \in Slots |-> IdleRec]
    /\ corrupt' = FALSE
    /\ pc' = "read"
    /\ UNCHANGED <<env, saved, idx, session, forked, kids, given, missed>>

\* The process is gone.  Its children are inherited by init, which reaps them.
Gone ==
    /\ pc' = "down"
    /\ idx' = -1 /\ session' = 0 /\ forked' = NoChild
    /\ status' = [c \in Childs |-> "none"]
    /\ sigchld' = FALSE
    /\ UNCHANGED <<env, saved, starts, startDay, pos, eof, childs_t, corrupt,
                   given>>

\* Killed at any point; a session that is saved and not forked is missed.
Crash ==
    /\ pc # "down"
    /\ missed' = IF pc \in {"pick", "fork"} THEN missed \cup {session} ELSE missed
    /\ Gone

-----------------------------------------------------------------------------
(* The loop of main *)

\* Variant: the end of the file is sticky whatever the C library does.
AtEndForEver == pos >= Len(log) \/ eof

\* fgets has nothing to return.
AtEnd == pos >= Len(log) \/ (StickyEof /\ eof)

\* The end of the file: the master ends when the file is old, else it sleeps
\* and tries again.
ReadNothing ==
    /\ pc = "read" /\ AtEnd
    /\ \/ quiet /\ Gone /\ UNCHANGED missed
       \/ /\ ~quiet /\ ~eof
          /\ eof' = TRUE
          /\ UNCHANGED <<env, saved, starts, pc, startDay, pos, idx, session,
                         forked, childs_t, corrupt, kids, given, missed>>

\* fgets returns a line, or the part of it that is there.  It starts a session
\* when it holds the three strings: a whole line, or a head behind them.
ReadLine ==
    /\ pc = "read" /\ ~AtEnd
    /\ LET p == pos + 1
           whole == log[p] \in LineHead /\ p < Len(log)
           part == log[p] \in LineHead /\ p = Len(log)
           found == whole \/ (part /\ log[p] = "match")
       IN  /\ pos' = IF whole THEN p + 1 ELSE p
           /\ eof' = (part \/ eof)
           /\ session' = IF found THEN p ELSE 0
           /\ pc' = IF found THEN "save" ELSE "read"
           /\ missed' = IF part /\ ~found THEN missed \cup {p} ELSE missed
    /\ UNCHANGED <<env, saved, starts, startDay, idx, forked, childs_t, corrupt,
                   kids, given>>

\* Variants: ftell before fgets; the place of the strings in the line.
OffsetBefore == session - 1
OffsetInside == session

\* ftell after fgets.
OffsetToSave == pos

\* The offset behind the line is written into the mapped file.
SaveOffset ==
    /\ pc = "save"
    /\ saved' = [saved EXCEPT ![startDay] = OffsetToSave]
    /\ pc' = "pick"
    /\ UNCHANGED <<env, starts, process, kids, given, missed>>

Idle(i) == childs_t[i].used = 0

\* get_idle_idx_from_childs_t; when it finds none the master sleeps once, and
\* the loop around it ends all the same, with i = -1.
PickSlot ==
    /\ pc = "pick"
    /\ \/ \E i \in Slots :
            Idle(i) /\ (\A j \in Slots : j < i => ~Idle(j)) /\ idx' = i
       \/ (\A i \in Slots : ~Idle(i)) /\ idx' = -1
    /\ pc' = "fork"
    /\ UNCHANGED <<env, saved, starts, startDay, pos, eof, session, forked,
                   childs_t, corrupt, kids, given, missed>>

\* fork, retried until it succeeds.
Fork(c) ==
    /\ pc = "fork" /\ status[c] = "none"
    /\ status' = [status EXCEPT ![c] = "running"]
    /\ forked' = c
    /\ given' = given \cup {<<session, startDay>>}
    /\ pc' = "used"
    /\ UNCHANGED <<env, saved, starts, startDay, pos, eof, idx, session,
                   childs_t, corrupt, sigchld, missed>>

\* childs_t[i].used = 1.  Index -1 writes the word in front of the table.
StoreUsed ==
    /\ pc = "used"
    /\ IF idx = -1 THEN corrupt' = TRUE /\ UNCHANGED childs_t
       ELSE /\ childs_t' = [childs_t EXCEPT ![idx].used = 1]
            /\ UNCHANGED corrupt
    /\ pc' = "pid"
    /\ UNCHANGED <<env, saved, starts, startDay, pos, eof, idx, session, forked,
                   kids, given, missed>>

\* childs_t[i].pid = pid, and back to the loop.
StorePid ==
    /\ pc = "pid"
    /\ childs_t' = IF idx = -1 THEN childs_t
                   ELSE [childs_t EXCEPT ![idx].pid = forked]
    /\ idx' = -1 /\ session' = 0 /\ forked' = NoChild
    /\ pc' = "read"
    /\ UNCHANGED <<env, saved, starts, startDay, pos, eof, corrupt, kids, given,
                   missed>>

\* Variant: somebody died, so every used slot is cleaned.
CleanedAnyUsed(i, Z) == Z # {} /\ childs_t[i].used = 1

Cleaned(i, Z) ==
    /\ childs_t[i].pid \in Z
    /\ \A j \in Slots : j < i => childs_t[j].pid # childs_t[i].pid

\* sigchld_exit, between any two steps: every zombie is reaped, and the first
\* slot with its pid is cleaned.
SigchldExit ==
    /\ pc # "down" /\ sigchld
    /\ sigchld' = FALSE
    /\ LET Z == {c \in Childs : status[c] = "zombie"}
       IN  /\ status' = [c \in Childs |-> IF c \in Z THEN "none" ELSE status[c]]
           /\ childs_t' = [i \in Slots |->
                             IF Cleaned(i, Z) THEN IdleRec ELSE childs_t[i]]
    /\ UNCHANGED <<env, saved, starts, pc, startDay, pos, eof, idx, session,
                   forked, corrupt, given, missed>>

-----------------------------------------------------------------------------

Master ==
    \/ ReadNothing \/ ReadLine \/ SaveOffset \/ PickSlot
    \/ (\E c \in Childs : Fork(c)) \/ StoreUsed \/ StorePid

Next ==
    \/ WriteLog \/ LogGoesQuiet \/ Midnight
    \/ \E c \in Childs : ChildExit(c)
    \/ Start \/ Crash \/ Master \/ SigchldExit

Spec == Init /\ [][Next]_vars

\* The master runs while it is up, and a child ends.
FairSpec ==
    /\ Spec
    /\ WF_vars(Master)
    /\ WF_vars(SigchldExit)
    /\ \A c \in Childs : WF_vars(ChildExit(c))

-----------------------------------------------------------------------------
(* Safety *)

\* The session starts the master's stream has passed.
Passed == {p \in 1 .. pos : p <= Len(log) /\ log[p] \in LineHead}

\* Nothing is skipped in silence: a session start behind the master's
\* position was given to a child, is in hand, or is one of the two known
\* losses (read in two parts; saved, then killed before fork).  This spans
\* crashes, restarts and days.
NothingSkipped ==
    pc # "down" =>
        \A p \in Passed :
            \/ p \in missed
            \/ p = session
            \/ \E d \in Days : <<p, d>> \in given

\* The offset is saved before fork, so a master that is killed anywhere and
\* started again the same day never gives a session to a second child.
OneChildPerSessionAndDay ==
    [][(pc = "fork" /\ pc' = "used") => <<session, startDay>> \notin given]_vars

\* A child that runs keeps its slot: the handler and the master, whose steps
\* interleave, never give it to another one.  The children forked with a full
\* table have none.
Unslotted == {c \in Childs : status[c] # "none" /\ c # forked
                             /\ \A i \in Slots : childs_t[i].pid # c}
LiveChildKeepsSlot ==
    [][\A c \in Childs :
         (status[c] = "running" /\ status'[c] = "running" /\ pc' # "down"
            /\ c # forked /\ c \notin Unslotted) => c \notin Unslotted']_vars

\* The saved offset is never in the middle of the strings that identify a
\* session, however the line was written: a new master does not overlook one
\* because it starts within it.
NeverSavedInside ==
    \A d \in Days : saved[d] > 0 => log[saved[d]] # "start"

-----------------------------------------------------------------------------
(* Liveness *)

\* A complete session start is given to a child in the end, or is one of the
\* known losses, if the master stays up and the C library reads on.
EverySessionStarted ==
    \A p \in 1 .. MaxPieces :
        (p < Len(log) /\ log[p] \in LineHead /\ pc # "down")
            ~> (p \in missed \/ pc = "down" \/ \E d \in Days : <<p, d>> \in given)

-----------------------------------------------------------------------------
(* What the configuration file, the README and the comments say *)

\* config.ini: max_childs is the greatest number of children.
AtMostMaxChilds == Cardinality({c \in Childs : status[c] = "running"}) <= MaxChilds

\* config.ini: the offset is saved "to go on at the next start".
GoesOnWhereItStopped ==
    [][(pc = "down" /\ pc' = "read") => \A d \in Days : pos' >= saved[d]]_vars

\* ctmaster.c: SIGCHLD "catches the exit of a child", and its slot is cleaned.
SlotOfGoneChildIsFreed ==
    \A i \in Slots :
        (pc # "down" /\ childs_t[i].used = 1)
            ~> (pc = "down" \/ childs_t[i].used = 0)

\* README: at the end of the file the master goes on reading from time to time.
ReadsOnAfterEnd ==
    \A p \in 1 .. MaxPieces :
        (pc # "down" /\ Len(log) >= p) ~> (pc = "down" \/ pos >= p)
=============================================================================
