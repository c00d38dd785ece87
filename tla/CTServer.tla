------------------------------ MODULE CTServer ------------------------------
(***************************************************************************)
(* The master process of ctserver (ctserver/src/ctserver.c): one process,  *)
(* one epoll loop.  It accepts connections, forks and execs one child per  *)
(* connection, keeps the child in the table childs_st, watches the read    *)
(* end of a pipe whose write end is the child's descriptor 1, and takes    *)
(* the slot back when that pipe hangs up.  SIGCHLD reaps the processes; it *)
(* is blocked while a batch of events is handled.                          *)
(*                                                                         *)
(* The kernel's part that the code relies on is modelled with it: the      *)
(* descriptor table, edge-triggered readiness, SIGCHLD that coalesces, and *)
(* the life of a child as the master can observe it.                       *)
(***************************************************************************)
EXTENDS Integers, FiniteSets

CONSTANTS
    MaxChilds,      \* config_st.max_childs
    Childs,         \* child processes; a name is free when nothing refers to it
    NoChild,        \* pid -1
    Fds,            \* descriptors the master may still open
    ListenFd,       \* listen_fd
    MaxBacklog,     \* bound on connections that wait to be accepted
    MaxFaults,      \* bound on failures of pipe, fork and epoll_ctl
    ChildMayWrite   \* a child may find its configuration unreadable

ASSUME CTServerAssumption ==
    /\ MaxChilds \in Nat
    /\ {NoChild, "idle", "lost"} \cap Childs = {}
    /\ Fds \subseteq Nat \ {0}      \* 0 is taken before the first accept
    /\ IsFiniteSet(Fds)
    /\ ListenFd \in Nat \ Fds
    /\ MaxBacklog \in Nat
    /\ MaxFaults \in Nat
    /\ ChildMayWrite \in BOOLEAN

VARIABLES
    childs_st,         \* the table of children
    epoll_num_running, \* the master's count of watched children
    pc,                \* "wait": in epoll_wait; "loop": in a batch, SIGCHLD
                       \* blocked; "register": just forked; "handler"
    cur,               \* locals of the accept branch between fork and ADD
    batch,             \* events of epoll_evts that are not handled yet
    fdtab,             \* the master's descriptor table
    epoll,             \* pipe descriptors added to epoll_fd
    ready,             \* those on the kernel's ready list (edge-triggered)
    status,            \* the life of each child
    unread,            \* children whose pipe holds bytes
    sigchld,           \* SIGCHLD is pending
    backlog,           \* connections that wait to be accepted
    faults             \* failures injected so far

master == <<childs_st, epoll_num_running, cur, epoll, fdtab>>
vars == <<childs_st, epoll_num_running, pc, cur, batch, fdtab, epoll, ready,
          status, unread, sigchld, backlog, faults>>

NoFd == -1
Slots == 0 .. MaxChilds

\* struct childs_t; client_info.fd is always -1, sid and address are data.
ChildRec == [used  : {0, 1},
             pid   : Childs \cup {NoChild},
             pfd_r : Fds \cup {NoFd},
             pfd_w : Fds \cup {NoFd}]

\* Variant: memset to zero instead of -1.
ZeroedRec == [used |-> 0, pid |-> NoChild, pfd_r |-> 0, pfd_w |-> 0]

IdleRec == [used |-> 0, pid |-> NoChild, pfd_r |-> NoFd, pfd_w |-> NoFd]

\* What a descriptor of the master is: free, a connection being set up, one
\* whose client was refused or whose set-up failed, the four pipe ends.
FdKind == {"free", "conn", "refused", "failed",
           "pi1r", "pi1w", "pi2r", "pi2w"}
FdRec == [kind : FdKind, of : Childs \cup {NoChild}]

Closed == [kind |-> "free", of |-> NoChild]

\* Locals idx, f, connfd, pi1[0], pi1[1], pi2[0], pi2[1] of the accept branch.
CurRec == [idx : Slots \cup {-1}, child : Childs \cup {NoChild},
           connfd : Fds \cup {NoFd}, pi1r : Fds \cup {NoFd},
           pi1w : Fds \cup {NoFd}, pi2r : Fds \cup {NoFd},
           pi2w : Fds \cup {NoFd}]
NoCur == [idx |-> -1, child |-> NoChild, connfd |-> NoFd, pi1r |-> NoFd,
          pi1w |-> NoFd, pi2r |-> NoFd, pi2w |-> NoFd]

Status == {"none", "running", "flushed", "closing", "zombie"}
Event == [fd : Fds \cup {ListenFd}, ev : SUBSET {"IN", "HUP"}]

-----------------------------------------------------------------------------
(* Helpers of the code *)

\* Variant: a slot whose process is gone counts as idle.
GetIdleIdxByProcess(idx) ==
    LET busy(j) == /\ childs_st[j].used = 1
                   /\ childs_st[j].pid \in Childs => status[childs_st[j].pid] # "none"
    IN  \/ idx \in Slots /\ ~busy(idx) /\ \A j \in Slots : j < idx => busy(j)
        \/ idx = -1 /\ \A j \in Slots : busy(j)

\* get_idle_idx_from_childs: the first slot that is not used, or -1.
GetIdleIdx(idx) ==
    \/ /\ idx \in Slots
       /\ childs_st[idx].used = 0
       /\ \A j \in Slots : j < idx => childs_st[j].used = 1
    \/ idx = -1 /\ \A j \in Slots : childs_st[j].used = 1

\* Variant: the descriptor is not compared.
HasAnyChild(i, fd) == childs_st[i].used = 1 /\ childs_st[i].pid # NoChild

HasSockfd(i, fd) == childs_st[i].pfd_r = fd /\ childs_st[i].used = 1

\* get_idx_with_sockfd: the first used slot that reads fd.  It returns the
\* loop counter, so a descriptor nobody reads gives an index past the table.
GetIdxWithSockfd(idx, fd) ==
    \/ /\ idx \in Slots
       /\ HasSockfd(idx, fd)
       /\ \A j \in Slots : j < idx => ~HasSockfd(j, fd)
    \/ idx = MaxChilds + 1 /\ \A j \in Slots : ~HasSockfd(j, fd)

(* The kernel's part *)

FreeFds == {f \in Fds : fdtab[f].kind = "free"}

\* The kernel gives out the lowest free descriptor (empty when none is free).
Lowest(S) == {f \in S : \A g \in S : f <= g}

FreeChild(c) == status[c] = "none" /\ \A f \in Fds : fdtab[f].of # c

\* The child still holds the write end of its pipe (its descriptor 1).
Attached(c) == status[c] \in {"running", "flushed"}

\* A pipe hangs up when neither the child nor the master holds a write end.
HungUp(c, tab) ==
    /\ ~Attached(c)
    /\ \A f \in Fds : tab[f] # [kind |-> "pi2w", of |-> c]

Events(f) ==
    (IF fdtab[f].of \in unread THEN {"IN"} ELSE {})
    \cup (IF HungUp(fdtab[f].of, fdtab) THEN {"HUP"} ELSE {})

\* An edge on the pipe of c puts its descriptor on the ready list.
Wake(c) == ready \cup {f \in epoll : fdtab[f].of = c}

ListenEvent == [fd |-> ListenFd, ev |-> {"IN"}]

Available ==
    (IF backlog > 0 THEN {ListenEvent} ELSE {})
    \cup {[fd |-> f, ev |-> Events(f)] : f \in {g \in ready : Events(g) # {}}}

-----------------------------------------------------------------------------

Init ==
    /\ childs_st = [i \in Slots |-> IdleRec]
    /\ epoll_num_running = 0
    /\ pc = "wait"
    /\ cur = NoCur
    /\ batch = {}
    /\ fdtab = [f \in Fds |-> Closed]
    /\ epoll = {}
    /\ ready = {}
    /\ status = [c \in Childs |-> "none"]
    /\ unread = {}
    /\ sigchld = FALSE
    /\ backlog = 0
    /\ faults = 0

-----------------------------------------------------------------------------
(* The outside world: clients and children *)

ClientConnect ==
    /\ backlog < MaxBacklog
    /\ backlog' = backlog + 1
    /\ UNCHANGED <<master, pc, batch, ready, status, unread, sigchld, faults>>

\* A client resets its connection before it is accepted.
ClientAbort ==
    /\ backlog > 0
    /\ backlog' = backlog - 1
    /\ UNCHANGED <<master, pc, batch, ready, status, unread, sigchld, faults>>

\* ctchild cannot read its configuration: "parse config fail" goes to its
\* standard output, which is the pipe to the master, and main returns.
ChildConfigFail(c) ==
    /\ ChildMayWrite
    /\ status[c] = "running"
    /\ status' = [status EXCEPT ![c] = "flushed"]
    /\ unread' = unread \cup {c}
    /\ ready' = Wake(c)
    /\ UNCHANGED <<master, pc, batch, sigchld, backlog, faults>>

\* The child's descriptors are closed: by ctchild itself or by exit.
ChildClose(c) ==
    /\ Attached(c)
    /\ status' = [status EXCEPT ![c] = "closing"]
    /\ ready' = Wake(c)
    /\ UNCHANGED <<master, pc, batch, unread, sigchld, backlog, faults>>

\* The process ends.  SIGCHLD does not count: it is pending or it is not.
ChildExit(c) ==
    /\ status[c] = "closing"
    /\ status' = [status EXCEPT ![c] = "zombie"]
    /\ sigchld' = TRUE
    /\ UNCHANGED <<master, pc, batch, ready, unread, backlog, faults>>

-----------------------------------------------------------------------------
(* The master: waiting, and SIGCHLD *)

\* epoll_wait fills epoll_evts, which has MaxChilds + 1 entries: one less
\* than the descriptors that can be ready.  A pending SIGCHLD is delivered
\* before the call returns events (sig_childunblock or EINTR).
EpollWait ==
    /\ pc = "wait"
    /\ ~sigchld
    /\ Available # {}
    /\ \E R \in SUBSET Available :
        /\ \/ Cardinality(R) = MaxChilds + 1
           \/ R = Available /\ Cardinality(R) <= MaxChilds + 1
        /\ batch' = R
        /\ ready' = ready \ {e.fd : e \in R}
    /\ pc' = "loop"
    /\ UNCHANGED <<master, status, unread, sigchld, backlog, faults>>

\* The last event is handled: sig_childunblock and back to epoll_wait.
BatchEnd ==
    /\ pc = "loop"
    /\ batch = {}
    /\ pc' = "wait"
    /\ UNCHANGED <<master, batch, ready, status, unread, sigchld, backlog,
                   faults>>

SigchldDeliver ==
    /\ pc = "wait"
    /\ sigchld
    /\ sigchld' = FALSE
    /\ pc' = "handler"
    /\ UNCHANGED <<master, batch, ready, status, unread, backlog, faults>>

\* sigchld_exit: waitpid(-1, WNOHANG) until it finds no zombie.  The search
\* of the table for the pid is commented out: the table is not touched.
Reap(c) ==
    /\ pc = "handler"
    /\ status[c] = "zombie"
    /\ status' = [status EXCEPT ![c] = "none"]
    /\ UNCHANGED <<master, pc, batch, ready, unread, sigchld, backlog, faults>>

\* Variant: "if" in place of "while": what is left is not waited for.
HandlerReturnsEarly ==
    /\ pc = "handler"
    /\ pc' = "wait"
    /\ UNCHANGED <<master, batch, ready, status, unread, sigchld, backlog,
                   faults>>

HandlerReturn ==
    /\ pc = "handler"
    /\ \A c \in Childs : status[c] # "zombie"
    /\ pc' = "wait"
    /\ UNCHANGED <<master, batch, ready, status, unread, sigchld, backlog,
                   faults>>

-----------------------------------------------------------------------------
(* The master: a new connection *)

\* Variant: "break" in place of "continue": the rest of the batch is dropped.
AcceptingBreaks ==
    /\ pc = "loop"
    /\ ListenEvent \in batch
    /\ batch' = {}

Accepting ==
    /\ pc = "loop"
    /\ ListenEvent \in batch
    /\ batch' = batch \ {ListenEvent}

\* accept fails: the connection was reset, or no descriptor is free and the
\* connection stays in the queue.  addrlen is not initialised: the kernel may
\* find it negative, and the connection is gone.
AcceptFail ==
    /\ Accepting
    /\ \/ (backlog = 0 \/ FreeFds = {}) /\ UNCHANGED backlog
       \/ backlog > 0 /\ backlog' = backlog - 1
    /\ UNCHANGED <<master, pc, ready, status, unread, sigchld, faults>>

\* Every slot is used: the client gets an error line, and its descriptor is
\* not closed.
AcceptRefuse ==
    /\ Accepting
    /\ backlog > 0
    /\ GetIdleIdx(-1)
    /\ \E connfd \in Lowest(FreeFds) :
        fdtab' = [fdtab EXCEPT ![connfd] = [kind |-> "refused", of |-> NoChild]]
    /\ backlog' = backlog - 1
    /\ UNCHANGED <<childs_st, epoll_num_running, cur, epoll, pc, ready, status,
                   unread, sigchld, faults>>

\* A connection, two pipes and a process are more than is left.
Exhausted ==
    \/ Cardinality(FreeFds) < 5
    \/ \A c \in Childs : ~FreeChild(c)

\* pipe or fork fails: the pipes that exist are closed and the client gets an
\* error line; the slot stays used and the connection stays open.
AcceptSetupFail ==
    /\ Accepting
    /\ backlog > 0
    /\ Exhausted \/ faults < MaxFaults
    /\ faults' = IF Exhausted THEN faults ELSE faults + 1
    /\ \E idx \in Slots, connfd \in Lowest(FreeFds) :
        /\ GetIdleIdx(idx)
        /\ childs_st' = [childs_st EXCEPT ![idx].used = 1]
        /\ fdtab' = [fdtab EXCEPT ![connfd] = [kind |-> "failed", of |-> NoChild]]
    /\ backlog' = backlog - 1
    /\ UNCHANGED <<epoll_num_running, cur, epoll, pc, ready, status, unread,
                   sigchld>>

\* fork, as the parent sees it.  Until it closes pi2[1] the master itself
\* holds a write end of the pipe it will watch.
Fork(idx, c, connfd, p1r, p1w, p2r, p2w) ==
    /\ GetIdleIdx(idx)
    /\ FreeChild(c)
    /\ childs_st' = [childs_st EXCEPT ![idx].used = 1]
    /\ fdtab' = [fdtab EXCEPT ![connfd] = [kind |-> "conn", of |-> c],
                              ![p1r] = [kind |-> "pi1r", of |-> c],
                              ![p1w] = [kind |-> "pi1w", of |-> c],
                              ![p2r] = [kind |-> "pi2r", of |-> c],
                              ![p2w] = [kind |-> "pi2w", of |-> c]]
    /\ cur' = [idx |-> idx, child |-> c, connfd |-> connfd, pi1r |-> p1r,
               pi1w |-> p1w, pi2r |-> p2r, pi2w |-> p2w]
    /\ status' = [status EXCEPT ![c] = "running"]
    /\ unread' = unread \ {c}

\* accept, the two pipes and fork succeed.
AcceptFork ==
    /\ Accepting
    /\ backlog > 0
    /\ \E connfd \in Lowest(FreeFds) :
       \E p1r \in Lowest(FreeFds \ {connfd}) :
       \E p1w \in Lowest(FreeFds \ {connfd, p1r}) :
       \E p2r \in Lowest(FreeFds \ {connfd, p1r, p1w}) :
       \E p2w \in Lowest(FreeFds \ {connfd, p1r, p1w, p2r}) :
       \E idx \in Slots, c \in Childs :
            Fork(idx, c, connfd, p1r, p1w, p2r, p2w)
    /\ backlog' = backlog - 1
    /\ pc' = "register"
    /\ UNCHANGED <<epoll_num_running, epoll, ready, sigchld, faults>>

\* Variants: the parent forgets one of its copies.
ParentForgetsPi1r == {cur.pi2w, cur.connfd}
ParentForgetsPi2w == {cur.pi1r, cur.connfd}

ParentCloses == {cur.pi1r, cur.pi2w, cur.connfd}

\* The parent keeps pi2[0] and pi1[1], closes the rest and stores the child.
StoreChild ==
    /\ childs_st' = [childs_st EXCEPT ![cur.idx] =
            [used |-> @.used, pid |-> cur.child,
             pfd_r |-> cur.pi2r, pfd_w |-> cur.pi1w]]
    /\ fdtab' = [f \in Fds |-> IF f \in ParentCloses THEN Closed ELSE fdtab[f]]
    /\ epoll_num_running' = epoll_num_running + 1
    /\ cur' = NoCur
    /\ pc' = "loop"
    /\ UNCHANGED <<batch, status, unread, sigchld, backlog>>

\* The pipe is added, edge-triggered; it is ready at once when the child has
\* already written or closed its end.
Register ==
    /\ pc = "register"
    /\ StoreChild
    /\ epoll' = epoll \cup {cur.pi2r}
    /\ ready' = IF cur.child \in unread \/ HungUp(cur.child, fdtab')
                    THEN ready \cup {cur.pi2r} ELSE ready
    /\ UNCHANGED faults

\* epoll_ctl fails: it is logged, and the child is counted all the same.
RegisterAddFail ==
    /\ pc = "register"
    /\ faults < MaxFaults
    /\ faults' = faults + 1
    /\ StoreChild
    /\ UNCHANGED <<epoll, ready>>

-----------------------------------------------------------------------------
(* The master: an event of a child's pipe *)

\* EPOLLIN: one read, which takes the few bytes a child can write.  The
\* branch for EPOLLHUP is an "else if": it is not taken in this case.
HandleRead(e) ==
    /\ pc = "loop"
    /\ e \in batch
    /\ e.fd # ListenFd
    /\ "IN" \in e.ev
    /\ batch' = batch \ {e}
    /\ \E idx \in Slots :
        /\ GetIdxWithSockfd(idx, e.fd)
        /\ unread' = unread \ {fdtab[childs_st[idx].pfd_r].of}
    /\ UNCHANGED <<master, pc, ready, status, sigchld, backlog, faults>>

\* Variant: the descriptors are closed, the slot still names pfd_w.
CleanChildKeepsPfdW(idx) ==
    LET ends == {childs_st[idx].pfd_r, childs_st[idx].pfd_w}
    IN  /\ childs_st' = [childs_st EXCEPT ![idx] =
                            [IdleRec EXCEPT !.pfd_w = childs_st[idx].pfd_w]]
        /\ fdtab' = [f \in Fds |-> IF f \in ends THEN Closed ELSE fdtab[f]]

\* clean_child_with_idx.
CleanChild(idx) ==
    LET ends == {childs_st[idx].pfd_r, childs_st[idx].pfd_w}
    IN  /\ childs_st' = [childs_st EXCEPT ![idx] = IdleRec]
        /\ fdtab' = [f \in Fds |-> IF f \in ends THEN Closed ELSE fdtab[f]]

\* Variants: the watch is kept; the count is not decremented.
EpollDeleteForgotten(fd) ==
    UNCHANGED <<epoll, ready>> /\ epoll_num_running' = epoll_num_running - 1

EpollDeleteUncounted(fd) ==
    /\ epoll' = epoll \ {fd}
    /\ ready' = ready \ {fd}
    /\ UNCHANGED epoll_num_running

\* epoll_delete_evt.
EpollDeleteEvt(fd) ==
    /\ epoll' = epoll \ {fd}
    /\ ready' = ready \ {fd}
    /\ epoll_num_running' = IF fd \in epoll THEN epoll_num_running - 1
                                            ELSE epoll_num_running

HandleHup(e) ==
    /\ pc = "loop"
    /\ e \in batch
    /\ e.fd # ListenFd
    /\ "IN" \notin e.ev
    /\ "HUP" \in e.ev
    /\ batch' = batch \ {e}
    /\ \E idx \in Slots :
        /\ GetIdxWithSockfd(idx, e.fd)
        /\ EpollDeleteEvt(childs_st[idx].pfd_r)
        /\ CleanChild(idx)
    /\ UNCHANGED <<cur, pc, status, unread, sigchld, backlog, faults>>

-----------------------------------------------------------------------------

Environment ==
    \/ ClientConnect
    \/ ClientAbort
    \/ \E c \in Childs : ChildConfigFail(c) \/ ChildClose(c) \/ ChildExit(c)

Accept == AcceptFail \/ AcceptRefuse \/ AcceptSetupFail \/ AcceptFork

Loop ==
    \/ BatchEnd
    \/ Accept
    \/ Register
    \/ RegisterAddFail
    \/ \E e \in batch : HandleRead(e) \/ HandleHup(e)

Signal == SigchldDeliver \/ HandlerReturn \/ \E c \in Childs : Reap(c)

Next == Environment \/ EpollWait \/ Loop \/ Signal

Spec == Init /\ [][Next]_vars

-----------------------------------------------------------------------------
(* Fairness.  The master runs; a signal that is pending is handled; a child *)
(* that is exiting exits.  The kernel's ready list is first in, first out,  *)
(* so a descriptor that stays on it is reported by some epoll_wait.         *)

Reports(f) == EpollWait /\ f \in ready /\ f \notin ready'

Fairness ==
    /\ WF_vars(EpollWait)
    /\ WF_vars(Loop)
    /\ WF_vars(Signal)
    /\ \A f \in Fds : SF_vars(Reports(f))
    /\ \A c \in Childs : WF_vars(ChildExit(c))

FairSpec == Spec /\ Fairness

-----------------------------------------------------------------------------
(* Type invariant *)

TypeOK ==
    /\ childs_st \in [Slots -> ChildRec]
    /\ epoll_num_running \in Int
    /\ pc \in {"wait", "loop", "register", "handler"}
    /\ cur \in CurRec
    /\ batch \subseteq Event
    /\ fdtab \in [Fds -> FdRec]
    /\ epoll \subseteq Fds
    /\ ready \subseteq Fds
    /\ status \in [Childs -> Status]
    /\ unread \subseteq Childs
    /\ sigchld \in BOOLEAN
    /\ backlog \in Nat
    /\ faults \in Nat

-----------------------------------------------------------------------------
(* Safety *)

\* The event of a pipe finds its child: while a batch is handled, slots are
\* taken back and given out again and descriptors are closed and reused, yet
\* get_idx_with_sockfd never returns an index past the table (it would be
\* used: the test is idx < 0) and never the slot of another child.
EventsResolve ==
    \A e \in batch : e.fd # ListenFd =>
        \E idx \in Slots :
            /\ GetIdxWithSockfd(idx, e.fd)
            /\ childs_st[idx].pid = fdtab[e.fd].of

\* The table of children and the descriptor table agree: a slot that names a
\* child owns the two pipe ends of this child, no descriptor is in two slots
\* (clean_child_with_idx would close a stranger's), and a slot without a
\* child owns none.
SlotsOwnTheirFds ==
    \A i \in Slots :
        LET s == childs_st[i]
        IN  IF s.pid = NoChild
            THEN s.pfd_r = NoFd /\ s.pfd_w = NoFd
            ELSE /\ s.used = 1
                 /\ s.pfd_r \in Fds /\ s.pfd_w \in Fds
                 /\ fdtab[s.pfd_r] = [kind |-> "pi2r", of |-> s.pid]
                 /\ fdtab[s.pfd_w] = [kind |-> "pi1w", of |-> s.pid]
                 /\ \A j \in Slots \ {i} : childs_st[j].pid # s.pid

\* SIGCHLD coalesces and is blocked during a batch; still no zombie is left
\* without a handler that runs or will run.
ZombieNoticed ==
    (\E c \in Childs : status[c] = "zombie") => sigchld \/ pc = "handler"

\* Where the descriptors go: in epoll_wait every open descriptor is one of
\* the two ends of a child in the table, or a connection that was refused or
\* whose set-up failed; and each slot lost to a failed set-up has such a
\* connection beside it.  The error paths leak nothing else.
DescriptorAccounting ==
    pc = "wait" =>
        LET named == {i \in Slots : childs_st[i].pid # NoChild}
            lost  == {i \in Slots : childs_st[i].used = 1
                                    /\ childs_st[i].pid = NoChild}
            fds(K) == {f \in Fds : fdtab[f].kind \in K}
        IN  /\ fds({"conn", "pi1r", "pi2w"}) = {}
            /\ Cardinality(fds({"pi1w", "pi2r"})) = 2 * Cardinality(named)
            /\ Cardinality(fds({"failed"})) = Cardinality(lost)

\* epoll_num_running is the number of children in the table, those whose
\* pipe could not be added included.
RunningIsCounted ==
    epoll_num_running = Cardinality({i \in Slots : childs_st[i].pid # NoChild})

\* An edge is reported once, so it must not be lost: as long as no child
\* writes, the pipe of a child that has hung up is on the ready list or its
\* EPOLLHUP is in the batch.
HangUpNotLost ==
    ~ChildMayWrite =>
        \A f \in epoll : HungUp(fdtab[f].of, fdtab) =>
            f \in ready \/ \E e \in batch : e.fd = f /\ e.ev = {"HUP"}

-----------------------------------------------------------------------------
(* The inductive invariant behind EventsResolve, SlotsOwnTheirFds and the   *)
(* refinement (CTServerProofs)                                              *)

\* Between fork and ADD the locals name the slot, which is used and names
\* nobody, a child no slot names, and its five descriptors.
RegisterInv ==
    pc = "register" =>
        /\ cur.idx \in Slots
        /\ cur.child \in Childs
        /\ childs_st[cur.idx].used = 1
        /\ childs_st[cur.idx].pid = NoChild
        /\ \A j \in Slots : childs_st[j].pid # cur.child
        /\ {cur.connfd, cur.pi1r, cur.pi1w, cur.pi2r, cur.pi2w} \subseteq Fds
        /\ fdtab[cur.connfd] = [kind |-> "conn", of |-> cur.child]
        /\ fdtab[cur.pi1r] = [kind |-> "pi1r", of |-> cur.child]
        /\ fdtab[cur.pi1w] = [kind |-> "pi1w", of |-> cur.child]
        /\ fdtab[cur.pi2r] = [kind |-> "pi2r", of |-> cur.child]
        /\ fdtab[cur.pi2w] = [kind |-> "pi2w", of |-> cur.child]

\* What is watched is read by a slot; only what is watched becomes ready.
WatchedInv ==
    /\ \A f \in epoll :
        \E i \in Slots : childs_st[i].pid # NoChild /\ childs_st[i].pfd_r = f
    /\ ready \subseteq epoll

\* An event that is not handled yet is of a pipe that is still watched; it is
\* the only one of its pipe, and a hang-up in it is final.
BatchInv ==
    /\ pc \in {"wait", "handler"} => batch = {}
    /\ \A e \in batch : e.fd # ListenFd =>
        /\ e.fd \in epoll
        /\ "HUP" \in e.ev => ~Attached(fdtab[e.fd].of)
    /\ \A e, g \in batch : e.fd = g.fd => e = g

IInv == TypeOK /\ SlotsOwnTheirFds /\ RegisterInv /\ WatchedInv /\ BatchInv

-----------------------------------------------------------------------------
(* Refinement *)

\* The holder of a slot in the abstract pool.  A slot is lost when its set-up
\* failed or its pipe is not watched.
Holder(i) ==
    IF childs_st[i].used = 0 THEN "idle"
    ELSE IF childs_st[i].pid # NoChild
         THEN IF childs_st[i].pfd_r \in epoll THEN childs_st[i].pid ELSE "lost"
         ELSE IF pc = "register" /\ cur.idx = i THEN cur.child ELSE "lost"

Pool == INSTANCE ChildPool
            WITH Idle <- "idle", Lost <- "lost",
                 holder <- [i \in Slots |-> Holder(i)],
                 attached <- {c \in Childs : Attached(c)}

\* The master keeps the promise of ChildPool: one slot per child, and no slot
\* taken back before its child has hung up.
ImplementsPool == Pool!Spec

\* As long as no child writes it also keeps the pool's fairness: the slot of
\* a child that has hung up is taken back, unless its pipe is not watched.
ImplementsFairPool == Pool!FairSpec

-----------------------------------------------------------------------------
(* Liveness *)

\* A child that has exited is reaped in the end.
ChildReaped ==
    \A c \in Childs : (status[c] = "zombie") ~> (status[c] = "none")

-----------------------------------------------------------------------------
(* What the comments and the configuration file say *)

\* ctserver.c:724 and :735, "a child process exits": "clean up the child
\* process".  Once no child is attached, every watched slot is taken back.
ExitedChildIsCleaned ==
    \A c \in Childs :
        (\E i \in Slots : childs_st[i].pid = c /\ childs_st[i].pfd_r \in epoll
                          /\ status[c] = "zombie")
        ~> (\A i \in Slots : childs_st[i].pid # c)

\* config.ini: max_childs is the greatest number of concurrent children.
AtMostMaxChilds ==
    Cardinality({i \in Slots : childs_st[i].pid # NoChild
                               /\ Attached(childs_st[i].pid)}) <= MaxChilds
=============================================================================
