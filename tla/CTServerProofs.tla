--------------------------- MODULE CTServerProofs ---------------------------
(***************************************************************************)
(* Theorems about CTServer, for every size of the table, every number of   *)
(* children and descriptors: type correctness, the inductive invariant     *)
(* IInv, the safety properties that follow from it, that CTServer          *)
(* implements ChildPool, and, on top of IInv, what the master counts and   *)
(* what it does not lose.                                                  *)
(***************************************************************************)
EXTENDS CTServer, FiniteSetTheorems, TLAPS

\* Types of the constants and of the records the code builds.
LEMMA Records ==
    /\ -1 \notin Fds /\ ListenFd \notin Fds
    /\ NoChild \notin Childs /\ "idle" \notin Childs /\ "lost" \notin Childs
    /\ Slots \subseteq Nat
    /\ IdleRec \in ChildRec
    /\ NoCur \in CurRec
    /\ Closed \in FdRec
BY CTServerAssumption DEF Slots, IdleRec, ChildRec, NoFd, NoCur, CurRec,
                          Closed, FdRec, FdKind

\* What epoll_wait can report.
LEMMA AvailableEvents ==
    ASSUME TypeOK
    PROVE  /\ Available \subseteq Event
           /\ \A e \in Available : e.fd # ListenFd =>
                e.fd \in ready /\ e.ev = Events(e.fd)
           /\ \A e, g \in Available : e.fd = g.fd => e = g
<1> USE Records
<1>1. \A f \in ready : f \in Fds /\ Events(f) \in SUBSET {"IN", "HUP"}
  BY DEF TypeOK, Events
<1>2. ListenEvent \in Event
  BY DEF ListenEvent, Event
<1>3. \A e \in Available :
        \/ e = ListenEvent
        \/ \E f \in ready : e = [fd |-> f, ev |-> Events(f)]
  BY DEF Available
<1>4. Available \subseteq Event
  BY <1>1, <1>2, <1>3 DEF Event
<1>5. ASSUME NEW e \in Available, e.fd # ListenFd
      PROVE  e.fd \in ready /\ e.ev = Events(e.fd)
                /\ e = [fd |-> e.fd, ev |-> Events(e.fd)]
  BY <1>3, <1>5 DEF ListenEvent
<1>6. ASSUME NEW e \in Available, NEW g \in Available, e.fd = g.fd
      PROVE  e = g
  <2>1. CASE e.fd = ListenFd
    <3>1. ASSUME NEW x \in Available, x.fd = ListenFd
          PROVE  x = ListenEvent
      <4>1. ASSUME NEW f \in ready, x = [fd |-> f, ev |-> Events(f)]
            PROVE  FALSE
        BY <1>1, <3>1, <4>1
      <4> QED BY <1>3, <3>1, <4>1
    <3> QED BY <1>6, <2>1, <3>1
  <2>2. CASE e.fd # ListenFd
    BY <1>5, <1>6, <2>2
  <2> QED BY <2>1, <2>2
<1> QED BY <1>4, <1>5, <1>6

\* Any kind and any child make a descriptor.
LEMMA FdRecs ==
    \A k \in FdKind, c \in Childs \cup {NoChild} : [kind |-> k, of |-> c] \in FdRec
BY DEF FdRec

\* The descriptors AcceptFork takes are free and distinct.
LEMMA ForkWitnesses ==
    ASSUME AcceptFork
    PROVE  \E idx \in Slots, c \in Childs :
           \E connfd, p1r, p1w, p2r, p2w \in FreeFds :
             /\ Fork(idx, c, connfd, p1r, p1w, p2r, p2w)
             /\ connfd \notin {p1r, p1w, p2r, p2w}
             /\ p1r \notin {p1w, p2r, p2w}
             /\ p1w \notin {p2r, p2w}
             /\ p2r # p2w
<1>1. PICK connfd \in Lowest(FreeFds) :
      \E p1r \in Lowest(FreeFds \ {connfd}) :
      \E p1w \in Lowest(FreeFds \ {connfd, p1r}) :
      \E p2r \in Lowest(FreeFds \ {connfd, p1r, p1w}) :
      \E p2w \in Lowest(FreeFds \ {connfd, p1r, p1w, p2r}) :
      \E idx \in Slots, c \in Childs :
            Fork(idx, c, connfd, p1r, p1w, p2r, p2w)
  BY DEF AcceptFork
<1>2. PICK p1r \in Lowest(FreeFds \ {connfd}) :
      \E p1w \in Lowest(FreeFds \ {connfd, p1r}) :
      \E p2r \in Lowest(FreeFds \ {connfd, p1r, p1w}) :
      \E p2w \in Lowest(FreeFds \ {connfd, p1r, p1w, p2r}) :
      \E idx \in Slots, c \in Childs :
            Fork(idx, c, connfd, p1r, p1w, p2r, p2w)
  BY <1>1
<1>3. PICK p1w \in Lowest(FreeFds \ {connfd, p1r}) :
      \E p2r \in Lowest(FreeFds \ {connfd, p1r, p1w}) :
      \E p2w \in Lowest(FreeFds \ {connfd, p1r, p1w, p2r}) :
      \E idx \in Slots, c \in Childs :
            Fork(idx, c, connfd, p1r, p1w, p2r, p2w)
  BY <1>2
<1>4. PICK p2r \in Lowest(FreeFds \ {connfd, p1r, p1w}) :
      \E p2w \in Lowest(FreeFds \ {connfd, p1r, p1w, p2r}) :
      \E idx \in Slots, c \in Childs :
            Fork(idx, c, connfd, p1r, p1w, p2r, p2w)
  BY <1>3
<1>5. PICK p2w \in Lowest(FreeFds \ {connfd, p1r, p1w, p2r}) :
      \E idx \in Slots, c \in Childs :
            Fork(idx, c, connfd, p1r, p1w, p2r, p2w)
  BY <1>4
<1>6. /\ connfd \in FreeFds
      /\ p1r \in FreeFds \ {connfd}
      /\ p1w \in FreeFds \ {connfd, p1r}
      /\ p2r \in FreeFds \ {connfd, p1r, p1w}
      /\ p2w \in FreeFds \ {connfd, p1r, p1w, p2r}
  BY DEF Lowest
<1> QED BY <1>5, <1>6

\* Marking a slot as used keeps the table well typed.
LEMMA UseSlot ==
    ASSUME TypeOK, NEW idx \in Slots
    PROVE  [childs_st EXCEPT ![idx].used = 1] \in [Slots -> ChildRec]
<1>1. [childs_st[idx] EXCEPT !.used = 1] \in ChildRec
  BY DEF TypeOK, ChildRec
<1> QED BY <1>1 DEF TypeOK

-----------------------------------------------------------------------------
(* Type correctness *)

\* The initial state is well typed.
LEMMA InitTypeOK == Init => TypeOK
<1> SUFFICES ASSUME Init PROVE TypeOK
  OBVIOUS
<1>1. childs_st \in [Slots -> ChildRec] /\ cur \in CurRec
  BY Records DEF Init
<1>2. fdtab \in [Fds -> FdRec] /\ status \in [Childs -> Status]
  BY Records DEF Init, Status
<1>3. pc \in {"wait", "loop", "register", "handler"} /\ sigchld \in BOOLEAN
  BY DEF Init
<1>4. batch \subseteq Event /\ epoll \subseteq Fds /\ ready \subseteq Fds
        /\ unread \subseteq Childs
  BY DEF Init
<1>5. epoll_num_running \in Int /\ backlog \in Nat /\ faults \in Nat
  BY DEF Init
<1> QED BY <1>1, <1>2, <1>3, <1>4, <1>5 DEF TypeOK

\* Every step keeps the types; Register needs that its locals are set.
LEMMA NextTypeOK == TypeOK /\ RegisterInv /\ [Next]_vars => TypeOK'
<1> SUFFICES ASSUME TypeOK, RegisterInv, [Next]_vars PROVE TypeOK'
  OBVIOUS
<1> USE Records, CTServerAssumption
<1>1. CASE ClientConnect
  BY <1>1 DEF ClientConnect, TypeOK, master
<1>2. CASE ClientAbort
  BY <1>2 DEF ClientAbort, TypeOK, master
<1>3. ASSUME NEW c \in Childs, ChildConfigFail(c) PROVE TypeOK'
  BY <1>3 DEF ChildConfigFail, TypeOK, master, Status, Wake
<1>4. ASSUME NEW c \in Childs, ChildClose(c) PROVE TypeOK'
  BY <1>4 DEF ChildClose, TypeOK, master, Status, Wake
<1>5. ASSUME NEW c \in Childs, ChildExit(c) PROVE TypeOK'
  BY <1>5 DEF ChildExit, TypeOK, master, Status
<1>6. CASE EpollWait
  BY <1>6, AvailableEvents DEF EpollWait, TypeOK, master
<1>7. CASE BatchEnd
  BY <1>7 DEF BatchEnd, TypeOK, master
<1>8. CASE SigchldDeliver
  BY <1>8 DEF SigchldDeliver, TypeOK, master
<1>9. ASSUME NEW c \in Childs, Reap(c) PROVE TypeOK'
  BY <1>9 DEF Reap, TypeOK, master, Status
<1>10. CASE HandlerReturn
  BY <1>10 DEF HandlerReturn, TypeOK, master
<1>11. CASE AcceptFail
  BY <1>11 DEF AcceptFail, Accepting, TypeOK, master
<1>12. CASE AcceptRefuse
  <2>1. [kind |-> "refused", of |-> NoChild] \in FdRec
    BY FdRecs DEF FdKind
  <2>2. fdtab' \in [Fds -> FdRec]
    BY <1>12, <2>1 DEF AcceptRefuse, TypeOK
  <2>3. batch' \subseteq Event /\ backlog' \in Nat
    BY <1>12 DEF AcceptRefuse, Accepting, TypeOK
  <2> QED BY <1>12, <2>2, <2>3 DEF AcceptRefuse, TypeOK
<1>13. CASE AcceptSetupFail
  <2>1. faults' \in Nat /\ backlog' \in Nat /\ batch' \subseteq Event
    BY <1>13 DEF AcceptSetupFail, Accepting, TypeOK
  <2>2. [kind |-> "failed", of |-> NoChild] \in FdRec
    BY FdRecs DEF FdKind
  <2>3. childs_st' \in [Slots -> ChildRec]
    BY <1>13, UseSlot DEF AcceptSetupFail
  <2>4. fdtab' \in [Fds -> FdRec]
    BY <1>13, <2>2 DEF AcceptSetupFail, TypeOK
  <2> QED BY <1>13, <2>1, <2>3, <2>4 DEF AcceptSetupFail, TypeOK
<1>14. CASE AcceptFork
  <2>1. PICK idx \in Slots, c \in Childs, connfd \in FreeFds, p1r \in FreeFds,
             p1w \in FreeFds, p2r \in FreeFds, p2w \in FreeFds :
          Fork(idx, c, connfd, p1r, p1w, p2r, p2w)
    BY <1>14, ForkWitnesses
  <2>2. childs_st' \in [Slots -> ChildRec]
    BY <2>1, UseSlot DEF Fork
  <2>3. \A k \in FdKind : [kind |-> k, of |-> c] \in FdRec
    BY FdRecs
  <2>4. fdtab' \in [Fds -> FdRec]
    BY <2>1, <2>3 DEF Fork, TypeOK, FdKind
  <2>5. cur' \in CurRec /\ status' \in [Childs -> Status] /\ unread' \subseteq Childs
    BY <2>1 DEF Fork, TypeOK, CurRec, Status, FreeFds
  <2>6. batch' \subseteq Event /\ backlog' \in Nat
    BY <1>14 DEF AcceptFork, Accepting, TypeOK
  <2> QED BY <1>14, <2>2, <2>4, <2>5, <2>6 DEF AcceptFork, TypeOK
<1>15. ASSUME StoreChild
       PROVE  /\ childs_st' \in [Slots -> ChildRec]
              /\ fdtab' \in [Fds -> FdRec]
              /\ epoll_num_running' \in Int
              /\ cur' \in CurRec
              /\ pc' = "loop"
  <2>1. childs_st' \in [Slots -> ChildRec]
    <3>1. ASSUME NEW i \in Slots PROVE childs_st'[i] \in ChildRec
      <4>1. CASE i = cur.idx
        <5>1. childs_st'[i] = [used |-> childs_st[i].used, pid |-> cur.child,
                               pfd_r |-> cur.pi2r, pfd_w |-> cur.pi1w]
          BY <1>15, <4>1 DEF StoreChild, TypeOK
        <5> QED BY <5>1 DEF TypeOK, ChildRec, CurRec
      <4>2. CASE i # cur.idx
        BY <1>15, <4>2 DEF StoreChild, TypeOK
      <4> QED BY <4>1, <4>2
    <3>2. childs_st' = [i \in Slots |-> childs_st'[i]]
      BY <1>15 DEF StoreChild, TypeOK
    <3> QED BY <3>1, <3>2
  <2>2. fdtab' \in [Fds -> FdRec]
    BY <1>15 DEF StoreChild, ParentCloses, TypeOK
  <2> QED BY <1>15, <2>1, <2>2 DEF StoreChild, TypeOK
<1>16. CASE Register
  <2>1. epoll' \subseteq Fds /\ ready' \subseteq Fds
    BY <1>16 DEF Register, RegisterInv, TypeOK
  <2> QED BY <1>15, <1>16, <2>1 DEF Register, StoreChild, TypeOK
<1>17. CASE RegisterAddFail
  BY <1>15, <1>17 DEF RegisterAddFail, StoreChild, TypeOK
<1>18. ASSUME NEW e \in batch, HandleRead(e) PROVE TypeOK'
  BY <1>18 DEF HandleRead, TypeOK, master
<1>19. ASSUME NEW e \in batch, HandleHup(e) PROVE TypeOK'
  <2>1. PICK idx \in Slots : EpollDeleteEvt(childs_st[idx].pfd_r) /\ CleanChild(idx)
    BY <1>19 DEF HandleHup
  <2>2. childs_st' \in [Slots -> ChildRec] /\ fdtab' \in [Fds -> FdRec]
    BY <2>1 DEF CleanChild, TypeOK
  <2>3. epoll' \subseteq Fds /\ ready' \subseteq Fds
    BY <2>1 DEF EpollDeleteEvt, TypeOK
  <2>4. epoll_num_running' \in {epoll_num_running, epoll_num_running - 1}
    BY <2>1 DEF EpollDeleteEvt
  <2>5. epoll_num_running' \in Int
    BY <2>4 DEF TypeOK
  <2> QED BY <1>19, <2>2, <2>3, <2>5 DEF HandleHup, TypeOK
<1>20. CASE UNCHANGED vars
  BY <1>20 DEF vars, TypeOK
<1> QED
  BY <1>1, <1>2, <1>3, <1>4, <1>5, <1>6, <1>7, <1>8, <1>9, <1>10, <1>11, <1>12,
     <1>13, <1>14, <1>16, <1>17, <1>18, <1>19, <1>20
  DEF Next, Environment, Loop, Accept, Signal

-----------------------------------------------------------------------------
(* The inductive invariant *)

\* What the invariant says of a slot that names a child.
LEMMA NamedSlot ==
    ASSUME IInv, NEW i \in Slots, childs_st[i].pid # NoChild
    PROVE  /\ childs_st[i].pid \in Childs
           /\ childs_st[i].used = 1
           /\ childs_st[i].pfd_r \in Fds
           /\ childs_st[i].pfd_w \in Fds
           /\ fdtab[childs_st[i].pfd_r] = [kind |-> "pi2r", of |-> childs_st[i].pid]
           /\ fdtab[childs_st[i].pfd_w] = [kind |-> "pi1w", of |-> childs_st[i].pid]
           /\ \A j \in Slots \ {i} : childs_st[j].pid # childs_st[i].pid
BY DEF IInv, TypeOK, SlotsOwnTheirFds, ChildRec

\* A watched descriptor is read by a slot that names its child.
LEMMA PipeOwner ==
    ASSUME IInv, NEW f \in epoll
    PROVE  \E i \in Slots : /\ childs_st[i].pid \in Childs
                            /\ childs_st[i].used = 1
                            /\ childs_st[i].pfd_r = f
                            /\ f \in Fds
                            /\ fdtab[f] = [kind |-> "pi2r", of |-> childs_st[i].pid]
<1>1. PICK i \in Slots : childs_st[i].pid # NoChild /\ childs_st[i].pfd_r = f
  BY DEF IInv, WatchedInv
<1> QED BY <1>1, NamedSlot

\* A watched descriptor is one the master may open.
LEMMA WatchedFd ==
    ASSUME IInv, NEW f \in epoll
    PROVE  f \in Fds /\ fdtab[f].kind = "pi2r" /\ fdtab[f].of \in Childs
<1>1. PICK i \in Slots : /\ childs_st[i].pid \in Childs
                         /\ f \in Fds
                         /\ fdtab[f] = [kind |-> "pi2r", of |-> childs_st[i].pid]
  BY PipeOwner
<1> QED BY <1>1

\* Steps that leave the table, the descriptors and the watch set alone keep
\* the parts of the invariant that speak of them only.
LEMMA FrameMaster ==
    ASSUME IInv, UNCHANGED <<childs_st, fdtab, cur, epoll>>,
           pc' = pc \/ pc' # "register",
           ready' \subseteq ready \cup epoll
    PROVE  SlotsOwnTheirFds' /\ RegisterInv' /\ WatchedInv'
<1>1. SlotsOwnTheirFds'
  BY DEF IInv, SlotsOwnTheirFds, Slots
<1>2. RegisterInv'
  BY DEF IInv, RegisterInv, Slots
<1>3. WatchedInv'
  BY DEF IInv, WatchedInv, Slots
<1> QED BY <1>1, <1>2, <1>3

\* Events that are left in the batch stay good as long as their pipes are
\* watched and no child attaches again.
LEMMA FrameBatch ==
    ASSUME IInv, batch' \subseteq batch,
           pc' \in {"wait", "handler"} => batch' = {},
           \A e \in batch' : e.fd # ListenFd =>
                e.fd \in epoll' /\ fdtab'[e.fd].of = fdtab[e.fd].of,
           \A e \in batch', c \in Childs : e.fd # ListenFd /\ fdtab[e.fd].of = c =>
                (status'[c] \in {"running", "flushed"} => Attached(c))
    PROVE  BatchInv'
<1>1. ASSUME NEW e \in batch', e.fd # ListenFd, "HUP" \in e.ev
      PROVE  ~Attached(fdtab[e.fd].of)'
  <2>1. e \in batch /\ e.fd \in epoll /\ ~Attached(fdtab[e.fd].of)
    BY <1>1 DEF IInv, BatchInv
  <2>3. fdtab[e.fd].of \in Childs
    BY <2>1, WatchedFd
  <2> QED BY <1>1, <2>1, <2>3 DEF Attached
<1>2. \A e, g \in batch' : e.fd = g.fd => e = g
  BY DEF IInv, BatchInv
<1> QED BY <1>1, <1>2 DEF BatchInv

\* The inductive invariant holds at the start.
LEMMA InitIInv == Init => IInv
<1> SUFFICES ASSUME Init PROVE IInv
  OBVIOUS
<1>1. SlotsOwnTheirFds
  BY DEF Init, SlotsOwnTheirFds, IdleRec
<1>2. RegisterInv /\ WatchedInv /\ BatchInv
  BY DEF Init, RegisterInv, WatchedInv, BatchInv
<1> QED BY <1>1, <1>2, InitTypeOK DEF IInv

\* Steps of the clients and the children.
LEMMA EnvironmentIInv ==
    ASSUME IInv, Environment
    PROVE  SlotsOwnTheirFds' /\ RegisterInv' /\ WatchedInv' /\ BatchInv'
<1>1. CASE ClientConnect
  BY <1>1, FrameMaster, FrameBatch DEF ClientConnect, master, IInv, BatchInv, Attached
<1>2. CASE ClientAbort
  BY <1>2, FrameMaster, FrameBatch DEF ClientAbort, master, IInv, BatchInv, Attached
<1>3. ASSUME NEW c \in Childs, ChildConfigFail(c)
      PROVE  SlotsOwnTheirFds' /\ RegisterInv' /\ WatchedInv' /\ BatchInv'
  <2>1. ready' \subseteq ready \cup epoll
    BY <1>3 DEF ChildConfigFail, Wake
  <2>2. \A d \in Childs : status'[d] \in {"running", "flushed"} => Attached(d)
    BY <1>3 DEF ChildConfigFail, IInv, TypeOK, Attached
  <2> QED BY <1>3, <2>1, <2>2, FrameMaster, FrameBatch
          DEF ChildConfigFail, master, IInv, BatchInv
<1>4. ASSUME NEW c \in Childs, ChildClose(c)
      PROVE  SlotsOwnTheirFds' /\ RegisterInv' /\ WatchedInv' /\ BatchInv'
  <2>1. ready' \subseteq ready \cup epoll
    BY <1>4 DEF ChildClose, Wake
  <2>2. \A d \in Childs : status'[d] \in {"running", "flushed"} => Attached(d)
    BY <1>4 DEF ChildClose, IInv, TypeOK, Attached
  <2> QED BY <1>4, <2>1, <2>2, FrameMaster, FrameBatch
          DEF ChildClose, master, IInv, BatchInv
<1>5. ASSUME NEW c \in Childs, ChildExit(c)
      PROVE  SlotsOwnTheirFds' /\ RegisterInv' /\ WatchedInv' /\ BatchInv'
  <2>1. \A d \in Childs : status'[d] \in {"running", "flushed"} => Attached(d)
    BY <1>5 DEF ChildExit, IInv, TypeOK, Attached
  <2> QED BY <1>5, <2>1, FrameMaster, FrameBatch
          DEF ChildExit, master, IInv, BatchInv
<1> QED BY <1>1, <1>2, <1>3, <1>4, <1>5 DEF Environment

\* Steps of the SIGCHLD handler.
LEMMA SignalIInv ==
    ASSUME IInv, Signal
    PROVE  SlotsOwnTheirFds' /\ RegisterInv' /\ WatchedInv' /\ BatchInv'
<1>1. CASE SigchldDeliver
  BY <1>1, FrameMaster, FrameBatch DEF SigchldDeliver, master, IInv, BatchInv, Attached
<1>2. CASE HandlerReturn
  BY <1>2, FrameMaster, FrameBatch DEF HandlerReturn, master, IInv, BatchInv, Attached
<1>3. ASSUME NEW c \in Childs, Reap(c)
      PROVE  SlotsOwnTheirFds' /\ RegisterInv' /\ WatchedInv' /\ BatchInv'
  <2>1. \A d \in Childs : status'[d] \in {"running", "flushed"} => Attached(d)
    BY <1>3 DEF Reap, IInv, TypeOK, Attached
  <2> QED BY <1>3, <2>1, FrameMaster, FrameBatch DEF Reap, master, IInv, BatchInv
<1> QED BY <1>1, <1>2, <1>3 DEF Signal

\* epoll_wait fills the batch with events of watched pipes, one each.
LEMMA EpollWaitIInv ==
    ASSUME IInv, EpollWait
    PROVE  SlotsOwnTheirFds' /\ RegisterInv' /\ WatchedInv' /\ BatchInv'
<1>1. SlotsOwnTheirFds' /\ RegisterInv' /\ WatchedInv'
  BY FrameMaster DEF EpollWait, master
<1>2. batch' \subseteq Available
  BY DEF EpollWait
<1>3. ASSUME NEW e \in batch', e.fd # ListenFd
      PROVE  e.fd \in epoll' /\ ("HUP" \in e.ev => ~Attached(fdtab[e.fd].of)')
  <2>1. e.fd \in ready /\ e.ev = Events(e.fd)
    BY <1>2, <1>3, AvailableEvents DEF IInv
  <2>2. "HUP" \in e.ev => ~Attached(fdtab[e.fd].of)
    BY <2>1 DEF Events, HungUp
  <2> QED BY <2>1, <2>2 DEF EpollWait, master, IInv, WatchedInv, Attached
<1>4. \A e, g \in batch' : e.fd = g.fd => e = g
  BY <1>2, AvailableEvents DEF IInv
<1>5. pc' = "loop"
  BY DEF EpollWait
<1> QED BY <1>1, <1>3, <1>4, <1>5 DEF BatchInv

\* Taking an event out of the batch.
LEMMA AcceptingBatch ==
    ASSUME Accepting
    PROVE  batch' \subseteq batch /\ pc = "loop"
BY DEF Accepting

\* accept fails, or the client is refused: a free descriptor changes hands.
LEMMA AcceptFailIInv ==
    ASSUME IInv, AcceptFail \/ AcceptRefuse
    PROVE  SlotsOwnTheirFds' /\ RegisterInv' /\ WatchedInv' /\ BatchInv'
<1>1. CASE AcceptFail
  BY <1>1, AcceptingBatch, FrameMaster, FrameBatch
  DEF AcceptFail, master, IInv, BatchInv, Attached
<1>2. CASE AcceptRefuse
  <2>1. PICK connfd \in FreeFds :
          fdtab' = [fdtab EXCEPT ![connfd] = [kind |-> "refused", of |-> NoChild]]
    BY <1>2 DEF AcceptRefuse, Lowest
  <2>2. \A f \in Fds : fdtab[f].kind # "free" => fdtab'[f] = fdtab[f]
    BY <2>1 DEF FreeFds, IInv, TypeOK
  <2>3. SlotsOwnTheirFds'
    BY <1>2, <2>2 DEF AcceptRefuse, IInv, SlotsOwnTheirFds, Slots
  <2>4. RegisterInv' /\ WatchedInv'
    BY <1>2, AcceptingBatch DEF AcceptRefuse, IInv, RegisterInv, WatchedInv, Slots
  <2>5. ASSUME NEW e \in batch', e.fd # ListenFd
        PROVE  e.fd \in epoll' /\ fdtab'[e.fd].of = fdtab[e.fd].of
    <3>1. e.fd \in epoll
      BY <1>2, <2>5, AcceptingBatch DEF AcceptRefuse, IInv, BatchInv
    <3>2. e.fd \in Fds /\ fdtab[e.fd].kind = "pi2r"
      BY <3>1, WatchedFd
    <3> QED BY <1>2, <2>2, <3>1, <3>2 DEF AcceptRefuse
  <2>6. BatchInv'
    BY <1>2, <2>5, AcceptingBatch, FrameBatch DEF AcceptRefuse, Attached
  <2> QED BY <2>3, <2>4, <2>6
<1> QED BY <1>1, <1>2

\* A failed set-up: an idle slot becomes used, a free descriptor leaks.
LEMMA AcceptSetupFailIInv ==
    ASSUME IInv, AcceptSetupFail
    PROVE  SlotsOwnTheirFds' /\ RegisterInv' /\ WatchedInv' /\ BatchInv'
<1>1. PICK idx \in Slots, connfd \in FreeFds :
        /\ GetIdleIdx(idx)
        /\ childs_st' = [childs_st EXCEPT ![idx].used = 1]
        /\ fdtab' = [fdtab EXCEPT ![connfd] = [kind |-> "failed", of |-> NoChild]]
  BY DEF AcceptSetupFail, Lowest
<1>2. \A f \in Fds : fdtab[f].kind # "free" => fdtab'[f] = fdtab[f]
  BY <1>1 DEF FreeFds, IInv, TypeOK
<1>3. \A i \in Slots : /\ childs_st'[i].pid = childs_st[i].pid
                       /\ childs_st'[i].pfd_r = childs_st[i].pfd_r
                       /\ childs_st'[i].pfd_w = childs_st[i].pfd_w
                       /\ childs_st[i].used = 1 => childs_st'[i].used = 1
  BY <1>1 DEF IInv, TypeOK, ChildRec
<1>4. SlotsOwnTheirFds'
  BY <1>2, <1>3 DEF IInv, SlotsOwnTheirFds, Slots
<1>5. RegisterInv' /\ WatchedInv'
  BY <1>3, AcceptingBatch DEF AcceptSetupFail, IInv, RegisterInv, WatchedInv, Slots
<1>6. ASSUME NEW e \in batch', e.fd # ListenFd
      PROVE  e.fd \in epoll' /\ fdtab'[e.fd].of = fdtab[e.fd].of
  <2>1. e.fd \in epoll
    BY <1>6, AcceptingBatch DEF AcceptSetupFail, IInv, BatchInv
  <2>2. e.fd \in Fds /\ fdtab[e.fd].kind = "pi2r"
    BY <2>1, WatchedFd
  <2> QED BY <1>2, <2>1, <2>2 DEF AcceptSetupFail
<1>7. BatchInv'
  BY <1>6, AcceptingBatch, FrameBatch DEF AcceptSetupFail, Attached
<1> QED BY <1>4, <1>5, <1>7

\* fork: five free descriptors become the connection and the two pipes of a
\* child nothing refers to, and the locals name them.
LEMMA AcceptForkIInv ==
    ASSUME IInv, AcceptFork
    PROVE  SlotsOwnTheirFds' /\ RegisterInv' /\ WatchedInv' /\ BatchInv'
<1>1. PICK idx \in Slots, c \in Childs :
           \E connfd, p1r, p1w, p2r, p2w \in FreeFds :
             /\ Fork(idx, c, connfd, p1r, p1w, p2r, p2w)
             /\ connfd \notin {p1r, p1w, p2r, p2w}
             /\ p1r \notin {p1w, p2r, p2w}
             /\ p1w \notin {p2r, p2w}
             /\ p2r # p2w
  BY ForkWitnesses
<1>2. PICK connfd \in FreeFds, p1r \in FreeFds, p1w \in FreeFds,
           p2r \in FreeFds, p2w \in FreeFds :
             /\ Fork(idx, c, connfd, p1r, p1w, p2r, p2w)
             /\ connfd \notin {p1r, p1w, p2r, p2w}
             /\ p1r \notin {p1w, p2r, p2w}
             /\ p1w \notin {p2r, p2w}
             /\ p2r # p2w
  BY <1>1
<1>3. \A f \in Fds : fdtab[f].kind # "free" => fdtab'[f] = fdtab[f]
  BY <1>2 DEF Fork, FreeFds, IInv, TypeOK
<1>4. /\ fdtab'[connfd] = [kind |-> "conn", of |-> c]
      /\ fdtab'[p1r] = [kind |-> "pi1r", of |-> c]
      /\ fdtab'[p1w] = [kind |-> "pi1w", of |-> c]
      /\ fdtab'[p2r] = [kind |-> "pi2r", of |-> c]
      /\ fdtab'[p2w] = [kind |-> "pi2w", of |-> c]
  BY <1>2 DEF Fork, FreeFds, IInv, TypeOK
<1>5. \A i \in Slots : /\ childs_st'[i].pid = childs_st[i].pid
                       /\ childs_st'[i].pfd_r = childs_st[i].pfd_r
                       /\ childs_st'[i].pfd_w = childs_st[i].pfd_w
                       /\ childs_st[i].used = 1 => childs_st'[i].used = 1
  BY <1>2 DEF Fork, IInv, TypeOK, ChildRec
<1>6. \A i \in Slots : childs_st[i].pid # c
  <2>1. ASSUME NEW i \in Slots, childs_st[i].pid = c PROVE FALSE
    <3>1. childs_st[i].pid # NoChild
      BY <2>1, Records
    <3>2. /\ childs_st[i].pfd_r \in Fds
          /\ fdtab[childs_st[i].pfd_r] = [kind |-> "pi2r", of |-> childs_st[i].pid]
      BY <3>1, NamedSlot
    <3>3. fdtab[childs_st[i].pfd_r].of = c
      BY <2>1, <3>2
    <3> QED BY <1>2, <3>2, <3>3 DEF Fork, FreeChild
  <2> QED BY <2>1
<1>7. childs_st[idx].used = 0 /\ childs_st'[idx].used = 1
  BY <1>2 DEF Fork, GetIdleIdx, IInv, TypeOK, ChildRec, Slots
<1>8. childs_st[idx].pid = NoChild
  <2>1. ASSUME childs_st[idx].pid # NoChild PROVE FALSE
    <3>1. childs_st[idx].used = 1
      BY <2>1, NamedSlot
    <3> QED BY <1>7, <3>1
  <2> QED BY <2>1
<1>9. SlotsOwnTheirFds'
  BY <1>3, <1>5 DEF IInv, SlotsOwnTheirFds, Slots
<1>10. RegisterInv'
  <2>1. cur' = [idx |-> idx, child |-> c, connfd |-> connfd, pi1r |-> p1r,
                pi1w |-> p1w, pi2r |-> p2r, pi2w |-> p2w]
    BY <1>2 DEF Fork
  <2>2. \A j \in Slots : childs_st'[j].pid # c
    BY <1>5, <1>6
  <2>3. childs_st'[idx].pid = NoChild
    BY <1>5, <1>8
  <2>4. {connfd, p1r, p1w, p2r, p2w} \subseteq Fds
    BY DEF FreeFds
  <2> QED BY <1>4, <1>7, <2>1, <2>2, <2>3, <2>4 DEF RegisterInv, Slots
<1>11. WatchedInv'
  BY <1>5 DEF AcceptFork, IInv, WatchedInv, Slots
<1>12. ASSUME NEW e \in batch', e.fd # ListenFd
       PROVE  /\ e.fd \in epoll' /\ fdtab'[e.fd].of = fdtab[e.fd].of
              /\ fdtab[e.fd].of # c
  <2>1. e.fd \in epoll
    BY <1>12, AcceptingBatch DEF AcceptFork, IInv, BatchInv
  <2>2. e.fd \in Fds /\ fdtab[e.fd].kind = "pi2r"
    BY <2>1, WatchedFd
  <2> QED BY <1>2, <1>3, <2>1, <2>2 DEF AcceptFork, Fork, FreeChild
<1>13. \A d \in Childs \ {c} : status'[d] = status[d]
  BY <1>2 DEF Fork, IInv, TypeOK
<1>14. BatchInv'
  <2>1. pc' = "register" /\ batch' \subseteq batch
    BY AcceptingBatch DEF AcceptFork
  <2>2. \A e \in batch', d \in Childs : e.fd # ListenFd /\ fdtab[e.fd].of = d =>
            (status'[d] \in {"running", "flushed"} => Attached(d))
    BY <1>12, <1>13 DEF Attached
  <2> QED BY <1>12, <2>1, <2>2, FrameBatch
<1> QED BY <1>9, <1>10, <1>11, <1>14

\* The parent stores the child: the slot gets the two ends that stay open.
LEMMA StoreChildIInv ==
    ASSUME IInv, pc = "register", StoreChild, ready' \subseteq epoll',
           epoll' \in {epoll, epoll \cup {cur.pi2r}}
    PROVE  SlotsOwnTheirFds' /\ RegisterInv' /\ WatchedInv' /\ BatchInv'
<1>1. /\ cur.idx \in Slots
      /\ cur.child \in Childs
      /\ childs_st[cur.idx].used = 1
      /\ childs_st[cur.idx].pid = NoChild
      /\ \A j \in Slots : childs_st[j].pid # cur.child
      /\ {cur.connfd, cur.pi1r, cur.pi1w, cur.pi2r, cur.pi2w} \subseteq Fds
      /\ fdtab[cur.connfd] = [kind |-> "conn", of |-> cur.child]
      /\ fdtab[cur.pi1r] = [kind |-> "pi1r", of |-> cur.child]
      /\ fdtab[cur.pi1w] = [kind |-> "pi1w", of |-> cur.child]
      /\ fdtab[cur.pi2r] = [kind |-> "pi2r", of |-> cur.child]
      /\ fdtab[cur.pi2w] = [kind |-> "pi2w", of |-> cur.child]
  BY DEF IInv, RegisterInv
<1>2. \A f \in Fds : fdtab[f].kind \in {"pi1w", "pi2r"} => fdtab'[f] = fdtab[f]
  BY <1>1 DEF StoreChild, ParentCloses, IInv, TypeOK
<1>3. childs_st'[cur.idx] = [used |-> 1, pid |-> cur.child,
                             pfd_r |-> cur.pi2r, pfd_w |-> cur.pi1w]
  BY <1>1 DEF StoreChild, ParentCloses, IInv, TypeOK
<1>4. \A i \in Slots \ {cur.idx} : childs_st'[i] = childs_st[i]
  BY DEF StoreChild, ParentCloses, IInv, TypeOK
<1>5. SlotsOwnTheirFds'
  <2> SUFFICES ASSUME NEW i \in Slots
               PROVE  IF childs_st'[i].pid = NoChild
                      THEN childs_st'[i].pfd_r = NoFd /\ childs_st'[i].pfd_w = NoFd
                      ELSE /\ childs_st'[i].used = 1
                           /\ childs_st'[i].pfd_r \in Fds /\ childs_st'[i].pfd_w \in Fds
                           /\ fdtab'[childs_st'[i].pfd_r] =
                                [kind |-> "pi2r", of |-> childs_st'[i].pid]
                           /\ fdtab'[childs_st'[i].pfd_w] =
                                [kind |-> "pi1w", of |-> childs_st'[i].pid]
                           /\ \A j \in Slots \ {i} : childs_st'[j].pid # childs_st'[i].pid
    BY DEF SlotsOwnTheirFds, Slots
  <2>1. CASE i = cur.idx
    <3>1. /\ childs_st'[i].pid = cur.child
          /\ childs_st'[i].used = 1
          /\ childs_st'[i].pfd_r = cur.pi2r
          /\ childs_st'[i].pfd_w = cur.pi1w
      BY <1>3, <2>1
    <3>2. fdtab'[cur.pi2r] = fdtab[cur.pi2r] /\ fdtab'[cur.pi1w] = fdtab[cur.pi1w]
      BY <1>1, <1>2
    <3>3. \A j \in Slots \ {i} : childs_st'[j].pid # cur.child
      BY <1>1, <1>4, <2>1
    <3> QED BY <1>1, <3>1, <3>2, <3>3, Records
  <2>2. CASE i # cur.idx
    <3>1. childs_st'[i] = childs_st[i]
      BY <1>4, <2>2
    <3>2. CASE childs_st[i].pid = NoChild
      BY <3>1, <3>2 DEF IInv, SlotsOwnTheirFds
    <3>3. CASE childs_st[i].pid # NoChild
      <4> USE <3>3
      <4>0. /\ childs_st[i].pfd_r \in Fds
            /\ childs_st[i].pfd_w \in Fds
            /\ fdtab[childs_st[i].pfd_r] = [kind |-> "pi2r", of |-> childs_st[i].pid]
            /\ fdtab[childs_st[i].pfd_w] = [kind |-> "pi1w", of |-> childs_st[i].pid]
            /\ \A j \in Slots \ {i} : childs_st[j].pid # childs_st[i].pid
        BY NamedSlot
      <4>1. /\ fdtab'[childs_st[i].pfd_r] = fdtab[childs_st[i].pfd_r]
            /\ fdtab'[childs_st[i].pfd_w] = fdtab[childs_st[i].pfd_w]
        BY <1>2, <4>0
      <4>2. \A j \in Slots \ {i} : childs_st'[j].pid # childs_st[i].pid
        <5>1. childs_st'[cur.idx].pid # childs_st[i].pid
          BY <1>1, <1>3
        <5> QED BY <1>4, <4>0, <5>1
      <4> QED BY <3>1, <3>3, <4>1, <4>2, NamedSlot
    <3> QED BY <3>2, <3>3
  <2> QED BY <2>1, <2>2
<1>6. RegisterInv'
  BY DEF StoreChild, RegisterInv
<1>7. WatchedInv'
  <2>1. ASSUME NEW f \in epoll'
        PROVE  \E i \in Slots : childs_st'[i].pid # NoChild /\ childs_st'[i].pfd_r = f
    <3>1. CASE f = cur.pi2r
      <4>1. childs_st'[cur.idx].pid = cur.child /\ childs_st'[cur.idx].pfd_r = f
        BY <1>3, <3>1
      <4>2. cur.child # NoChild
        BY <1>1, Records
      <4> QED BY <1>1, <4>1, <4>2
    <3>2. CASE f \in epoll
      <4>1. PICK i \in Slots : childs_st[i].pid # NoChild /\ childs_st[i].pfd_r = f
        BY <3>2 DEF IInv, WatchedInv
      <4>2. i # cur.idx
        BY <1>1, <4>1
      <4> QED BY <1>4, <4>1, <4>2
    <3> QED BY <3>1, <3>2
  <2> QED BY <2>1 DEF WatchedInv, Slots
<1>8. ASSUME NEW e \in batch', e.fd # ListenFd
      PROVE  e.fd \in epoll' /\ fdtab'[e.fd].of = fdtab[e.fd].of
  <2>1. e.fd \in epoll
    BY <1>8 DEF StoreChild, IInv, BatchInv
  <2>2. e.fd \in Fds /\ fdtab[e.fd].kind = "pi2r"
    BY <2>1, WatchedFd
  <2> QED BY <1>2, <2>1, <2>2
<1>9. BatchInv'
  BY <1>8, FrameBatch DEF StoreChild, Attached
<1> QED BY <1>5, <1>6, <1>7, <1>9

\* The pipe is watched, or epoll_ctl fails and it is not.
LEMMA RegisterIInv ==
    ASSUME IInv, Register \/ RegisterAddFail
    PROVE  SlotsOwnTheirFds' /\ RegisterInv' /\ WatchedInv' /\ BatchInv'
<1>1. CASE Register
  <2>1. ready' \subseteq epoll'
    BY <1>1 DEF Register, IInv, WatchedInv
  <2> QED BY <1>1, <2>1, StoreChildIInv DEF Register
<1>2. CASE RegisterAddFail
  BY <1>2, StoreChildIInv DEF RegisterAddFail, IInv, WatchedInv
<1> QED BY <1>1, <1>2

\* The event of a pipe is handled: its slot is found, and it is the only one
\* that reads the descriptor.
LEMMA SockfdFound ==
    ASSUME IInv, NEW f \in epoll, NEW idx \in Slots, GetIdxWithSockfd(idx, f)
    PROVE  /\ childs_st[idx].pid \in Childs
           /\ childs_st[idx].pfd_r = f
           /\ childs_st[idx].pid = fdtab[f].of
<1>1. childs_st[idx].pfd_r = f
  BY CTServerAssumption DEF GetIdxWithSockfd, HasSockfd, Slots
<1>2. f \in Fds
  BY WatchedFd
<1>3. childs_st[idx].pid # NoChild
  BY <1>1, <1>2, Records DEF IInv, SlotsOwnTheirFds, NoFd
<1>4. /\ childs_st[idx].pid \in Childs
      /\ fdtab[childs_st[idx].pfd_r] = [kind |-> "pi2r", of |-> childs_st[idx].pid]
  BY <1>3, NamedSlot
<1> QED BY <1>1, <1>4

\* An event of a pipe in the batch belongs to a watched descriptor, and a
\* hang-up in it means that the child holds its end no more.
LEMMA HupEvent ==
    ASSUME IInv, NEW e \in batch, HandleHup(e)
    PROVE  /\ e.fd \in epoll
           /\ \E idx \in Slots : /\ childs_st[idx].pid \in Childs
                                 /\ childs_st[idx].pfd_r = e.fd
                                 /\ ~Attached(childs_st[idx].pid)
                                 /\ EpollDeleteEvt(e.fd)
                                 /\ CleanChild(idx)
<1>1. PICK idx \in Slots : /\ GetIdxWithSockfd(idx, e.fd)
                           /\ EpollDeleteEvt(childs_st[idx].pfd_r)
                           /\ CleanChild(idx)
  BY DEF HandleHup
<1>2. e.fd \in epoll /\ ~Attached(fdtab[e.fd].of)
  BY DEF HandleHup, IInv, BatchInv
<1>3. /\ childs_st[idx].pid \in Childs
      /\ childs_st[idx].pfd_r = e.fd
      /\ childs_st[idx].pid = fdtab[e.fd].of
  BY <1>1, <1>2, SockfdFound
<1> QED BY <1>1, <1>2, <1>3

\* EPOLLHUP: the slot is cleaned and its two descriptors are closed.
LEMMA HandleHupIInv ==
    ASSUME IInv, NEW e \in batch, HandleHup(e)
    PROVE  SlotsOwnTheirFds' /\ RegisterInv' /\ WatchedInv' /\ BatchInv'
<1>1. PICK idx \in Slots : /\ childs_st[idx].pid \in Childs
                           /\ childs_st[idx].pfd_r = e.fd
                           /\ EpollDeleteEvt(e.fd)
                           /\ CleanChild(idx)
  BY HupEvent
<1> DEFINE c == childs_st[idx].pid
<1>2. c # NoChild /\ e.fd \in epoll
  BY <1>1, HupEvent, Records
<1>3. /\ childs_st[idx].pfd_w \in Fds
      /\ fdtab[childs_st[idx].pfd_r] = [kind |-> "pi2r", of |-> c]
      /\ fdtab[childs_st[idx].pfd_w] = [kind |-> "pi1w", of |-> c]
      /\ \A j \in Slots \ {idx} : childs_st[j].pid # c
  BY <1>2, NamedSlot
<1>4. \A f \in Fds : fdtab[f].of # c => fdtab'[f] = fdtab[f]
  BY <1>1, <1>3 DEF CleanChild
<1>5. childs_st'[idx] = IdleRec /\ \A i \in Slots \ {idx} : childs_st'[i] = childs_st[i]
  BY <1>1 DEF CleanChild, IInv, TypeOK
<1>6. SlotsOwnTheirFds'
  <2> SUFFICES ASSUME NEW i \in Slots
               PROVE  IF childs_st'[i].pid = NoChild
                      THEN childs_st'[i].pfd_r = NoFd /\ childs_st'[i].pfd_w = NoFd
                      ELSE /\ childs_st'[i].used = 1
                           /\ childs_st'[i].pfd_r \in Fds /\ childs_st'[i].pfd_w \in Fds
                           /\ fdtab'[childs_st'[i].pfd_r] =
                                [kind |-> "pi2r", of |-> childs_st'[i].pid]
                           /\ fdtab'[childs_st'[i].pfd_w] =
                                [kind |-> "pi1w", of |-> childs_st'[i].pid]
                           /\ \A j \in Slots \ {i} : childs_st'[j].pid # childs_st'[i].pid
    BY DEF SlotsOwnTheirFds, Slots
  <2>1. CASE i = idx
    BY <1>5, <2>1 DEF IdleRec
  <2>2. CASE i # idx /\ childs_st[i].pid = NoChild
    BY <1>5, <2>2 DEF IInv, SlotsOwnTheirFds
  <2>3. CASE i # idx /\ childs_st[i].pid # NoChild
    <3>1. childs_st'[i] = childs_st[i] /\ childs_st[i].pid # c
      BY <1>3, <1>5, <2>3
    <3>2. /\ childs_st[i].used = 1
          /\ childs_st[i].pfd_r \in Fds
          /\ childs_st[i].pfd_w \in Fds
          /\ fdtab[childs_st[i].pfd_r] = [kind |-> "pi2r", of |-> childs_st[i].pid]
          /\ fdtab[childs_st[i].pfd_w] = [kind |-> "pi1w", of |-> childs_st[i].pid]
          /\ \A j \in Slots \ {i} : childs_st[j].pid # childs_st[i].pid
      BY <2>3, NamedSlot
    <3>3. \A j \in Slots \ {i} : childs_st'[j].pid # childs_st[i].pid
      <4>1. childs_st'[idx].pid # childs_st[i].pid
        BY <1>5, <2>3 DEF IdleRec
      <4> QED BY <1>5, <3>2, <4>1
    <3>4. /\ fdtab'[childs_st[i].pfd_r] = fdtab[childs_st[i].pfd_r]
          /\ fdtab'[childs_st[i].pfd_w] = fdtab[childs_st[i].pfd_w]
      BY <1>4, <3>1, <3>2
    <3> QED BY <2>3, <3>1, <3>2, <3>3, <3>4
  <2> QED BY <2>1, <2>2, <2>3
<1>7. RegisterInv'
  BY DEF HandleHup, RegisterInv
<1>8. WatchedInv'
  <2>1. epoll' = epoll \ {e.fd} /\ ready' = ready \ {e.fd}
    BY <1>1 DEF EpollDeleteEvt
  <2>2. ASSUME NEW f \in epoll'
        PROVE  \E i \in Slots : childs_st'[i].pid # NoChild /\ childs_st'[i].pfd_r = f
    <3>1. PICK i \in Slots : childs_st[i].pid # NoChild /\ childs_st[i].pfd_r = f
      BY <2>1, <2>2 DEF IInv, WatchedInv
    <3>2. i # idx
      BY <1>1, <2>1, <2>2, <3>1
    <3> QED BY <1>5, <3>1, <3>2
  <2>3. ready' \subseteq epoll'
    BY <2>1 DEF IInv, WatchedInv
  <2> QED BY <2>2, <2>3 DEF WatchedInv, Slots
<1>9. ASSUME NEW g \in batch', g.fd # ListenFd
      PROVE  g.fd \in epoll' /\ fdtab'[g.fd].of = fdtab[g.fd].of
  <2>1. g \in batch /\ g # e
    BY <1>9 DEF HandleHup
  <2>2. g.fd \in epoll /\ g.fd # e.fd
    BY <1>9, <2>1 DEF IInv, BatchInv
  <2>3. PICK i \in Slots : /\ childs_st[i].pid \in Childs
                           /\ childs_st[i].pfd_r = g.fd
                           /\ g.fd \in Fds
                           /\ fdtab[g.fd] = [kind |-> "pi2r", of |-> childs_st[i].pid]
    BY <2>2, PipeOwner
  <2>4. fdtab[g.fd].of # c
    BY <1>1, <1>3, <2>2, <2>3
  <2> QED BY <1>1, <1>4, <2>2, <2>3, <2>4 DEF EpollDeleteEvt
<1>10. BatchInv'
  BY <1>9, FrameBatch DEF HandleHup, Attached
<1> QED BY <1>6, <1>7, <1>8, <1>10

\* EPOLLIN, and the end of a batch: nothing the invariant speaks of changes.
LEMMA ReadIInv ==
    ASSUME IInv, BatchEnd \/ \E e \in batch : HandleRead(e)
    PROVE  SlotsOwnTheirFds' /\ RegisterInv' /\ WatchedInv' /\ BatchInv'
<1>1. UNCHANGED <<childs_st, fdtab, cur, epoll, status, ready>>
        /\ batch' \subseteq batch
        /\ (pc' = pc \/ pc' # "register")
        /\ (pc' \in {"wait", "handler"} => batch' = {})
  BY DEF BatchEnd, HandleRead, master
<1> QED BY <1>1, FrameMaster, FrameBatch DEF IInv, BatchInv, Attached

\* IInv is inductive.
LEMMA NextIInv == IInv /\ [Next]_vars => IInv'
<1> SUFFICES ASSUME IInv, [Next]_vars PROVE IInv'
  OBVIOUS
<1>1. TypeOK'
  BY NextTypeOK DEF IInv
<1>2. CASE Environment
  BY <1>1, <1>2, EnvironmentIInv DEF IInv
<1>3. CASE EpollWait
  BY <1>1, <1>3, EpollWaitIInv DEF IInv
<1>4. CASE Accept
  BY <1>1, <1>4, AcceptFailIInv, AcceptSetupFailIInv, AcceptForkIInv DEF Accept, IInv
<1>5. CASE Register \/ RegisterAddFail
  BY <1>1, <1>5, RegisterIInv DEF IInv
<1>6. ASSUME NEW e \in batch, HandleHup(e) PROVE IInv'
  BY <1>1, <1>6, HandleHupIInv DEF IInv
<1>7. CASE BatchEnd \/ \E e \in batch : HandleRead(e)
  BY <1>1, <1>7, ReadIInv DEF IInv
<1>8. CASE Signal
  BY <1>1, <1>8, SignalIInv DEF IInv
<1>9. CASE UNCHANGED vars
  BY <1>1, <1>9, FrameMaster, FrameBatch DEF vars, IInv, BatchInv, Attached
<1> QED BY <1>2, <1>3, <1>4, <1>5, <1>6, <1>7, <1>8, <1>9 DEF Next, Loop

\* The inductive invariant holds in every reachable state.
THEOREM Invariance == Spec => []IInv
<1>1. QED BY InitIInv, NextIInv, PTL DEF Spec

\* The state of the master and of the kernel is always well typed.
THEOREM TypeCorrect == Spec => []TypeOK
<1>1. IInv => TypeOK
  BY DEF IInv
<1>2. QED BY Invariance, <1>1, PTL

\* The table of children and the descriptor table always agree: no slot
\* closes a stranger's descriptor, no child is in two slots.
THEOREM SlotsOwnership == Spec => []SlotsOwnTheirFds
<1>1. IInv => SlotsOwnTheirFds
  BY DEF IInv
<1>2. QED BY Invariance, <1>1, PTL

\* Whatever was closed and opened again since epoll_wait returned, the event
\* of a pipe finds a slot of the table, and the slot of that pipe's child.
THEOREM EventsFindTheirChild == Spec => []EventsResolve
<1>1. ASSUME IInv PROVE EventsResolve
  <2> SUFFICES ASSUME NEW e \in batch, e.fd # ListenFd
               PROVE  \E idx \in Slots : /\ GetIdxWithSockfd(idx, e.fd)
                                         /\ childs_st[idx].pid = fdtab[e.fd].of
    BY DEF EventsResolve
  <2>1. e.fd \in epoll
    BY <1>1 DEF IInv, BatchInv
  <2>2. PICK i \in Slots : /\ childs_st[i].pid \in Childs
                           /\ childs_st[i].used = 1
                           /\ childs_st[i].pfd_r = e.fd
                           /\ e.fd \in Fds
                           /\ fdtab[e.fd] = [kind |-> "pi2r", of |-> childs_st[i].pid]
    BY <1>1, <2>1, PipeOwner
  <2>3. ASSUME NEW j \in Slots, HasSockfd(j, e.fd) PROVE j = i
    <3>1. childs_st[j].pfd_r = e.fd
      BY <2>3 DEF HasSockfd
    <3>2. childs_st[j].pid # NoChild
      BY <1>1, <2>2, <3>1, Records DEF IInv, SlotsOwnTheirFds, NoFd
    <3>3. fdtab[e.fd] = [kind |-> "pi2r", of |-> childs_st[j].pid]
      BY <1>1, <3>1, <3>2, NamedSlot
    <3>4. childs_st[j].pid = childs_st[i].pid
      BY <2>2, <3>3
    <3>5. \A k \in Slots \ {i} : childs_st[k].pid # childs_st[i].pid
      BY <1>1, <2>2, Records, NamedSlot
    <3> QED BY <3>4, <3>5
  <2>4. HasSockfd(i, e.fd)
    BY <2>2 DEF HasSockfd
  <2>5. \A j \in Slots : j < i => ~HasSockfd(j, e.fd)
    BY <2>3, Records
  <2> QED BY <2>2, <2>4, <2>5 DEF GetIdxWithSockfd
<1>2. QED BY Invariance, <1>1, PTL

\* A zombie is never forgotten: SIGCHLD is pending or its handler runs.
THEOREM ZombiesAreNoticed == Spec => []ZombieNoticed
<1>1. Init => ZombieNoticed
  BY DEF Init, ZombieNoticed
<1>2. ASSUME TypeOK, ZombieNoticed, [Next]_vars PROVE ZombieNoticed'
  <2>1. CASE Environment
    BY <1>2, <2>1 DEF Environment, ClientConnect, ClientAbort, ChildConfigFail,
                      ChildClose, ChildExit, ZombieNoticed, TypeOK, Status
  <2>2. CASE EpollWait
    BY <1>2, <2>2 DEF EpollWait, ZombieNoticed
  <2>3. CASE BatchEnd \/ AcceptFail \/ AcceptRefuse \/ AcceptSetupFail
    BY <1>2, <2>3 DEF BatchEnd, AcceptFail, AcceptRefuse, AcceptSetupFail,
                      Accepting, ZombieNoticed
  <2>4. CASE AcceptFork
    <3>1. PICK c \in Childs : status' = [status EXCEPT ![c] = "running"]
      BY <2>4, ForkWitnesses DEF Fork
    <3>2. \A d \in Childs : status'[d] = "zombie" => status[d] = "zombie"
      BY <1>2, <3>1 DEF TypeOK
    <3> QED BY <1>2, <2>4, <3>2 DEF AcceptFork, Accepting, ZombieNoticed
  <2>5. CASE Register \/ RegisterAddFail
    BY <1>2, <2>5 DEF Register, RegisterAddFail, StoreChild, ZombieNoticed
  <2>6. CASE \E e \in batch : HandleRead(e) \/ HandleHup(e)
    BY <1>2, <2>6 DEF HandleRead, HandleHup, ZombieNoticed
  <2>7. CASE SigchldDeliver \/ HandlerReturn
    BY <1>2, <2>7 DEF SigchldDeliver, HandlerReturn, ZombieNoticed
  <2>8. ASSUME NEW c \in Childs, Reap(c) PROVE ZombieNoticed'
    BY <1>2, <2>8 DEF Reap, ZombieNoticed, TypeOK
  <2>9. CASE UNCHANGED vars
    BY <1>2, <2>9 DEF vars, ZombieNoticed
  <2> QED BY <1>2, <2>1, <2>2, <2>3, <2>4, <2>5, <2>6, <2>7, <2>8, <2>9
          DEF Next, Loop, Accept, Signal
<1>3. QED BY <1>1, <1>2, TypeCorrect, PTL DEF Spec

-----------------------------------------------------------------------------
(* CTServer implements ChildPool *)

\* A step that keeps every holder and every attached child is a stutter of
\* the pool.
LEMMA PoolStutter ==
    ASSUME \A i \in Slots : Holder(i)' = Holder(i),
           \A c \in Childs : Attached(c)' = Attached(c)
    PROVE  UNCHANGED Pool!vars
<1>1. [i \in Slots |-> Holder(i)]' = [i \in Slots |-> Holder(i)]
  BY DEF Slots
<1>2. {c \in Childs : Attached(c)}' = {c \in Childs : Attached(c)}
  OBVIOUS
<1> QED BY <1>1, <1>2 DEF Pool!vars

\* Steps that touch neither the table nor the watch set nor the locals.
LEMMA PoolFrame ==
    ASSUME UNCHANGED <<childs_st, epoll, cur>>,
           pc' = pc \/ "register" \notin {pc, pc'},
           \A c \in Childs : Attached(c)' = Attached(c)
    PROVE  UNCHANGED Pool!vars
<1>1. \A i \in Slots : Holder(i)' = Holder(i)
  BY DEF Holder
<1> QED BY <1>1, PoolStutter

\* At the start every slot of the pool is idle.
LEMMA PoolInit == Init => Pool!Init
<1> SUFFICES ASSUME Init PROVE Pool!Init
  OBVIOUS
<1>1. \A i \in Slots : Holder(i) = "idle"
  BY DEF Init, Holder, IdleRec
<1>2. {c \in Childs : Attached(c)} = {}
  BY DEF Init, Attached
<1> QED BY <1>1, <1>2 DEF Pool!Init

\* A child that closes its end hangs up; nothing else outside the master
\* shows in the pool.
LEMMA PoolEnvironment ==
    ASSUME IInv, Environment
    PROVE  Pool!Next \/ UNCHANGED Pool!vars
<1>1. CASE ClientConnect \/ ClientAbort
  BY <1>1, PoolFrame DEF ClientConnect, ClientAbort, master, Attached
<1>2. ASSUME NEW c \in Childs, ChildConfigFail(c) PROVE UNCHANGED Pool!vars
  <2>1. \A d \in Childs : Attached(d)' = Attached(d)
    BY <1>2 DEF ChildConfigFail, Attached, IInv, TypeOK
  <2> QED BY <1>2, <2>1, PoolFrame DEF ChildConfigFail, master
<1>3. ASSUME NEW c \in Childs, ChildExit(c) PROVE UNCHANGED Pool!vars
  <2>1. \A d \in Childs : Attached(d)' = Attached(d)
    BY <1>3 DEF ChildExit, Attached, IInv, TypeOK
  <2> QED BY <1>3, <2>1, PoolFrame DEF ChildExit, master
<1>4. ASSUME NEW c \in Childs, ChildClose(c) PROVE Pool!Next
  <2>1. c \in {d \in Childs : Attached(d)}
    BY <1>4 DEF ChildClose
  <2>2. \A d \in Childs : Attached(d)' <=> Attached(d) /\ d # c
    BY <1>4 DEF ChildClose, Attached, IInv, TypeOK
  <2>3. {d \in Childs : Attached(d)}' = {d \in Childs : Attached(d)} \ {c}
    BY <2>2
  <2>4. [i \in Slots |-> Holder(i)]' = [i \in Slots |-> Holder(i)]
    BY <1>4 DEF ChildClose, master, Holder, Slots
  <2>5. Pool!HangUp(c)
    BY <2>1, <2>3, <2>4 DEF Pool!HangUp
  <2> QED BY <2>5 DEF Pool!Next
<1> QED BY <1>1, <1>2, <1>3, <1>4 DEF Environment

\* The signal handler, epoll_wait, EPOLLIN, a refused client and the end of a
\* batch do not show in the pool.
LEMMA PoolQuiet ==
    ASSUME IInv,
           \/ Signal \/ EpollWait \/ BatchEnd \/ AcceptFail \/ AcceptRefuse
           \/ \E e \in batch : HandleRead(e)
    PROVE  UNCHANGED Pool!vars
<1>1. CASE SigchldDeliver \/ HandlerReturn
  BY <1>1, PoolFrame DEF SigchldDeliver, HandlerReturn, master, Attached
<1>2. ASSUME NEW c \in Childs, Reap(c) PROVE UNCHANGED Pool!vars
  <2>1. \A d \in Childs : Attached(d)' = Attached(d)
    BY <1>2 DEF Reap, Attached, IInv, TypeOK
  <2> QED BY <1>2, <2>1, PoolFrame DEF Reap, master
<1>3. CASE EpollWait \/ BatchEnd
  BY <1>3, PoolFrame DEF EpollWait, BatchEnd, master, Attached
<1>4. CASE AcceptFail \/ AcceptRefuse
  BY <1>4, PoolFrame DEF AcceptFail, AcceptRefuse, master, Attached
<1>5. CASE \E e \in batch : HandleRead(e)
  BY <1>5, PoolFrame DEF HandleRead, master, Attached
<1> QED BY <1>1, <1>2, <1>3, <1>4, <1>5 DEF Signal

\* The holder of one slot changes, the others keep theirs.
LEMMA PoolUpdate ==
    ASSUME NEW k \in Slots, NEW h,
           Holder(k)' = h,
           \A i \in Slots \ {k} : Holder(i)' = Holder(i)
    PROVE  [i \in Slots |-> Holder(i)]' = [[i \in Slots |-> Holder(i)] EXCEPT ![k] = h]
BY DEF Slots

\* A failed set-up loses the slot.
LEMMA PoolLoseSetup ==
    ASSUME IInv, AcceptSetupFail
    PROVE  Pool!Next
<1>1. PICK idx \in Slots :
        /\ GetIdleIdx(idx)
        /\ childs_st' = [childs_st EXCEPT ![idx].used = 1]
  BY DEF AcceptSetupFail
<1>2. childs_st[idx].used = 0
  BY <1>1, Records DEF GetIdleIdx, Slots
<1>3. childs_st[idx].pid = NoChild
  <2>1. ASSUME childs_st[idx].pid # NoChild PROVE FALSE
    <3>1. childs_st[idx].used = 1
      BY <2>1, NamedSlot
    <3> QED BY <1>2, <3>1
  <2> QED BY <2>1
<1>4. /\ childs_st'[idx].used = 1 /\ childs_st'[idx].pid = NoChild
      /\ \A i \in Slots \ {idx} : childs_st'[i] = childs_st[i]
  BY <1>1, <1>3 DEF IInv, TypeOK, ChildRec
<1>5. pc = "loop" /\ pc' = "loop" /\ cur' = cur /\ epoll' = epoll /\ status' = status
  BY DEF AcceptSetupFail, Accepting
<1>6. Holder(idx) = "idle" /\ Holder(idx)' = "lost"
  BY <1>2, <1>4, <1>5 DEF Holder
<1>7. \A i \in Slots \ {idx} : Holder(i)' = Holder(i)
  BY <1>4, <1>5 DEF Holder
<1>8. [i \in Slots |-> Holder(i)]' = [[i \in Slots |-> Holder(i)] EXCEPT ![idx] = "lost"]
  BY <1>6, <1>7, PoolUpdate
<1>9. {c \in Childs : Attached(c)}' = {c \in Childs : Attached(c)}
  BY <1>5 DEF Attached
<1>10. [i \in Slots |-> Holder(i)][idx] # "lost"
  BY <1>6
<1>11. Pool!Lose(idx)
  BY <1>8, <1>9, <1>10 DEF Pool!Lose
<1> QED BY <1>11 DEF Pool!Next

\* fork starts a child in an idle slot.
LEMMA PoolStart ==
    ASSUME IInv, AcceptFork
    PROVE  Pool!Next
<1>1. PICK idx \in Slots, c \in Childs :
        /\ GetIdleIdx(idx)
        /\ FreeChild(c)
        /\ childs_st' = [childs_st EXCEPT ![idx].used = 1]
        /\ status' = [status EXCEPT ![c] = "running"]
        /\ cur'.idx = idx
        /\ cur'.child = c
  BY ForkWitnesses DEF Fork
<1>2. childs_st[idx].used = 0
  BY <1>1, Records DEF GetIdleIdx, Slots
<1>3. childs_st[idx].pid = NoChild
  <2>1. ASSUME childs_st[idx].pid # NoChild PROVE FALSE
    <3>1. childs_st[idx].used = 1
      BY <2>1, NamedSlot
    <3> QED BY <1>2, <3>1
  <2> QED BY <2>1
<1>4. /\ childs_st'[idx].used = 1 /\ childs_st'[idx].pid = NoChild
      /\ \A i \in Slots \ {idx} : childs_st'[i] = childs_st[i]
  BY <1>1, <1>3 DEF IInv, TypeOK, ChildRec
<1>5. pc = "loop" /\ pc' = "register" /\ epoll' = epoll
  BY DEF AcceptFork, Accepting
<1>6. Holder(idx) = "idle" /\ Holder(idx)' = c
  BY <1>1, <1>2, <1>4, <1>5 DEF Holder
<1>7. \A i \in Slots \ {idx} : Holder(i)' = Holder(i)
  BY <1>1, <1>4, <1>5 DEF Holder
<1>8. [i \in Slots |-> Holder(i)]' = [[i \in Slots |-> Holder(i)] EXCEPT ![idx] = c]
  BY <1>6, <1>7, PoolUpdate
<1>9. ~Attached(c)
  BY <1>1 DEF FreeChild, Attached
<1>10. \A d \in Childs : Attached(d)' <=> Attached(d) \/ d = c
  BY <1>1 DEF Attached, IInv, TypeOK
<1>11. {d \in Childs : Attached(d)}' = {d \in Childs : Attached(d)} \cup {c}
  BY <1>10
<1>12. \A j \in Slots : Holder(j) # c
  <2>1. ASSUME NEW j \in Slots, Holder(j) = c PROVE FALSE
    <3>1. childs_st[j].pid = c /\ childs_st[j].pid # NoChild
      BY <1>5, <2>1, Records DEF Holder
    <3>2. /\ childs_st[j].pfd_r \in Fds
          /\ fdtab[childs_st[j].pfd_r] = [kind |-> "pi2r", of |-> childs_st[j].pid]
      BY <3>1, NamedSlot
    <3>3. fdtab[childs_st[j].pfd_r].of = c
      BY <3>1, <3>2
    <3> QED BY <1>1, <3>2, <3>3 DEF FreeChild
  <2> QED BY <2>1
<1>13. Pool!Start(idx, c)
  BY <1>6, <1>8, <1>9, <1>11, <1>12 DEF Pool!Start
<1> QED BY <1>13 DEF Pool!Next

\* The parent stores the child it has just forked: the slot keeps its holder,
\* or is lost when its pipe is not watched.
LEMMA PoolRegister ==
    ASSUME IInv, Register \/ RegisterAddFail
    PROVE  Pool!Next \/ UNCHANGED Pool!vars
<1>1. /\ cur.idx \in Slots
      /\ cur.child \in Childs
      /\ childs_st[cur.idx].used = 1
      /\ childs_st[cur.idx].pid = NoChild
      /\ \A j \in Slots : childs_st[j].pid # cur.child
      /\ cur.pi2r \in Fds
      /\ fdtab[cur.pi2r] = [kind |-> "pi2r", of |-> cur.child]
      /\ pc = "register"
  BY DEF Register, RegisterAddFail, IInv, RegisterInv
<1>2. /\ childs_st'[cur.idx] = [used |-> 1, pid |-> cur.child,
                                pfd_r |-> cur.pi2r, pfd_w |-> cur.pi1w]
      /\ \A i \in Slots \ {cur.idx} : childs_st'[i] = childs_st[i]
      /\ pc' = "loop" /\ status' = status
  BY <1>1 DEF Register, RegisterAddFail, StoreChild, ParentCloses, IInv, TypeOK
<1>3. cur.pi2r \notin epoll
  <2>1. ASSUME cur.pi2r \in epoll PROVE FALSE
    <3>1. PICK i \in Slots : /\ childs_st[i].pid \in Childs
                             /\ fdtab[cur.pi2r] = [kind |-> "pi2r", of |-> childs_st[i].pid]
      BY <2>1, PipeOwner
    <3> QED BY <1>1, <3>1
  <2> QED BY <2>1
<1>4. \A i \in Slots \ {cur.idx} :
        childs_st[i].pid # NoChild => childs_st[i].pfd_r # cur.pi2r
  <2>1. ASSUME NEW i \in Slots, childs_st[i].pid # NoChild,
               childs_st[i].pfd_r = cur.pi2r
        PROVE  FALSE
    <3>1. fdtab[childs_st[i].pfd_r] = [kind |-> "pi2r", of |-> childs_st[i].pid]
      BY <2>1, NamedSlot
    <3> QED BY <1>1, <2>1, <3>1
  <2> QED BY <2>1
<1>5. Holder(cur.idx) = cur.child
  BY <1>1 DEF Holder
<1>6. epoll' \in {epoll, epoll \cup {cur.pi2r}}
  BY DEF Register, RegisterAddFail
<1>7. \A i \in Slots \ {cur.idx} : Holder(i)' = Holder(i)
  BY <1>1, <1>2, <1>4, <1>6 DEF Holder
<1>8. \A c \in Childs : Attached(c)' = Attached(c)
  BY <1>2 DEF Attached
<1>9. CASE Register
  <2>1. /\ childs_st'[cur.idx].used = 1
        /\ childs_st'[cur.idx].pid = cur.child
        /\ childs_st'[cur.idx].pfd_r \in epoll'
    BY <1>2, <1>9 DEF Register
  <2>2. \A k \in Slots : k = cur.idx => Holder(k)' = cur.child
    BY <1>1, <2>1, Records DEF Holder
  <2>3. \A i \in Slots : Holder(i)' = Holder(i)
    BY <1>5, <1>7, <2>2
  <2> QED BY <1>8, <2>3, PoolStutter
<1>10. CASE RegisterAddFail
  <2> DEFINE k == cur.idx
  <2>1. /\ childs_st'[k].used = 1
        /\ childs_st'[k].pid = cur.child
        /\ childs_st'[k].pfd_r \notin epoll'
    BY <1>2, <1>3, <1>10 DEF RegisterAddFail
  <2>2. \A j \in Slots : j = k => Holder(j)' = "lost"
    BY <1>1, <2>1, Records DEF Holder
  <2>3. \E j \in Slots :
          /\ [i \in Slots |-> Holder(i)]' = [[i \in Slots |-> Holder(i)] EXCEPT ![j] = "lost"]
          /\ Holder(j) # "lost"
    <3>1. PICK j \in Slots : j = k
      BY <1>1
    <3>2. Holder(j)' = "lost" /\ \A i \in Slots \ {j} : Holder(i)' = Holder(i)
      BY <1>7, <2>2, <3>1
    <3>3. Holder(j) # "lost"
      BY <1>1, <1>5, <3>1, Records
    <3>4. [i \in Slots |-> Holder(i)]' = [[i \in Slots |-> Holder(i)] EXCEPT ![j] = "lost"]
      BY <3>2, PoolUpdate
    <3> QED BY <3>3, <3>4
  <2>4. {c \in Childs : Attached(c)}' = {c \in Childs : Attached(c)}
    BY <1>8
  <2>5. PICK j \in Slots : Pool!Lose(j)
    BY <2>3, <2>4 DEF Pool!Lose
  <2> QED BY <2>5 DEF Pool!Next
<1> QED BY <1>9, <1>10

\* EPOLLHUP releases the slot of a child that has hung up.
LEMMA PoolRelease ==
    ASSUME IInv, NEW e \in batch, HandleHup(e)
    PROVE  Pool!Next
<1>1. PICK idx \in Slots : /\ childs_st[idx].pid \in Childs
                           /\ childs_st[idx].pfd_r = e.fd
                           /\ ~Attached(childs_st[idx].pid)
                           /\ EpollDeleteEvt(e.fd)
                           /\ CleanChild(idx)
  BY HupEvent
<1>2. e.fd \in epoll /\ childs_st[idx].pid # NoChild
  BY <1>1, HupEvent, Records
<1>3. childs_st'[idx] = IdleRec /\ \A i \in Slots \ {idx} : childs_st'[i] = childs_st[i]
  BY <1>1 DEF CleanChild, IInv, TypeOK
<1>4. childs_st[idx].used = 1
  BY <1>2, NamedSlot
<1>5. Holder(idx) = childs_st[idx].pid /\ Holder(idx)' = "idle"
  BY <1>1, <1>2, <1>3, <1>4 DEF Holder, IdleRec
<1>6. pc' = pc /\ cur' = cur /\ status' = status /\ pc = "loop"
  BY DEF HandleHup
<1>7. ASSUME NEW i \in Slots \ {idx}, childs_st[i].pid # NoChild
      PROVE  childs_st[i].pfd_r # e.fd
  <2>1. /\ fdtab[childs_st[i].pfd_r] = [kind |-> "pi2r", of |-> childs_st[i].pid]
        /\ \A j \in Slots \ {i} : childs_st[j].pid # childs_st[i].pid
    BY <1>7, NamedSlot
  <2>2. fdtab[childs_st[idx].pfd_r] = [kind |-> "pi2r", of |-> childs_st[idx].pid]
    BY <1>2, NamedSlot
  <2> QED BY <1>1, <1>7, <2>1, <2>2
<1>8. epoll' = epoll \ {e.fd}
  BY <1>1 DEF EpollDeleteEvt
<1>9. \A i \in Slots \ {idx} : Holder(i)' = Holder(i)
  BY <1>3, <1>6, <1>7, <1>8 DEF Holder
<1>10. [i \in Slots |-> Holder(i)]' = [[i \in Slots |-> Holder(i)] EXCEPT ![idx] = "idle"]
  BY <1>5, <1>9, PoolUpdate
<1>11. {c \in Childs : Attached(c)}' = {c \in Childs : Attached(c)}
  BY <1>6 DEF Attached
<1>12. [i \in Slots |-> Holder(i)][idx] \in Childs \ {c \in Childs : Attached(c)}
  BY <1>1, <1>5
<1>13. Pool!Release(idx)
  BY <1>10, <1>11, <1>12 DEF Pool!Release
<1> QED BY <1>13 DEF Pool!Next

\* Every step of the master, its children and its clients is a step of the
\* pool or leaves it as it is: one slot per child, and no slot taken back
\* before its child has hung up.
THEOREM Refinement == Spec => ImplementsPool
<1>1. ASSUME IInv, [Next]_vars PROVE [Pool!Next]_(Pool!vars)
  <2>1. CASE Environment
    BY <1>1, <2>1, PoolEnvironment
  <2>2. CASE Signal \/ EpollWait \/ BatchEnd \/ AcceptFail \/ AcceptRefuse
    BY <1>1, <2>2, PoolQuiet
  <2>3. CASE \E e \in batch : HandleRead(e)
    BY <1>1, <2>3, PoolQuiet
  <2>4. CASE AcceptSetupFail
    BY <1>1, <2>4, PoolLoseSetup
  <2>5. CASE AcceptFork
    BY <1>1, <2>5, PoolStart
  <2>6. CASE Register \/ RegisterAddFail
    BY <1>1, <2>6, PoolRegister
  <2>7. CASE \E e \in batch : HandleHup(e)
    BY <1>1, <2>7, PoolRelease
  <2>8. CASE UNCHANGED vars
    BY <2>8, PoolFrame DEF vars, Attached
  <2> QED BY <1>1, <2>1, <2>2, <2>3, <2>4, <2>5, <2>6, <2>7, <2>8
          DEF Next, Loop, Accept
<1>2. QED BY PoolInit, Invariance, <1>1, PTL DEF Spec, ImplementsPool, Pool!Spec

---------------------------------------------------------------------------
(* What is counted and what is not lost: epoll_num_running, the            *)
(* descriptors of the master and the hang-ups of its pipes.                *)
(*                                                                         *)
(* RunningIsCounted and DescriptorAccounting compare sizes of sets that    *)
(* change together; DescriptorAccounting looks at them in epoll_wait only, *)
(* so AccountInv says what they are between fork and ADD too.              *)

\* The slots that name a child, and those that are used and name none.
Named == {i \in Slots : childs_st[i].pid # NoChild}
LostSlots == {i \in Slots : childs_st[i].used = 1 /\ childs_st[i].pid = NoChild}

\* The descriptors whose kind is one of K.
Kinds(K) == {f \in Fds : fdtab[f].kind \in K}

Ends == {"pi1w", "pi2r"}         \* what the master keeps of a child
ClosedAtOnce == {"conn", "pi1r", "pi2w"}

\* Between fork and ADD two ends belong to the child no slot names yet, one
\* slot is used for it, and its other three descriptors are still open.
AccountInv ==
    /\ IF pc = "register"
       THEN Kinds(ClosedAtOnce) \subseteq ParentCloses
       ELSE Kinds(ClosedAtOnce) = {}
    /\ Cardinality(Kinds(Ends)) =
          2 * Cardinality(Named) + (IF pc = "register" THEN 2 ELSE 0)
    /\ Cardinality(LostSlots) =
          Cardinality(Kinds({"failed"})) + (IF pc = "register" THEN 1 ELSE 0)

CountInv == IInv /\ RunningIsCounted /\ AccountInv

\* No child writes: every event of a pipe is its hang-up and nothing else.
SilentInv ==
    ~ChildMayWrite =>
        /\ unread = {}
        /\ \A c \in Childs : status[c] # "flushed"
        /\ \A e \in batch : e.fd # ListenFd => e.ev = {"HUP"}

HInv == IInv /\ SilentInv /\ HangUpNotLost

-----------------------------------------------------------------------------
(* Counting *)

\* One element more counts one more.
LEMMA OneMore ==
    ASSUME NEW S, NEW x, IsFiniteSet(S), x \notin S
    PROVE  Cardinality(S \cup {x}) = Cardinality(S) + 1
BY FS_AddElement

\* One element less counts one less.
LEMMA OneLess ==
    ASSUME NEW S, NEW x, IsFiniteSet(S), x \in S
    PROVE  Cardinality(S \ {x}) = Cardinality(S) - 1
BY FS_RemoveElement

\* What is counted is finite, in every state.
LEMMA FiniteParts ==
    /\ \A S \in SUBSET Slots : IsFiniteSet(S) /\ Cardinality(S) \in Nat
    /\ \A S \in SUBSET Fds : IsFiniteSet(S) /\ Cardinality(S) \in Nat
<1>1. IsFiniteSet(Slots)
  BY FS_Interval, CTServerAssumption DEF Slots
<1>2. IsFiniteSet(Fds)
  BY CTServerAssumption
<1> QED BY <1>1, <1>2, FS_Subset, FS_CardinalityType

\* The sets of AccountInv are such subsets.
LEMMA CountedSets ==
    /\ Named \subseteq Slots /\ LostSlots \subseteq Slots
    /\ \A K : Kinds(K) \subseteq Fds
BY DEF Named, LostSlots, Kinds

\* A slot that is not used names no child.
LEMMA IdleNamesNobody ==
    ASSUME IInv, NEW i \in Slots, childs_st[i].used = 0
    PROVE  childs_st[i].pid = NoChild
<1>1. ASSUME childs_st[i].pid # NoChild PROVE FALSE
  <2>1. childs_st[i].used = 1
    BY <1>1, NamedSlot
  <2> QED BY <2>1
<1> QED BY <1>1

\* Steps that touch neither the table nor the descriptors.
LEMMA CountFrame ==
    ASSUME CountInv, UNCHANGED <<childs_st, epoll_num_running, fdtab, cur>>,
           pc' = pc \/ "register" \notin {pc, pc'}
    PROVE  RunningIsCounted' /\ AccountInv'
<1>1. Named' = Named /\ LostSlots' = LostSlots
  BY DEF Named, LostSlots, Slots
<1>2. /\ Kinds(Ends)' = Kinds(Ends)
      /\ Kinds(ClosedAtOnce)' = Kinds(ClosedAtOnce)
      /\ Kinds({"failed"})' = Kinds({"failed"})
  BY DEF Kinds
<1>3. RunningIsCounted'
  BY <1>1 DEF CountInv, RunningIsCounted, Named
<1>4. AccountInv'
  BY <1>1, <1>2 DEF CountInv, AccountInv, ParentCloses
<1> QED BY <1>3, <1>4

\* A refused client's descriptor is none of those that are counted.
LEMMA RefuseCounts ==
    ASSUME CountInv, AcceptRefuse
    PROVE  RunningIsCounted' /\ AccountInv'
<1>1. PICK connfd \in FreeFds :
        fdtab' = [fdtab EXCEPT ![connfd] = [kind |-> "refused", of |-> NoChild]]
  BY DEF AcceptRefuse, Lowest
<1>2. UNCHANGED <<childs_st, epoll_num_running, cur, pc>> /\ pc = "loop"
  BY DEF AcceptRefuse, Accepting
<1>3. Named' = Named /\ LostSlots' = LostSlots
  BY <1>2 DEF Named, LostSlots, Slots
<1>4. /\ Kinds(Ends)' = Kinds(Ends)
      /\ Kinds(ClosedAtOnce)' = Kinds(ClosedAtOnce)
      /\ Kinds({"failed"})' = Kinds({"failed"})
  BY <1>1 DEF Kinds, Ends, ClosedAtOnce, FreeFds, CountInv, IInv, TypeOK
<1>5. RunningIsCounted'
  BY <1>2, <1>3 DEF CountInv, RunningIsCounted, Named
<1>6. AccountInv'
  BY <1>2, <1>3, <1>4 DEF CountInv, AccountInv
<1> QED BY <1>5, <1>6

\* A failed set-up loses one slot and leaves one connection open.
LEMMA SetupFailCounts ==
    ASSUME CountInv, AcceptSetupFail
    PROVE  RunningIsCounted' /\ AccountInv'
<1>1. PICK idx \in Slots, connfd \in FreeFds :
        /\ GetIdleIdx(idx)
        /\ childs_st' = [childs_st EXCEPT ![idx].used = 1]
        /\ fdtab' = [fdtab EXCEPT ![connfd] = [kind |-> "failed", of |-> NoChild]]
  BY DEF AcceptSetupFail, Lowest
<1>2. UNCHANGED <<epoll_num_running, cur, pc>> /\ pc = "loop"
  BY DEF AcceptSetupFail, Accepting
<1>3. childs_st[idx].used = 0
  BY <1>1, Records DEF GetIdleIdx
<1>4. childs_st[idx].pid = NoChild
  BY <1>3, IdleNamesNobody DEF CountInv
<1>5. /\ \A i \in Slots : childs_st'[i].pid = childs_st[i].pid
      /\ childs_st'[idx].used = 1
      /\ \A i \in Slots \ {idx} : childs_st'[i] = childs_st[i]
  BY <1>1 DEF CountInv, IInv, TypeOK, ChildRec
<1>6. Named' = Named
  BY <1>5 DEF Named
<1>7. LostSlots' = LostSlots \cup {idx} /\ idx \notin LostSlots
  BY <1>3, <1>4, <1>5 DEF LostSlots
<1>8. /\ Kinds(Ends)' = Kinds(Ends)
      /\ Kinds(ClosedAtOnce)' = Kinds(ClosedAtOnce)
      /\ Kinds({"failed"})' = Kinds({"failed"}) \cup {connfd}
      /\ connfd \notin Kinds({"failed"})
  BY <1>1 DEF Kinds, Ends, ClosedAtOnce, FreeFds, CountInv, IInv, TypeOK
<1>9. /\ Cardinality(LostSlots') = Cardinality(LostSlots) + 1
      /\ Cardinality(Kinds({"failed"})') = Cardinality(Kinds({"failed"})) + 1
  BY <1>7, <1>8, OneMore, FiniteParts, CountedSets
<1>10. RunningIsCounted'
  BY <1>2, <1>6 DEF CountInv, RunningIsCounted, Named
<1>11. AccountInv'
  <2>1. /\ Cardinality(Kinds(Ends)) = 2 * Cardinality(Named)
        /\ Cardinality(LostSlots) = Cardinality(Kinds({"failed"}))
        /\ Kinds(ClosedAtOnce) = {}
        /\ Cardinality(Named) \in Nat
        /\ Cardinality(Kinds({"failed"})) \in Nat
    BY <1>2, FiniteParts, CountedSets DEF CountInv, AccountInv
  <2> QED BY <1>2, <1>6, <1>8, <1>9, <2>1 DEF AccountInv
<1> QED BY <1>10, <1>11

\* fork opens two ends, and marks a slot that names nobody yet.
LEMMA ForkCounts ==
    ASSUME CountInv, AcceptFork
    PROVE  RunningIsCounted' /\ AccountInv'
<1>1. PICK idx \in Slots, c \in Childs,
           connfd \in FreeFds, p1r \in FreeFds, p1w \in FreeFds,
           p2r \in FreeFds, p2w \in FreeFds :
        /\ Fork(idx, c, connfd, p1r, p1w, p2r, p2w)
        /\ connfd \notin {p1r, p1w, p2r, p2w}
        /\ p1r \notin {p1w, p2r, p2w}
        /\ p1w \notin {p2r, p2w}
        /\ p2r # p2w
  BY ForkWitnesses
<1>2. pc = "loop" /\ pc' = "register" /\ epoll_num_running' = epoll_num_running
  BY DEF AcceptFork, Accepting
<1>3. childs_st[idx].used = 0
  BY <1>1, Records DEF Fork, GetIdleIdx
<1>4. childs_st[idx].pid = NoChild
  BY <1>3, IdleNamesNobody DEF CountInv
<1>5. /\ \A i \in Slots : childs_st'[i].pid = childs_st[i].pid
      /\ childs_st'[idx].used = 1
      /\ \A i \in Slots \ {idx} : childs_st'[i] = childs_st[i]
  BY <1>1 DEF Fork, CountInv, IInv, TypeOK, ChildRec
<1>6. Named' = Named
  BY <1>5 DEF Named
<1>7. LostSlots' = LostSlots \cup {idx} /\ idx \notin LostSlots
  BY <1>3, <1>4, <1>5 DEF LostSlots
<1>8. /\ fdtab'[connfd].kind = "conn"
      /\ fdtab'[p1r].kind = "pi1r"
      /\ fdtab'[p1w].kind = "pi1w"
      /\ fdtab'[p2r].kind = "pi2r"
      /\ fdtab'[p2w].kind = "pi2w"
      /\ \A f \in Fds \ {connfd, p1r, p1w, p2r, p2w} : fdtab'[f] = fdtab[f]
  BY <1>1 DEF Fork, FreeFds, CountInv, IInv, TypeOK
<1>9. \A f \in {connfd, p1r, p1w, p2r, p2w} : f \in Fds /\ fdtab[f].kind = "free"
  BY DEF FreeFds
<1>10. /\ Kinds(Ends)' = (Kinds(Ends) \cup {p1w}) \cup {p2r}
       /\ p1w \notin Kinds(Ends) /\ p2r \notin Kinds(Ends) \cup {p1w}
  BY <1>1, <1>8, <1>9 DEF Kinds, Ends
<1>11. Kinds({"failed"})' = Kinds({"failed"})
  BY <1>8, <1>9 DEF Kinds
<1>12. Kinds(ClosedAtOnce)' \subseteq ParentCloses'
  <2>1. Kinds(ClosedAtOnce) = {}
    BY <1>2 DEF CountInv, AccountInv
  <2>2. Kinds(ClosedAtOnce)' \subseteq {connfd, p1r, p2w}
    BY <1>8, <2>1 DEF Kinds, ClosedAtOnce
  <2> QED BY <1>1, <2>2 DEF Fork, ParentCloses
<1>13. /\ Cardinality(LostSlots') = Cardinality(LostSlots) + 1
       /\ Cardinality(Kinds(Ends)') = Cardinality(Kinds(Ends)) + 2
  <2>1. Cardinality(Kinds(Ends) \cup {p1w}) = Cardinality(Kinds(Ends)) + 1
    BY <1>10, OneMore, FiniteParts, CountedSets
  <2>2. IsFiniteSet(Kinds(Ends) \cup {p1w})
    BY FiniteParts, CountedSets DEF FreeFds
  <2>3. Cardinality(Kinds(Ends)') = Cardinality(Kinds(Ends) \cup {p1w}) + 1
    BY <1>10, <2>2, OneMore
  <2>4. Cardinality(LostSlots') = Cardinality(LostSlots) + 1
    BY <1>7, OneMore, FiniteParts, CountedSets
  <2>5. Cardinality(Kinds(Ends)) \in Nat
    BY FiniteParts, CountedSets
  <2> QED BY <2>1, <2>3, <2>4, <2>5
<1>14. RunningIsCounted'
  BY <1>2, <1>6 DEF CountInv, RunningIsCounted, Named
<1>15. AccountInv'
  <2>1. /\ Cardinality(Kinds(Ends)) = 2 * Cardinality(Named)
        /\ Cardinality(LostSlots) = Cardinality(Kinds({"failed"}))
        /\ Cardinality(Named) \in Nat
    BY <1>2, FiniteParts, CountedSets DEF CountInv, AccountInv
  <2> QED BY <1>2, <1>6, <1>11, <1>12, <1>13, <2>1 DEF AccountInv
<1> QED BY <1>14, <1>15

\* The parent stores the child: its slot names it, its two ends stay and the
\* other three descriptors are closed.
LEMMA StoreCounts ==
    ASSUME CountInv, pc = "register", StoreChild
    PROVE  RunningIsCounted' /\ AccountInv'
<1>1. /\ cur.idx \in Slots /\ cur.child \in Childs
      /\ childs_st[cur.idx].used = 1 /\ childs_st[cur.idx].pid = NoChild
      /\ fdtab[cur.connfd].kind = "conn"
      /\ fdtab[cur.pi1r].kind = "pi1r"
      /\ fdtab[cur.pi2w].kind = "pi2w"
  BY DEF CountInv, IInv, RegisterInv
<1>2. /\ childs_st'[cur.idx].pid = cur.child
      /\ \A i \in Slots \ {cur.idx} : childs_st'[i] = childs_st[i]
      /\ epoll_num_running' = epoll_num_running + 1
      /\ pc' = "loop"
  BY <1>1 DEF StoreChild, CountInv, IInv, TypeOK
<1>3. \A f \in Fds : fdtab'[f] = IF f \in ParentCloses THEN Closed ELSE fdtab[f]
  BY DEF StoreChild
<1>4. cur.child # NoChild
  BY <1>1, Records
<1>5. Named' = Named \cup {cur.idx} /\ cur.idx \notin Named
  BY <1>1, <1>2, <1>4 DEF Named
<1>6. LostSlots' = LostSlots \ {cur.idx} /\ cur.idx \in LostSlots
  BY <1>1, <1>2, <1>4 DEF LostSlots
<1>7. \A f \in ParentCloses : fdtab[f].kind \in ClosedAtOnce
  BY <1>1 DEF ParentCloses, ClosedAtOnce
<1>8. Kinds(Ends)' = Kinds(Ends) /\ Kinds({"failed"})' = Kinds({"failed"})
  BY <1>3, <1>7 DEF Kinds, Ends, ClosedAtOnce, Closed
<1>9. Kinds(ClosedAtOnce)' = {}
  <2>1. Kinds(ClosedAtOnce) \subseteq ParentCloses
    BY DEF CountInv, AccountInv
  <2> QED BY <1>3, <2>1 DEF Kinds, ClosedAtOnce, Closed
<1>10. /\ Cardinality(Named') = Cardinality(Named) + 1
       /\ Cardinality(LostSlots') = Cardinality(LostSlots) - 1
       /\ Cardinality(Named) \in Nat /\ Cardinality(LostSlots) \in Nat
       /\ Cardinality(Kinds({"failed"})) \in Nat
  BY <1>5, <1>6, OneMore, OneLess, FiniteParts, CountedSets
<1>11. RunningIsCounted'
  BY <1>2, <1>10 DEF CountInv, RunningIsCounted, Named
<1>12. AccountInv'
  <2>1. /\ Cardinality(Kinds(Ends)) = 2 * Cardinality(Named) + 2
        /\ Cardinality(LostSlots) = Cardinality(Kinds({"failed"})) + 1
    BY DEF CountInv, AccountInv
  <2> QED BY <1>2, <1>8, <1>9, <1>10, <2>1 DEF AccountInv
<1> QED BY <1>11, <1>12

\* A hang-up idles a slot that names a child and closes its two ends; the
\* pipe was watched, so the count goes down with it.
LEMMA HupCounts ==
    ASSUME CountInv, NEW e \in batch, HandleHup(e)
    PROVE  RunningIsCounted' /\ AccountInv'
<1>1. PICK idx \in Slots : /\ childs_st[idx].pid \in Childs
                           /\ childs_st[idx].pfd_r = e.fd
                           /\ EpollDeleteEvt(e.fd)
                           /\ CleanChild(idx)
  BY HupEvent DEF CountInv
<1> DEFINE r == childs_st[idx].pfd_r
           w == childs_st[idx].pfd_w
<1>2. e.fd \in epoll /\ childs_st[idx].pid # NoChild
  BY <1>1, HupEvent, Records DEF CountInv
<1>3. /\ childs_st[idx].used = 1 /\ r \in Fds /\ w \in Fds
      /\ fdtab[r].kind = "pi2r" /\ fdtab[w].kind = "pi1w"
  <2>1. /\ childs_st[idx].used = 1 /\ r \in Fds /\ w \in Fds
        /\ fdtab[r] = [kind |-> "pi2r", of |-> childs_st[idx].pid]
        /\ fdtab[w] = [kind |-> "pi1w", of |-> childs_st[idx].pid]
    BY <1>2, NamedSlot DEF CountInv
  <2> QED BY <2>1
<1>4. /\ childs_st'[idx] = IdleRec
      /\ \A i \in Slots \ {idx} : childs_st'[i] = childs_st[i]
      /\ epoll_num_running' = epoll_num_running - 1
      /\ pc = "loop" /\ pc' = "loop"
  BY <1>1, <1>2 DEF CleanChild, EpollDeleteEvt, HandleHup, CountInv, IInv, TypeOK
<1>5. \A f \in Fds : fdtab'[f] = IF f \in {r, w} THEN Closed ELSE fdtab[f]
  BY <1>1 DEF CleanChild
<1>6. Named' = Named \ {idx} /\ idx \in Named
  BY <1>2, <1>4 DEF Named, IdleRec
<1>7. LostSlots' = LostSlots
  BY <1>2, <1>4 DEF LostSlots, IdleRec
<1>8. /\ Kinds(Ends)' = (Kinds(Ends) \ {r}) \ {w}
      /\ r \in Kinds(Ends) /\ w \in Kinds(Ends) \ {r}
  BY <1>3, <1>5 DEF Kinds, Ends, Closed
<1>9. /\ Kinds({"failed"})' = Kinds({"failed"})
      /\ Kinds(ClosedAtOnce)' = Kinds(ClosedAtOnce)
  BY <1>3, <1>5 DEF Kinds, ClosedAtOnce, Closed
<1>10. /\ Cardinality(Named') = Cardinality(Named) - 1
       /\ Cardinality(Kinds(Ends)') = Cardinality(Kinds(Ends)) - 2
       /\ Cardinality(Named) \in Nat
  <2>1. Cardinality(Kinds(Ends) \ {r}) = Cardinality(Kinds(Ends)) - 1
    BY <1>8, OneLess, FiniteParts, CountedSets
  <2>2. IsFiniteSet(Kinds(Ends) \ {r})
    BY FiniteParts, CountedSets
  <2>3. Cardinality(Kinds(Ends)') = Cardinality(Kinds(Ends) \ {r}) - 1
    BY <1>8, <2>2, OneLess
  <2>4. Cardinality(Kinds(Ends)) \in Nat
    BY FiniteParts, CountedSets
  <2>5. Cardinality(Named') = Cardinality(Named) - 1 /\ Cardinality(Named) \in Nat
    BY <1>6, OneLess, FiniteParts, CountedSets
  <2> QED BY <2>1, <2>3, <2>4, <2>5
<1>11. RunningIsCounted'
  BY <1>4, <1>10 DEF CountInv, RunningIsCounted, Named
<1>12. AccountInv'
  <2>1. /\ Cardinality(Kinds(Ends)) = 2 * Cardinality(Named)
        /\ Cardinality(LostSlots) = Cardinality(Kinds({"failed"}))
        /\ Kinds(ClosedAtOnce) = {}
        /\ Cardinality(Kinds({"failed"})) \in Nat
    BY <1>4, FiniteParts, CountedSets DEF CountInv, AccountInv
  <2> QED BY <1>4, <1>7, <1>9, <1>10, <2>1 DEF AccountInv
<1> QED BY <1>11, <1>12

\* CountInv is inductive.
LEMMA NextCountInv == CountInv /\ [Next]_vars => CountInv'
<1> SUFFICES ASSUME CountInv, [Next]_vars PROVE CountInv'
  OBVIOUS
<1>1. IInv'
  BY NextIInv DEF CountInv
<1>2. CASE AcceptRefuse \/ AcceptSetupFail \/ AcceptFork
  BY <1>1, <1>2, RefuseCounts, SetupFailCounts, ForkCounts DEF CountInv
<1>3. CASE Register \/ RegisterAddFail
  BY <1>1, <1>3, StoreCounts DEF Register, RegisterAddFail, CountInv
<1>4. CASE \E e \in batch : HandleHup(e)
  BY <1>1, <1>4, HupCounts DEF CountInv
<1>5. CASE \/ Environment \/ EpollWait \/ Signal \/ BatchEnd \/ AcceptFail
           \/ (\E e \in batch : HandleRead(e)) \/ UNCHANGED vars
  <2>1. /\ UNCHANGED <<childs_st, epoll_num_running, fdtab, cur>>
        /\ pc' = pc \/ "register" \notin {pc, pc'}
    BY <1>5 DEF Environment, ClientConnect, ClientAbort, ChildConfigFail, ChildClose,
       ChildExit, EpollWait, Signal, SigchldDeliver, HandlerReturn, Reap, BatchEnd,
       AcceptFail, HandleRead, master, vars
  <2> QED BY <1>1, <2>1, CountFrame DEF CountInv
<1> QED BY <1>2, <1>3, <1>4, <1>5 DEF Next, Loop, Accept

\* Nothing is counted at the start.
LEMMA InitCountInv == Init => CountInv
<1> SUFFICES ASSUME Init PROVE CountInv
  OBVIOUS
<1>1. /\ Named = {} /\ LostSlots = {}
      /\ Kinds(Ends) = {} /\ Kinds({"failed"}) = {} /\ Kinds(ClosedAtOnce) = {}
  BY DEF Init, Named, LostSlots, Kinds, Ends, ClosedAtOnce, IdleRec, Closed
<1>2. RunningIsCounted
  BY <1>1, FS_EmptySet DEF Init, RunningIsCounted, Named
<1>3. AccountInv
  BY <1>1, FS_EmptySet DEF Init, AccountInv
<1> QED BY <1>2, <1>3, InitIInv DEF CountInv

\* epoll_num_running is the number of children in the table, whichever call
\* fails and whenever a child hangs up.
THEOREM CountIsExact == Spec => []RunningIsCounted
<1>1. CountInv => RunningIsCounted
  BY DEF CountInv
<1> QED BY <1>1, InitCountInv, NextCountInv, PTL DEF Spec

\* In epoll_wait the master owns two descriptors per child in the table, one
\* per failed set-up and the refused connections, and nothing else: no error
\* path leaks a pipe end.
THEOREM DescriptorsAreAccounted == Spec => []DescriptorAccounting
<1>1. CountInv => DescriptorAccounting
  <2> SUFFICES ASSUME CountInv, pc = "wait"
               PROVE  /\ Kinds({"conn", "pi1r", "pi2w"}) = {}
                      /\ Cardinality(Kinds({"pi1w", "pi2r"})) = 2 * Cardinality(Named)
                      /\ Cardinality(Kinds({"failed"})) = Cardinality(LostSlots)
    BY DEF DescriptorAccounting, Kinds, Named, LostSlots
  <2>1. /\ Cardinality(Kinds(Ends)) = 2 * Cardinality(Named) + 0
        /\ Cardinality(LostSlots) = Cardinality(Kinds({"failed"})) + 0
        /\ Kinds(ClosedAtOnce) = {}
    BY DEF CountInv, AccountInv
  <2>2. Cardinality(Named) \in Nat /\ Cardinality(Kinds({"failed"})) \in Nat
    BY FiniteParts, CountedSets
  <2> QED BY <2>1, <2>2 DEF Ends, ClosedAtOnce
<1> QED BY <1>1, InitCountInv, NextCountInv, PTL DEF Spec

-----------------------------------------------------------------------------
(* Hang-ups *)

\* Whether a pipe has hung up depends on its child and on the write ends the
\* master still holds.
LEMMA SameHangUp ==
    ASSUME NEW c, Attached(c)' = Attached(c),
           \A f \in Fds : fdtab'[f] = [kind |-> "pi2w", of |-> c] <=>
                          fdtab[f] = [kind |-> "pi2w", of |-> c]
    PROVE  HungUp(c, fdtab)' = HungUp(c, fdtab)
BY DEF HungUp

\* Steps that take nothing off the ready list, out of the batch or off the
\* watch set, after which no watched pipe has hung up that had not before.
LEMMA HangUpFrame ==
    ASSUME HInv, batch' \subseteq batch, ready \subseteq ready', epoll' = epoll,
           \A e \in batch : e.fd # ListenFd => e \in batch',
           \A f \in epoll : HungUp(fdtab[f].of, fdtab)' => HungUp(fdtab[f].of, fdtab)
    PROVE  HangUpNotLost'
<1> SUFFICES ASSUME ~ChildMayWrite, NEW f \in epoll, HungUp(fdtab[f].of, fdtab)'
             PROVE  f \in ready' \/ \E e \in batch' : e.fd = f /\ e.ev = {"HUP"}
  BY DEF HangUpNotLost
<1>1. f \in ready \/ \E e \in batch : e.fd = f /\ e.ev = {"HUP"}
  BY DEF HInv, HangUpNotLost
<1>2. f # ListenFd
  BY WatchedFd, Records DEF HInv
<1> QED BY <1>1, <1>2

\* No child writes, so none ever does: what is reported is a hang-up.
LEMMA NextSilentInv == HInv /\ [Next]_vars => SilentInv'
<1> SUFFICES ASSUME HInv, [Next]_vars, ~ChildMayWrite
             PROVE  /\ unread' = {}
                    /\ \A c \in Childs : status'[c] # "flushed"
                    /\ \A e \in batch' : e.fd # ListenFd => e.ev = {"HUP"}
  BY DEF SilentInv
<1>1. /\ unread = {}
      /\ \A c \in Childs : status[c] # "flushed"
      /\ \A e \in batch : e.fd # ListenFd => e.ev = {"HUP"}
      /\ status \in [Childs -> Status]
  BY DEF HInv, SilentInv, IInv, TypeOK
<1>2. CASE EpollWait
  <2>1. ASSUME NEW e \in batch', e.fd # ListenFd
        PROVE  e.ev = {"HUP"}
    <3>1. e \in Available
      BY <1>2, <2>1 DEF EpollWait
    <3>2. e.ev = Events(e.fd) /\ e.ev # {}
      BY <2>1, <3>1, AvailableEvents DEF HInv, IInv, Available, ListenEvent
    <3> QED BY <1>1, <3>2 DEF Events
  <2> QED BY <1>1, <1>2, <2>1 DEF EpollWait
<1>3. CASE Environment
  BY <1>1, <1>3 DEF Environment, ClientConnect, ClientAbort, ChildConfigFail,
     ChildClose, ChildExit
<1>4. CASE Accept
  <2>1. CASE AcceptFork
    <3>1. PICK c \in Childs : /\ status' = [status EXCEPT ![c] = "running"]
                              /\ unread' = unread \ {c}
      BY <2>1, ForkWitnesses DEF Fork
    <3> QED BY <1>1, <2>1, <3>1 DEF AcceptFork, Accepting
  <2> QED BY <1>1, <1>4, <2>1 DEF Accept, AcceptFail, AcceptRefuse, AcceptSetupFail,
            Accepting
<1>5. CASE Register \/ RegisterAddFail \/ BatchEnd
  BY <1>1, <1>5 DEF Register, RegisterAddFail, StoreChild, BatchEnd
<1>6. CASE \E e \in batch : HandleRead(e) \/ HandleHup(e)
  BY <1>1, <1>6 DEF HandleRead, HandleHup
<1>7. CASE Signal
  BY <1>1, <1>7 DEF Signal, SigchldDeliver, HandlerReturn, Reap
<1>8. CASE UNCHANGED vars
  BY <1>1, <1>8 DEF vars
<1> QED BY <1>2, <1>3, <1>4, <1>5, <1>6, <1>7, <1>8 DEF Next, Loop

\* A child that closes its end puts its pipe on the ready list.
LEMMA EnvironmentHangUp ==
    ASSUME HInv, Environment
    PROVE  HangUpNotLost'
<1>1. fdtab' = fdtab /\ epoll' = epoll /\ batch' = batch
  BY DEF Environment, ClientConnect, ClientAbort, ChildConfigFail, ChildClose,
     ChildExit, master
<1>2. ASSUME NEW c \in Childs, ChildClose(c)
      PROVE  HangUpNotLost'
  <2> SUFFICES ASSUME ~ChildMayWrite, NEW f \in epoll, HungUp(fdtab[f].of, fdtab)'
               PROVE  f \in ready' \/ \E e \in batch' : e.fd = f /\ e.ev = {"HUP"}
    BY <1>1 DEF HangUpNotLost
  <2>1. ready' = ready \cup {g \in epoll : fdtab[g].of = c}
    BY <1>2 DEF ChildClose, Wake
  <2>2. CASE fdtab[f].of = c
    BY <2>1, <2>2
  <2>3. CASE fdtab[f].of # c
    <3>1. Attached(fdtab[f].of)' = Attached(fdtab[f].of)
      BY <1>1, <1>2, <2>3 DEF ChildClose, Attached, HInv, IInv, TypeOK
    <3>2. HungUp(fdtab[f].of, fdtab)
      BY <1>1, <3>1 DEF HungUp
    <3> QED BY <1>1, <2>1, <3>2 DEF HInv, HangUpNotLost
  <2> QED BY <2>2, <2>3
<1>3. CASE ClientConnect \/ ClientAbort \/ \E c \in Childs : ChildConfigFail(c) \/ ChildExit(c)
  <2>1. ready \subseteq ready'
    BY <1>3 DEF ClientConnect, ClientAbort, ChildConfigFail, ChildExit, Wake
  <2>2. \A c \in Childs : Attached(c)' = Attached(c)
    BY <1>3 DEF ClientConnect, ClientAbort, ChildConfigFail, ChildExit, Attached,
       HInv, IInv, TypeOK
  <2>3. \A f \in epoll : HungUp(fdtab[f].of, fdtab)' => HungUp(fdtab[f].of, fdtab)
    BY <1>1, <2>2, WatchedFd DEF HInv, HungUp
  <2> QED BY <1>1, <2>1, <2>3, HangUpFrame
<1> QED BY <1>2, <1>3 DEF Environment

\* What epoll_wait takes off the ready list is in the batch, as a hang-up.
LEMMA EpollWaitHangUp ==
    ASSUME HInv, EpollWait
    PROVE  HangUpNotLost'
<1> SUFFICES ASSUME ~ChildMayWrite, NEW f \in epoll, HungUp(fdtab[f].of, fdtab)'
             PROVE  f \in ready' \/ \E e \in batch' : e.fd = f /\ e.ev = {"HUP"}
  BY DEF HangUpNotLost, EpollWait, master
<1>1. /\ pc = "wait" /\ batch' \subseteq Available
      /\ ready' = ready \ {e.fd : e \in batch'}
      /\ UNCHANGED <<fdtab, epoll, status>>
  BY DEF EpollWait, master
<1>2. HungUp(fdtab[f].of, fdtab)
  BY <1>1 DEF HungUp, Attached
<1>3. batch = {}
  BY <1>1 DEF HInv, IInv, BatchInv
<1>4. f \in ready
  BY <1>2, <1>3 DEF HInv, HangUpNotLost
<1>5. CASE f \notin ready'
  <2>1. PICK e \in batch' : e.fd = f
    BY <1>1, <1>4, <1>5
  <2>2. f # ListenFd
    BY WatchedFd, Records DEF HInv
  <2>3. e.ev = Events(f)
    BY <1>1, <2>1, <2>2, AvailableEvents DEF HInv, IInv
  <2>4. Events(f) = {"HUP"}
    BY <1>2 DEF Events, HInv, SilentInv
  <2> QED BY <2>1, <2>3, <2>4
<1> QED BY <1>5

\* A connection that is accepted closes nothing and belongs to no child that
\* is watched.
LEMMA AcceptHangUp ==
    ASSUME HInv, Accept
    PROVE  HangUpNotLost'
<1>1. /\ epoll' = epoll /\ ready' = ready /\ batch' = batch \ {ListenEvent}
  BY DEF Accept, AcceptFail, AcceptRefuse, AcceptSetupFail, AcceptFork, Accepting,
     master
<1>2. \A e \in batch : e.fd # ListenFd => e \in batch'
  BY <1>1 DEF ListenEvent
<1>3. ASSUME \A g \in Fds : fdtab[g].kind # "free" => fdtab'[g] = fdtab[g],
             \A g \in epoll : Attached(fdtab[g].of)' = Attached(fdtab[g].of)
      PROVE  HangUpNotLost'
  <2>1. ASSUME NEW f \in epoll, HungUp(fdtab[f].of, fdtab)'
        PROVE  HungUp(fdtab[f].of, fdtab)
    <3>1. fdtab'[f] = fdtab[f]
      BY <1>3, WatchedFd DEF HInv
    <3>2. ~Attached(fdtab[f].of)
      BY <1>3, <2>1, <3>1 DEF HungUp
    <3>3. \A g \in Fds : fdtab[g] # [kind |-> "pi2w", of |-> fdtab[f].of]
      BY <1>3, <2>1, <3>1 DEF HungUp
    <3> QED BY <3>2, <3>3 DEF HungUp
  <2> QED BY <1>1, <1>2, <2>1, HangUpFrame
<1>4. CASE AcceptFork
  <2>1. PICK idx \in Slots, c \in Childs, connfd \in FreeFds, p1r \in FreeFds,
             p1w \in FreeFds, p2r \in FreeFds, p2w \in FreeFds :
          Fork(idx, c, connfd, p1r, p1w, p2r, p2w)
    BY <1>4, ForkWitnesses
  <2>2. \A g \in Fds : fdtab[g].kind # "free" => fdtab'[g] = fdtab[g]
    BY <2>1 DEF Fork, FreeFds, HInv, IInv, TypeOK
  <2>3. ASSUME NEW g \in epoll PROVE Attached(fdtab[g].of)' = Attached(fdtab[g].of)
    <3>1. g \in Fds /\ fdtab[g].kind = "pi2r" /\ fdtab[g].of \in Childs
      BY WatchedFd DEF HInv
    <3>2. fdtab[g].of # c /\ fdtab'[g] = fdtab[g]
      BY <2>1, <2>2, <3>1 DEF Fork, FreeChild
    <3> QED BY <2>1, <3>1, <3>2 DEF Fork, Attached, HInv, IInv, TypeOK
  <2> QED BY <1>3, <2>2, <2>3
<1>5. CASE AcceptFail \/ AcceptRefuse \/ AcceptSetupFail
  <2>1. \A g \in Fds : fdtab[g].kind # "free" => fdtab'[g] = fdtab[g]
    BY <1>5 DEF AcceptFail, AcceptRefuse, AcceptSetupFail, master, Lowest, FreeFds,
       HInv, IInv, TypeOK
  <2>2. status' = status
    BY <1>5 DEF AcceptFail, AcceptRefuse, AcceptSetupFail
  <2>3. ASSUME NEW g \in epoll PROVE Attached(fdtab[g].of)' = Attached(fdtab[g].of)
    BY <2>1, <2>2, WatchedFd DEF Attached, HInv
  <2> QED BY <1>3, <2>1, <2>3
<1> QED BY <1>4, <1>5 DEF Accept

\* A pipe that is added is ready at once when its child is gone already; the
\* write end the parent closes belongs to that child only.
LEMMA RegisterHangUp ==
    ASSUME HInv, Register \/ RegisterAddFail
    PROVE  HangUpNotLost'
<1>1. /\ cur.child \in Childs
      /\ cur.pi2r \in Fds
      /\ fdtab[cur.connfd] = [kind |-> "conn", of |-> cur.child]
      /\ fdtab[cur.pi1r] = [kind |-> "pi1r", of |-> cur.child]
      /\ fdtab[cur.pi2r] = [kind |-> "pi2r", of |-> cur.child]
      /\ fdtab[cur.pi2w] = [kind |-> "pi2w", of |-> cur.child]
      /\ \A j \in Slots : childs_st[j].pid # cur.child
  BY DEF Register, RegisterAddFail, HInv, IInv, RegisterInv
<1>2. /\ \A f \in Fds : fdtab'[f] = IF f \in ParentCloses THEN Closed ELSE fdtab[f]
      /\ UNCHANGED <<batch, status>>
      /\ ready \subseteq ready'
      /\ epoll' \in {epoll, epoll \cup {cur.pi2r}}
  BY DEF Register, RegisterAddFail, StoreChild
<1> SUFFICES ASSUME ~ChildMayWrite, NEW f \in epoll', HungUp(fdtab[f].of, fdtab)'
             PROVE  f \in ready' \/ \E e \in batch' : e.fd = f /\ e.ev = {"HUP"}
  BY DEF HangUpNotLost
<1>3. CASE f \in epoll
  <2>1. PICK i \in Slots : /\ childs_st[i].pid \in Childs /\ f \in Fds
                           /\ fdtab[f] = [kind |-> "pi2r", of |-> childs_st[i].pid]
    BY <1>3, PipeOwner DEF HInv
  <2>2. fdtab[f].of # cur.child /\ fdtab[f].kind = "pi2r"
    BY <1>1, <2>1
  <2>3. fdtab'[f] = fdtab[f]
    BY <1>1, <1>2, <2>1, <2>2 DEF ParentCloses
  <2>4. \A g \in Fds : fdtab[g] # [kind |-> "pi2w", of |-> fdtab[f].of]
    BY <1>1, <1>2, <2>2, <2>3 DEF HungUp, ParentCloses
  <2>5. ~Attached(fdtab[f].of)
    BY <1>2, <2>3 DEF HungUp, Attached
  <2>6. HungUp(fdtab[f].of, fdtab)
    BY <2>4, <2>5 DEF HungUp
  <2> QED BY <1>2, <1>3, <2>6 DEF HInv, HangUpNotLost
<1>4. CASE f \notin epoll
  <2>1. f = cur.pi2r /\ Register
    BY <1>2, <1>4 DEF RegisterAddFail
  <2>2. fdtab'[f] = fdtab[f] /\ fdtab[f].of = cur.child
    BY <1>1, <1>2, <2>1 DEF ParentCloses
  <2>3. HungUp(cur.child, fdtab')
    BY <1>2, <2>2 DEF HungUp, Attached
  <2> QED BY <2>1, <2>3 DEF Register
<1> QED BY <1>3, <1>4

\* A slot that is taken back closes no write end the master watches for.
LEMMA HandleHupHangUp ==
    ASSUME HInv, NEW e \in batch, HandleHup(e)
    PROVE  HangUpNotLost'
<1>1. PICK idx \in Slots : /\ childs_st[idx].pid \in Childs
                           /\ childs_st[idx].pfd_r = e.fd
                           /\ EpollDeleteEvt(e.fd)
                           /\ CleanChild(idx)
  BY HupEvent DEF HInv
<1>2. childs_st[idx].pid # NoChild
  BY <1>1, Records
<1>3. /\ fdtab[childs_st[idx].pfd_r] = [kind |-> "pi2r", of |-> childs_st[idx].pid]
      /\ fdtab[childs_st[idx].pfd_w] = [kind |-> "pi1w", of |-> childs_st[idx].pid]
  BY <1>2, NamedSlot DEF HInv
<1>4. /\ \A f \in Fds : fdtab'[f] = IF f \in {childs_st[idx].pfd_r, childs_st[idx].pfd_w}
                                    THEN Closed ELSE fdtab[f]
      /\ epoll' = epoll \ {e.fd} /\ ready' = ready \ {e.fd}
      /\ batch' = batch \ {e} /\ status' = status
  BY <1>1 DEF CleanChild, EpollDeleteEvt, HandleHup
<1> SUFFICES ASSUME ~ChildMayWrite, NEW f \in epoll', HungUp(fdtab[f].of, fdtab)'
             PROVE  f \in ready' \/ \E g \in batch' : g.fd = f /\ g.ev = {"HUP"}
  BY DEF HangUpNotLost
<1>5. f \in epoll /\ f # e.fd /\ f \in Fds /\ fdtab[f].kind = "pi2r"
  BY <1>4, WatchedFd DEF HInv
<1>6. fdtab'[f] = fdtab[f]
  BY <1>1, <1>3, <1>4, <1>5
<1>7. \A g \in Fds : fdtab[g] # [kind |-> "pi2w", of |-> fdtab[f].of]
  BY <1>3, <1>4, <1>6 DEF HungUp
<1>8. HungUp(fdtab[f].of, fdtab)
  BY <1>4, <1>6, <1>7 DEF HungUp, Attached
<1>9. f \in ready \/ \E g \in batch : g.fd = f /\ g.ev = {"HUP"}
  BY <1>5, <1>8 DEF HInv, HangUpNotLost
<1> QED BY <1>4, <1>5, <1>9

\* The handler, the end of a batch and EPOLLIN, which no child causes.
LEMMA QuietHangUp ==
    ASSUME HInv, Signal \/ BatchEnd \/ \E e \in batch : HandleRead(e)
    PROVE  HangUpNotLost'
<1>1. UNCHANGED <<fdtab, epoll, ready>>
  BY DEF Signal, SigchldDeliver, HandlerReturn, Reap, BatchEnd, HandleRead, master
<1>2. \A c \in Childs : Attached(c)' = Attached(c)
  BY DEF Signal, SigchldDeliver, HandlerReturn, Reap, BatchEnd, HandleRead, Attached,
     HInv, IInv, TypeOK
<1>3. CASE ~ChildMayWrite
  <2>1. ASSUME NEW e \in batch, HandleRead(e) PROVE FALSE
    BY <1>3, <2>1 DEF HandleRead, HInv, SilentInv
  <2>2. batch' = batch
    BY <2>1 DEF Signal, SigchldDeliver, HandlerReturn, Reap, BatchEnd
  <2>3. \A f \in epoll : HungUp(fdtab[f].of, fdtab)' => HungUp(fdtab[f].of, fdtab)
    BY <1>1, <1>2, WatchedFd DEF HInv, HungUp
  <2> QED BY <1>1, <2>2, <2>3, HangUpFrame
<1> QED BY <1>3 DEF HangUpNotLost

\* HInv is inductive.
LEMMA NextHInv == HInv /\ [Next]_vars => HInv'
<1> SUFFICES ASSUME HInv, [Next]_vars PROVE HInv'
  OBVIOUS
<1>1. IInv' /\ SilentInv'
  BY NextIInv, NextSilentInv DEF HInv
<1>2. HangUpNotLost'
  <2>1. CASE Environment \/ EpollWait \/ Accept
    BY <2>1, EnvironmentHangUp, EpollWaitHangUp, AcceptHangUp
  <2>2. CASE Register \/ RegisterAddFail
    BY <2>2, RegisterHangUp
  <2>3. CASE \E e \in batch : HandleHup(e)
    BY <2>3, HandleHupHangUp
  <2>4. CASE Signal \/ BatchEnd \/ \E e \in batch : HandleRead(e)
    BY <2>4, QuietHangUp
  <2>5. CASE UNCHANGED vars
    BY <2>5 DEF vars, HInv, HangUpNotLost, HungUp, Attached
  <2> QED BY <2>1, <2>2, <2>3, <2>4, <2>5 DEF Next, Loop
<1> QED BY <1>1, <1>2 DEF HInv

\* Edge-triggered: as long as no child writes, the hang-up of a watched pipe
\* is on the ready list or in the batch until its slot is taken back, however
\* accept, fork and the failures of their calls come between.
THEOREM HangUpsAreKept == Spec => []HangUpNotLost
<1>1. Init => HInv
  <2> SUFFICES ASSUME Init PROVE HInv
    OBVIOUS
  <2>1. SilentInv /\ HangUpNotLost
    BY DEF Init, SilentInv, HangUpNotLost
  <2> QED BY <2>1, InitIInv DEF HInv
<1>2. HInv => HangUpNotLost
  BY DEF HInv
<1> QED BY <1>1, <1>2, NextHInv, PTL DEF Spec
=============================================================================
