------------------------------- MODULE FdMove -------------------------------
(***************************************************************************)
(* The descriptors of ctserver's child from main to execvp: what the       *)
(* program finds on 0, 1 and 2.  The kernel gives the lowest free number,  *)
(* also to syslog, which is external: it keeps the number of its socket,   *)
(* and when it cannot send closes that number and opens another socket.    *)
(***************************************************************************)
EXTENDS Naturals, Sequences, FiniteSets

CONSTANTS
    MaxOld       \* bound: pipe ends of other children

ASSUME FdMoveAssumption == MaxOld \in Nat

VARIABLES
    fd,          \* what is open at each number, or "free"
    num,         \* the numbers that the program has in its variables
    logfd,       \* the number that syslog has, if any
    step         \* what the program does next

fdVars == <<fd, num, logfd, step>>

\* What the master opens in front of fork, in this order.
Order == <<"listen", "epoll", "conn", "pi1r", "pi1w", "pi2r", "pi2w">>
OpenedByMaster == {Order[i] : i \in 1 .. Len(Order)}

\* Three that may be open at the start, syslog's, and all the others.
Fds  == 0 .. Len(Order) + MaxOld + 3
NoFd == Len(Order) + MaxOld + 4

Lowest(t) == CHOOSE i \in Fds : t[i] = "free" /\ \A j \in 0 .. i - 1 : t[j] # "free"

FdInit ==
    /\ fd \in [Fds -> {"std", "free"}]
    /\ \A i \in Fds : i > 2 => fd[i] = "free"
    /\ num = [e \in OpenedByMaster |-> NoFd] /\ logfd = NoFd
    /\ step = <<"log">>

\* The loop of create_daemon closes what is open, and opens nothing instead.
CreateDaemon ==
    /\ step = <<"log">>
    /\ fd' = [i \in Fds |-> "free"]
    /\ UNCHANGED <<num, logfd, step>>

\* With LOG_NDELAY, and somebody who listens.
CtLog ==
    /\ step = <<"log">>
    /\ \/ logfd' = Lowest(fd) /\ fd' = [fd EXCEPT ![Lowest(fd)] = "syslog"]
       \/ UNCHANGED <<fd, logfd>>
    /\ step' = Order
    /\ UNCHANGED num

Open ==
    /\ Head(step) \in OpenedByMaster
    /\ fd' = [fd EXCEPT ![Lowest(fd)] = Head(step)]
    /\ num' = [num EXCEPT ![Head(step)] = Lowest(fd)]
    /\ step' = IF Len(step) = 1 THEN <<"fork">> ELSE Tail(step)
    /\ UNCHANGED logfd

\* The ends of a pipe to another child, which the master keeps.
OtherChild ==
    /\ step[1] = "conn"
    /\ Cardinality({i \in Fds : fd[i] = "old"}) < MaxOld
    /\ fd' = [fd EXCEPT ![Lowest(fd)] = "old"]
    /\ UNCHANGED <<num, logfd, step>>

\* The child closes the master's ends and the socket it listens on.
ChildCloses ==
    /\ step = <<"fork">>
    /\ fd' = [i \in Fds |-> IF i \in {num.pi1w, num.pi2r, num.listen} THEN "free" ELSE fd[i]]
    /\ step' = <<"move", "conn", 2>>
    /\ UNCHANGED <<num, logfd>>

FdCopy(t, to, from) ==
    IF to = from THEN t ELSE [t EXCEPT ![to] = t[from]]

\* Variant: the source stays open.
FdMoveLeaves(t, to, from) == FdCopy(t, to, from)

FdMove(t, to, from) ==
    IF to = from THEN t ELSE [FdCopy(t, to, from) EXCEPT ![from] = "free"]

Moves == [conn |-> <<"move", "pi1r", 0>>, pi1r |-> <<"move", "pi2w", 1>>, pi2w |-> <<"exec">>]

\* A source that is not open ends the child with 111.
ChildMoves ==
    /\ step[1] = "move"
    /\ LET from == num[step[2]]
       IN  IF from # step[3] /\ fd[from] = "free" THEN step' = <<"exit">> /\ UNCHANGED fd
           ELSE fd' = FdMove(fd, step[3], from) /\ step' = Moves[step[2]]
    /\ UNCHANGED <<num, logfd>>

\* log_info in front of execvp, when the level asks for it.  A number that is
\* syslog's no longer is closed, and the new socket is closed by execvp; but
\* where the connection has taken it the message goes to the client.
ExecLogs ==
    /\ step = <<"exec">> /\ step' = <<"run">>
    /\ \/ logfd # NoFd /\ fd' = [fd EXCEPT ![logfd] = "free"]
       \/ logfd # NoFd /\ fd[logfd] = "conn" /\ UNCHANGED fd
       \/ logfd = NoFd /\ UNCHANGED fd
    /\ UNCHANGED <<num, logfd>>

\* The socket of syslog does not outlive execvp.
Exec ==
    /\ step = <<"exec">> /\ step' = <<"run">>
    /\ fd' = [i \in Fds |-> IF fd[i] = "syslog" THEN "free" ELSE fd[i]]
    /\ UNCHANGED <<num, logfd>>

FdNext ==
    \/ CreateDaemon \/ CtLog \/ Open \/ OtherChild \/ ChildCloses \/ ChildMoves
    \/ ExecLogs \/ Exec

---------------------------------------------------------------------------
(* Properties. *)

At(e) == {i \in Fds : fd[i] = e}

\* Whatever was open when ctserver was started, with and without syslog, no
\* move meets a number that an earlier one has replaced: the program that is
\* run has the ends of its pipes on 0 and 1 and the connection on 2, each only
\* there, so that its end is seen, and no end of the master's.  Only where
\* create_daemon has closed 0, 1 or 2, or they were closed before, may a
\* message close the one of them that was syslog's.
InPlace ==
    /\ logfd = NoFd \/ logfd \in Fds
    /\ step # <<"exit">>
    /\ step = <<"run">> =>
        /\ At("pi1r") \in {{0}} \cup IF logfd = 0 THEN {{}} ELSE {}
        /\ At("pi2w") \in {{1}} \cup IF logfd = 1 THEN {{}} ELSE {}
        /\ At("conn") \in {{2}} \cup IF logfd = 2 THEN {{}} ELSE {}
        /\ At("pi1w") = {} /\ At("pi2r") = {} /\ At("listen") = {} /\ At("syslog") = {}
=============================================================================
