----------------------------- MODULE ChildPool -----------------------------
(***************************************************************************)
(* What the master process of ctserver promises about its table of         *)
(* children, with no descriptors, pipes, events or signals: a slot is      *)
(* given to one new child, a child hangs up once, and only then may its    *)
(* slot be taken back.  A slot may also be lost, when the set-up of a      *)
(* child fails half way.  CTServer implements this specification.          *)
(***************************************************************************)

CONSTANTS
    Slots,     \* indices of the table childs_st
    Childs,    \* child processes
    Idle,      \* holder of a slot that is not used; no child
    Lost       \* holder of a slot that is used by nobody; no child

VARIABLES
    holder,    \* who holds each slot
    attached   \* children that have not hung up

vars == <<holder, attached>>

TypeOK ==
    /\ holder \in [Slots -> Childs \cup {Idle, Lost}]
    /\ attached \subseteq Childs

Init ==
    /\ holder = [i \in Slots |-> Idle]
    /\ attached = {}

\* An idle slot is given to a child that holds no other slot.
Start(i, c) ==
    /\ holder[i] = Idle
    /\ c \notin attached
    /\ \A j \in Slots : holder[j] # c
    /\ holder' = [holder EXCEPT ![i] = c]
    /\ attached' = attached \cup {c}

\* A child hangs up: it closes its end of the pipe or exits.
HangUp(c) ==
    /\ c \in attached
    /\ attached' = attached \ {c}
    /\ UNCHANGED holder

\* The slot of a child that has hung up is taken back.
Release(i) ==
    /\ holder[i] \in Childs \ attached
    /\ holder' = [holder EXCEPT ![i] = Idle]
    /\ UNCHANGED attached

\* The set-up of a child fails: its slot has no owner any more.
Lose(i) ==
    /\ holder[i] # Lost
    /\ holder' = [holder EXCEPT ![i] = Lost]
    /\ UNCHANGED attached

Next ==
    \/ \E i \in Slots, c \in Childs : Start(i, c)
    \/ \E c \in Childs : HangUp(c)
    \/ \E i \in Slots : Release(i) \/ Lose(i)

Spec == Init /\ [][Next]_vars

\* Every slot whose child has hung up is taken back in the end.
FairSpec == Spec /\ \A i \in Slots : WF_vars(Release(i))

=============================================================================
