----------------------------- MODULE KeyStacks -----------------------------
(***************************************************************************)
(* What a hashmap promises: under every key a stack of values.  A value    *)
(* that is inserted hides the older ones of its key, and a deletion brings *)
(* the one before it back.                                                 *)
(***************************************************************************)
EXTENDS Naturals, FiniteSets, Sequences

CONSTANTS Keys, Values

VARIABLES stacks, out

Empty == [k \in Keys |-> <<>>]

Init == stacks = Empty /\ out = <<>>

Push(k, v) ==
    /\ stacks' = [stacks EXCEPT ![k] = <<v>> \o @]
    /\ out' = <<v>>

\* There is no memory for the entry, or no memory for a larger table: then
\* all that was stored is lost.
PushFails ==
    /\ stacks' \in {stacks, Empty}
    /\ out' = <<>>

Find(k) ==
    /\ out' = IF stacks[k] = <<>> THEN <<>> ELSE <<Head(stacks[k])>>
    /\ UNCHANGED stacks

Pop(k) ==
    /\ IF stacks[k] = <<>> THEN out' = <<1>> /\ UNCHANGED stacks
       ELSE out' = <<0>> /\ stacks' = [stacks EXCEPT ![k] = Tail(@)]

\* How often each value is listed for each key.
All ==
    /\ out' = [k \in Keys |-> [v \in Values |->
                Cardinality({i \in DOMAIN stacks[k] : stacks[k][i] = v})]]
    /\ UNCHANGED stacks

Clear == stacks' = Empty /\ out' = <<>>

Next ==
    \/ \E k \in Keys : Find(k) \/ Pop(k) \/ \E v \in Values : Push(k, v)
    \/ PushFails \/ All \/ Clear

Spec == Init /\ [][Next]_<<stacks, out>>
=============================================================================
