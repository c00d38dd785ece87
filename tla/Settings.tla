------------------------------ MODULE Settings ------------------------------
(***************************************************************************)
(* What a dictionary promises: a partial function from keys to values.     *)
(***************************************************************************)
CONSTANTS
    Lookups,     \* the keys that are asked for
    Null, NOTFOUND

VARIABLES content, got

Empty == [k \in {} |-> Null]

Init == content = Empty /\ got = NOTFOUND

Set(k, v) ==
    /\ content' = [j \in DOMAIN content \cup {k} |-> IF j = k THEN v ELSE content[j]]
    /\ UNCHANGED got

Unset(k) ==
    /\ content' = [j \in DOMAIN content \ {k} |-> content[j]]
    /\ UNCHANGED got

Get(k) ==
    /\ got' = IF k \in DOMAIN content THEN content[k] ELSE NOTFOUND
    /\ UNCHANGED content

Clear == content' = Empty /\ UNCHANGED got

Next ==
    \/ \E k \in DOMAIN content' : Set(k, content'[k])
    \/ \E k \in DOMAIN content : Unset(k)
    \/ \E k \in Lookups : Get(k)
    \/ Clear

Spec == Init /\ [][Next]_<<content, got>>
=============================================================================
