------------------------------- MODULE ApiMc -------------------------------
(***************************************************************************)
(* ctapi_mc: values in memcached, each call over a connection of its own.  *)
(* A value is its length.  The server is external: it may forget a value,  *)
(* and an answer may be lost after the server has acted.                   *)
(***************************************************************************)
EXTENDS Integers

CONSTANTS
    Keys,
    Lengths,     \* of values; 0 stands for no value in the store
    CharSize     \* the values of a char: 2^8

ASSUME ApiMcAssumption ==
    /\ Lengths \subseteq Nat \ {0}
    /\ CharSize \in Nat \ {0}

VARIABLES
    store,       \* the server's
    known,       \* the values that may be in the store as far as its user
                 \* can tell from what the calls returned
    mcRet        \* what the last call returned

mcVars == <<store, known, mcRet>>

McInit ==
    /\ store = [k \in Keys |-> 0]
    /\ known = [k \in Keys |-> {0}]
    /\ mcRet = 0

\* Variant: with the zero behind the value.
StoredWithZero(len) == (len + 1) % CharSize

\* The length goes through a char, a signed one, and as such becomes a size_t.
Stored(len) == len % CharSize
Small(len)  == Stored(len) < CharSize \div 2

\* What the user expects to be stored: the value, or what is left of one that
\* is too long for the char.
Meant(len) == IF len < CharSize THEN len ELSE Stored(len)

\* The value in the store, or none when the server has forgotten it.
Learn(k, v) == known' = [known EXCEPT ![k] = {v, 0}]

\* A call that failed may have left v.
Doubt(k, v) == known' = [known EXCEPT ![k] = @ \cup {v}]

SetMc(k, len) ==
    /\ Small(len)
    /\ store' = [store EXCEPT ![k] = Stored(len)]
    /\ mcRet' = 0
    /\ Learn(k, Meant(len))

\* No connection, no answer, or a length that has become enormous.
SetMcFails(k, len) ==
    /\ \/ UNCHANGED store
       \/ Small(len) /\ store' = [store EXCEPT ![k] = Stored(len)]
    /\ mcRet' = 1
    /\ Doubt(k, Meant(len))

\* NULL, which is 0 here, is returned for no value and for every failure.
GetMc(k) ==
    /\ mcRet' \in {store[k], 0}
    /\ IF mcRet' # 0 THEN Learn(k, mcRet') ELSE UNCHANGED known
    /\ UNCHANGED store

DeleteMc(k) ==
    /\ store[k] # 0
    /\ store' = [store EXCEPT ![k] = 0]
    /\ mcRet' = 0
    /\ Learn(k, 0)

\* 2 is returned when no answer came.  No connection is 1, as is no such key,
\* so that 1 tells nothing.
DeleteMcFails(k) ==
    /\ \/ mcRet' = 2 /\ store' \in {store, [store EXCEPT ![k] = 0]}
       \/ mcRet' = 1 /\ UNCHANGED store
    /\ UNCHANGED known

\* It expires, or room is needed.
Forget(k) ==
    /\ store' = [store EXCEPT ![k] = 0]
    /\ UNCHANGED <<known, mcRet>>

McNext ==
    \/ \E k \in Keys : \/ GetMc(k) \/ DeleteMc(k) \/ DeleteMcFails(k) \/ Forget(k)
                       \/ \E len \in Lengths : SetMc(k, len) \/ SetMcFails(k, len)

---------------------------------------------------------------------------
(* Properties. *)

\* What any sequence of calls has told its user is true, answers lost and
\* values forgotten included: the value in the store is none, or one that the
\* user holds for possible.
ReturnsAreTrue ==
    /\ store \in [Keys -> Nat]
    /\ \A k \in Keys : store[k] \in known[k]
=============================================================================
