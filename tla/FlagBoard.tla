----------------------------- MODULE FlagBoard -----------------------------
(***************************************************************************)
(* What the flag board promises its callers: every call is one atomic      *)
(* step.  StateStore.tla splits the same calls into the SQL statements     *)
(* that state.py really commits and is shown to implement this module as   *)
(* long as calls on one instrument do not overlap.                         *)
(***************************************************************************)
EXTENDS Flags

CONSTANTS
    Instruments,    \* names that may appear on the board
    Keys,           \* lock keys (non-empty strings: an empty key is refused)
    Settable        \* the flags that callers of set_flag pass

VARIABLES
    flag,           \* the flag of every instrument, or NoRow
    keys            \* the keys that hold every instrument locked

bvars == <<flag, keys>>

Init == /\ flag = [i \in Instruments |-> NoRow]
        /\ keys = [i \in Instruments |-> {}]

\* Insert-or-ignore: an existing row keeps its flag.
Register(i) == /\ flag[i] = NoRow
               /\ flag' = [flag EXCEPT ![i] = "unset"]
               /\ UNCHANGED keys

\* A locked instrument refuses every flag but LOCK.
SetFlag(i, f) == /\ flag[i] = "lock" => f = "lock"
                 /\ flag' = [flag EXCEPT ![i] = f]
                 /\ UNCHANGED keys

Lock(i, k) == /\ flag' = [flag EXCEPT ![i] = "lock"]
              /\ keys' = [keys EXCEPT ![i] = @ \cup {k}]

\* Only the release of the last key leaves LOCK, and it lands on CLOSE.
Unlock(i, k) == /\ flag[i] = "lock"
                /\ k \in keys[i]
                /\ keys' = [keys EXCEPT ![i] = @ \ {k}]
                /\ flag' = IF keys[i] = {k}
                           THEN [flag EXCEPT ![i] = "close"]
                           ELSE flag

Next == \E i \in Instruments :
            \/ Register(i)
            \/ \E f \in Settable : SetFlag(i, f)
            \/ \E k \in Keys : Lock(i, k) \/ Unlock(i, k)

Spec == Init /\ [][Next]_bvars

-----------------------------------------------------------------------------

\* An instrument with an active key is LOCK, and (unless callers write LOCK
\* through set_flag, which takes no key) a LOCK has a key that releases it.
LockedIffKeyed ==
    \A i \in Instruments :
        /\ keys[i] # {} => flag[i] = "lock"
        /\ "lock" \notin Settable /\ flag[i] = "lock" => keys[i] # {}
=============================================================================
