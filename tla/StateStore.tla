----------------------------- MODULE StateStore -----------------------------
(***************************************************************************)
(* The flag board of persistence/state.py as it really executes: one       *)
(* SQLite file, an RLock held for ONE statement at a time, and calls made  *)
(* of several statements.  The engine worker, the chimera event handlers,  *)
(* the Telegram bot and the bus threads of the CLI call it concurrently;   *)
(* between two statements of a call any other thread may commit, and the   *)
(* process may die.  What is committed survives; the calls in flight do    *)
(* not.  The boot sequence of Supervisor.__start__ (register the           *)
(* configured instruments, then clear the volatile flags) is part of the   *)
(* module because it is the recovery of this state.                        *)
(***************************************************************************)
EXTENDS Flags

CONSTANTS
    Threads,        \* threads that call the store
    Instruments,    \* names that may appear on the board
    Configured,     \* instruments of the configured roles, registered at boot
    Volatile,       \* instruments whose flag is reset at boot
    Keys,           \* lock keys
    Settable,       \* flags that callers of set_flag pass
    MayCrash        \* whether the process may die

\* What the configuration of the supervisor guarantees.
Configuration ==
    /\ Configured \subseteq Instruments
    /\ Volatile \subseteq Instruments
    /\ Settable \subseteq Flag
    /\ "ready" \in Settable
    /\ MayCrash \in BOOLEAN

ASSUME StoreAssumption == Configuration

VARIABLES
    flag,       \* table instrument_flags: the flag of every instrument, or NoRow
    active,     \* table lock_keys: the keys with active = 1
    call,       \* the store call each thread is in, and its next statement
    phase,      \* of the process: down, register, reset, up
    todo,       \* instruments the current boot phase still has to visit
    raced,      \* history: threads whose call overlapped a lock() on its instrument
    held        \* history: keys locked with no unlock() of them begun since

durable == <<flag, active>>
vars == <<flag, active, call, phase, todo, raced, held>>

-----------------------------------------------------------------------------

NoCall == [pc |-> "idle"]

\* The statements that are left after the first one of each call.
SetCall == [pc : {"set_write"}, ins : Instruments, flag : Settable]
KeyCall == [pc : {"lock_flag", "unlock_check", "unlock_drop", "unlock_rest",
                  "unlock_close"},
            ins : Instruments, key : Keys]

Idle(t) == phase = "up" /\ call[t] = NoCall
At(t, label) == call[t].pc = label
Busy(t, i) == call[t] # NoCall /\ call[t].ins = i
Goto(t, label) == call' = [call EXCEPT ![t].pc = label]
Return(t) == call' = [call EXCEPT ![t] = NoCall]

\* Every other thread in the middle of a call on i has now been overtaken by
\* a lock() of i: what it read may be stale when it writes.
Overtake(t, i) == {u \in Threads \ {t} : Busy(u, i)}

\* Some thread is in the middle of unlock(i, k).
Unlocking(i, k) == \E u \in Threads : /\ Busy(u, i)
                                      /\ ~ At(u, "set_write")
                                      /\ ~ At(u, "lock_flag")
                                      /\ call[u].key = k

-----------------------------------------------------------------------------
(* set_flag: read the flag, refuse when it is LOCK, write.                 *)

\* Mutant: a locked instrument takes any flag.
SetFlagReadUnguarded(t, i, f) ==
    /\ Idle(t)
    /\ call' = [call EXCEPT ![t] = [pc |-> "set_write", ins |-> i, flag |-> f]]
    /\ raced' = raced \ {t}
    /\ UNCHANGED <<durable, phase, todo, held>>

\* A refused call raises StatusUpdateError and changes nothing.
SetFlagRead(t, i, f) ==
    /\ Idle(t)
    /\ ReadFlag(flag[i]) = "lock" => f = "lock"
    /\ call' = [call EXCEPT ![t] = [pc |-> "set_write", ins |-> i, flag |-> f]]
    /\ raced' = raced \ {t}
    /\ UNCHANGED <<durable, phase, todo, held>>

SetFlagWrite(t) ==
    /\ At(t, "set_write")
    /\ flag' = [flag EXCEPT ![call[t].ins] = call[t].flag]
    /\ Return(t)
    /\ raced' = IF call[t].flag = "lock"
                THEN (raced \cup Overtake(t, call[t].ins)) \ {t}
                ELSE raced \ {t}
    /\ UNCHANGED <<active, phase, todo, held>>

(* lock: commit the key, then commit the flag.                             *)

\* Mutant: the instrument and the key of the new row are swapped.
LockKeySwapped(t, i, k) ==
    /\ Idle(t)
    /\ active' = [active EXCEPT ![i] = @ \cup {i}]
    /\ call' = [call EXCEPT ![t] = [pc |-> "lock_flag", ins |-> i, key |-> k]]
    /\ raced' = (raced \cup Overtake(t, i)) \ {t}
    /\ held' = IF Unlocking(i, k) THEN held
               ELSE [held EXCEPT ![i] = @ \cup {k}]
    /\ UNCHANGED <<flag, phase, todo>>

LockKey(t, i, k) ==
    /\ Idle(t)
    /\ active' = [active EXCEPT ![i] = @ \cup {k}]
    /\ call' = [call EXCEPT ![t] = [pc |-> "lock_flag", ins |-> i, key |-> k]]
    /\ raced' = (raced \cup Overtake(t, i)) \ {t}
    /\ held' = IF Unlocking(i, k) THEN held
               ELSE [held EXCEPT ![i] = @ \cup {k}]
    /\ UNCHANGED <<flag, phase, todo>>

LockFlag(t) ==
    /\ At(t, "lock_flag")
    /\ flag' = [flag EXCEPT ![call[t].ins] = "lock"]
    /\ Return(t)
    /\ raced' = (raced \cup Overtake(t, call[t].ins)) \ {t}
    /\ UNCHANGED <<active, phase, todo, held>>

(* unlock: read the flag, read the keys, release the key, read what is     *)
(* left, and write CLOSE when nothing is.                                  *)

\* Not locked: returns False and changes nothing.
UnlockRead(t, i, k) ==
    /\ Idle(t)
    /\ ReadFlag(flag[i]) = "lock"
    /\ call' = [call EXCEPT ![t] = [pc |-> "unlock_check", ins |-> i, key |-> k]]
    /\ held' = [held EXCEPT ![i] = @ \ {k}]
    /\ raced' = raced \ {t}
    /\ UNCHANGED <<durable, phase, todo>>

\* A key that does not hold the lock: returns False.
UnlockCheck(t) ==
    /\ At(t, "unlock_check")
    /\ IF call[t].key \in active[call[t].ins]
       THEN Goto(t, "unlock_drop") /\ UNCHANGED raced
       ELSE Return(t) /\ raced' = raced \ {t}
    /\ UNCHANGED <<durable, phase, todo, held>>

\* Mutant: the UPDATE forgets the key and releases them all.
UnlockDropAll(t) ==
    /\ At(t, "unlock_drop")
    /\ active' = [active EXCEPT ![call[t].ins] = {}]
    /\ Goto(t, "unlock_rest")
    /\ UNCHANGED <<flag, phase, todo, raced, held>>

UnlockDrop(t) ==
    /\ At(t, "unlock_drop")
    /\ active' = [active EXCEPT ![call[t].ins] = @ \ {call[t].key}]
    /\ Goto(t, "unlock_rest")
    /\ UNCHANGED <<flag, phase, todo, raced, held>>

\* Mutant: the keys that are left are not looked at.
UnlockRestIgnored(t) ==
    /\ At(t, "unlock_rest")
    /\ Goto(t, "unlock_close")
    /\ UNCHANGED <<durable, phase, todo, raced, held>>

\* Other keys are left: raises "still locked".
UnlockRest(t) ==
    /\ At(t, "unlock_rest")
    /\ IF active[call[t].ins] = {}
       THEN Goto(t, "unlock_close") /\ UNCHANGED raced
       ELSE Return(t) /\ raced' = raced \ {t}
    /\ UNCHANGED <<durable, phase, todo, held>>

\* Mutant: the released instrument is left UNSET.
UnlockCloseUnset(t) ==
    /\ At(t, "unlock_close")
    /\ flag' = [flag EXCEPT ![call[t].ins] = "unset"]
    /\ Return(t)
    /\ raced' = raced \ {t}
    /\ UNCHANGED <<active, phase, todo, held>>

UnlockClose(t) ==
    /\ At(t, "unlock_close")
    /\ flag' = [flag EXCEPT ![call[t].ins] = "close"]
    /\ Return(t)
    /\ raced' = raced \ {t}
    /\ UNCHANGED <<active, phase, todo, held>>

-----------------------------------------------------------------------------
(* The process: crash, and the boot sequence of __start__.  The bot and    *)
(* the bus serve no call before the volatile flags are reset.              *)

Crash ==
    /\ MayCrash
    /\ phase # "down"
    /\ phase' = "down"
    /\ todo' = {}
    /\ call' = [t \in Threads |-> NoCall]
    /\ raced' = {}
    /\ UNCHANGED <<durable, held>>

Start ==
    /\ phase = "down"
    /\ phase' = "register"
    /\ todo' = Configured
    /\ UNCHANGED <<durable, call, raced, held>>

\* Insert-or-ignore.
RegisterInstrument(i) ==
    /\ phase = "register"
    /\ i \in todo
    /\ flag' = [flag EXCEPT ![i] = IF @ = NoRow THEN "unset" ELSE @]
    /\ todo' = todo \ {i}
    /\ UNCHANGED <<active, call, phase, raced, held>>

Registered ==
    /\ phase = "register"
    /\ todo = {}
    /\ phase' = "reset"
    /\ todo' = {i \in Volatile : flag[i] # NoRow}
    /\ UNCHANGED <<durable, call, raced, held>>

\* Mutant: only an UNSET flag is made READY, a stale OPERATING stays.
ResetUnsetFlag(i) ==
    /\ phase = "reset"
    /\ i \in todo
    /\ flag' = [flag EXCEPT ![i] = IF @ = "unset" THEN "ready" ELSE @]
    /\ todo' = todo \ {i}
    /\ UNCHANGED <<active, call, phase, raced, held>>

\* A LOCK is the operator's decision and is left alone.
ResetVolatileFlag(i) ==
    /\ phase = "reset"
    /\ i \in todo
    /\ flag' = [flag EXCEPT ![i] = IF @ = "lock" THEN @ ELSE "ready"]
    /\ todo' = todo \ {i}
    /\ UNCHANGED <<active, call, phase, raced, held>>

Serve ==
    /\ phase = "reset"
    /\ todo = {}
    /\ phase' = "up"
    /\ UNCHANGED <<durable, call, todo, raced, held>>

-----------------------------------------------------------------------------

Init ==
    /\ flag = [i \in Instruments |-> NoRow]
    /\ active = [i \in Instruments |-> {}]
    /\ call = [t \in Threads |-> NoCall]
    /\ phase = "down"
    /\ todo = {}
    /\ raced = {}
    /\ held = [i \in Instruments |-> {}]

SetFlag(t) == \/ \E i \in Instruments, f \in Settable : SetFlagRead(t, i, f)
              \/ SetFlagWrite(t)

Lock(t) == \/ \E i \in Instruments, k \in Keys : LockKey(t, i, k)
           \/ LockFlag(t)

Unlock(t) == \/ \E i \in Instruments, k \in Keys : UnlockRead(t, i, k)
             \/ UnlockCheck(t)
             \/ UnlockDrop(t)
             \/ UnlockRest(t)
             \/ UnlockClose(t)

Boot == \/ Start
        \/ \E i \in Instruments : RegisterInstrument(i) \/ ResetVolatileFlag(i)
        \/ Registered
        \/ Serve

Next == \/ \E t \in Threads : SetFlag(t) \/ Lock(t) \/ Unlock(t)
        \/ Boot
        \/ Crash

Spec == Init /\ [][Next]_vars

-----------------------------------------------------------------------------
(* Properties                                                              *)

TypeOK ==
    /\ flag \in [Instruments -> Flag \cup {NoRow}]
    /\ active \in [Instruments -> SUBSET Keys]
    /\ call \in [Threads -> {NoCall} \cup SetCall \cup KeyCall]
    /\ phase \in {"down", "register", "reset", "up"}
    /\ todo \in SUBSET Instruments
    /\ raced \in SUBSET Threads
    /\ held \in [Instruments -> SUBSET Keys]

\* A key that lock() committed, with no unlock() of that same key running then
\* or begun since, is still active: no other thread, no other key's release,
\* no flag write, no crash and no boot loses it.
HeldKeysActive == \A i \in Instruments : held[i] \subseteq active[i]

\* A flag leaves LOCK while a key is active only by the write of a call that
\* a lock() of the same instrument overtook.  Everything else respects the
\* lock: calls that began after it, the release of another key, the boot.
LockLostOnlyToRace ==
    [][\A i \in Instruments :
          flag[i] = "lock" /\ flag'[i] # "lock" /\ active[i] # {} =>
              \E t \in raced : Busy(t, i) /\ call'[t] = NoCall]_vars

\* When the supervisor starts serving, no scheduler/robobs flag is left at a
\* value that outlived its controller: each is READY, or LOCK by an operator,
\* or not on the board at all.
VolatileFresh ==
    [][phase # "up" /\ phase' = "up" =>
          \A i \in Volatile : flag'[i] \in {"ready", "lock", NoRow}]_vars

-----------------------------------------------------------------------------
(* The board without races: calls on one instrument never overlap, and the *)
(* process dies only between calls.  Then the calls are atomic.            *)

Serialised == \A t, u \in Threads :
                 t # u /\ call[t] # NoCall /\ call[u] # NoCall
                     => call[t].ins # call[u].ins

Quiet == \A t \in Threads : call[t] = NoCall

SerialNext == /\ Next
              /\ Serialised'
              /\ Crash => Quiet

SerialSpec == Init /\ [][SerialNext]_vars

\* Some thread is at one of the given statements of a call on i.
Within(i, labels) == \E t \in Threads : Busy(t, i) /\ call[t].pc \in labels

\* lock() takes effect when its key is committed, unlock() when its key is
\* released.
BoardFlag ==
    [i \in Instruments |->
        IF Within(i, {"lock_flag"}) THEN "lock"
        ELSE IF active[i] = {} /\ Within(i, {"unlock_rest", "unlock_close"})
             THEN "close"
             ELSE flag[i]]

Board == INSTANCE FlagBoard WITH flag <- BoardFlag, keys <- active

\* Serialised calls implement the atomic flag board.
BoardSpec == Board!Spec

\* On the atomic board an instrument is LOCK exactly while a key holds it.
LockedIffKeyed == Board!LockedIffKeyed
=============================================================================
