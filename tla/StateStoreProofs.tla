-------------------------- MODULE StateStoreProofs --------------------------
(***************************************************************************)
(* Proofs about StateStore.tla for every set of threads, instruments and   *)
(* keys, with crashes and boots at any point; and that it implements the   *)
(* atomic FlagBoard.tla when calls on one instrument do not overlap and    *)
(* the process dies only between calls.                                    *)
(***************************************************************************)
EXTENDS StateStore, TLAPS

\* The lemmas about steps have the configuration as a hypothesis, which a
\* module that instantiates the store discharges for its own constants.

-----------------------------------------------------------------------------
(* The inductive invariant.                                                *)

\* A key that is held has no unlock() of it in flight.
HeldNotUnlocking ==
    \A i \in Instruments : \A k \in held[i] : ~ Unlocking(i, k)

\* What a call read is still true when it writes, unless a lock() of the same
\* instrument overtook it.
ReadsStillTrue ==
    \A t \in Threads \ raced :
        /\ At(t, "set_write") /\ call[t].flag # "lock"
               => flag[call[t].ins] # "lock"
        /\ At(t, "unlock_close") => active[call[t].ins] = {}

StoreInv == TypeOK /\ HeldKeysActive /\ HeldNotUnlocking /\ ReadsStillTrue

-----------------------------------------------------------------------------
(* Types                                                                   *)

\* The fields of the call a thread is in, by the statement it is at.
LEMMA CallFields ==
    ASSUME TypeOK, NEW t \in Threads
    PROVE  /\ call[t] # NoCall => call[t].ins \in Instruments
           /\ At(t, "set_write") => call[t] \in SetCall
           /\ call[t] # NoCall /\ ~ At(t, "set_write") => call[t] \in KeyCall
  BY DEF TypeOK, At, NoCall, SetCall, KeyCall

\* Every action keeps the types, whatever the interleaving.
LEMMA TypeStep == Configuration /\ TypeOK /\ [Next]_vars => TypeOK'
<1> SUFFICES ASSUME Configuration, TypeOK, [Next]_vars
             PROVE  TypeOK'
  OBVIOUS
<1> USE DEF TypeOK, durable
<1>1. ASSUME NEW t \in Threads, SetFlag(t)
      PROVE  TypeOK'
  <2>1. ASSUME NEW i \in Instruments, NEW f \in Settable, SetFlagRead(t, i, f)
        PROVE  TypeOK'
    BY <2>1 DEF SetFlagRead, SetCall
  <2>2. CASE SetFlagWrite(t)
    <3>1. call[t] \in SetCall
      BY <2>2, CallFields DEF SetFlagWrite
    <3> QED
      BY <2>2, <3>1 DEF SetFlagWrite, Return, SetCall, Configuration, Overtake
  <2> QED
    BY <1>1, <2>1, <2>2 DEF SetFlag
<1>2. ASSUME NEW t \in Threads, Lock(t)
      PROVE  TypeOK'
  <2>1. ASSUME NEW i \in Instruments, NEW k \in Keys, LockKey(t, i, k)
        PROVE  TypeOK'
    BY <2>1 DEF LockKey, KeyCall, Overtake
  <2>2. CASE LockFlag(t)
    BY <2>2 DEF LockFlag, Return, Flag, Overtake
  <2> QED
    BY <1>2, <2>1, <2>2 DEF Lock
<1>3. ASSUME NEW t \in Threads, Unlock(t)
      PROVE  TypeOK'
  <2>1. ASSUME NEW i \in Instruments, NEW k \in Keys, UnlockRead(t, i, k)
        PROVE  TypeOK'
    BY <2>1 DEF UnlockRead, KeyCall
  <2>2. CASE UnlockCheck(t)
    <3>1. call[t] \in KeyCall
      BY <2>2, CallFields DEF UnlockCheck, At, NoCall
    <3>2. [call[t] EXCEPT !.pc = "unlock_drop"] \in KeyCall
      BY <3>1 DEF KeyCall
    <3> QED
      BY <2>2, <3>2 DEF UnlockCheck, Goto, Return
  <2>3. CASE UnlockDrop(t)
    <3>1. call[t] \in KeyCall
      BY <2>3, CallFields DEF UnlockDrop, At, NoCall
    <3>2. [call[t] EXCEPT !.pc = "unlock_rest"] \in KeyCall
      BY <3>1 DEF KeyCall
    <3> QED
      BY <2>3, <3>1, <3>2 DEF UnlockDrop, Goto, KeyCall
  <2>4. CASE UnlockRest(t)
    <3>1. call[t] \in KeyCall
      BY <2>4, CallFields DEF UnlockRest, At, NoCall
    <3>2. [call[t] EXCEPT !.pc = "unlock_close"] \in KeyCall
      BY <3>1 DEF KeyCall
    <3> QED
      BY <2>4, <3>2 DEF UnlockRest, Goto, Return
  <2>5. CASE UnlockClose(t)
    BY <2>5 DEF UnlockClose, Return, Flag
  <2> QED
    BY <1>3, <2>1, <2>2, <2>3, <2>4, <2>5 DEF Unlock
<1>4. CASE Boot
  BY <1>4 DEF Boot, Start, RegisterInstrument, Registered, ResetVolatileFlag,
              Serve, Configuration, Flag
<1>5. CASE Crash
  BY <1>5 DEF Crash
<1>6. CASE UNCHANGED vars
  BY <1>6 DEF vars
<1> QED
  BY <1>1, <1>2, <1>3, <1>4, <1>5, <1>6 DEF Next

\* A fresh board is well typed.
LEMMA TypeInit == Init => TypeOK
  BY DEF Init, TypeOK

\* Whatever interleaving, crash or boot: the state of the store is well typed.
THEOREM StoreTypeOK == Spec => []TypeOK
<1>0. Configuration
  BY StoreAssumption
<1>1. TypeOK /\ [Next]_vars => TypeOK'
  BY <1>0, TypeStep
<1> QED
  BY <1>1, TypeInit, PTL DEF Spec

-----------------------------------------------------------------------------
(* The strengthening.                                                      *)

LEMMA InvInit == Init => StoreInv
  BY TypeInit DEF Init, StoreInv, HeldKeysActive, HeldNotUnlocking,
                  ReadsStillTrue, At, NoCall

\* An unlock() in flight after a step was in flight before it, except the one
\* that UnlockRead starts.
LEMMA UnlockingStep ==
    ASSUME Configuration, TypeOK, [Next]_vars,
           NEW i \in Instruments, NEW k \in Keys, Unlocking(i, k)'
    PROVE  \/ Unlocking(i, k)
           \/ \E t \in Threads : UnlockRead(t, i, k)
<1>1. PICK u \in Threads : /\ Busy(u, i)'
                           /\ ~ At(u, "set_write")'
                           /\ ~ At(u, "lock_flag")'
                           /\ call'[u].key = k
  BY DEF Unlocking
<1> USE DEF TypeOK
<1>2. ASSUME NEW t \in Threads, SetFlag(t)
      PROVE  Unlocking(i, k)
  BY <1>1, <1>2 DEF SetFlag, SetFlagRead, SetFlagWrite, Unlocking, Busy, At,
                    Return, NoCall
<1>3. ASSUME NEW t \in Threads, Lock(t)
      PROVE  Unlocking(i, k)
  BY <1>1, <1>3 DEF Lock, LockKey, LockFlag, Unlocking, Busy, At, Return, NoCall
<1>4. ASSUME NEW t \in Threads, Unlock(t)
      PROVE  Unlocking(i, k) \/ UnlockRead(t, i, k)
  <2>1. ASSUME NEW j \in Instruments, NEW l \in Keys, UnlockRead(t, j, l)
        PROVE  Unlocking(i, k) \/ UnlockRead(t, i, k)
    <3>1. CASE u = t
      <4>1. call'[t] = [pc |-> "unlock_check", ins |-> j, key |-> l]
        BY <2>1 DEF UnlockRead
      <4>2. i = j /\ k = l
        BY <1>1, <3>1, <4>1 DEF Busy
      <4> QED
        BY <2>1, <4>2
    <3>2. CASE u # t
      BY <1>1, <2>1, <3>2 DEF UnlockRead, Unlocking, Busy, At
    <3> QED
      BY <3>1, <3>2
  <2>2. CASE UnlockCheck(t) \/ UnlockDrop(t) \/ UnlockRest(t) \/ UnlockClose(t)
    <3> DEFINE labels == {"unlock_check", "unlock_drop", "unlock_rest", "unlock_close"}
    <3>1. call[t].pc \in labels /\ call[t] # NoCall /\ call[t] \in KeyCall
      BY <2>2, CallFields DEF UnlockCheck, UnlockDrop, UnlockRest, UnlockClose,
                              At, NoCall
    <3>2. \/ call' = [call EXCEPT ![t] = NoCall]
          \/ \E label \in labels : call' = [call EXCEPT ![t].pc = label]
      BY <2>2 DEF UnlockCheck, UnlockDrop, UnlockRest, UnlockClose, Goto, Return
    <3>3. CASE u = t
      <4>1. PICK label \in labels : call' = [call EXCEPT ![t].pc = label]
        BY <1>1, <3>2, <3>3 DEF Busy
      <4>2. call'[t] = [call[t] EXCEPT !.pc = label]
        BY <4>1
      <4>3. call'[t].ins = call[t].ins /\ call'[t].key = call[t].key
        BY <3>1, <4>2 DEF KeyCall
      <4> QED
        BY <1>1, <3>1, <3>3, <4>3 DEF Unlocking, Busy, At
    <3>4. CASE u # t
      BY <1>1, <3>2, <3>4 DEF Unlocking, Busy, At
    <3> QED
      BY <3>3, <3>4
  <2> QED
    BY <1>4, <2>1, <2>2 DEF Unlock
<1>5. CASE Boot \/ UNCHANGED vars
  BY <1>1, <1>5 DEF Boot, Start, RegisterInstrument, Registered,
                    ResetVolatileFlag, Serve, vars, Unlocking, Busy, At
<1>6. CASE Crash
  BY <1>1, <1>6 DEF Crash, Busy
<1> QED
  BY <1>2, <1>3, <1>4, <1>5, <1>6 DEF Next

\* No step releases a held key: the only release is the last-but-two statement
\* of an unlock() of that very key, and a held key has none in flight.
LEMMA HeldStep ==
    Configuration /\ StoreInv /\ [Next]_vars => HeldKeysActive' /\ HeldNotUnlocking'
<1> SUFFICES ASSUME Configuration, StoreInv, [Next]_vars,
                    NEW i \in Instruments, NEW k \in held'[i]
             PROVE  k \in active'[i] /\ ~ Unlocking(i, k)'
  BY DEF HeldKeysActive, HeldNotUnlocking
<1> USE DEF StoreInv
<1>1. TypeOK'
  BY TypeStep
<1>2. k \in Keys
  BY <1>1 DEF TypeOK
<1>3. CASE k \in held[i]
  <2>1. k \in active[i] /\ ~ Unlocking(i, k)
    BY <1>3 DEF HeldKeysActive, HeldNotUnlocking
  <2>2. k \in active'[i]
    <3>1. ASSUME NEW t \in Threads, UnlockDrop(t)
          PROVE  k \in active'[i]
      <4>1. call[t] \in KeyCall /\ call[t] # NoCall
        BY <3>1, CallFields DEF UnlockDrop, At, NoCall
      <4>2. call[t].ins # i \/ call[t].key # k
        BY <2>1, <3>1, <4>1 DEF UnlockDrop, Unlocking, Busy, At
      <4> QED
        BY <2>1, <3>1, <4>1, <4>2 DEF UnlockDrop, TypeOK, KeyCall
    <3>2. ASSUME NEW t \in Threads, NEW j \in Instruments, NEW l \in Keys,
                 LockKey(t, j, l)
          PROVE  k \in active'[i]
      BY <2>1, <3>2 DEF LockKey, TypeOK
    <3>3. CASE active' = active
      BY <2>1, <3>3
    <3> QED
      BY <3>1, <3>2, <3>3
      DEF Next, SetFlag, SetFlagRead, SetFlagWrite, Lock, LockFlag, Unlock,
          UnlockRead, UnlockCheck, UnlockRest, UnlockClose, Boot, Start,
          RegisterInstrument, Registered, ResetVolatileFlag, Serve, Crash,
          vars, durable
  <2>3. ASSUME NEW t \in Threads, UnlockRead(t, i, k)
        PROVE  FALSE
    BY <1>2, <2>3 DEF UnlockRead, TypeOK
  <2> QED
    BY <1>2, <2>1, <2>2, <2>3, UnlockingStep
<1>4. CASE k \notin held[i]
  <2>1. PICK t \in Threads : LockKey(t, i, k) /\ ~ Unlocking(i, k)
    <3>1. ASSUME NEW t \in Threads, NEW j \in Instruments, NEW l \in Keys,
                 LockKey(t, j, l)
          PROVE  LockKey(t, i, k) /\ ~ Unlocking(i, k)
      <4>1. j = i /\ l = k
        BY <1>4, <3>1 DEF LockKey, TypeOK
      <4> QED
        BY <1>4, <3>1, <4>1 DEF LockKey
    <3>2. ASSUME NEW t \in Threads, NEW j \in Instruments, NEW l \in Keys,
                 UnlockRead(t, j, l)
          PROVE  FALSE
      BY <1>4, <3>2 DEF UnlockRead, TypeOK
    <3>3. held' # held
      BY <1>4
    <3> QED
      BY <3>1, <3>2, <3>3
      DEF Next, SetFlag, SetFlagRead, SetFlagWrite, Lock, LockFlag, Unlock,
          UnlockCheck, UnlockDrop, UnlockRest, UnlockClose, Boot, Start,
          RegisterInstrument, Registered, ResetVolatileFlag, Serve, Crash,
          vars
  <2>2. k \in active'[i]
    BY <2>1 DEF LockKey, TypeOK
  <2>3. ASSUME NEW u \in Threads, UnlockRead(u, i, k)
        PROVE  FALSE
    BY <1>2, <2>3 DEF UnlockRead, TypeOK
  <2> QED
    BY <1>2, <2>1, <2>2, <2>3, UnlockingStep
<1> QED
  BY <1>3, <1>4

\* A step that writes LOCK, or adds a key, overtakes every other call on the
\* instrument; so what an overtaken-free call read stays true.
LEMMA ReadsStep ==
    Configuration /\ StoreInv /\ [Next]_vars => ReadsStillTrue'
<1> SUFFICES ASSUME Configuration, StoreInv, [Next]_vars
             PROVE  ReadsStillTrue'
  OBVIOUS
<1> USE DEF StoreInv
<1>0. TypeOK'
  BY TypeStep
<1>1. ASSUME NEW t \in Threads, NEW i \in Instruments, NEW f \in Settable,
             SetFlagRead(t, i, f)
      PROVE  ReadsStillTrue'
  <2>1. flag[i] = "lock" => f = "lock"
    BY <1>1 DEF SetFlagRead, ReadFlag, NoRow
  <2> QED
    BY <1>1, <2>1 DEF SetFlagRead, ReadsStillTrue, At, TypeOK, durable
<1>2. ASSUME NEW t \in Threads, SetFlagWrite(t)
      PROVE  ReadsStillTrue'
  <2>1. call[t] \in SetCall /\ call[t] # NoCall
    BY <1>2, CallFields DEF SetFlagWrite, At, NoCall
  <2>2. SUFFICES ASSUME NEW u \in Threads \ raced'
                 PROVE  /\ At(u, "set_write")' /\ call'[u].flag # "lock"
                               => flag'[call'[u].ins] # "lock"
                        /\ At(u, "unlock_close")' => active'[call'[u].ins] = {}
    BY DEF ReadsStillTrue
  <2>3. CASE u = t
    BY <1>2, <2>3 DEF SetFlagWrite, Return, At, NoCall, TypeOK
  <2>4. CASE u # t
    <3>1. call'[u] = call[u] /\ u \notin raced
      BY <1>2, <2>2, <2>4 DEF SetFlagWrite, Return, TypeOK, Overtake
    <3>2. CASE call[u] # NoCall /\ call[u].ins = call[t].ins
      <4>1. call[t].flag # "lock"
        BY <1>2, <2>2, <2>4, <3>2 DEF SetFlagWrite, Overtake, Busy
      <4> QED
        BY <1>2, <2>1, <3>1, <3>2, <4>1
        DEF SetFlagWrite, ReadsStillTrue, At, TypeOK, SetCall
    <3>3. CASE call[u] = NoCall
      BY <3>1, <3>3 DEF At, NoCall
    <3>4. CASE call[u] # NoCall /\ call[u].ins # call[t].ins
      BY <1>2, <2>1, <3>1, <3>4, CallFields
      DEF SetFlagWrite, ReadsStillTrue, At, TypeOK, SetCall
    <3> QED
      BY <3>2, <3>3, <3>4
  <2> QED
    BY <2>3, <2>4
<1>3. ASSUME NEW t \in Threads, NEW i \in Instruments, NEW k \in Keys,
             LockKey(t, i, k)
      PROVE  ReadsStillTrue'
  <2>1. SUFFICES ASSUME NEW u \in Threads \ raced'
                 PROVE  /\ At(u, "set_write")' /\ call'[u].flag # "lock"
                               => flag'[call'[u].ins] # "lock"
                        /\ At(u, "unlock_close")' => active'[call'[u].ins] = {}
    BY DEF ReadsStillTrue
  <2>2. CASE u = t
    BY <1>3, <2>2 DEF LockKey, At, TypeOK
  <2>3. CASE u # t
    <3>1. call'[u] = call[u] /\ u \notin raced /\ ~ Busy(u, i)
      BY <1>3, <2>1, <2>3 DEF LockKey, TypeOK, Overtake
    <3>2. At(u, "unlock_close") => call[u].ins \in Instruments \ {i}
      BY <3>1, CallFields DEF Busy, At, NoCall
    <3>3. At(u, "unlock_close") => active'[call[u].ins] = active[call[u].ins]
      BY <1>3, <3>2 DEF LockKey, TypeOK
    <3> QED
      BY <1>3, <3>1, <3>3 DEF LockKey, ReadsStillTrue, At
  <2> QED
    BY <2>2, <2>3
<1>4. ASSUME NEW t \in Threads, LockFlag(t)
      PROVE  ReadsStillTrue'
  <2>1. SUFFICES ASSUME NEW u \in Threads \ raced'
                 PROVE  /\ At(u, "set_write")' /\ call'[u].flag # "lock"
                               => flag'[call'[u].ins] # "lock"
                        /\ At(u, "unlock_close")' => active'[call'[u].ins] = {}
    BY DEF ReadsStillTrue
  <2>2. CASE u = t
    BY <1>4, <2>2 DEF LockFlag, Return, At, NoCall, TypeOK
  <2>3. CASE u # t
    <3>1. call'[u] = call[u] /\ u \notin raced /\ ~ Busy(u, call[t].ins)
      BY <1>4, <2>1, <2>3 DEF LockFlag, Return, TypeOK, Overtake
    <3>2. call[t].ins \in Instruments
      BY <1>4, CallFields DEF LockFlag, At, NoCall
    <3> QED
      BY <1>4, <3>1, <3>2, CallFields
      DEF LockFlag, ReadsStillTrue, Busy, At, NoCall, TypeOK
  <2> QED
    BY <2>2, <2>3
<1>5. ASSUME NEW t \in Threads, Unlock(t)
      PROVE  ReadsStillTrue'
  <2>1. ASSUME NEW i \in Instruments, NEW k \in Keys, UnlockRead(t, i, k)
        PROVE  ReadsStillTrue'
    BY <2>1 DEF UnlockRead, ReadsStillTrue, At, TypeOK, durable
  <2>2. CASE UnlockCheck(t)
    <3>1. call[t] \in KeyCall
      BY <2>2, CallFields DEF UnlockCheck, At, NoCall
    <3>2. call'[t].pc \in {"unlock_drop", "idle"}
      BY <2>2, <3>1 DEF UnlockCheck, Goto, Return, NoCall, TypeOK, KeyCall
    <3>3. \A u \in Threads \ {t} : call'[u] = call[u] /\ (u \in raced' <=> u \in raced)
      BY <2>2 DEF UnlockCheck, Goto, Return, TypeOK
    <3> QED
      BY <2>2, <3>2, <3>3 DEF UnlockCheck, ReadsStillTrue, At, durable
  <2>3. CASE UnlockDrop(t)
    <3>1. call[t] \in KeyCall
      BY <2>3, CallFields DEF UnlockDrop, At, NoCall
    <3>2. call'[t].pc = "unlock_rest"
      BY <2>3, <3>1 DEF UnlockDrop, Goto, TypeOK, KeyCall
    <3>3. \A u \in Threads \ {t} : call'[u] = call[u]
      BY <2>3 DEF UnlockDrop, Goto, TypeOK
    <3>4. \A i \in Instruments : active[i] = {} => active'[i] = {}
      BY <2>3 DEF UnlockDrop, TypeOK
    <3>5. \A u \in Threads : At(u, "unlock_close") => call[u].ins \in Instruments
      BY CallFields DEF At, NoCall
    <3> QED
      BY <2>3, <3>2, <3>3, <3>4, <3>5 DEF UnlockDrop, ReadsStillTrue, At
  <2>4. CASE UnlockRest(t)
    <3>1. call[t] \in KeyCall
      BY <2>4, CallFields DEF UnlockRest, At, NoCall
    <3>2. /\ call'[t].pc \in {"unlock_close", "idle"}
          /\ call'[t].pc = "unlock_close" =>
                 call'[t].ins = call[t].ins /\ active[call[t].ins] = {}
      BY <2>4, <3>1 DEF UnlockRest, Goto, Return, NoCall, TypeOK, KeyCall
    <3>3. \A u \in Threads \ {t} : call'[u] = call[u] /\ (u \in raced' <=> u \in raced)
      BY <2>4 DEF UnlockRest, Goto, Return, TypeOK
    <3> QED
      BY <2>4, <3>2, <3>3 DEF UnlockRest, ReadsStillTrue, At, durable
  <2>5. CASE UnlockClose(t)
    BY <2>5, CallFields DEF UnlockClose, ReadsStillTrue, At, Return, NoCall, TypeOK
  <2> QED
    BY <1>5, <2>1, <2>2, <2>3, <2>4, <2>5 DEF Unlock
<1>6. CASE Boot
  <2>1. ASSUME NEW i \in Instruments, RegisterInstrument(i) \/ ResetVolatileFlag(i)
        PROVE  ReadsStillTrue'
    <3>1. \A j \in Instruments : flag'[j] = "lock" => flag[j] = "lock"
      BY <2>1 DEF RegisterInstrument, ResetVolatileFlag, TypeOK
    <3>2. \A u \in Threads : At(u, "set_write") => call[u].ins \in Instruments
      BY CallFields DEF At, SetCall
    <3> QED
      BY <2>1, <3>1, <3>2
      DEF RegisterInstrument, ResetVolatileFlag, ReadsStillTrue, At
  <2>2. CASE Start \/ Registered \/ Serve
    BY <2>2 DEF Start, Registered, Serve, ReadsStillTrue, At, durable
  <2> QED
    BY <1>6, <2>1, <2>2 DEF Boot
<1>7. CASE Crash
  BY <1>7 DEF Crash, ReadsStillTrue, At, NoCall
<1>8. CASE UNCHANGED vars
  BY <1>8 DEF vars, ReadsStillTrue, At
<1> QED
  BY <1>1, <1>2, <1>3, <1>4, <1>5, <1>6, <1>7, <1>8 DEF Next, SetFlag, Lock

-----------------------------------------------------------------------------
(* The theorems.                                                           *)

LEMMA StoreStep == Configuration /\ StoreInv /\ [Next]_vars => StoreInv'
  BY TypeStep, HeldStep, ReadsStep DEF StoreInv

LEMMA StoreInvariant == Spec => []StoreInv
<1>1. StoreInv /\ [Next]_vars => StoreInv'
  BY StoreAssumption, StoreStep
<1> QED
  BY <1>1, InvInit, PTL DEF Spec

\* A locked key stays active until somebody begins to unlock that key,
\* whatever the other threads do and wherever the process dies.
THEOREM KeysAreDurable == Spec => []HeldKeysActive
<1>1. StoreInv => HeldKeysActive
  BY DEF StoreInv
<1> QED
  BY <1>1, StoreInvariant, PTL

\* One step: who may take a flag off LOCK under an active key.
LEMMA LostStep ==
    StoreInv /\ Next =>
        \A i \in Instruments :
            flag[i] = "lock" /\ flag'[i] # "lock" /\ active[i] # {} =>
                \E t \in raced : Busy(t, i) /\ call'[t] = NoCall
<1> SUFFICES ASSUME StoreInv, Next, NEW i \in Instruments,
                    flag[i] = "lock", flag'[i] # "lock", active[i] # {}
             PROVE  \E t \in raced : Busy(t, i) /\ call'[t] = NoCall
  OBVIOUS
<1> USE DEF StoreInv
<1>1. ASSUME NEW t \in Threads, SetFlagWrite(t)
      PROVE  t \in raced /\ Busy(t, i) /\ call'[t] = NoCall
  <2>1. call[t] \in SetCall /\ call[t] # NoCall
    BY <1>1, CallFields DEF SetFlagWrite, At, NoCall
  <2>2. call[t].ins = i /\ call[t].flag # "lock"
    BY <1>1, <2>1 DEF SetFlagWrite, TypeOK, SetCall
  <2> QED
    BY <1>1, <2>1, <2>2 DEF SetFlagWrite, Return, ReadsStillTrue, Busy, TypeOK
<1>2. ASSUME NEW t \in Threads, UnlockClose(t)
      PROVE  t \in raced /\ Busy(t, i) /\ call'[t] = NoCall
  <2>1. call[t] \in KeyCall /\ call[t] # NoCall
    BY <1>2, CallFields DEF UnlockClose, At, NoCall
  <2>2. call[t].ins = i
    BY <1>2, <2>1 DEF UnlockClose, TypeOK, KeyCall
  <2> QED
    BY <1>2, <2>1, <2>2 DEF UnlockClose, Return, ReadsStillTrue, Busy, TypeOK
<1>3. ASSUME NEW t \in Threads, LockFlag(t)
      PROVE  FALSE
  <2>1. call[t].ins \in Instruments
    BY <1>3, CallFields DEF LockFlag, At, NoCall
  <2> QED
    BY <1>3, <2>1 DEF LockFlag, TypeOK
<1>4. ASSUME NEW j \in Instruments, RegisterInstrument(j) \/ ResetVolatileFlag(j)
      PROVE  FALSE
  BY <1>4 DEF RegisterInstrument, ResetVolatileFlag, TypeOK, NoRow
<1>5. flag' # flag
  OBVIOUS
<1> QED
  BY <1>1, <1>2, <1>3, <1>4, <1>5
  DEF Next, SetFlag, SetFlagRead, Lock, LockKey, Unlock, UnlockRead,
      UnlockCheck, UnlockDrop, UnlockRest, Boot, Start, Registered, Serve,
      Crash, durable

\* The only way a flag leaves LOCK under an active key is the write of a call
\* that a lock() overtook between its read and its write.
THEOREM OnlyRacesLoseLocks == Spec => LockLostOnlyToRace
<1> DEFINE Lost == \A i \in Instruments :
                      flag[i] = "lock" /\ flag'[i] # "lock" /\ active[i] # {} =>
                          \E t \in raced : Busy(t, i) /\ call'[t] = NoCall
<1>1. StoreInv /\ [Next]_vars => [Lost]_vars
  BY LostStep
<1> QED
  BY <1>1, StoreInvariant, PTL DEF Spec, LockLostOnlyToRace

-----------------------------------------------------------------------------
(* The boot.                                                               *)

\* Nothing is in flight until the supervisor serves, and what the reset has
\* passed over is READY, LOCK or not on the board.
BootInv ==
    /\ phase # "up" => \A t \in Threads : call[t] = NoCall
    /\ phase = "reset" =>
          \A i \in Volatile \ todo : flag[i] \in {"ready", "lock", NoRow}

LEMMA BootStep == Configuration /\ TypeOK /\ BootInv /\ [Next]_vars => BootInv'
<1> SUFFICES ASSUME Configuration, TypeOK, BootInv, [Next]_vars
             PROVE  BootInv'
  OBVIOUS
<1> USE DEF BootInv, TypeOK, durable
<1>1. ASSUME NEW t \in Threads, SetFlag(t) \/ Lock(t) \/ Unlock(t)
      PROVE  phase = "up" /\ phase' = phase
  BY <1>1 DEF SetFlag, SetFlagRead, SetFlagWrite, Lock, LockKey, LockFlag, Unlock,
              UnlockRead, UnlockCheck, UnlockDrop, UnlockRest, UnlockClose,
              Idle, At, NoCall
<1>2. CASE Start \/ Registered \/ Serve \/ Crash
  BY <1>2 DEF Start, Registered, Serve, Crash
<1>3. ASSUME NEW i \in Instruments, RegisterInstrument(i) \/ ResetVolatileFlag(i)
      PROVE  BootInv'
  BY <1>3 DEF RegisterInstrument, ResetVolatileFlag, Configuration
<1>4. CASE UNCHANGED vars
  BY <1>4 DEF vars
<1> QED
  BY <1>1, <1>2, <1>3, <1>4 DEF Next, Boot

\* No boot, however often the process dies in one, serves with a scheduler or
\* robobs flag that outlived its controller.
THEOREM BootsStartFresh == Spec => VolatileFresh
<1> DEFINE Fresh == phase # "up" /\ phase' = "up" =>
                       \A i \in Volatile : flag'[i] \in {"ready", "lock", NoRow}
<1>1. Init => BootInv
  BY DEF Init, BootInv
<1>2. TypeOK /\ BootInv /\ [Next]_vars => BootInv' /\ [Fresh]_vars
  <2> SUFFICES ASSUME TypeOK, BootInv, Next, phase # "up", phase' = "up"
               PROVE  \A i \in Volatile : flag'[i] \in {"ready", "lock", NoRow}
    BY StoreAssumption, BootStep
  <2>1. Serve
    BY DEF Next, SetFlag, SetFlagRead, SetFlagWrite, Lock, LockKey, LockFlag, Unlock,
           UnlockRead, UnlockCheck, UnlockDrop, UnlockRest, UnlockClose, Boot,
           Start, RegisterInstrument, ResetVolatileFlag, Registered, Crash
  <2> QED
    BY <2>1 DEF Serve, BootInv, durable
<1> QED
  BY <1>1, <1>2, StoreTypeOK, PTL DEF Spec, VolatileFresh

-----------------------------------------------------------------------------
(* Serialised calls implement the atomic board.                            *)

UnlockLabels == {"unlock_check", "unlock_drop", "unlock_rest", "unlock_close"}

\* Only lock() is ever between the key and the flag of an instrument.
KeyedIsLocked ==
    \A i \in Instruments :
        active[i] # {} /\ ~ Within(i, {"lock_flag"}) => flag[i] = "lock"

\* Whatever a call read holds until it returns.
ReadsHold ==
    \A t \in Threads :
        /\ At(t, "set_write") /\ flag[call[t].ins] = "lock" => call[t].flag = "lock"
        /\ call[t].pc \in UnlockLabels => flag[call[t].ins] = "lock"
        /\ At(t, "unlock_drop") => call[t].key \in active[call[t].ins]
        /\ At(t, "unlock_close") => active[call[t].ins] = {}

\* No call is served before the boot is over.
QuietBoot == phase # "up" => Quiet

SerialInv == TypeOK /\ Serialised /\ KeyedIsLocked /\ ReadsHold /\ QuietBoot

-----------------------------------------------------------------------------

LEMMA SerialInit == Init => SerialInv
  BY TypeInit DEF Init, SerialInv, Serialised, KeyedIsLocked, ReadsHold,
                  QuietBoot, Quiet, At, NoCall, UnlockLabels

\* A call of t on i is the only one there, so a thread is within i exactly when
\* t is.
LEMMA Alone ==
    ASSUME Serialised, NEW t \in Threads, NEW i, Busy(t, i), NEW labels
    PROVE  Within(i, labels) <=> call[t].pc \in labels
  BY DEF Serialised, Busy, Within

\* Nobody is within an instrument that no call is about.
LEMMA Nobody ==
    ASSUME NEW i, \A t \in Threads : ~ Busy(t, i), NEW labels
    PROVE  ~ Within(i, labels)
  BY DEF Within

\* A step of t's call on i leaves everybody else's calls as they were.
LEMMA Elsewhere ==
    ASSUME NEW t \in Threads, NEW i, NEW j, i # j, NEW labels,
           \A u \in Threads \ {t} : call'[u] = call[u],
           call[t] # NoCall => call[t].ins = i,
           call'[t] # NoCall => call'[t].ins = i
    PROVE  Within(j, labels)' <=> Within(j, labels)
  BY DEF Within, Busy

-----------------------------------------------------------------------------
(* One lemma per statement: what it does to the invariant, and which board *)
(* step it is.  i is the instrument of the call, j any other.              *)

\* The board at an instrument where t is alone.
BoardAt(t, i) == IF call[t].pc = "lock_flag" THEN "lock"
                 ELSE IF active[i] = {} /\ call[t].pc \in {"unlock_rest", "unlock_close"}
                      THEN "close"
                      ELSE flag[i]

LEMMA BoardBusy ==
    ASSUME Serialised, NEW t \in Threads, NEW i \in Instruments, Busy(t, i)
    PROVE  BoardFlag[i] = BoardAt(t, i)
<1>1. Within(i, {"lock_flag"}) <=> call[t].pc = "lock_flag"
  BY Alone
<1>2. Within(i, {"unlock_rest", "unlock_close"})
          <=> call[t].pc \in {"unlock_rest", "unlock_close"}
  BY Alone
<1> QED
  BY <1>1, <1>2 DEF BoardFlag, BoardAt

LEMMA BoardIdle ==
    ASSUME NEW i \in Instruments, \A t \in Threads : ~ Busy(t, i)
    PROVE  BoardFlag[i] = flag[i]
<1>1. ~ Within(i, {"lock_flag"}) /\ ~ Within(i, {"unlock_rest", "unlock_close"})
  BY Nobody
<1> QED
  BY <1>1 DEF BoardFlag

\* A step of t's call on i, in which the tables change at i only, leaves the
\* board elsewhere as it was.
LEMMA BoardElsewhere ==
    ASSUME NEW t \in Threads, NEW i \in Instruments, NEW j \in Instruments, i # j,
           \A u \in Threads \ {t} : call'[u] = call[u],
           call[t] # NoCall => call[t].ins = i,
           call'[t] # NoCall => call'[t].ins = i,
           flag'[j] = flag[j], active'[j] = active[j]
    PROVE  BoardFlag'[j] = BoardFlag[j]
<1>1. Within(j, {"lock_flag"})' <=> Within(j, {"lock_flag"})
  BY Elsewhere
<1>2. Within(j, {"unlock_rest", "unlock_close"})'
          <=> Within(j, {"unlock_rest", "unlock_close"})
  BY Elsewhere
<1> QED
  BY <1>1, <1>2 DEF BoardFlag

-----------------------------------------------------------------------------
(* Steps of a call                                                         *)

\* What every statement of thread t's call on i does, whichever it is.
CallStep(t, i) ==
    /\ phase = "up" /\ phase' = "up"
    /\ call[t] # NoCall => call[t].ins = i
    /\ call'[t] # NoCall => call'[t].ins = i
    /\ \A u \in Threads \ {t} : call'[u] = call[u] /\ ~ Busy(u, i)
    /\ \A j \in Instruments \ {i} : flag'[j] = flag[j] /\ active'[j] = active[j]

\* The invariant at the instrument and the thread of the step.
LocalInv(t, i) ==
    /\ active[i] # {} /\ call[t].pc # "lock_flag" => flag[i] = "lock"
    /\ At(t, "set_write") /\ flag[i] = "lock" => call[t].flag = "lock"
    /\ call[t].pc \in UnlockLabels => flag[i] = "lock"
    /\ At(t, "unlock_drop") => call[t].key \in active[i]
    /\ At(t, "unlock_close") => active[i] = {}

\* The invariant gives its local form at the instrument of any call step.
LEMMA LocalOf ==
    ASSUME SerialInv, NEW t \in Threads, NEW i \in Instruments, CallStep(t, i)
    PROVE  LocalInv(t, i)
<1>1. active[i] # {} /\ call[t].pc # "lock_flag" => flag[i] = "lock"
  BY DEF SerialInv, KeyedIsLocked, CallStep, Within, Busy
<1>2. call[t] = NoCall \/ call[t].ins = i
  BY DEF CallStep
<1> QED
  BY <1>1, <1>2 DEF SerialInv, ReadsHold, LocalInv, At, NoCall, UnlockLabels

\* A call step that keeps the local invariant keeps the whole invariant.
LEMMA GlobalOf ==
    ASSUME SerialInv, TypeOK', Serialised',
           NEW t \in Threads, NEW i \in Instruments,
           CallStep(t, i), LocalInv(t, i)'
    PROVE  SerialInv'
<1> USE DEF SerialInv
<1>1. KeyedIsLocked'
  <2> SUFFICES ASSUME NEW j \in Instruments, active'[j] # {},
                      ~ Within(j, {"lock_flag"})'
               PROVE  flag'[j] = "lock"
    BY DEF KeyedIsLocked
  <2>1. CASE j = i
    <3>1. call'[t].pc # "lock_flag"
      BY <2>1 DEF CallStep, Within, Busy, NoCall
    <3> QED
      BY <2>1, <3>1 DEF LocalInv
  <2>2. CASE j # i
    <3>1. ~ Within(j, {"lock_flag"})
      BY <2>2, Elsewhere DEF CallStep
    <3> QED
      BY <2>2, <3>1 DEF KeyedIsLocked, CallStep
  <2> QED
    BY <2>1, <2>2
<1>2. ReadsHold'
  <2> SUFFICES ASSUME NEW u \in Threads
               PROVE  /\ At(u, "set_write")' /\ flag'[call'[u].ins] = "lock"
                             => call'[u].flag = "lock"
                      /\ call'[u].pc \in UnlockLabels => flag'[call'[u].ins] = "lock"
                      /\ At(u, "unlock_drop")' => call'[u].key \in active'[call'[u].ins]
                      /\ At(u, "unlock_close")' => active'[call'[u].ins] = {}
    BY DEF ReadsHold
  <2>1. CASE u = t
    <3>1. call'[t] = NoCall \/ call'[t].ins = i
      BY DEF CallStep
    <3> QED
      BY <2>1, <3>1 DEF LocalInv, At, NoCall, UnlockLabels
  <2>2. CASE u # t
    <3>1. call'[u] = call[u] /\ ~ Busy(u, i)
      BY <2>2 DEF CallStep
    <3>2. CASE call[u] = NoCall
      BY <3>1, <3>2 DEF At, NoCall, UnlockLabels
    <3>3. CASE call[u] # NoCall
      <4>1. call[u].ins \in Instruments \ {i}
        BY <3>1, <3>3, CallFields DEF Busy
      <4>2. flag'[call[u].ins] = flag[call[u].ins] /\ active'[call[u].ins] = active[call[u].ins]
        BY <4>1 DEF CallStep
      <4> QED
        BY <3>1, <4>2 DEF ReadsHold, At
    <3> QED
      BY <3>2, <3>3
  <2> QED
    BY <2>1, <2>2
<1>3. QuietBoot'
  BY DEF QuietBoot, CallStep
<1> QED
  BY <1>1, <1>2, <1>3

\* A call step on i changes the board at i only, to what t leaves there.
LEMMA BoardStep ==
    ASSUME SerialInv, Serialised',
           NEW t \in Threads, NEW i \in Instruments, CallStep(t, i)
    PROVE  /\ BoardFlag[i] = BoardAt(t, i)
           /\ BoardFlag' = [BoardFlag EXCEPT ![i] = BoardAt(t, i)']
           /\ BoardAt(t, i)' = BoardAt(t, i) => BoardFlag' = BoardFlag
<1>1. BoardFlag[i] = BoardAt(t, i)
  <2>1. CASE Busy(t, i)
    BY <2>1, BoardBusy DEF SerialInv
  <2>2. CASE ~ Busy(t, i)
    <3>1. BoardFlag[i] = flag[i]
      BY <2>2, BoardIdle DEF CallStep
    <3> QED
      BY <2>2, <3>1 DEF CallStep, Busy, BoardAt, NoCall
  <2> QED
    BY <2>1, <2>2
<1>2. BoardFlag'[i] = BoardAt(t, i)'
  <2>2. \A u \in Threads \ {t} : ~ Busy(u, i)'
    BY DEF CallStep, Busy
  <2>3. Within(i, {"lock_flag"})' <=> call'[t] # NoCall /\ call'[t].pc = "lock_flag"
    BY <2>2 DEF Within, CallStep, Busy
  <2>4. Within(i, {"unlock_rest", "unlock_close"})'
            <=> call'[t] # NoCall /\ call'[t].pc \in {"unlock_rest", "unlock_close"}
    BY <2>2 DEF Within, CallStep, Busy
  <2> QED
    BY <2>3, <2>4 DEF BoardFlag, BoardAt, NoCall
<1>3. ASSUME NEW j \in Instruments, j # i
      PROVE  BoardFlag'[j] = BoardFlag[j]
  BY <1>3, BoardElsewhere DEF CallStep
<1> QED
  BY <1>1, <1>2, <1>3 DEF BoardFlag

\* What is to be shown of a statement: the invariant after it, and a step of
\* the board or none.
StepOK == SerialInv' /\ [Board!Next]_(Board!bvars)

LEMMA SetFlagStep ==
    ASSUME Configuration, SerialInv, TypeOK', Serialised',
           NEW t \in Threads, SetFlag(t)
    PROVE  StepOK
<1> USE DEF SerialInv
<1>1. ASSUME NEW i \in Instruments, NEW f \in Settable, SetFlagRead(t, i, f)
      PROVE  StepOK
  <2>1. /\ call[t] = NoCall
        /\ call'[t] = [pc |-> "set_write", ins |-> i, flag |-> f]
        /\ \A u \in Threads \ {t} : call'[u] = call[u]
        /\ flag' = flag /\ active' = active
    BY <1>1 DEF SetFlagRead, Idle, TypeOK, durable
  <2>2. Busy(t, i)'
    BY <2>1 DEF Busy, NoCall
  <2>3. CallStep(t, i)
    BY <1>1, <2>1, <2>2 DEF CallStep, SetFlagRead, Idle, Serialised, Busy
  <2>4. LocalInv(t, i)'
    BY <1>1, <2>1, <2>3, LocalOf
    DEF LocalInv, At, NoCall, UnlockLabels, SetFlagRead, ReadFlag, NoRow
  <2>5. BoardAt(t, i)' = BoardAt(t, i)
    BY <2>1 DEF BoardAt, NoCall
  <2>6. BoardFlag' = BoardFlag
    BY <2>3, <2>5, BoardStep
  <2> QED
    BY <2>1, <2>3, <2>4, <2>6, GlobalOf DEF StepOK, Board!bvars
<1>2. CASE SetFlagWrite(t)
  <2>1. call[t] \in SetCall /\ call[t] # NoCall /\ At(t, "set_write")
    BY <1>2, CallFields DEF SetFlagWrite, At, NoCall
  <2> PICK i \in Instruments, f \in Settable :
          call[t] = [pc |-> "set_write", ins |-> i, flag |-> f]
    BY <2>1 DEF SetCall
  <2>2. /\ call'[t] = NoCall
        /\ \A u \in Threads \ {t} : call'[u] = call[u]
        /\ flag' = [flag EXCEPT ![i] = f] /\ active' = active /\ phase' = phase
    BY <1>2 DEF SetFlagWrite, Return, TypeOK
  <2>3. CallStep(t, i)
    BY <2>1, <2>2 DEF CallStep, Serialised, Busy, QuietBoot, Quiet
  <2>4. flag[i] = "lock" => f = "lock"
    BY <2>1, <2>3, LocalOf DEF LocalInv
  <2>5. flag'[i] = f
    BY <2>1, <2>2 DEF TypeOK
  <2>6. LocalInv(t, i)'
    BY <2>1, <2>2, <2>3, <2>4, <2>5, LocalOf
    DEF LocalInv, At, NoCall, UnlockLabels
  <2>7. BoardAt(t, i) = flag[i] /\ BoardAt(t, i)' = f
    BY <2>1, <2>2, <2>5 DEF BoardAt, At, NoCall
  <2>8. Board!SetFlag(i, f)
    BY <2>1, <2>2, <2>3, <2>4, <2>7, BoardStep DEF Board!SetFlag
  <2> QED
    BY <2>1, <2>3, <2>6, <2>8, GlobalOf DEF StepOK, Board!Next
<1> QED
  BY <1>1, <1>2 DEF SetFlag

LEMMA LockStep ==
    ASSUME Configuration, SerialInv, TypeOK', Serialised',
           NEW t \in Threads, Lock(t)
    PROVE  StepOK
<1> USE DEF SerialInv
<1>1. ASSUME NEW i \in Instruments, NEW k \in Keys, LockKey(t, i, k)
      PROVE  StepOK
  <2>1. /\ call[t] = NoCall
        /\ call'[t] = [pc |-> "lock_flag", ins |-> i, key |-> k]
        /\ \A u \in Threads \ {t} : call'[u] = call[u]
        /\ flag' = flag /\ active' = [active EXCEPT ![i] = @ \cup {k}]
    BY <1>1 DEF LockKey, Idle, TypeOK
  <2>2. Busy(t, i)'
    BY <2>1 DEF Busy, NoCall
  <2>3. CallStep(t, i)
    BY <1>1, <2>1, <2>2 DEF CallStep, LockKey, Idle, Serialised, Busy, TypeOK
  <2>4. LocalInv(t, i)'
    BY <2>1 DEF LocalInv, At, UnlockLabels
  <2>5. BoardAt(t, i)' = "lock"
    BY <2>1 DEF BoardAt
  <2>6. Board!Lock(i, k)
    BY <2>1, <2>3, <2>5, BoardStep DEF Board!Lock
  <2> QED
    BY <2>3, <2>4, <2>6, GlobalOf DEF StepOK, Board!Next
<1>2. CASE LockFlag(t)
  <2>1. call[t] # NoCall /\ At(t, "lock_flag") /\ call[t].ins \in Instruments
    BY <1>2, CallFields DEF LockFlag, At, NoCall
  <2> PICK i \in Instruments : i = call[t].ins
    BY <2>1
  <2>2. /\ call'[t] = NoCall
        /\ \A u \in Threads \ {t} : call'[u] = call[u]
        /\ flag' = [flag EXCEPT ![i] = "lock"] /\ active' = active /\ phase' = phase
    BY <1>2 DEF LockFlag, Return, TypeOK
  <2>3. CallStep(t, i)
    BY <2>1, <2>2 DEF CallStep, Serialised, Busy, QuietBoot, Quiet
  <2>4. flag'[i] = "lock"
    BY <2>1, <2>2 DEF TypeOK
  <2>5. LocalInv(t, i)'
    BY <2>2, <2>4 DEF LocalInv, At, NoCall, UnlockLabels
  <2>6. BoardAt(t, i)' = BoardAt(t, i)
    BY <2>1, <2>2, <2>4 DEF BoardAt, At, NoCall
  <2>7. BoardFlag' = BoardFlag
    BY <2>3, <2>6, BoardStep
  <2> QED
    BY <2>1, <2>2, <2>3, <2>5, <2>7, GlobalOf DEF StepOK, Board!bvars
<1> QED
  BY <1>1, <1>2 DEF Lock

LEMMA UnlockStep ==
    ASSUME Configuration, SerialInv, TypeOK', Serialised',
           NEW t \in Threads, Unlock(t)
    PROVE  StepOK
<1> USE DEF SerialInv
<1>1. ASSUME NEW i \in Instruments, NEW k \in Keys, UnlockRead(t, i, k)
      PROVE  StepOK
  <2>1. /\ call[t] = NoCall
        /\ call'[t] = [pc |-> "unlock_check", ins |-> i, key |-> k]
        /\ \A u \in Threads \ {t} : call'[u] = call[u]
        /\ flag' = flag /\ active' = active /\ flag[i] = "lock"
    BY <1>1 DEF UnlockRead, Idle, TypeOK, durable, ReadFlag, NoRow
  <2>2. Busy(t, i)'
    BY <2>1 DEF Busy, NoCall
  <2>3. CallStep(t, i)
    BY <1>1, <2>1, <2>2 DEF CallStep, UnlockRead, Idle, Serialised, Busy
  <2>4. LocalInv(t, i)'
    BY <2>1 DEF LocalInv, At, UnlockLabels
  <2>5. BoardAt(t, i)' = BoardAt(t, i)
    BY <2>1 DEF BoardAt, NoCall
  <2>6. BoardFlag' = BoardFlag
    BY <2>3, <2>5, BoardStep
  <2> QED
    BY <2>1, <2>3, <2>4, <2>6, GlobalOf DEF StepOK, Board!bvars
<1>2. ASSUME call[t] \in KeyCall, call[t] # NoCall,
             UnlockCheck(t) \/ UnlockDrop(t) \/ UnlockRest(t) \/ UnlockClose(t)
      PROVE  StepOK
  <2> PICK i \in Instruments, k \in Keys : i = call[t].ins /\ k = call[t].key
    BY <1>2 DEF KeyCall
  <2>1. phase = "up" /\ phase' = phase
    BY <1>2 DEF UnlockCheck, UnlockDrop, UnlockRest, UnlockClose, QuietBoot, Quiet
  <2>2. /\ \A u \in Threads \ {t} : call'[u] = call[u] /\ ~ Busy(u, i)
        /\ \A j \in Instruments \ {i} : flag'[j] = flag[j] /\ active'[j] = active[j]
    BY <1>2 DEF UnlockCheck, UnlockDrop, UnlockRest, UnlockClose, Goto, Return,
                TypeOK, durable, Serialised, Busy
  <2>3. call'[t] = NoCall \/ (call'[t].ins = i /\ call'[t].key = k)
    <3>1. ASSUME NEW label, Goto(t, label)
          PROVE  call'[t].ins = i /\ call'[t].key = k
      <4>1. call'[t] = [call[t] EXCEPT !.pc = label]
        BY <3>1 DEF Goto, TypeOK
      <4> QED
        BY <1>2, <4>1 DEF KeyCall
    <3>2. Return(t) => call'[t] = NoCall
      BY DEF Return, TypeOK
    <3> QED
      BY <1>2, <3>1, <3>2 DEF UnlockCheck, UnlockDrop, UnlockRest, UnlockClose
  <2>4. CallStep(t, i)
    BY <2>1, <2>2, <2>3 DEF CallStep
  <2>5. LocalInv(t, i)
    BY <2>4, LocalOf
  <2>6. CASE UnlockCheck(t)
    <3>1. /\ call[t].pc = "unlock_check" /\ flag' = flag /\ active' = active
          /\ \/ call'[t].pc = "unlock_drop" /\ k \in active[i]
             \/ call'[t] = NoCall
      BY <1>2, <2>6 DEF UnlockCheck, At, Goto, Return, TypeOK, durable, KeyCall
    <3>2. LocalInv(t, i)'
      BY <2>3, <2>5, <3>1 DEF LocalInv, At, NoCall, UnlockLabels
    <3>3. BoardAt(t, i)' = BoardAt(t, i)
      BY <3>1 DEF BoardAt, NoCall
    <3>4. BoardFlag' = BoardFlag
      BY <2>4, <3>3, BoardStep
    <3> QED
      BY <2>4, <3>1, <3>2, <3>4, GlobalOf DEF StepOK, Board!bvars
  <2>7. CASE UnlockDrop(t)
    <3>1. /\ call[t].pc = "unlock_drop" /\ call'[t].pc = "unlock_rest"
          /\ flag' = flag /\ active' = [active EXCEPT ![i] = @ \ {k}]
      BY <1>2, <2>7 DEF UnlockDrop, At, Goto, TypeOK, KeyCall
    <3>2. flag[i] = "lock" /\ k \in active[i]
      BY <2>5, <3>1 DEF LocalInv, At, UnlockLabels
    <3>3. LocalInv(t, i)'
      BY <3>1, <3>2 DEF LocalInv, At
    <3>4. BoardAt(t, i) = "lock"
      BY <3>1, <3>2 DEF BoardAt
    <3>5. BoardAt(t, i)' = IF active[i] = {k} THEN "close" ELSE "lock"
      BY <3>1, <3>2 DEF BoardAt, TypeOK
    <3>6. BoardFlag' = IF active[i] = {k} THEN [BoardFlag EXCEPT ![i] = "close"]
                                         ELSE BoardFlag
      BY <2>4, <3>4, <3>5, BoardStep
    <3>7. Board!Unlock(i, k)
      BY <2>4, <3>1, <3>2, <3>4, <3>6, BoardStep DEF Board!Unlock
    <3> QED
      BY <2>4, <3>3, <3>7, GlobalOf DEF StepOK, Board!Next
  <2>8. CASE UnlockRest(t)
    <3>1. /\ call[t].pc = "unlock_rest" /\ flag' = flag /\ active' = active
          /\ \/ call'[t].pc = "unlock_close" /\ active[i] = {}
             \/ call'[t] = NoCall /\ active[i] # {}
      BY <1>2, <2>8 DEF UnlockRest, At, Goto, Return, TypeOK, durable, KeyCall
    <3>2. LocalInv(t, i)'
      BY <2>5, <3>1 DEF LocalInv, At, NoCall, UnlockLabels
    <3>3. BoardAt(t, i)' = BoardAt(t, i)
      BY <3>1 DEF BoardAt, NoCall
    <3>4. BoardFlag' = BoardFlag
      BY <2>4, <3>3, BoardStep
    <3> QED
      BY <2>4, <3>1, <3>2, <3>4, GlobalOf DEF StepOK, Board!bvars
  <2>9. CASE UnlockClose(t)
    <3>1. /\ call[t].pc = "unlock_close" /\ call'[t] = NoCall
          /\ flag'[i] = "close" /\ active' = active
      BY <1>2, <2>9 DEF UnlockClose, At, Return, TypeOK
    <3>2. active[i] = {}
      BY <2>5, <3>1 DEF LocalInv, At
    <3>3. LocalInv(t, i)'
      BY <3>1, <3>2 DEF LocalInv, At, NoCall, UnlockLabels
    <3>4. BoardAt(t, i)' = BoardAt(t, i)
      BY <3>1, <3>2 DEF BoardAt, NoCall
    <3>5. BoardFlag' = BoardFlag
      BY <2>4, <3>4, BoardStep
    <3> QED
      BY <2>4, <3>1, <3>3, <3>5, GlobalOf DEF StepOK, Board!bvars
  <2> QED
    BY <1>2, <2>6, <2>7, <2>8, <2>9
<1>3. UnlockCheck(t) \/ UnlockDrop(t) \/ UnlockRest(t) \/ UnlockClose(t)
          => call[t] \in KeyCall /\ call[t] # NoCall
  BY CallFields DEF UnlockCheck, UnlockDrop, UnlockRest, UnlockClose, At, NoCall
<1> QED
  BY <1>1, <1>2, <1>3 DEF Unlock

-----------------------------------------------------------------------------
(* Steps of the process                                                    *)

\* Without calls the board is the table.
LEMMA QuietBoard ==
    ASSUME TypeOK, Quiet
    PROVE  BoardFlag = flag
<1>1. \A i \in Instruments : BoardFlag[i] = flag[i]
  BY BoardIdle DEF Quiet, Busy
<1> QED
  BY <1>1 DEF BoardFlag, TypeOK

LEMMA ProcessStep ==
    ASSUME Configuration, SerialInv, TypeOK', Serialised',
           Boot \/ (Crash /\ Quiet)
    PROVE  StepOK
<1> USE DEF SerialInv
<1>1. Quiet /\ Quiet' /\ active' = active
  BY DEF Boot, Start, RegisterInstrument, Registered, ResetVolatileFlag, Serve,
         Crash, QuietBoot, Quiet, durable
<1>2. BoardFlag = flag /\ BoardFlag' = flag'
  <2>1. BoardFlag = flag
    BY <1>1, QuietBoard
  <2>2. \A i \in Instruments : BoardFlag'[i] = flag'[i]
    BY <1>1 DEF BoardFlag, Quiet, Within, Busy
  <2>3. BoardFlag' = flag'
    BY <2>2 DEF BoardFlag, TypeOK
  <2> QED
    BY <2>1, <2>3
<1>3. \A i \in Instruments : active[i] # {} => flag[i] = "lock"
  BY <1>1 DEF KeyedIsLocked, Quiet, Within, Busy
<1>4. \A i \in Instruments : flag[i] = "lock" => flag'[i] = "lock"
  BY DEF Boot, Start, RegisterInstrument, Registered, ResetVolatileFlag, Serve,
         Crash, durable, TypeOK, NoRow
<1>5. SerialInv'
  BY <1>1, <1>3, <1>4
  DEF KeyedIsLocked, ReadsHold, QuietBoot, Quiet, At, NoCall, UnlockLabels
<1>6. ASSUME NEW i \in Instruments, RegisterInstrument(i)
      PROVE  [Board!Next]_(Board!bvars)
  <2>1. CASE flag[i] = NoRow
    <3>1. flag' = [flag EXCEPT ![i] = "unset"]
      BY <1>6, <2>1 DEF RegisterInstrument
    <3>2. Board!Register(i)
      BY <1>1, <1>2, <2>1, <3>1 DEF Board!Register, Board!NoRow, NoRow
    <3> QED
      BY <3>2 DEF Board!Next
  <2>2. CASE flag[i] # NoRow
    <3>1. flag' = flag
      BY <1>6, <2>2 DEF RegisterInstrument, TypeOK
    <3> QED
      BY <1>1, <1>2, <3>1 DEF Board!bvars
  <2> QED
    BY <2>1, <2>2
<1>7. ASSUME NEW i \in Instruments, ResetVolatileFlag(i)
      PROVE  [Board!Next]_(Board!bvars)
  <2>1. CASE flag[i] = "lock"
    <3>1. flag' = flag
      BY <1>7, <2>1 DEF ResetVolatileFlag, TypeOK
    <3> QED
      BY <1>1, <1>2, <3>1 DEF Board!bvars
  <2>2. CASE flag[i] # "lock"
    <3>1. Board!SetFlag(i, "ready")
      BY <1>1, <1>2, <1>7, <2>2 DEF ResetVolatileFlag, Board!SetFlag
    <3> QED
      BY <3>1 DEF Board!Next, Configuration
  <2> QED
    BY <2>1, <2>2
<1>8. ASSUME Start \/ Registered \/ Serve \/ Crash
      PROVE  [Board!Next]_(Board!bvars)
  BY <1>1, <1>2, <1>8 DEF Start, Registered, Serve, Crash, durable, Board!bvars
<1> QED
  BY <1>5, <1>6, <1>7, <1>8 DEF StepOK, Boot

-----------------------------------------------------------------------------

LEMMA SerialStep == Configuration /\ SerialInv /\ [SerialNext]_vars => StepOK
<1> SUFFICES ASSUME Configuration, SerialInv, [SerialNext]_vars
             PROVE  StepOK
  OBVIOUS
<1>1. CASE SerialNext
  <2>1. TypeOK' /\ Serialised'
    BY <1>1, TypeStep DEF SerialNext, SerialInv
  <2> QED
    BY <1>1, <2>1, SetFlagStep, LockStep, UnlockStep, ProcessStep
    DEF SerialNext, Next
<1>2. CASE UNCHANGED vars
  <2>1. SerialInv'
    BY <1>2 DEF SerialInv, vars, TypeOK, Serialised, KeyedIsLocked, ReadsHold,
                QuietBoot, Quiet, Within, Busy, At
  <2>2. BoardFlag' = BoardFlag /\ active' = active
    BY <1>2 DEF BoardFlag, vars, Within, Busy
  <2> QED
    BY <2>1, <2>2 DEF StepOK, Board!bvars
<1> QED
  BY <1>1, <1>2

\* Calls that do not overlap on an instrument are atomic: the statements of
\* state.py implement the flag board, for any number of threads, instruments
\* and keys and with restarts in between.
THEOREM SerialImplementsBoard == SerialSpec => BoardSpec
<1>0. Configuration
  BY StoreAssumption
<1>1. Init => Board!Init
  BY DEF Init, Board!Init, BoardFlag, Within, Busy, Board!NoRow, NoRow
<1>2. SerialInv /\ [SerialNext]_vars => SerialInv' /\ [Board!Next]_(Board!bvars)
  BY <1>0, SerialStep DEF StepOK
<1> QED
  BY <1>1, <1>2, SerialInit, PTL DEF SerialSpec, BoardSpec, Board!Spec

\* A step of the board, or none, keeps it LOCK exactly while keyed.
LEMMA BoardKeepsLocks ==
    ASSUME active \in [Instruments -> SUBSET Keys],
           LockedIffKeyed, [Board!Next]_(Board!bvars)
    PROVE  LockedIffKeyed'
<1> USE DEF LockedIffKeyed, Board!LockedIffKeyed
<1>0. BoardFlag = [i \in Instruments |-> BoardFlag[i]]
  BY DEF BoardFlag
<1>1. ASSUME NEW i \in Instruments, Board!Register(i)
      PROVE  LockedIffKeyed'
  BY <1>0, <1>1 DEF Board!Register, Board!NoRow
<1>2. ASSUME NEW i \in Instruments, NEW f \in Settable, Board!SetFlag(i, f)
      PROVE  LockedIffKeyed'
  BY <1>0, <1>2 DEF Board!SetFlag
<1>3. ASSUME NEW i \in Instruments, NEW k \in Keys, Board!Lock(i, k)
      PROVE  LockedIffKeyed'
  BY <1>0, <1>3 DEF Board!Lock
<1>4. ASSUME NEW i \in Instruments, NEW k \in Keys, Board!Unlock(i, k)
      PROVE  LockedIffKeyed'
  <2>1. active[i] # {k} => active[i] \ {k} # {}
    BY <1>4 DEF Board!Unlock
  <2> QED
    BY <1>0, <1>4, <2>1 DEF Board!Unlock
<1>5. CASE UNCHANGED Board!bvars
  BY <1>5 DEF Board!bvars
<1> QED
  BY <1>1, <1>2, <1>3, <1>4, <1>5 DEF Board!Next

\* Without overlapping calls an instrument is LOCK exactly while a key holds
\* it: no lock is lost, and no lock is left that no key releases.
THEOREM SerialLocksAreKeyed == SerialSpec => []LockedIffKeyed
<1>0. Configuration
  BY StoreAssumption
<1>1. Init => LockedIffKeyed
  BY DEF Init, LockedIffKeyed, Board!LockedIffKeyed, BoardFlag, Within, Busy, NoRow
<1>2. SerialInv /\ LockedIffKeyed /\ [SerialNext]_vars
          => SerialInv' /\ LockedIffKeyed'
  BY <1>0, SerialStep, BoardKeepsLocks DEF StepOK, SerialInv, TypeOK
<1> QED
  BY <1>1, <1>2, SerialInit, PTL DEF SerialSpec
=============================================================================
