--------------------------- MODULE LockAndCacheProofs ---------------------------
(***************************************************************************)
(* Proofs about the two chains of promises: the table lock (FifoLock and   *)
(* WriterLock) and the keys of the cache (Cache), for any keys, tables,    *)
(* writers, calls, slots and configurations.                               *)
(*                                                                         *)
(* The lock works because the tail a call waits for stands for every       *)
(* earlier call on its key.  The inductive invariant says so three times:  *)
(* of a settled tail, of a map entry that is missing, and of a call that   *)
(* found none; and it says that a map entry is the youngest call.          *)
(*                                                                         *)
(* Every step of the table lock of DataWriter is a step of FifoLock or     *)
(* leaves its variables alone, so all that is proved of FifoLock holds of  *)
(* it.  For the slots the invariant says that a call with the lock either  *)
(* runs and is counted, or stands in the queue of its writer exactly once, *)
(* and that a queue means that all slots are taken.                        *)
(*                                                                         *)
(* In the cache, two calls never fetch the same key at once, and a key has *)
(* a chain exactly while a call uses it.  The steps of the items, the      *)
(* lists and the heap are those of the model; none of the proofs needs to  *)
(* know what they do.                                                      *)
(***************************************************************************)
EXTENDS WriterLock, Cache, FiniteSetTheorems, TLAPS

-----------------------------------------------------------------------------
(* The lock                                                                *)

Issued == 1..(next - 1)

(* Every call on the key of t up to t, or before t, is past its gate.      *)
AllGoneUpTo(t) == \A u \in Issued : key[u] = key[t] /\ u <= t => Gone(u)
AllGoneBefore(t) == \A u \in Issued : key[u] = key[t] /\ u < t => Gone(u)

(* A call chains itself behind the youngest earlier call of its key.       *)
ChainOK ==
  \A t \in Issued :
    /\ previous[t] = 0 => AllGoneBefore(t)
    /\ previous[t] # 0 =>
         /\ previous[t] \in Issued /\ key[previous[t]] = key[t]
         /\ \A u \in Issued : key[u] = key[t] /\ u < t => u <= previous[t]

(* The map holds the youngest call of a key, or nothing when all are gone. *)
TailsOK ==
  \A k \in Keys :
    /\ tails[k] = 0 => \A u \in Issued : key[u] = k => Gone(u)
    /\ tails[k] # 0 =>
         /\ tails[k] \in Issued /\ key[tails[k]] = k
         /\ \A u \in Issued : key[u] = k => u <= tails[k]

SettledOK == \A t \in settled : t \in Issued /\ AllGoneUpTo(t)

HoldingOK == \A t \in Issued : phase[t] = "holding" => AllGoneBefore(t)

Fresh == \A t \in Tickets : t \notin Issued => phase[t] = "new"

IInv == TypeOK /\ Fresh /\ ChainOK /\ TailsOK /\ SettledOK /\ HoldingOK

-----------------------------------------------------------------------------
(* Types.                                                                  *)
LEMMA TypeInit == Init => TypeOK
<1> SUFFICES ASSUME Init PROVE TypeOK
  OBVIOUS
<1> DEFINE anyKey == CHOOSE k \in Keys : TRUE
<1>1. anyKey \in Keys
  BY FifoLockAssumption
<1>2. key = [t \in Tickets |-> anyKey]
  BY DEF Init
<1> HIDE DEF anyKey
<1>3. key \in [Tickets -> Keys]
  BY <1>1, <1>2
<1>4. /\ next = 1
      /\ previous = [t \in Tickets |-> 0]
      /\ phase = [t \in Tickets |-> "new"]
      /\ tails = [k \in Keys |-> 0]
      /\ settled = {} /\ cleaned = {}
  BY DEF Init
<1> QED
  BY <1>3, <1>4, FifoLockAssumption DEF TypeOK, Tickets, Phases

LEMMA TypeStep == TypeOK /\ [Next]_lockVars => TypeOK'
<1> SUFFICES ASSUME TypeOK, [Next]_lockVars PROVE TypeOK'
  OBVIOUS
<1> USE FifoLockAssumption DEF TypeOK, Tickets, Phases
<1>1. ASSUME NEW k \in Keys, Arrive(k) PROVE TypeOK'
  BY <1>1 DEF Arrive
<1>2. ASSUME NEW t \in Tickets, Enter(t) PROVE TypeOK'
  BY <1>2 DEF Enter
<1>3. ASSUME NEW t \in Tickets, Timeout(t) PROVE TypeOK'
  BY <1>3 DEF Timeout
<1>4. ASSUME NEW t \in Tickets, Release(t) PROVE TypeOK'
  BY <1>4 DEF Release, Forget
<1>5. ASSUME NEW t \in Tickets, SettleTail(t) PROVE TypeOK'
  BY <1>5 DEF SettleTail
<1>6. ASSUME NEW t \in Tickets, CleanTimedOut(t) PROVE TypeOK'
  BY <1>6 DEF CleanTimedOut, Forget
<1>7. CASE UNCHANGED lockVars
  BY <1>7 DEF lockVars
<1> QED
  BY <1>1, <1>2, <1>3, <1>4, <1>5, <1>6, <1>7 DEF Next

(* The lock's state keeps its type.                                        *)
THEOREM TypeCorrect == Spec => []TypeOK
  BY TypeInit, TypeStep, PTL DEF Spec

-----------------------------------------------------------------------------
(* The invariant.                                                          *)
LEMMA InvInit == Init => IInv
  BY TypeInit, FifoLockAssumption
  DEF Init, IInv, Fresh, ChainOK, TailsOK, SettledOK, HoldingOK, Issued, Tickets

(* What a settled predecessor means to the call that waits for it.         *)
LEMMA WaitIsOver ==
  ASSUME IInv, NEW t \in Issued, PreviousSettled(t)
  PROVE  AllGoneBefore(t)
<1>1. CASE previous[t] = 0
  BY <1>1 DEF IInv, ChainOK
<1>2. CASE previous[t] # 0 /\ previous[t] \in settled
  <2>1. AllGoneUpTo(previous[t]) /\ key[previous[t]] = key[t]
    BY <1>2 DEF IInv, SettledOK, ChainOK
  <2>2. \A u \in Issued : key[u] = key[t] /\ u < t => u <= previous[t]
    BY <1>2 DEF IInv, ChainOK
  <2> QED
    BY <2>1, <2>2 DEF AllGoneBefore, AllGoneUpTo
<1> QED
  BY <1>1, <1>2 DEF PreviousSettled

(* A step that only moves one call forward, to its gate or past it, keeps  *)
(* what has been said of the calls that are gone.                          *)
LEMMA StillGone ==
  ASSUME next' = next, key' = key,
         \A u \in Issued : Gone(u) => Gone(u)',
         NEW t \in Issued
  PROVE  /\ AllGoneUpTo(t) => AllGoneUpTo(t)'
         /\ AllGoneBefore(t) => AllGoneBefore(t)'
  BY DEF AllGoneUpTo, AllGoneBefore, Issued

LEMMA ArriveStep ==
  ASSUME IInv, TypeOK', NEW k \in Keys, Arrive(k)
  PROVE  IInv'
<1> USE FifoLockAssumption
<1> DEFINE n == next
<1>1. Issued' = Issued \cup {n} /\ n \notin Issued /\ n \in Tickets /\ n \in Nat
  BY DEF IInv, TypeOK, Arrive, Issued, Tickets
<1>2. \A u \in Issued : /\ u \in Tickets /\ u \in Nat /\ u < n
                        /\ key'[u] = key[u] /\ phase'[u] = phase[u]
                        /\ previous'[u] = previous[u]
  BY <1>1 DEF IInv, TypeOK, Arrive, Issued, Tickets
<1>3. key'[n] = k /\ phase'[n] = "waiting" /\ previous'[n] = tails[k]
  BY <1>1 DEF IInv, TypeOK, Arrive
<1>4. \A u \in Issued : Gone(u)' <=> Gone(u)
  BY <1>2 DEF Gone
<1>5. Fresh'
  BY <1>1, <1>2 DEF IInv, Fresh, Arrive, TypeOK
<1>6. ChainOK'
  <2> SUFFICES ASSUME NEW t \in Issued'
               PROVE  /\ previous'[t] = 0 => AllGoneBefore(t)'
                      /\ previous'[t] # 0 =>
                           /\ previous'[t] \in Issued' /\ key'[previous'[t]] = key'[t]
                           /\ \A u \in Issued' : key'[u] = key'[t] /\ u < t => u <= previous'[t]
    BY DEF ChainOK
  <2>1. CASE t \in Issued
    <3>1. \A u \in Issued' : u < t => u \in Issued
      BY <2>1, <1>1, <1>2
    <3>2. \A u \in Issued : key'[u] = key[u] /\ (Gone(u)' <=> Gone(u))
      BY <1>2, <1>4
    <3>3. AllGoneBefore(t) => AllGoneBefore(t)'
      BY <2>1, <3>1, <3>2 DEF AllGoneBefore
    <3>4. previous'[t] = previous[t]
      BY <2>1, <1>2
    <3> QED
      BY <2>1, <3>1, <3>2, <3>3, <3>4, <1>1 DEF IInv, ChainOK
  <2>2. CASE t = n
    BY <2>2, <1>1, <1>2, <1>3, <1>4 DEF IInv, TailsOK, AllGoneBefore
  <2> QED
    BY <2>1, <2>2, <1>1
<1>7. TailsOK'
  <2> SUFFICES ASSUME NEW j \in Keys
               PROVE  /\ tails'[j] = 0 => \A u \in Issued' : key'[u] = j => Gone(u)'
                      /\ tails'[j] # 0 =>
                           /\ tails'[j] \in Issued' /\ key'[tails'[j]] = j
                           /\ \A u \in Issued' : key'[u] = j => u <= tails'[j]
    BY DEF TailsOK
  <2>1. CASE j = k
    <3>1. tails'[j] = n /\ n # 0
      BY <2>1, <1>1 DEF IInv, TypeOK, Arrive, Tickets
    <3> QED
      BY <2>1, <3>1, <1>1, <1>2, <1>3
  <2>2. CASE j # k
    <3>1. tails'[j] = tails[j]
      BY <2>2 DEF IInv, TypeOK, Arrive
    <3> QED
      BY <2>2, <3>1, <1>1, <1>2, <1>3, <1>4 DEF IInv, TailsOK
  <2> QED
    BY <2>1, <2>2
<1>8. SettledOK'
  BY <1>1, <1>2, <1>4 DEF IInv, SettledOK, AllGoneUpTo, Arrive, Issued
<1>9. HoldingOK'
  BY <1>1, <1>2, <1>3, <1>4 DEF IInv, HoldingOK, AllGoneBefore
<1> QED
  BY <1>5, <1>6, <1>7, <1>8, <1>9 DEF IInv

(* A call passes its gate, forwards or backwards, without touching the map. *)
LEMMA PhaseStep ==
  ASSUME IInv, TypeOK', NEW t \in Tickets, phase[t] = "waiting",
         NEW p \in {"holding", "timedOut"},
         p = "holding" => PreviousSettled(t),
         phase' = [phase EXCEPT ![t] = p],
         UNCHANGED <<next, key, previous, tails, settled, cleaned>>
  PROVE  IInv'
<1>1. t \in Issued
  BY DEF IInv, Fresh
<1>2. Issued' = Issued /\ Issued \subseteq Tickets
  BY FifoLockAssumption DEF IInv, TypeOK, Issued, Tickets
<1>3. \A u \in Tickets : phase'[u] = IF u = t THEN p ELSE phase[u]
  BY DEF IInv, TypeOK
<1>4. \A u \in Issued : Gone(u) => Gone(u)'
  BY <1>2, <1>3 DEF Gone
<1>5. \A u \in Issued : /\ AllGoneUpTo(u) => AllGoneUpTo(u)'
                        /\ AllGoneBefore(u) => AllGoneBefore(u)'
  BY <1>4, StillGone
<1>6. Fresh'
  BY <1>1, <1>2, <1>3 DEF IInv, Fresh
<1>7. ChainOK'
  BY <1>2, <1>5 DEF IInv, ChainOK
<1>8. TailsOK'
  BY <1>2, <1>4 DEF IInv, TailsOK
<1>9. SettledOK'
  BY <1>2, <1>5 DEF IInv, SettledOK
<1>10. HoldingOK'
  <2> SUFFICES ASSUME NEW u \in Issued, phase'[u] = "holding" PROVE AllGoneBefore(u)'
    BY <1>2 DEF HoldingOK
  <2>1. CASE u = t
    BY <2>1, <1>1, <1>2, <1>3, <1>5, WaitIsOver
  <2>2. CASE u # t
    BY <2>2, <1>2, <1>3, <1>5 DEF IInv, HoldingOK
  <2> QED
    BY <2>1, <2>2
<1> QED
  BY <1>6, <1>7, <1>8, <1>9, <1>10 DEF IInv

(* Forgetting a tail is sound: it was the youngest call, and every call of *)
(* the key is gone.                                                        *)
LEMMA ForgetStep ==
  ASSUME IInv, TypeOK', NEW t \in Issued, Forget(t),
         next' = next, key' = key,
         \A u \in Issued : Gone(u) => Gone(u)',
         AllGoneUpTo(t)'
  PROVE  TailsOK'
<1> SUFFICES ASSUME NEW k \in Keys
             PROVE  /\ tails'[k] = 0 => \A u \in Issued : key[u] = k => Gone(u)'
                    /\ tails'[k] # 0 =>
                         /\ tails'[k] \in Issued /\ key[tails'[k]] = k
                         /\ \A u \in Issued : key[u] = k => u <= tails'[k]
  BY DEF TailsOK, Issued
<1>1. CASE k = key[t] /\ tails[k] = t
  <2>1. t # 0 /\ tails'[k] = 0
    BY <1>1 DEF IInv, TypeOK, Forget, Issued
  <2>2. \A u \in Issued : key[u] = k => u <= t
    BY <1>1, <2>1 DEF IInv, TailsOK
  <2>3. \A u \in Issued : key[u] = k => Gone(u)'
    BY <1>1, <2>2 DEF AllGoneUpTo, Issued
  <2> QED
    BY <2>1, <2>3
<1>2. CASE ~(k = key[t] /\ tails[k] = t)
  <2>1. tails'[k] = tails[k]
    BY <1>2 DEF IInv, TypeOK, Forget
  <2> QED
    BY <2>1 DEF IInv, TailsOK
<1> QED
  BY <1>1, <1>2

LEMMA ReleaseStep ==
  ASSUME IInv, TypeOK', NEW t \in Tickets, Release(t)
  PROVE  IInv'
<1>1. t \in Issued
  BY DEF IInv, Fresh, Release
<1>2. Issued' = Issued /\ Issued \subseteq Tickets /\ Issued \subseteq Nat
  BY FifoLockAssumption DEF IInv, TypeOK, Issued, Tickets, Release
<1>3. \A u \in Tickets : phase'[u] = IF u = t THEN "released" ELSE phase[u]
  BY DEF IInv, TypeOK, Release
<1>4. next' = next /\ key' = key /\ previous' = previous /\ settled' = settled
  BY DEF Release
<1>5. \A u \in Issued : Gone(u) => Gone(u)'
  BY <1>2, <1>3 DEF Gone
<1>6. \A u \in Issued : /\ AllGoneUpTo(u) => AllGoneUpTo(u)'
                        /\ AllGoneBefore(u) => AllGoneBefore(u)'
  BY <1>4, <1>5, StillGone
<1>7. AllGoneUpTo(t)'
  <2>1. AllGoneBefore(t)'
    BY <1>1, <1>6 DEF IInv, HoldingOK, Release
  <2>2. Gone(t)'
    BY <1>3 DEF Gone
  <2>3. \A u \in Issued : u <= t => u < t \/ u = t
    BY <1>1, <1>2
  <2> QED
    BY <1>2, <1>4, <2>1, <2>2, <2>3 DEF AllGoneUpTo, AllGoneBefore
<1>8. Fresh'
  BY <1>1, <1>2, <1>3 DEF IInv, Fresh
<1>9. ChainOK'
  BY <1>2, <1>4, <1>6 DEF IInv, ChainOK
<1>10. TailsOK'
  BY <1>1, <1>4, <1>5, <1>7, ForgetStep DEF Release
<1>11. SettledOK'
  BY <1>2, <1>4, <1>6 DEF IInv, SettledOK
<1>12. HoldingOK'
  BY <1>2, <1>3, <1>6 DEF IInv, HoldingOK
<1> QED
  BY <1>8, <1>9, <1>10, <1>11, <1>12 DEF IInv

LEMMA SettleStep ==
  ASSUME IInv, TypeOK', NEW t \in Tickets, SettleTail(t)
  PROVE  IInv'
<1>1. t \in Issued
  BY DEF IInv, Fresh, SettleTail, Gone
<1>2. AllGoneUpTo(t)
  <2>1. AllGoneBefore(t) /\ Gone(t)
    BY <1>1, WaitIsOver DEF SettleTail
  <2>2. \A u \in Issued : u <= t => u < t \/ u = t
    BY <1>1 DEF Issued, IInv, TypeOK
  <2> QED
    BY <2>1, <2>2 DEF AllGoneUpTo, AllGoneBefore
<1>3. /\ UNCHANGED <<next, key, previous, phase, tails>>
      /\ settled' = settled \cup {t}
  BY DEF SettleTail
<1>4. SettledOK'
  BY <1>1, <1>2, <1>3 DEF IInv, SettledOK, AllGoneUpTo, Issued, Gone
<1> QED
  BY <1>3, <1>4 DEF IInv, Fresh, ChainOK, TailsOK, HoldingOK, AllGoneBefore, Issued, Gone

LEMMA CleanStep ==
  ASSUME IInv, TypeOK', NEW t \in Tickets, CleanTimedOut(t)
  PROVE  IInv'
<1>1. /\ UNCHANGED <<next, key, previous, phase, settled>>
      /\ t \in settled /\ Forget(t)
  BY DEF CleanTimedOut
<1>2. t \in Issued /\ AllGoneUpTo(t)
  BY <1>1 DEF IInv, SettledOK
<1>3. AllGoneUpTo(t)' /\ \A u \in Issued : Gone(u) => Gone(u)'
  BY <1>1, <1>2 DEF AllGoneUpTo, Issued, Gone
<1>4. TailsOK'
  BY <1>1, <1>2, <1>3, ForgetStep
<1> QED
  BY <1>1, <1>4
  DEF IInv, Fresh, ChainOK, SettledOK, HoldingOK, AllGoneBefore, AllGoneUpTo, Issued, Gone

LEMMA InvStep == IInv /\ [Next]_lockVars => IInv'
<1> SUFFICES ASSUME IInv, [Next]_lockVars PROVE IInv'
  OBVIOUS
<1>0. TypeOK'
  BY TypeStep DEF IInv
<1>1. ASSUME NEW k \in Keys, Arrive(k) PROVE IInv'
  BY <1>0, <1>1, ArriveStep
<1>2. ASSUME NEW t \in Tickets, Enter(t) PROVE IInv'
  BY <1>0, <1>2, PhaseStep DEF Enter
<1>3. ASSUME NEW t \in Tickets, Timeout(t) PROVE IInv'
  BY <1>0, <1>3, PhaseStep DEF Timeout
<1>4. ASSUME NEW t \in Tickets, Release(t) PROVE IInv'
  BY <1>0, <1>4, ReleaseStep
<1>5. ASSUME NEW t \in Tickets, SettleTail(t) PROVE IInv'
  BY <1>0, <1>5, SettleStep
<1>6. ASSUME NEW t \in Tickets, CleanTimedOut(t) PROVE IInv'
  BY <1>0, <1>6, CleanStep
<1>7. CASE UNCHANGED lockVars
  BY <1>0, <1>7
  DEF lockVars, IInv, Fresh, ChainOK, TailsOK, SettledOK, HoldingOK, AllGoneBefore,
      AllGoneUpTo, Issued, Gone
<1> QED
  BY <1>1, <1>2, <1>3, <1>4, <1>5, <1>6, <1>7 DEF Next

(* The inductive invariant of the lock holds in every state.               *)
THEOREM Invariance == Spec => []IInv
  BY InvInit, InvStep, PTL DEF Spec

-----------------------------------------------------------------------------
(* FIFO order, for every set of keys and every number of calls.            *)
THEOREM NoBypassHolds == Spec => []NoBypass
<1>1. IInv => NoBypass
  <2> SUFFICES ASSUME IInv, NEW t \in Tickets, NEW u \in Tickets,
                      phase[t] = "holding", u < t, key[u] = key[t]
               PROVE  Gone(u)
    BY DEF NoBypass
  <2>1. t \in Issued
    BY DEF IInv, Fresh
  <2>2. u \in Issued
    BY <2>1, FifoLockAssumption DEF Issued, IInv, TypeOK, Tickets
  <2> QED
    BY <2>1, <2>2 DEF IInv, HoldingOK, AllGoneBefore
<1> QED
  BY <1>1, Invariance, PTL

(* The lock excludes: one holder per key at a time.                        *)
THEOREM MutualExclusionHolds == Spec => []MutualExclusion
<1>1. TypeOK /\ NoBypass => MutualExclusion
  <2> SUFFICES ASSUME TypeOK, NoBypass, NEW t \in Tickets, NEW u \in Tickets, t # u,
                      phase[t] = "holding", phase[u] = "holding", key[t] = key[u]
               PROVE  FALSE
    BY DEF MutualExclusion
  <2>1. u < t \/ t < u
    BY FifoLockAssumption DEF Tickets
  <2>2. Gone(u) \/ Gone(t)
    BY <2>1 DEF NoBypass
  <2> QED
    BY <2>2 DEF Gone
<1> QED
  BY <1>1, TypeCorrect, NoBypassHolds, PTL

-----------------------------------------------------------------------------
(* The map does not leak: an entry belongs to a call that has still to     *)
(* remove it.                                                              *)
EntriesLive ==
  /\ \A t \in cleaned : phase[t] = "timedOut"
  /\ \A k \in Keys : tails[k] # 0 =>
       \/ phase[tails[k]] \in {"waiting", "holding"}
       \/ phase[tails[k]] = "timedOut" /\ tails[k] \notin cleaned

LEMMA EntriesLiveStep == IInv /\ EntriesLive /\ [Next]_lockVars => EntriesLive'
<1> SUFFICES ASSUME IInv, EntriesLive, [Next]_lockVars PROVE EntriesLive'
  OBVIOUS
<1>0. /\ TypeOK
      /\ \A k \in Keys : tails[k] # 0 => tails[k] \in Tickets /\ key[tails[k]] = k
      /\ next \in Tickets => next \notin cleaned
  BY FifoLockAssumption DEF IInv, TypeOK, TailsOK, Fresh, Issued, Tickets, EntriesLive
<1>1. ASSUME NEW k \in Keys, Arrive(k) PROVE EntriesLive'
  <2>1. \A u \in Tickets : phase'[u] = IF u = next THEN "waiting" ELSE phase[u]
    BY <1>0, <1>1 DEF Arrive, TypeOK
  <2>2. \A j \in Keys : tails'[j] = IF j = k THEN next ELSE tails[j]
    BY <1>0, <1>1 DEF Arrive, TypeOK
  <2>3. next \in Tickets /\ cleaned' = cleaned /\ cleaned \subseteq Tickets
    BY <1>0, <1>1 DEF Arrive, TypeOK
  <2> QED
    BY <1>0, <2>1, <2>2, <2>3 DEF EntriesLive
<1>2. ASSUME NEW t \in Tickets, Enter(t) \/ Timeout(t) PROVE EntriesLive'
  <2>1. PICK p \in {"holding", "timedOut"} :
          \A u \in Tickets : phase'[u] = IF u = t THEN p ELSE phase[u]
    BY <1>0, <1>2 DEF Enter, Timeout, TypeOK
  <2>2. /\ phase[t] = "waiting" /\ tails' = tails /\ cleaned' = cleaned
        /\ cleaned \subseteq Tickets
    BY <1>0, <1>2 DEF Enter, Timeout, TypeOK
  <2> QED
    BY <1>0, <2>1, <2>2 DEF EntriesLive
<1>3. ASSUME NEW t \in Tickets, Release(t) \/ CleanTimedOut(t) PROVE EntriesLive'
  <2>1. \A u \in Tickets : u # t => phase'[u] = phase[u] /\ (u \in cleaned' <=> u \in cleaned)
    BY <1>0, <1>3 DEF Release, CleanTimedOut, TypeOK
  <2>2. t \in cleaned' => phase'[t] = "timedOut"
    BY <1>0, <1>3 DEF Release, CleanTimedOut, EntriesLive
  <2>3. \A k \in Keys : tails'[k] = 0 \/ (tails'[k] = tails[k] /\ tails[k] # t)
    BY <1>0, <1>3 DEF Release, CleanTimedOut, Forget, TypeOK, Tickets
  <2>4. cleaned' \subseteq Tickets
    BY <1>0, <1>3 DEF Release, CleanTimedOut, TypeOK
  <2> QED
    BY <1>0, <2>1, <2>2, <2>3, <2>4 DEF EntriesLive
<1>4. ASSUME NEW t \in Tickets, SettleTail(t) PROVE EntriesLive'
  BY <1>4 DEF SettleTail, EntriesLive
<1>5. CASE UNCHANGED lockVars
  BY <1>5 DEF lockVars, EntriesLive
<1> QED
  BY <1>1, <1>2, <1>3, <1>4, <1>5 DEF Next

(* A key whose calls are all over has no entry in the static map.          *)
THEOREM NoLeakHolds == Spec => []NoLeak
<1>1. Init => EntriesLive
  BY DEF Init, EntriesLive
<1>2. IInv /\ EntriesLive => NoLeak
  <2> SUFFICES ASSUME IInv, EntriesLive, NEW k \in Keys, tails[k] # 0
               PROVE  \E t \in 1..(next - 1) :
                        key[t] = k /\ phase[t] # "released" /\ t \notin cleaned
    BY DEF NoLeak
  <2>1. tails[k] \in 1..(next - 1) /\ key[tails[k]] = k
    BY DEF IInv, TailsOK, Issued
  <2>2. phase[tails[k]] # "released" /\ tails[k] \notin cleaned
    BY DEF EntriesLive
  <2> QED
    BY <2>1, <2>2
<1> QED
  BY <1>1, <1>2, EntriesLiveStep, Invariance, PTL DEF Spec

-----------------------------------------------------------------------------
(* The table lock and the operation slots                                  *)

(* Calls that have the table but no slot.                                  *)
Unserved(w) == {t \in Tickets : phase[t] = "holding" /\ writer[t] = w /\ t \notin working}

WorkingOK == \A t \in working : phase[t] \in {"holding", "released"}

QueueOK ==
  \A w \in Writers :
    /\ \A i \in 1..Len(queue[w]) : queue[w][i] \in Unserved(w)
    /\ \A t \in Unserved(w) : \E i \in 1..Len(queue[w]) : queue[w][i] = t
    /\ \A i, j \in 1..Len(queue[w]) : queue[w][i] = queue[w][j] => i = j
    /\ queue[w] # <<>> => active[w] = MaxConcurrent

SlotParts == WorkingOK /\ QueueOK /\ SlotsExact

SlotInv == SlotTypeOK /\ IInv /\ SlotParts

-----------------------------------------------------------------------------
(* Refinement of the table lock.                                           *)
LEMMA SlotStep == [SlotNext]_vars => [Next]_lockVars
  BY DEF SlotNext, vars, Call, EnterAndAskForSlot, GiveUp, Finish, Settle, Next

(* The table lock with its operation slots is the FIFO lock of FifoLock:   *)
(* acquireOperationSlot and releaseOperationSlot disturb nothing of it.    *)
THEOREM ImplementsFifoLockHolds == SlotSpec => ImplementsFifoLock
<1>1. SlotInit => Init
  BY DEF SlotInit
<1> QED
  BY <1>1, SlotStep, PTL DEF SlotSpec, Spec, ImplementsFifoLock

(* Two operations of any writers never hold one table together, whatever   *)
(* the slots do (DataWriter.acquireLock).                                  *)
THEOREM TableExclusion == SlotSpec => []MutualExclusion
  BY ImplementsFifoLockHolds, MutualExclusionHolds, PTL DEF ImplementsFifoLock

-----------------------------------------------------------------------------
(* Types.                                                                  *)
LEMMA SlotTypeInit == SlotInit => SlotTypeOK
<1> SUFFICES ASSUME SlotInit PROVE SlotTypeOK
  OBVIOUS
<1>1. TypeOK
  BY TypeInit DEF SlotInit
<1>2. PICK x \in Writers : writer = [t \in Tickets |-> x]
  BY WriterLockAssumption DEF SlotInit
<1>3. queue \in [Writers -> Seq(Tickets)]
  BY DEF SlotInit
<1> QED
  BY <1>1, <1>2, <1>3, WriterLockAssumption DEF SlotInit, SlotTypeOK

LEMMA SlotTypeStep == SlotTypeOK /\ [SlotNext]_vars => SlotTypeOK'
<1> SUFFICES ASSUME SlotTypeOK, [SlotNext]_vars PROVE SlotTypeOK'
  OBVIOUS
<1>0. TypeOK'
  BY TypeStep, SlotStep DEF SlotTypeOK
<1> USE WriterLockAssumption DEF SlotTypeOK
<1>1. ASSUME NEW w \in Writers, NEW k \in Keys, Call(w, k) PROVE SlotTypeOK'
  BY <1>0, <1>1 DEF Call, Arrive
<1>2. ASSUME NEW t \in Tickets, EnterAndAskForSlot(t) PROVE SlotTypeOK'
  <2> DEFINE w == writer[t]
  <2>1. w \in Writers /\ active[w] \in 0..MaxConcurrent
    OBVIOUS
  <2>2. CASE HasFreeSlot(w)
    <3>1. /\ active' = [active EXCEPT ![w] = @ + 1] /\ working' = working \cup {t}
          /\ queue' = queue /\ writer' = writer
      BY <1>2, <2>2 DEF EnterAndAskForSlot
    <3>2. active[w] + 1 \in 0..MaxConcurrent
      BY <2>1, <2>2 DEF HasFreeSlot
    <3> QED
      BY <1>0, <2>1, <3>1, <3>2
  <2>3. CASE ~HasFreeSlot(w)
    <3>1. /\ queue' = [queue EXCEPT ![w] = Append(@, t)]
          /\ active' = active /\ working' = working /\ writer' = writer
      BY <1>2, <2>3 DEF EnterAndAskForSlot
    <3>2. Append(queue[w], t) \in Seq(Tickets)
      BY <2>1
    <3> QED
      BY <1>0, <2>1, <3>1, <3>2
  <2> QED
    BY <2>2, <2>3
<1>3. ASSUME NEW t \in Tickets, Finish(t) PROVE SlotTypeOK'
  <2> DEFINE w == writer[t]
             freed == IF active[w] > 0 THEN active[w] - 1 ELSE 0
  <2>1. /\ w \in Writers /\ freed \in 0..MaxConcurrent /\ queue[w] \in Seq(Tickets)
        /\ writer' = writer /\ active \in [Writers -> 0..MaxConcurrent]
    BY <1>3 DEF Finish
  <2>2. CASE queue[w] # <<>> /\ freed < MaxConcurrent
    <3>1. /\ active' = [active EXCEPT ![w] = freed + 1]
          /\ queue' = [queue EXCEPT ![w] = Tail(@)]
          /\ working' = working \cup {Head(queue[w])}
      BY <1>3, <2>2 DEF Finish, PassSlotOn
    <3>2. Tail(queue[w]) \in Seq(Tickets) /\ Head(queue[w]) \in Tickets
      BY <2>1, <2>2
    <3>3. freed + 1 \in 0..MaxConcurrent
      BY <2>1, <2>2
    <3> HIDE DEF freed
    <3> QED
      BY <1>0, <2>1, <3>1, <3>2, <3>3
  <2>3. CASE ~(queue[w] # <<>> /\ freed < MaxConcurrent)
    <3>1. active' = [active EXCEPT ![w] = freed] /\ queue' = queue /\ working' = working
      BY <1>3, <2>3 DEF Finish, PassSlotOn
    <3> HIDE DEF freed
    <3> QED
      BY <1>0, <2>1, <3>1
  <2> QED
    BY <2>2, <2>3
<1>4. ASSUME NEW t \in Tickets, GiveUp(t) \/ Settle(t) PROVE SlotTypeOK'
  BY <1>0, <1>4 DEF GiveUp, Settle, slotVars
<1>5. CASE UNCHANGED vars
  BY <1>0, <1>5 DEF vars, slotVars
<1> HIDE DEF SlotTypeOK
<1> QED
  BY <1>1, <1>2, <1>3, <1>4, <1>5 DEF SlotNext

(* The state keeps its type: no counter leaves 0..maxConcurrentOperations. *)
THEOREM SlotTypeCorrect == SlotSpec => []SlotTypeOK
  BY SlotTypeInit, SlotTypeStep, PTL DEF SlotSpec
-----------------------------------------------------------------------------
(* Slots.                                                                  *)

(* Sets of calls are finite, so the operations that run can be counted.    *)
LEMMA RunningFinite ==
  ASSUME SlotTypeOK, NEW w PROVE IsFiniteSet(Running(w))
<1>1. IsFiniteSet(Tickets)
  BY FS_Interval, FifoLockAssumption DEF Tickets
<1>2. Running(w) \in SUBSET Tickets
  BY DEF Running, SlotTypeOK
<1> QED
  BY <1>1, <1>2, FS_Subset

LEMMA SlotPartsInit == SlotInit => SlotParts
<1> SUFFICES ASSUME SlotInit PROVE SlotParts
  OBVIOUS
<1>1. \A w \in Writers : queue[w] = <<>> /\ active[w] = 0
  BY DEF SlotInit
<1>2. working = {} /\ \A t \in Tickets : phase[t] = "new"
  BY DEF SlotInit, Init
<1>3. \A w \in Writers : Running(w) = {} /\ Unserved(w) = {}
  BY <1>2 DEF Running, Unserved
<1>4. WorkingOK
  BY <1>2 DEF WorkingOK
<1>5. QueueOK
  BY <1>1, <1>3 DEF QueueOK
<1>6. SlotsExact
  BY <1>1, <1>3, FS_EmptySet, WriterLockAssumption DEF SlotsExact
<1> QED
  BY <1>4, <1>5, <1>6 DEF SlotParts

(* A step that neither gives nor takes the table keeps the slots in order. *)
LEMMA SameHolders ==
  ASSUME SlotInv, UNCHANGED <<active, queue, working>>,
         \A t \in Tickets : /\ phase'[t] = "holding" <=> phase[t] = "holding"
                            /\ phase[t] = "released" => phase'[t] = "released"
                            /\ phase[t] = "holding" => writer'[t] = writer[t]
  PROVE  SlotParts'
<1>1. working \subseteq Tickets
  BY DEF SlotInv, SlotTypeOK
<1>2. \A w \in Writers : Running(w)' = Running(w) /\ Unserved(w)' = Unserved(w)
  BY <1>1 DEF Running, Unserved
<1>3. WorkingOK'
  BY <1>1 DEF SlotInv, SlotParts, WorkingOK
<1>4. QueueOK'
  BY <1>2 DEF SlotInv, SlotParts, QueueOK
<1>5. SlotsExact'
  BY <1>2 DEF SlotInv, SlotParts, SlotsExact
<1> QED
  BY <1>3, <1>4, <1>5 DEF SlotParts

(* acquireOperationSlot: one more runs, or one more stands in the queue.   *)
LEMMA AskStep ==
  ASSUME SlotInv, SlotTypeOK', NEW t \in Tickets, EnterAndAskForSlot(t)
  PROVE  SlotParts'
<1>0. PICK w \in Writers : writer[t] = w
  BY DEF SlotInv, SlotTypeOK
<1> USE <1>0
<1>1. /\ writer' = writer
      /\ working \subseteq Tickets /\ active \in [Writers -> 0..MaxConcurrent]
      /\ queue \in [Writers -> Seq(Tickets)]
  BY DEF SlotInv, SlotTypeOK, EnterAndAskForSlot
<1>2. \A u \in Tickets : phase'[u] = IF u = t THEN "holding" ELSE phase[u]
  BY DEF SlotInv, SlotTypeOK, TypeOK, EnterAndAskForSlot, Enter
<1>3. phase[t] = "waiting" /\ t \notin working
  BY DEF EnterAndAskForSlot, Enter, SlotInv, SlotParts, WorkingOK
<1>4. CASE HasFreeSlot(w)
  <2>1. /\ active' = [active EXCEPT ![w] = @ + 1]
        /\ working' = working \cup {t} /\ queue' = queue
    BY <1>4 DEF EnterAndAskForSlot
  <2>2. Running(w)' = Running(w) \cup {t} /\ t \notin Running(w)
    BY <1>1, <1>2, <1>3, <2>1 DEF Running
  <2>3. \A v \in Writers : v # w => Running(v)' = Running(v)
    BY <1>1, <1>2, <1>3, <2>1 DEF Running
  <2>4. \A v \in Writers : Unserved(v)' = Unserved(v)
    BY <1>1, <1>2, <1>3, <2>1 DEF Unserved
  <2>5. Cardinality(Running(w)') = Cardinality(Running(w)) + 1
    BY <2>2, RunningFinite, FS_AddElement DEF SlotInv
  <2>6. active[w] = Cardinality(Running(w)) /\ active[w] < MaxConcurrent /\ queue[w] = <<>>
    BY <1>1, <1>4 DEF HasFreeSlot, SlotInv, SlotParts, SlotsExact
  <2>7. \A v \in Writers : active'[v] = IF v = w THEN active[w] + 1 ELSE active[v]
    BY <1>1, <2>1
  <2>8. SlotsExact'
    <3> SUFFICES ASSUME NEW v \in Writers
                 PROVE  active'[v] = Cardinality(Running(v)') /\ active'[v] <= MaxConcurrent
      BY DEF SlotsExact
    <3>1. CASE v = w
      BY <1>1, <2>5, <2>6, <2>7, <3>1, WriterLockAssumption
    <3>2. CASE v # w
      BY <2>3, <2>7, <3>2 DEF SlotInv, SlotParts, SlotsExact
    <3> QED
      BY <3>1, <3>2
  <2>9. QueueOK'
    BY <2>1, <2>4, <2>6, <2>7 DEF SlotInv, SlotParts, QueueOK
  <2>10. WorkingOK'
    BY <1>1, <1>2, <2>1 DEF SlotInv, SlotParts, WorkingOK
  <2> QED
    BY <2>8, <2>9, <2>10 DEF SlotParts
<1>5. CASE ~HasFreeSlot(w)
  <2>1. /\ queue' = [queue EXCEPT ![w] = Append(@, t)]
        /\ active' = active /\ working' = working
    BY <1>5 DEF EnterAndAskForSlot
  <2>2. \A v \in Writers : Running(v)' = Running(v)
    BY <1>1, <1>2, <1>3, <2>1 DEF Running
  <2>3. \A v \in Writers : Unserved(v)' = IF v = w THEN Unserved(v) \cup {t} ELSE Unserved(v)
    BY <1>1, <1>2, <1>3, <2>1 DEF Unserved
  <2>4. t \notin Unserved(w)
    BY <1>3 DEF Unserved
  <2>5. active[w] = MaxConcurrent
    BY <1>1, <1>5, WriterLockAssumption DEF HasFreeSlot, SlotInv, SlotParts, QueueOK
  <2>6. SlotsExact'
    BY <2>1, <2>2 DEF SlotInv, SlotParts, SlotsExact
  <2>7. QueueOK'
    <3> SUFFICES ASSUME NEW v \in Writers
        PROVE  /\ \A i \in 1..Len(queue'[v]) : queue'[v][i] \in Unserved(v)'
               /\ \A u \in Unserved(v)' : \E i \in 1..Len(queue'[v]) : queue'[v][i] = u
               /\ \A i, j \in 1..Len(queue'[v]) : queue'[v][i] = queue'[v][j] => i = j
               /\ queue'[v] # <<>> => active'[v] = MaxConcurrent
      BY DEF QueueOK
    <3>1. CASE v # w
      BY <1>1, <2>1, <2>3, <3>1 DEF SlotInv, SlotParts, QueueOK
    <3>2. CASE v = w
      <4> DEFINE q == queue[w]
      <4>1. q \in Seq(Tickets) /\ queue'[v] = Append(q, t)
        BY <1>1, <2>1, <3>2
      <4>2. /\ Len(Append(q, t)) = Len(q) + 1 /\ Len(q) \in Nat
            /\ \A i \in 1..Len(q) : Append(q, t)[i] = q[i]
            /\ Append(q, t)[Len(q) + 1] = t
        BY <4>1
      <4>3. /\ \A i \in 1..Len(q) : q[i] \in Unserved(w)
            /\ \A u \in Unserved(w) : \E i \in 1..Len(q) : q[i] = u
            /\ \A i, j \in 1..Len(q) : q[i] = q[j] => i = j
        BY <1>1 DEF SlotInv, SlotParts, QueueOK
      <4> HIDE DEF q
      <4>4. \A i \in 1..(Len(q) + 1) : i \in 1..Len(q) \/ i = Len(q) + 1
        BY <4>2
      <4>5. queue'[v] = Append(q, t) /\ Len(queue'[v]) = Len(q) + 1
        BY <4>1, <4>2
      <4>6. Unserved(v)' = Unserved(w) \cup {t}
        BY <2>3, <3>2
      <4>7. \A i \in 1..(Len(q) + 1) : Append(q, t)[i] \in Unserved(w) \cup {t}
        BY <4>2, <4>3, <4>4
      <4>8. \A u \in Unserved(w) \cup {t} : \E i \in 1..(Len(q) + 1) : Append(q, t)[i] = u
        BY <4>2, <4>3
      <4>9. \A i, j \in 1..(Len(q) + 1) : Append(q, t)[i] = Append(q, t)[j] => i = j
        BY <2>4, <4>2, <4>3, <4>4
      <4>10. active'[v] = MaxConcurrent
        BY <2>1, <2>5, <3>2
      <4> QED
        BY <4>5, <4>6, <4>7, <4>8, <4>9, <4>10
    <3> QED
      BY <3>1, <3>2
  <2>8. WorkingOK'
    BY <1>1, <1>2, <2>1 DEF SlotInv, SlotParts, WorkingOK
  <2> QED
    BY <2>6, <2>7, <2>8 DEF SlotParts
<1> QED
  BY <1>4, <1>5

(* releaseOperationSlot: the slot goes to the head of the queue, if any.   *)
LEMMA FinishStep ==
  ASSUME SlotInv, SlotTypeOK', NEW t \in Tickets, Finish(t)
  PROVE  SlotParts'
<1>0. PICK w \in Writers : writer[t] = w
  BY DEF SlotInv, SlotTypeOK
<1> USE <1>0
<1> DEFINE q == queue[w]
<1>1. /\ writer' = writer /\ q \in Seq(Tickets)
      /\ working \subseteq Tickets /\ active \in [Writers -> 0..MaxConcurrent]
      /\ queue \in [Writers -> Seq(Tickets)] /\ t \in working
  BY DEF SlotInv, SlotTypeOK, Finish
<1>2. \A u \in Tickets : phase'[u] = IF u = t THEN "released" ELSE phase[u]
  BY DEF SlotInv, SlotTypeOK, TypeOK, Finish, Release
<1>3. phase[t] = "holding" /\ t \in Running(w)
  BY <1>1 DEF Finish, Release, Running
<1>4. /\ IsFiniteSet(Running(w)) /\ Cardinality(Running(w)) \in Nat
      /\ IsFiniteSet(Running(w) \ {t})
      /\ Cardinality(Running(w) \ {t}) = Cardinality(Running(w)) - 1
      /\ Cardinality(Running(w) \ {t}) \in Nat
  BY <1>3, RunningFinite, FS_RemoveElement, FS_CardinalityType DEF SlotInv
<1>5. /\ active[w] = Cardinality(Running(w)) /\ active[w] <= MaxConcurrent /\ active[w] > 0
  <2>1. active[w] = Cardinality(Running(w)) /\ active[w] <= MaxConcurrent
    BY <1>1 DEF SlotInv, SlotParts, SlotsExact
  <2> QED
    BY <1>4, <2>1
<1>6. /\ \A i \in 1..Len(q) : q[i] \in Unserved(w)
      /\ \A u \in Unserved(w) : \E i \in 1..Len(q) : q[i] = u
      /\ \A i, j \in 1..Len(q) : q[i] = q[j] => i = j
      /\ q # <<>> => active[w] = MaxConcurrent
  BY <1>1 DEF SlotInv, SlotParts, QueueOK
<1>7. t \notin Unserved(w)
  BY <1>1 DEF Unserved
<1>8. active[w] - 1 < MaxConcurrent
  BY <1>1, <1>5, WriterLockAssumption
<1>9. CASE q = <<>>
  <2>1. active' = [active EXCEPT ![w] = active[w] - 1] /\ queue' = queue /\ working' = working
    BY <1>5, <1>9 DEF Finish, PassSlotOn
  <2>2. \A v \in Writers : Running(v)' = IF v = w THEN Running(w) \ {t} ELSE Running(v)
    BY <1>1, <1>2, <2>1 DEF Running
  <2>3. \A v \in Writers : Unserved(v)' = Unserved(v)
    BY <1>1, <1>2, <2>1 DEF Unserved
  <2>4. \A v \in Writers : active'[v] = IF v = w THEN active[w] - 1 ELSE active[v]
    BY <1>1, <2>1
  <2>5. SlotsExact'
    <3> SUFFICES ASSUME NEW v \in Writers
                 PROVE  active'[v] = Cardinality(Running(v)') /\ active'[v] <= MaxConcurrent
      BY DEF SlotsExact
    <3>1. CASE v = w
      <4>1. Running(v)' = Running(w) \ {t}
        BY <2>2, <3>1
      <4>2. Cardinality(Running(v)') = active[w] - 1
        BY <1>4, <1>5, <4>1
      <4>3. active'[v] = active[w] - 1
        BY <2>4, <3>1
      <4>4. active[w] - 1 <= MaxConcurrent
        BY <1>1, <1>4, <1>5, <1>8, WriterLockAssumption
      <4> QED
        BY <4>2, <4>3, <4>4
    <3>2. CASE v # w
      BY <2>2, <2>4, <3>2 DEF SlotInv, SlotParts, SlotsExact
    <3> QED
      BY <3>1, <3>2
  <2>6. QueueOK'
    BY <1>9, <2>1, <2>3, <2>4 DEF SlotInv, SlotParts, QueueOK
  <2>7. WorkingOK'
    BY <1>1, <1>2, <2>1 DEF SlotInv, SlotParts, WorkingOK
  <2> QED
    BY <2>5, <2>6, <2>7 DEF SlotParts
<1>10. CASE q # <<>>
  <2> DEFINE h == Head(q)
  <2>1. /\ active' = [active EXCEPT ![w] = (active[w] - 1) + 1]
        /\ queue' = [queue EXCEPT ![w] = Tail(@)]
        /\ working' = working \cup {h}
    BY <1>5, <1>8, <1>10 DEF Finish, PassSlotOn
  <2>2. /\ Len(q) \in Nat /\ Len(q) > 0 /\ h = q[1]
        /\ Tail(q) \in Seq(Tickets) /\ Len(Tail(q)) = Len(q) - 1
        /\ \A i \in 1..(Len(q) - 1) : Tail(q)[i] = q[i + 1]
    BY <1>1, <1>10
  <2>3. h \in Unserved(w)
    BY <1>6, <2>2
  <2>4. active' = active
    BY <1>1, <2>1
  <2>5. queue'[w] = Tail(q) /\ \A v \in Writers : v # w => queue'[v] = queue[v]
    BY <1>1, <2>1
  <2>6. h \in Tickets /\ h # t /\ h \notin working /\ phase[h] = "holding" /\ writer[h] = w
    BY <1>7, <2>3 DEF Unserved
  <2> HIDE DEF q, h
  <2>7. \A v \in Writers : Running(v)' = IF v = w THEN (Running(w) \ {t}) \cup {h} ELSE Running(v)
    BY <1>1, <1>2, <2>1, <2>6 DEF Running
  <2>8. \A v \in Writers : Unserved(v)' = IF v = w THEN Unserved(w) \ {h} ELSE Unserved(v)
    BY <1>1, <1>2, <2>1, <2>6 DEF Unserved
  <2>9. h \notin Running(w)
    BY <2>6 DEF Running
  <2>10. Cardinality(Running(w)') = Cardinality(Running(w))
    <3>1. h \notin Running(w) \ {t}
      BY <2>9
    <3>2. Cardinality((Running(w) \ {t}) \cup {h}) = Cardinality(Running(w) \ {t}) + 1
      BY <1>4, <3>1, FS_AddElement
    <3>3. Running(w)' = (Running(w) \ {t}) \cup {h}
      BY <1>1, <2>7
    <3> QED
      BY <1>4, <3>2, <3>3
  <2>11. SlotsExact'
    <3> SUFFICES ASSUME NEW v \in Writers
                 PROVE  active'[v] = Cardinality(Running(v)') /\ active'[v] <= MaxConcurrent
      BY DEF SlotsExact
    <3>1. active[v] = Cardinality(Running(v)) /\ active[v] <= MaxConcurrent
      BY DEF SlotInv, SlotParts, SlotsExact
    <3>2. Cardinality(Running(v)') = Cardinality(Running(v))
      <4>1. CASE v = w
        BY <2>10, <4>1
      <4>2. CASE v # w
        BY <2>7, <4>2
      <4> QED
        BY <4>1, <4>2
    <3> QED
      BY <2>4, <3>1, <3>2
  <2>12. QueueOK'
    <3> SUFFICES ASSUME NEW v \in Writers
        PROVE  /\ \A i \in 1..Len(queue'[v]) : queue'[v][i] \in Unserved(v)'
               /\ \A u \in Unserved(v)' : \E i \in 1..Len(queue'[v]) : queue'[v][i] = u
               /\ \A i, j \in 1..Len(queue'[v]) : queue'[v][i] = queue'[v][j] => i = j
               /\ queue'[v] # <<>> => active'[v] = MaxConcurrent
      BY DEF QueueOK
    <3>1. CASE v # w
      BY <2>4, <2>5, <2>8, <3>1 DEF SlotInv, SlotParts, QueueOK
    <3>2. CASE v = w
      <4>1. \A i \in 1..(Len(q) - 1) : i + 1 \in 1..Len(q) /\ i + 1 # 1
        BY <2>2
      <4>2. \A i \in 1..Len(q) : i = 1 \/ (i - 1 \in 1..(Len(q) - 1) /\ (i - 1) + 1 = i)
        BY <2>2
      <4>3. \A i \in 1..(Len(q) - 1) : Tail(q)[i] \in Unserved(w) \ {h}
        <5> SUFFICES ASSUME NEW i \in 1..(Len(q) - 1) PROVE Tail(q)[i] \in Unserved(w) \ {h}
          OBVIOUS
        <5>1. Tail(q)[i] = q[i + 1] /\ i + 1 \in 1..Len(q) /\ 1 \in 1..Len(q) /\ i + 1 # 1
          BY <2>2, <4>1
        <5>2. q[i + 1] # q[1] /\ q[i + 1] \in Unserved(w)
          BY <1>6, <5>1
        <5> QED
          BY <2>2, <5>1, <5>2
      <4>4. \A u \in Unserved(w) \ {h} : \E i \in 1..(Len(q) - 1) : Tail(q)[i] = u
        <5> SUFFICES ASSUME NEW u \in Unserved(w), u # h
                     PROVE  \E i \in 1..(Len(q) - 1) : Tail(q)[i] = u
          OBVIOUS
        <5>1. PICK i \in 1..Len(q) : q[i] = u
          BY <1>6
        <5>2. i - 1 \in 1..(Len(q) - 1) /\ (i - 1) + 1 = i
          BY <2>2, <4>2, <5>1
        <5> QED
          BY <2>2, <5>1, <5>2
      <4>5. \A i, j \in 1..(Len(q) - 1) : Tail(q)[i] = Tail(q)[j] => i = j
        <5> SUFFICES ASSUME NEW i \in 1..(Len(q) - 1), NEW j \in 1..(Len(q) - 1),
                            Tail(q)[i] = Tail(q)[j]
                     PROVE  i = j
          OBVIOUS
        <5>1. q[i + 1] = q[j + 1] /\ i + 1 \in 1..Len(q) /\ j + 1 \in 1..Len(q)
          BY <2>2, <4>1
        <5>2. i + 1 = j + 1
          BY <1>6, <5>1
        <5> QED
          BY <2>2, <5>2
      <4>6. active'[v] = MaxConcurrent
        BY <1>6, <1>10, <2>4, <3>2
      <4>7. Unserved(v)' = Unserved(w) \ {h}
        BY <2>8, <3>2
      <4>8. queue'[v] = Tail(q) /\ Len(queue'[v]) = Len(q) - 1
        BY <2>2, <2>5, <3>2
      <4> QED
        BY <4>3, <4>4, <4>5, <4>6, <4>7, <4>8
    <3> QED
      BY <3>1, <3>2
  <2>13. WorkingOK'
    BY <1>1, <1>2, <2>1, <2>6 DEF SlotInv, SlotParts, WorkingOK
  <2> QED
    BY <2>11, <2>12, <2>13 DEF SlotParts
<1> QED
  BY <1>9, <1>10

LEMMA SlotInvStep == SlotInv /\ [SlotNext]_vars => SlotInv'
<1> SUFFICES ASSUME SlotInv, [SlotNext]_vars PROVE SlotInv'
  OBVIOUS
<1>1. SlotTypeOK' /\ IInv'
  BY SlotTypeStep, SlotStep, InvStep DEF SlotInv
<1>2. ASSUME NEW w \in Writers, NEW k \in Keys, Call(w, k) PROVE SlotParts'
  <2>1. phase[next] = "new" /\ next \in Tickets
    BY <1>2 DEF SlotInv, IInv, Fresh, Issued, Call, Arrive, TypeOK, Tickets
  <2>2. \A t \in Tickets : /\ phase'[t] = IF t = next THEN "waiting" ELSE phase[t]
                           /\ writer'[t] = IF t = next THEN w ELSE writer[t]
    BY <1>2 DEF Call, Arrive, SlotInv, SlotTypeOK, TypeOK
  <2>3. UNCHANGED <<active, queue, working>>
    BY <1>2 DEF Call
  <2> QED
    BY <2>1, <2>2, <2>3, SameHolders
<1>3. ASSUME NEW t \in Tickets, EnterAndAskForSlot(t) PROVE SlotParts'
  BY <1>1, <1>3, AskStep
<1>4. ASSUME NEW t \in Tickets, GiveUp(t) PROVE SlotParts'
  <2>1. \A u \in Tickets : phase'[u] = IF u = t THEN "timedOut" ELSE phase[u]
    BY <1>4 DEF GiveUp, Timeout, SlotInv, SlotTypeOK, TypeOK
  <2>2. phase[t] = "waiting" /\ UNCHANGED slotVars
    BY <1>4 DEF GiveUp, Timeout
  <2> QED
    BY <2>1, <2>2, SameHolders DEF slotVars
<1>5. ASSUME NEW t \in Tickets, Finish(t) PROVE SlotParts'
  BY <1>1, <1>5, FinishStep
<1>6. ASSUME NEW t \in Tickets, Settle(t) PROVE SlotParts'
  <2>1. phase' = phase /\ UNCHANGED slotVars
    BY <1>6 DEF Settle, SettleTail, CleanTimedOut
  <2> QED
    BY <2>1, SameHolders DEF slotVars
<1>7. ASSUME UNCHANGED vars PROVE SlotParts'
  <2>1. phase' = phase /\ UNCHANGED slotVars
    BY <1>7 DEF vars, lockVars
  <2> QED
    BY <2>1, SameHolders DEF slotVars
<1>8. SlotParts'
  BY <1>2, <1>3, <1>4, <1>5, <1>6, <1>7 DEF SlotNext
<1> QED
  BY <1>1, <1>8 DEF SlotInv

(* The invariant that the properties of the slots follow from.             *)
LEMMA SlotInvariance == SlotSpec => []SlotInv
<1>1. SlotInit => SlotInv
  BY SlotTypeInit, InvInit, SlotPartsInit DEF SlotInv, SlotInit
<1> QED
  BY <1>1, SlotInvStep, PTL DEF SlotSpec

(* The slot counter of a writer is the number of operations that run, and  *)
(* they are never more than maxConcurrentOperations (releaseOperationSlot). *)
THEOREM SlotsExactHolds == SlotSpec => []SlotsExact
<1>1. SlotInv => SlotsExact
  BY DEF SlotInv, SlotParts
<1> QED
  BY <1>1, SlotInvariance, PTL

(* Nobody queues beside a free slot, and the queue of a writer is exactly  *)
(* its calls that hold a table without a slot: no wake-up is lost.         *)
THEOREM NoLostSlotHolds == SlotSpec => []NoLostSlot
<1>1. SlotInv => NoLostSlot
  <2> SUFFICES ASSUME SlotInv, NEW w \in Writers
               PROVE  /\ queue[w] # <<>> => active[w] = MaxConcurrent
                      /\ {queue[w][i] : i \in DOMAIN queue[w]} =
                           {t \in Tickets : phase[t] = "holding" /\ writer[t] = w /\ t \notin working}
    BY DEF NoLostSlot
  <2>1. DOMAIN queue[w] = 1..Len(queue[w])
    BY DEF SlotInv, SlotTypeOK
  <2>2. queue[w] # <<>> => active[w] = MaxConcurrent
    BY DEF SlotInv, SlotParts, QueueOK
  <2>3. {queue[w][i] : i \in DOMAIN queue[w]} = Unserved(w)
    BY <2>1 DEF SlotInv, SlotParts, QueueOK
  <2> QED
    BY <2>2, <2>3 DEF Unserved
<1> QED
  BY <1>1, SlotInvariance, PTL

(* No leaked entry, no lost slot and no miscounted one, for any number of  *)
(* calls, tables, writers and slots (acquireLock, acquireOperationSlot and *)
(* their release functions).                                               *)
THEOREM ConsistentHolds == SlotSpec => []Consistent
<1>1. SlotSpec => []NoLeak
  BY ImplementsFifoLockHolds, NoLeakHolds, PTL DEF ImplementsFifoLock
<1>2. SlotTypeOK /\ NoLeak /\ SlotsExact /\ NoLostSlot => Consistent
  BY DEF Consistent
<1> QED
  BY <1>1, <1>2, SlotTypeCorrect, SlotsExactHolds, NoLostSlotHolds, PTL

-----------------------------------------------------------------------------
(* The chains of the cache                                                 *)

Pcs == {"new", "waiting", "fetching", "fallback", "done"}

(* The part of the type invariant that is about the calls.                 *)
CallsOK ==
  /\ config \in Configs
  /\ call \in [Calls -> [pc: Pcs, key: CacheKeys \cup {None}, after: Calls \cup {None}]]
  /\ tail \in [CacheKeys -> Calls \cup {None}]

Using(c) == call[c].pc \in {"waiting", "fetching"}

(* Nobody is before c in its chain.                                        *)
First(c) == call[c].after = None \/ Released(call[c].after)

Before(c, d) == Using(c) /\ Using(d) /\ c # d /\ call[c].key = call[d].key

(* The calls of a chain stand in a line: r is a place for each of them, in *)
(* the order in which they came.  A call waits for the one just before it, *)
(* and the last one is the tail of the key.                                *)
Lined(r) ==
  /\ \A c \in Calls : Using(c) =>
       /\ call[c].key \in CacheKeys /\ tail[call[c].key] \in Calls
       /\ r[c] <= r[tail[call[c].key]]
  /\ \A k \in CacheKeys : tail[k] # None => Using(tail[k]) /\ call[tail[k]].key = k
  /\ \A c \in Calls : call[c].pc = "fetching" => First(c)
  /\ \A c \in Calls : Using(c) /\ ~First(c) => Before(call[c].after, c)
  /\ \A c, d \in Calls : Before(c, d) => r[c] # r[d]
  /\ \A c, d \in Calls : Before(c, d) /\ r[c] < r[d] =>
       /\ ~First(d)
       /\ r[c] <= r[call[d].after] /\ r[call[d].after] < r[d]

LInv == CallsOK /\ \E r \in [Calls -> Nat] : Lined(r)

-----------------------------------------------------------------------------
(* A call that is not in a chain, before or after the step.                *)
LEMMA OutsideStep ==
  ASSUME LInv, config' = config, tail' = tail, NEW c \in Calls, ~Using(c),
         NEW q \in [pc: {"fallback", "done"}, key: CacheKeys \cup {None}, after: Calls \cup {None}],
         call' = [call EXCEPT ![c] = q]
  PROVE  LInv'
<1>1. PICK r \in [Calls -> Nat] : Lined(r)
  BY DEF LInv
<1>2. CallsOK'
  BY DEF LInv, CallsOK, Pcs
<1>3. \A d \in Calls : call'[d] = IF d = c THEN q ELSE call[d]
  BY DEF LInv, CallsOK
<1>4. \A d \in Calls : (Using(d))' <=> Using(d)
  BY <1>3 DEF Using
<1>5. \A d \in Calls : Released(d) => (Released(d))'
  BY <1>3 DEF Released
<1>6. \A d \in Calls : Using(d) => d # c /\ call'[d] = call[d]
  BY <1>3
<1>7. \A d, e \in Calls : (Before(d, e))' <=> Before(d, e)
  BY <1>4, <1>6 DEF Before
<1>8. \A d \in Calls : Using(d) => call[d].after \in Calls \cup {None}
  BY DEF LInv, CallsOK
<1>9. \A d \in Calls : Using(d) => ((First(d))' <=> First(d))
  <2> SUFFICES ASSUME NEW d \in Calls, Using(d) PROVE (First(d))' <=> First(d)
    OBVIOUS
  <2>1. call'[d] = call[d]
    BY <1>6
  <2>2. First(d) => (First(d))'
    BY <1>5, <1>8, <2>1 DEF First
  <2>3. CASE ~First(d)
    <3>1. Before(call[d].after, d) /\ call[d].after # None /\ call[d].after \in Calls
      BY <1>1, <1>8, <2>3 DEF Lined, First
    <3>2. call'[call[d].after] = call[call[d].after]
      BY <1>6, <3>1 DEF Before
    <3> QED
      BY <2>1, <2>3, <3>1, <3>2 DEF First, Released
  <2> QED
    BY <2>2, <2>3
<1>10. Lined(r)'
  <2>1. \A d \in Calls : (Using(d))' =>
          /\ call'[d].key \in CacheKeys /\ tail'[call'[d].key] \in Calls
          /\ r[d] <= r[tail'[call'[d].key]]
    BY <1>1, <1>4, <1>6 DEF Lined
  <2>2. \A k \in CacheKeys : tail'[k] # None => (Using(tail[k]))' /\ call'[tail'[k]].key = k
    <3> SUFFICES ASSUME NEW k \in CacheKeys, tail[k] # None
                 PROVE  (Using(tail[k]))' /\ call'[tail[k]].key = k
      OBVIOUS
    <3>1. tail[k] \in Calls
      BY DEF LInv, CallsOK
    <3>2. Using(tail[k]) /\ call[tail[k]].key = k
      BY <1>1 DEF Lined
    <3> QED
      BY <1>6, <3>1, <3>2 DEF Using
  <2>3. \A d \in Calls : call'[d].pc = "fetching" => (First(d))'
    BY <1>1, <1>4, <1>6, <1>9 DEF Lined, Using
  <2>4. \A d \in Calls : (Using(d))' /\ ~(First(d))' => (Before(call[d].after, d))'
    <3> SUFFICES ASSUME NEW d \in Calls, (Using(d))', ~(First(d))'
                 PROVE  (Before(call[d].after, d))'
      OBVIOUS
    <3>1. Using(d) /\ ~First(d)
      BY <1>4, <1>9
    <3>2. Before(call[d].after, d) /\ call[d].after \in Calls
      BY <1>1, <1>8, <3>1 DEF Lined, First
    <3> QED
      BY <1>6, <1>7, <3>1, <3>2
  <2>5. \A d, e \in Calls : (Before(d, e))' => r[d] # r[e]
    BY <1>1, <1>7 DEF Lined
  <2>6. \A d, e \in Calls : (Before(d, e))' /\ r[d] < r[e] =>
          ~(First(e))' /\ r[d] <= r[call'[e].after] /\ r[call'[e].after] < r[e]
    BY <1>1, <1>6, <1>7, <1>9 DEF Lined, Before
  <2> QED
    BY <2>1, <2>2, <2>3, <2>4, <2>5, <2>6 DEF Lined
<1> QED
  BY <1>2, <1>10 DEF LInv

(* The call whose turn it is begins to fetch.                              *)
LEMMA FetchStep ==
  ASSUME LInv, config' = config, tail' = tail, NEW c \in Calls, Turn(c),
         call' = [call EXCEPT ![c].pc = "fetching"]
  PROVE  LInv'
<1>1. PICK r \in [Calls -> Nat] : Lined(r)
  BY DEF LInv
<1>2. CallsOK'
  BY DEF LInv, CallsOK, Pcs
<1>3. \A d \in Calls : /\ call'[d].key = call[d].key /\ call'[d].after = call[d].after
                       /\ call'[d].pc = IF d = c THEN "fetching" ELSE call[d].pc
  BY DEF LInv, CallsOK
<1>4. Using(c) /\ First(c) /\ ~Released(c)
  BY DEF Turn, Using, First, Released
<1>5. \A d \in Calls : ((Using(d))' <=> Using(d)) /\ ((Released(d))' <=> Released(d))
  BY <1>3, <1>4 DEF Using, Released
<1>6. \A d, e \in Calls : (Before(d, e))' <=> Before(d, e)
  BY <1>3, <1>5 DEF Before
<1>7. \A d \in Calls : (First(d))' <=> First(d)
  BY <1>3, <1>5 DEF First, LInv, CallsOK
<1>8. Lined(r)'
  <2>1. \A d \in Calls : (Using(d))' =>
          /\ call'[d].key \in CacheKeys /\ tail'[call'[d].key] \in Calls
          /\ r[d] <= r[tail'[call'[d].key]]
    BY <1>1, <1>3, <1>5 DEF Lined
  <2>2. \A k \in CacheKeys : tail'[k] # None => (Using(tail[k]))' /\ call'[tail'[k]].key = k
    BY <1>1, <1>3, <1>5 DEF Lined, LInv, CallsOK
  <2>3. \A d \in Calls : call'[d].pc = "fetching" => (First(d))'
    BY <1>1, <1>3, <1>4, <1>7 DEF Lined
  <2>4. \A d \in Calls : (Using(d))' /\ ~(First(d))' => (Before(call[d].after, d))'
    <3> SUFFICES ASSUME NEW d \in Calls, (Using(d))', ~(First(d))'
                 PROVE  (Before(call[d].after, d))'
      OBVIOUS
    <3>1. Before(call[d].after, d) /\ call[d].after \in Calls
      BY <1>1, <1>5, <1>7 DEF Lined, First, LInv, CallsOK
    <3> QED
      BY <1>3, <1>6, <3>1
  <2>5. \A d, e \in Calls : (Before(d, e))' => r[d] # r[e]
    BY <1>1, <1>6 DEF Lined
  <2>6. \A d, e \in Calls : (Before(d, e))' /\ r[d] < r[e] =>
          ~(First(e))' /\ r[d] <= r[call'[e].after] /\ r[call'[e].after] < r[e]
    BY <1>1, <1>3, <1>6, <1>7 DEF Lined
  <2> QED
    BY <2>1, <2>2, <2>3, <2>4, <2>5, <2>6 DEF Lined
<1> QED
  BY <1>2, <1>8 DEF LInv

(* A new call takes the place after the tail.                              *)
LEMMA EnqueueStep ==
  ASSUME LInv, config' = config, NEW c \in Calls, NEW k \in CacheKeys, call[c].pc = "new",
         Enqueue(c, k), None \notin Calls
  PROVE  LInv'
<1>1. PICK r \in [Calls -> Nat] : Lined(r)
  BY DEF LInv
<1>2. PICK a \in Calls \cup {None} : a = tail[k]
  BY DEF LInv, CallsOK
<1> DEFINE place == IF a = None THEN 0 ELSE r[a] + 1
           u == [r EXCEPT ![c] = place]
<1>3. place \in Nat /\ u \in [Calls -> Nat] /\ u[c] = place /\ \A d \in Calls : d # c => u[d] = r[d]
  BY <1>2
<1>4. /\ \A d \in Calls : d # c => call'[d] = call[d]
      /\ call'[c] = [pc |-> "waiting", key |-> k, after |-> a]
      /\ tail'[k] = c /\ \A l \in CacheKeys : l # k => tail'[l] = tail[l]
  BY <1>2 DEF Enqueue, LInv, CallsOK
<1>5. CallsOK'
  <2>1. [pc |-> "waiting", key |-> k, after |-> a]
          \in [pc: Pcs, key: CacheKeys \cup {None}, after: Calls \cup {None}]
    BY <1>2 DEF Pcs
  <2> QED
    BY <1>2, <2>1 DEF Enqueue, LInv, CallsOK
<1>6. ~Using(c) /\ ~Released(c) /\ (Using(c))' /\ ~(Released(c))'
  BY <1>4 DEF Using, Released
<1>7. \A d \in Calls : (Released(d))' <=> Released(d)
  BY <1>4, <1>6 DEF Released
<1>8. \A d \in Calls : d # c => ((Using(d))' <=> Using(d)) /\ ((First(d))' <=> First(d))
  BY <1>4, <1>7 DEF Using, First, LInv, CallsOK
<1>9. \A d, e \in Calls : d # c /\ e # c => ((Before(d, e))' <=> Before(d, e))
  BY <1>4, <1>8 DEF Before
<1>10. a # None => Using(a) /\ call[a].key = k /\ a # c
  BY <1>1, <1>2, <1>6 DEF Lined
<1>11. (First(c))' <=> a = None
  <2>1. a # None => ~Released(a)
    BY <1>10 DEF Using, Released
  <2> QED
    BY <1>2, <1>4, <1>7, <2>1 DEF First
<1>12. \A d \in Calls : Using(d) /\ call[d].key = k => a # None /\ r[d] <= r[a]
  BY <1>1, <1>2 DEF Lined
<1>13. \A d \in Calls : (Before(d, c))' => Using(d) /\ call[d].key = k /\ d # c
  BY <1>4, <1>8 DEF Before
<1> HIDE DEF place, u
<1>14. \A d \in Calls : (Before(d, c))' => u[d] < u[c] /\ u[d] <= u[a] /\ u[a] < u[c] /\ a # None
  BY <1>2, <1>3, <1>10, <1>12, <1>13 DEF place
<1>15. \A d \in Calls : (Before(c, d))' <=> (Before(d, c))'
  BY DEF Before
<1>16. (Lined(u))'
  <2>1. \A d \in Calls : (Using(d))' =>
          /\ call'[d].key \in CacheKeys /\ tail'[call'[d].key] \in Calls
          /\ u[d] <= u[tail'[call'[d].key]]
    <3> SUFFICES ASSUME NEW d \in Calls, (Using(d))'
                 PROVE  /\ call'[d].key \in CacheKeys /\ tail'[call'[d].key] \in Calls
                        /\ u[d] <= u[tail'[call'[d].key]]
      OBVIOUS
    <3>1. CASE d = c
      BY <1>3, <1>4, <3>1
    <3>2. CASE d # c /\ call[d].key = k
      <4>1. (Before(d, c))'
        BY <1>4, <1>6, <3>2 DEF Before
      <4> QED
        BY <1>3, <1>4, <1>14, <3>2, <4>1
    <3>3. CASE d # c /\ call[d].key # k
      <4>1. /\ call[d].key \in CacheKeys /\ tail[call[d].key] \in Calls
            /\ r[d] <= r[tail[call[d].key]] /\ Using(tail[call[d].key])
        BY <1>1, <1>8, <3>3 DEF Lined, LInv, CallsOK
      <4>2. tail[call[d].key] # c
        BY <1>6, <4>1
      <4> QED
        BY <1>3, <1>4, <3>3, <4>1, <4>2
    <3> QED
      BY <3>1, <3>2, <3>3
  <2>2. \A l \in CacheKeys : tail'[l] # None => (Using(tail[l]))' /\ call'[tail'[l]].key = l
    <3> SUFFICES ASSUME NEW l \in CacheKeys, tail'[l] # None
                 PROVE  (Using(tail[l]))' /\ call'[tail'[l]].key = l
      OBVIOUS
    <3>1. CASE l = k
      BY <1>4, <1>6, <3>1 DEF Using
    <3>2. CASE l # k
      <4>1. tail'[l] = tail[l] /\ tail[l] \in Calls /\ Using(tail[l]) /\ call[tail[l]].key = l
        BY <1>1, <1>4, <3>2 DEF Lined, LInv, CallsOK
      <4> QED
        BY <1>4, <1>6, <4>1 DEF Using
    <3> QED
      BY <3>1, <3>2
  <2>3. \A d \in Calls : call'[d].pc = "fetching" => (First(d))'
    BY <1>1, <1>4, <1>8 DEF Lined
  <2>4. \A d \in Calls : (Using(d))' /\ ~(First(d))' => (Before(call[d].after, d))'
    <3> SUFFICES ASSUME NEW d \in Calls, (Using(d))', ~(First(d))'
                 PROVE  (Before(call[d].after, d))'
      OBVIOUS
    <3>1. CASE d = c
      <4>1. a # None /\ a \in Calls /\ Using(a) /\ call[a].key = k /\ a # c
        BY <1>2, <1>10, <1>11, <3>1
      <4>2. (Using(a))' /\ call'[a].key = k
        BY <1>4, <1>8, <4>1
      <4> QED
        BY <1>4, <1>6, <3>1, <4>1, <4>2 DEF Before, Using
    <3>2. CASE d # c
      <4>1. Before(call[d].after, d) /\ call[d].after \in Calls
        BY <1>1, <1>8, <3>2 DEF Lined, First, LInv, CallsOK
      <4>2. call[d].after # c /\ call'[d].after = call[d].after
        BY <1>4, <1>6, <3>2, <4>1 DEF Before
      <4> QED
        BY <1>9, <3>2, <4>1, <4>2
    <3> QED
      BY <3>1, <3>2
  <2>5. \A d, e \in Calls : (Before(d, e))' => u[d] # u[e]
    <3> SUFFICES ASSUME NEW d \in Calls, NEW e \in Calls, (Before(d, e))' PROVE u[d] # u[e]
      OBVIOUS
    <3>1. CASE d = c \/ e = c
      BY <1>3, <1>14, <1>15, <3>1
    <3>2. CASE d # c /\ e # c
      BY <1>1, <1>3, <1>9, <3>2 DEF Lined
    <3> QED
      BY <3>1, <3>2
  <2>6. \A d, e \in Calls : (Before(d, e))' /\ u[d] < u[e] =>
          ~(First(e))' /\ u[d] <= u[call'[e].after] /\ u[call'[e].after] < u[e]
    <3> SUFFICES ASSUME NEW d \in Calls, NEW e \in Calls, (Before(d, e))', u[d] < u[e]
                 PROVE  ~(First(e))' /\ u[d] <= u[call'[e].after] /\ u[call'[e].after] < u[e]
      OBVIOUS
    <3>1. CASE e = c
      BY <1>4, <1>11, <1>14, <3>1
    <3>2. CASE d = c
      <4>1. u[e] < u[c]
        BY <1>14, <1>15, <3>2
      <4> QED
        BY <1>3, <3>2, <4>1
    <3>3. CASE d # c /\ e # c
      <4>1. Before(d, e) /\ r[d] < r[e]
        BY <1>3, <1>9, <3>3
      <4>2. ~First(e) /\ r[d] <= r[call[e].after] /\ r[call[e].after] < r[e]
        BY <1>1, <4>1 DEF Lined
      <4>3. Using(call[e].after) /\ call[e].after \in Calls
        BY <1>1, <4>1, <4>2 DEF Lined, First, Before, LInv, CallsOK
      <4>4. call[e].after # c
        BY <1>6, <4>3
      <4> QED
        BY <1>3, <1>4, <1>8, <3>3, <4>2, <4>3, <4>4
    <3> QED
      BY <3>1, <3>2, <3>3
  <2> QED
    BY <2>1, <2>2, <2>3, <2>4, <2>5, <2>6 DEF Lined
<1> QED
  BY <1>3, <1>5, <1>16 DEF LInv

(* The first call of a chain leaves it; who waited for it is the first.    *)
LEMMA UnlockStep ==
  ASSUME LInv, config' = config, NEW c \in Calls, Using(c), First(c),
         NEW pc \in {"fallback", "done"}, Unlock(c, pc), None \notin Calls
  PROVE  LInv'
<1>1. PICK r \in [Calls -> Nat] : Lined(r)
  BY DEF LInv
<1> DEFINE k == call[c].key
<1>2. k \in CacheKeys /\ tail[k] \in Calls /\ r[c] <= r[tail[k]]
  BY <1>1 DEF Lined
<1>3. /\ \A d \in Calls : d # c => call'[d] = call[d]
      /\ \A d \in Calls : call'[d].key = call[d].key /\ call'[d].after = call[d].after
      /\ call'[c].pc = pc
      /\ tail'[k] = (IF tail[k] = c THEN None ELSE tail[k])
      /\ \A l \in CacheKeys : l # k => tail'[l] = tail[l]
  BY <1>2 DEF Unlock, LInv, CallsOK
<1>4. CallsOK'
  BY <1>2 DEF Unlock, LInv, CallsOK, Pcs
<1>5. (Released(c))' /\ ~(Using(c))' /\ ~Released(c)
  BY <1>3 DEF Released, Using
<1>6. \A d \in Calls : d # c => ((Using(d))' <=> Using(d)) /\ ((Released(d))' <=> Released(d))
  BY <1>3 DEF Using, Released
<1>7. \A d, e \in Calls : (Before(d, e))' <=> Before(d, e) /\ d # c /\ e # c
  BY <1>3, <1>5, <1>6 DEF Before
<1>8. \A d \in Calls : (First(d))' <=> First(d) \/ call[d].after = c
  BY <1>3, <1>5, <1>6 DEF First, LInv, CallsOK
<1>9. \A d \in Calls : Before(d, c) => r[c] < r[d] /\ r[d] \in Nat /\ r[c] \in Nat
  <2>1. \A d \in Calls : Before(d, c) => ~(r[d] < r[c]) /\ r[d] # r[c]
    BY <1>1 DEF Lined
  <2>2. \A d \in Calls : r[d] \in Nat
    OBVIOUS
  <2> QED
    BY <2>1, <2>2
<1>10. tail[k] = c => \A d \in Calls : ~Before(d, c)
  <2>1. \A d \in Calls : Before(d, c) => r[d] <= r[tail[k]]
    BY <1>1 DEF Lined, Before
  <2> QED
    BY <1>9, <2>1
<1> HIDE DEF k
<1>11. Lined(r)'
  <2>1. \A d \in Calls : (Using(d))' =>
          /\ call'[d].key \in CacheKeys /\ tail'[call'[d].key] \in Calls
          /\ r[d] <= r[tail'[call'[d].key]]
    <3> SUFFICES ASSUME NEW d \in Calls, (Using(d))'
                 PROVE  /\ call'[d].key \in CacheKeys /\ tail'[call'[d].key] \in Calls
                        /\ r[d] <= r[tail'[call'[d].key]]
      OBVIOUS
    <3>1. d # c /\ Using(d)
      BY <1>5, <1>6
    <3>2. call[d].key \in CacheKeys /\ tail[call[d].key] \in Calls /\ r[d] <= r[tail[call[d].key]]
      BY <1>1, <3>1 DEF Lined
    <3>3. tail'[call[d].key] = tail[call[d].key]
      <4>1. CASE call[d].key = k
        <5>1. Before(d, c)
          BY <3>1, <4>1 DEF Before, k
        <5> QED
          BY <1>3, <1>10, <4>1, <5>1
      <4> QED
        BY <1>3, <3>2, <4>1
    <3> QED
      BY <1>3, <3>2, <3>3
  <2>2. \A l \in CacheKeys : tail'[l] # None => (Using(tail[l]))' /\ call'[tail'[l]].key = l
    <3> SUFFICES ASSUME NEW l \in CacheKeys, tail'[l] # None
                 PROVE  (Using(tail[l]))' /\ call'[tail'[l]].key = l
      OBVIOUS
    <3>1. tail'[l] = tail[l] /\ tail[l] # None
      BY <1>3
    <3>2. tail[l] \in Calls /\ Using(tail[l]) /\ call[tail[l]].key = l
      BY <1>1, <3>1 DEF Lined, LInv, CallsOK
    <3>3. tail[l] # c
      BY <1>3, <3>1, <3>2 DEF k
    <3> QED
      BY <1>3, <3>1, <3>2, <3>3 DEF Using
  <2>3. \A d \in Calls : call'[d].pc = "fetching" => (First(d))'
    BY <1>1, <1>3, <1>8 DEF Lined
  <2>4. \A d \in Calls : (Using(d))' /\ ~(First(d))' => (Before(call[d].after, d))'
    <3> SUFFICES ASSUME NEW d \in Calls, (Using(d))', ~(First(d))'
                 PROVE  (Before(call[d].after, d))'
      OBVIOUS
    <3>1. Using(d) /\ d # c /\ ~First(d) /\ call[d].after # c
      BY <1>5, <1>6, <1>8
    <3>2. Before(call[d].after, d) /\ call[d].after \in Calls
      BY <1>1, <3>1 DEF Lined, First, LInv, CallsOK
    <3> QED
      BY <1>3, <1>7, <3>1, <3>2
  <2>5. \A d, e \in Calls : (Before(d, e))' => r[d] # r[e]
    BY <1>1, <1>7 DEF Lined
  <2>6. \A d, e \in Calls : (Before(d, e))' /\ r[d] < r[e] =>
          ~(First(e))' /\ r[d] <= r[call'[e].after] /\ r[call'[e].after] < r[e]
    <3> SUFFICES ASSUME NEW d \in Calls, NEW e \in Calls, (Before(d, e))', r[d] < r[e]
                 PROVE  ~(First(e))' /\ r[d] <= r[call[e].after] /\ r[call[e].after] < r[e]
      BY <1>3
    <3>1. Before(d, e) /\ d # c /\ e # c
      BY <1>7
    <3>2. ~First(e) /\ r[d] <= r[call[e].after] /\ r[call[e].after] < r[e]
      BY <1>1, <3>1 DEF Lined
    <3>3. call[e].after # c
      <4> SUFFICES ASSUME call[e].after = c PROVE FALSE
        OBVIOUS
      <4>1. Before(c, e)
        BY <1>1, <3>1, <3>2 DEF Lined, Before
      <4>2. Before(d, c)
        BY <3>1, <4>1 DEF Before
      <4> QED
        BY <1>9, <3>2, <4>2
    <3> QED
      BY <1>8, <3>2, <3>3
  <2> QED
    BY <2>1, <2>2, <2>3, <2>4, <2>5, <2>6 DEF Lined
<1> QED
  BY <1>4, <1>11 DEF LInv

-----------------------------------------------------------------------------
(* The actions.                                                            *)

LEMMA LInvInit == CacheInit => LInv
<1> SUFFICES ASSUME CacheInit PROVE LInv
  OBVIOUS
<1>1. NewCall \in [pc: Pcs, key: CacheKeys \cup {None}, after: Calls \cup {None}]
  BY DEF NewCall, Pcs
<1>2. CallsOK
  BY <1>1 DEF CacheInit, CallsOK
<1>3. \A c \in Calls : call[c].pc = "new"
  BY DEF CacheInit, NewCall
<1>4. [c \in Calls |-> 0] \in [Calls -> Nat]
  OBVIOUS
<1>5. Lined([c \in Calls |-> 0])
  BY <1>3 DEF Lined, Using, Before, CacheInit
<1> QED
  BY <1>2, <1>4, <1>5 DEF LInv

LEMMA AfterFindIs == \A c, v : AfterFind(c, v) \in {"fallback", "done"}
  BY DEF AfterFind

LEMMA TurnIsFirst == ASSUME NEW c \in Calls, Turn(c) PROVE Using(c) /\ First(c)
  BY DEF Turn, Using, First, Released

LEMMA FetchingIsFirst ==
  ASSUME LInv, NEW c \in Calls, call[c].pc = "fetching" PROVE Using(c) /\ First(c)
  BY DEF LInv, Lined, Using

(* Everything that neither starts nor moves a call.                        *)
LEMMA IdleStep ==
  ASSUME LInv, config' = config, call' = call, tail' = tail PROVE LInv'
<1>1. PICK r \in [Calls -> Nat] : Lined(r)
  BY DEF LInv
<1>2. Lined(r)'
  BY <1>1 DEF Lined, Before, First, Using, Released
<1> QED
  BY <1>2 DEF LInv, CallsOK

LEMMA StartStep ==
  ASSUME LInv, CacheAssumption, NEW c \in Calls, NEW k \in CacheKeys, StartGet(c, k) \/ StartSet(c, k)
  PROVE  LInv'
<1>1. config' = config /\ call[c].pc = "new" /\ None \notin Calls
  BY DEF StartGet, StartSet, CacheAssumption
<1>2. CASE Enqueue(c, k)
  BY <1>1, <1>2, EnqueueStep
<1>3. CASE StartGet(c, k) /\ Found(k)
  <2> DEFINE q == [call[c] EXCEPT !.pc = AfterFind(c, s.items[k].val), !.key = k]
  <2>1. call' = [call EXCEPT ![c] = q] /\ tail' = tail
    BY <1>3 DEF StartGet
  <2>2. q \in [pc: {"fallback", "done"}, key: CacheKeys \cup {None}, after: Calls \cup {None}]
    <3>1. AfterFind(c, s.items[k].val) \in {"fallback", "done"}
      BY AfterFindIs
    <3>2. call[c] \in [pc: Pcs, key: CacheKeys \cup {None}, after: Calls \cup {None}]
      BY DEF LInv, CallsOK
    <3> QED
      BY <3>1, <3>2
  <2>3. ~Using(c)
    BY <1>1 DEF Using
  <2> HIDE DEF q
  <2> QED
    BY <1>1, <2>1, <2>2, <2>3, OutsideStep
<1> QED
  BY <1>2, <1>3 DEF StartGet, StartSet

LEMMA ProgressStep ==
  ASSUME LInv, CacheAssumption, NEW c \in Calls, Progress(c)
  PROVE  LInv'
<1>0. None \notin Calls
  BY DEF CacheAssumption
<1>1. CASE Recheck(c)
  <2>1. config' = config /\ Turn(c)
    BY <1>1 DEF Recheck
  <2>2. CASE Found(call[c].key)
    <3>1. \E pc \in {"fallback", "done"} : Unlock(c, pc)
      BY <1>1, <2>2, AfterFindIs DEF Recheck
    <3> QED
      BY <1>0, <2>1, <3>1, TurnIsFirst, UnlockStep
  <2>3. CASE ~Found(call[c].key)
    <3>1. call' = [call EXCEPT ![c].pc = "fetching"] /\ tail' = tail
      BY <1>1, <2>3 DEF Recheck
    <3> QED
      BY <2>1, <3>1, FetchStep
  <2> QED
    BY <2>2, <2>3
<1>2. CASE \E v \in config.values : SetLocked(c, v) \/ FetchSucceeds(c, v)
  <2>1. config' = config /\ Using(c) /\ First(c)
    BY <1>2, TurnIsFirst, FetchingIsFirst DEF SetLocked, FetchSucceeds
  <2>2. \E pc \in {"fallback", "done"} : Unlock(c, pc)
    BY <1>2, AfterFindIs DEF SetLocked, FetchSucceeds
  <2> QED
    BY <1>0, <2>1, <2>2, UnlockStep
<1>3. CASE FetchFails(c)
  <2>1. config' = config /\ Using(c) /\ First(c) /\ Unlock(c, "done")
    BY <1>3, FetchingIsFirst DEF FetchFails
  <2> QED
    BY <1>0, <2>1, UnlockStep
<1>4. CASE Fallback(c)
  <2> DEFINE q == [call[c] EXCEPT !.pc = "done"]
  <2>1. config' = config /\ tail' = tail /\ call[c].pc = "fallback" /\ call' = [call EXCEPT ![c] = q]
    BY <1>4 DEF Fallback
  <2>2. q \in [pc: {"fallback", "done"}, key: CacheKeys \cup {None}, after: Calls \cup {None}]
    BY DEF LInv, CallsOK
  <2>3. ~Using(c)
    BY <2>1 DEF Using
  <2> HIDE DEF q
  <2> QED
    BY <2>1, <2>2, <2>3, OutsideStep
<1> QED
  BY <1>1, <1>2, <1>3, <1>4 DEF Progress

LEMMA LInvNext == CacheAssumption /\ LInv /\ [CacheNext]_cacheVars => LInv'
<1> SUFFICES ASSUME CacheAssumption, LInv, [CacheNext]_cacheVars PROVE LInv'
  OBVIOUS
<1>1. config.calls \subseteq Calls /\ config.keys \subseteq CacheKeys
  BY DEF LInv, CallsOK, CacheAssumption
<1>2. CASE Direct
  <2>1. config' = config /\ call' = call /\ tail' = tail
    BY <1>2 DEF Direct, Set, Get, Delete, MarkAs, Idle
  <2> QED
    BY <2>1, IdleStep
<1>3. CASE Clear \/ CleanupExpired \/ Tick \/ UNCHANGED cacheVars
  <2>1. config' = config /\ call' = call /\ tail' = tail
    BY <1>3 DEF Clear, CleanupExpired, Tick, Idle, cacheVars
  <2> QED
    BY <2>1, IdleStep
<1>4. CASE \E c \in config.calls, k \in config.keys : StartGet(c, k) \/ StartSet(c, k)
  BY <1>1, <1>4, StartStep
<1>5. CASE \E c \in config.calls : Progress(c)
  BY <1>1, <1>5, ProgressStep
<1> QED
  BY <1>2, <1>3, <1>4, <1>5 DEF CacheNext

(* In a line only one call is the first, so two that fetch have different  *)
(* keys; and the tail of a key is one of the calls of its line.            *)
LEMMA LInvSingle == CacheAssumption /\ LInv => SingleFlight
<1> SUFFICES ASSUME CacheAssumption, LInv PROVE SingleFlight
  OBVIOUS
<1>1. PICK r \in [Calls -> Nat] : Lined(r)
  BY DEF LInv
<1>2. ASSUME NEW c \in Calls, NEW d \in Calls, c # d,
             call[c].pc = "fetching", call[d].pc = "fetching", call[c].key = call[d].key
      PROVE  FALSE
  <2>1. Before(c, d) /\ Before(d, c) /\ First(c) /\ First(d)
    BY <1>1, <1>2 DEF Before, Using, Lined
  <2>2. r[c] # r[d] /\ ~(r[c] < r[d]) /\ ~(r[d] < r[c])
    BY <1>1, <2>1 DEF Lined
  <2>3. r[c] \in Nat /\ r[d] \in Nat
    OBVIOUS
  <2> QED
    BY <2>2, <2>3
<1>3. ASSUME NEW k \in CacheKeys
      PROVE  tail[k] # None <=>
               \E c \in Calls : call[c].key = k /\ call[c].pc \in {"waiting", "fetching"}
  BY <1>1 DEF Lined, Using, LInv, CallsOK, CacheAssumption
<1> QED
  BY <1>2, <1>3 DEF SingleFlight

(* Two calls never fetch the same key at once, however many wait for it    *)
(* and however the fetches before them ended, and a key that no call uses  *)
(* has no chain (lock and its callers in CacheManager).                    *)
THEOREM SingleFlightHolds == CacheSpec => []SingleFlight
<1>1. CacheSpec => []LInv
  BY LInvInit, LInvNext, CacheAssumption, PTL DEF CacheSpec
<1> QED
  BY <1>1, LInvSingle, CacheAssumption, PTL
=============================================================================
