----------------------- MODULE ObservationCacheProofs -----------------------
EXTENDS ObservationCache, TLAPS

(***************************************************************************)
(* What a call may rely on, before it returns and after.  A load looks at  *)
(* the cloud from a moment that is not before the call began; the entry of *)
(* the cache is never fresh for longer than Freshness after its load, and  *)
(* only whole observations get there.                                      *)
(***************************************************************************)
CallOK(c) ==
    /\ At(c, "wait") \/ At(c, "in") => call[c].began <= now
    /\ At(c, "load") => call[c].result.from >= call[c].began
    /\ At(c, "done") =>
          /\ call[c].result.key = call[c].key
          /\ call[c].force => call[c].result.from >= call[c].began
          /\ call[c].at - call[c].result.to < Freshness
          /\ call[c].result.whole

CacheOK ==
    /\ cache.until <= cache.value.to + Freshness
    /\ cache.value.whole

CacheInv ==
    /\ TypeOK
    /\ GateIsHeld
    /\ CacheOK
    /\ \A c \in Callers : CallOK(c)

PCs == {"wait", "in", "load", "done", "failed"}
CallType == [pc : PCs, key : Key \cup {NoKey}, force : BOOLEAN,
             cancelled : BOOLEAN, began : 0..MaxTime,
             result : Observation, at : -1..MaxTime]
CacheType == [value : Observation, until : -1..(MaxTime + Freshness)]

(* The empty observation and the record of a call that failed have their   *)
(* types.                                                                  *)
LEMMA NothingType == Nothing \in Observation
  BY CacheAssumption DEF Nothing, Observation

(* As above, for the record every call starts and fails with.              *)
LEMMA FailureType == Failure \in CallType
<1>1. 0 \in 0..MaxTime /\ -1 \in -1..MaxTime
  BY CacheAssumption
<1> QED
  BY <1>1, NothingType DEF Failure, CallType, PCs

(***************************************************************************)
(* Nobody is behind the gate and nothing is cached at the start.           *)
(***************************************************************************)
LEMMA CacheInit ==
  ASSUME Init  PROVE CacheInv
<1> USE CacheAssumption
<1>1. cache \in CacheType
  BY NothingType DEF Init, CacheType
<1>2. call \in [Callers -> CallType]
  BY FailureType DEF Init
<1>3. TypeOK
  BY <1>1, <1>2 DEF Init, TypeOK, CacheType, CallType, PCs
<1>4. GateIsHeld
  BY DEF Init, GateIsHeld, At, Failure
<1>5. CacheOK
  BY DEF Init, CacheOK, Nothing
<1>6. ASSUME NEW c \in Callers PROVE CallOK(c)
  BY DEF Init, CallOK, At, Failure
<1> QED
  BY <1>3, <1>4, <1>5, <1>6 DEF CacheInv

Behind(r) == r.pc \in {"in", "load"}

(***************************************************************************)
(* The record of one call may change alone, if it stays on its side of the *)
(* gate or takes the gate with it.                                         *)
(***************************************************************************)
LEMMA CallChanges ==
  ASSUME CacheInv, NEW c \in Callers, NEW r \in CallType,
         call' = [call EXCEPT ![c] = r],
         UNCHANGED <<accounts, now>>,
         cache' \in CacheType, CacheOK', CallOK(c)',
         \/ gate' = gate /\ (Behind(r) <=> gate = c)
         \/ gate \in {Idle, c} /\ gate' = IF Behind(r) THEN c ELSE Idle
  PROVE  CacheInv'
<1> USE CacheAssumption
<1>1. call \in [Callers -> CallType] /\ gate \in Callers \cup {Idle}
  BY DEF CacheInv, TypeOK, CallType, PCs
<1>2. call' \in [Callers -> CallType] /\ call'[c] = r
  BY <1>1
<1>3. gate' \in Callers \cup {Idle}
  BY <1>1
<1>4. TypeOK'
  BY <1>2, <1>3 DEF CacheInv, TypeOK, CallType, CacheType, PCs
<1>5. ASSUME NEW d \in Callers, d # c PROVE call'[d] = call[d]
  BY <1>1, <1>5
<1>6. ASSUME NEW d \in Callers
      PROVE  (At(d, "in") \/ At(d, "load"))' <=> gate' = d
  <2>1. CASE d = c
    BY <2>1, <1>2 DEF At, Behind
  <2>2. CASE d # c
    BY <2>2, <1>5 DEF At, CacheInv, GateIsHeld
  <2> QED BY <2>1, <2>2
<1>7. GateIsHeld'
  BY <1>6 DEF GateIsHeld
<1>8. ASSUME NEW d \in Callers PROVE CallOK(d)'
  <2>1. CASE d = c
    BY <2>1
  <2>2. CASE d # c
    <3>1. call'[d] = call[d] /\ CallOK(d) /\ now' = now
      BY <2>2, <1>5 DEF CacheInv
    <3> QED BY <3>1 DEF CallOK, At
  <2> QED BY <2>1, <2>2
<1> QED
  BY <1>4, <1>7, <1>8 DEF CacheInv

(***************************************************************************)
(* Every step of a call, of the accounts and of the clock preserves the    *)
(* invariant.                                                              *)
(***************************************************************************)
LEMMA CacheStep ==
  ASSUME CacheInv, [Next]_vars  PROVE CacheInv'
<1> USE CacheAssumption
<1>0. /\ call \in [Callers -> CallType] /\ cache \in CacheType
      /\ now \in 0..MaxTime /\ accounts \in 0..MaxUpdates
      /\ GateIsHeld /\ CacheOK
      /\ \A d \in Callers : CallOK(d)
  BY DEF CacheInv, TypeOK, CallType, CacheType, PCs
<1>1. ASSUME NEW c \in Callers, Refresh(c) PROVE CacheInv'
  <2>1. PICK scope \in Scopes, force \in BOOLEAN :
          call' = [call EXCEPT ![c] = Start([version |-> accounts,
                                             scope |-> scope], force)]
    BY <1>1 DEF Refresh
  <2> DEFINE r == Start([version |-> accounts, scope |-> scope], force)
  <2>2. UNCHANGED <<accounts, gate, cache, now>>
    BY <1>1 DEF Refresh
  <2>3. [version |-> accounts, scope |-> scope] \in Key
    BY <1>0 DEF Key
  <2>4. r \in CallType /\ r.pc = "wait" /\ r.began = now
    BY <2>3, <1>0, NothingType DEF Start, CallType, PCs
  <2>5. call'[c] = r
    BY <2>1, <1>0
  <2>6. CallOK(c)'
    BY <2>2, <2>4, <2>5, <1>0 DEF CallOK, At
  <2>7. gate # c /\ ~Behind(r)
    BY <1>1, <2>4, <1>0 DEF Refresh, GateIsHeld, At, Behind
  <2>8. CacheOK' /\ cache' \in CacheType
    BY <2>2, <1>0 DEF CacheOK
  <2> HIDE DEF r
  <2> QED
    BY <2>1, <2>2, <2>4, <2>6, <2>7, <2>8, CallChanges DEF r
<1>2. ASSUME NEW c \in Callers, Pass(c) PROVE CacheInv'
  <2> DEFINE r == [call[c] EXCEPT !.pc = "in"]
  <2>1. call' = [call EXCEPT ![c] = r] /\ gate = Idle /\ gate' = c
    BY <1>2, <1>0 DEF Pass, Goto
  <2>2. UNCHANGED <<accounts, cache, now>>
    BY <1>2 DEF Pass
  <2>3. call[c] \in CallType
    BY <1>0
  <2>4. r \in CallType /\ r.pc = "in" /\ r.began = call[c].began
    BY <2>3 DEF CallType, PCs
  <2>5. call'[c] = r
    BY <2>1, <1>0
  <2>6. call[c].began <= now
    BY <1>2, <1>0 DEF Pass, CallOK
  <2>7. CallOK(c)'
    BY <2>2, <2>4, <2>5, <2>6 DEF CallOK, At
  <2>8. CacheOK' /\ cache' \in CacheType
    BY <2>2, <1>0 DEF CacheOK
  <2>9. Behind(r)
    BY <2>4 DEF Behind
  <2> HIDE DEF r
  <2> QED
    BY <2>1, <2>2, <2>4, <2>7, <2>8, <2>9, CallChanges
<1>3. ASSUME NEW c \in Callers, call' = [call EXCEPT ![c] = Failure],
             UNCHANGED <<accounts, cache, now>>,
             \/ gate' = gate /\ gate # c
             \/ gate = c /\ gate' = Idle
      PROVE CacheInv'
  <2>1. call'[c] = Failure /\ ~Behind(Failure)
    BY <1>3, <1>0 DEF Behind, Failure
  <2>2. CallOK(c)'
    BY <2>1 DEF CallOK, At, Failure
  <2>3. CacheOK' /\ cache' \in CacheType
    BY <1>3, <1>0 DEF CacheOK
  <2> QED
    BY <1>3, <2>1, <2>2, <2>3, FailureType, CallChanges
<1>4. ASSUME NEW c \in Callers, GiveUp(c) PROVE CacheInv'
  <2>1. gate # c
    BY <1>4, <1>0 DEF GiveUp, GateIsHeld, At
  <2> QED
    BY <1>4, <2>1, <1>3 DEF GiveUp, Fail
<1>5. ASSUME NEW c \in Callers, Enter(c) PROVE CacheInv'
  <2>1. gate = c /\ UNCHANGED <<accounts, cache, now>> /\ call[c].began <= now
    BY <1>5, <1>0 DEF Enter, GateIsHeld, CallOK
  <2>2. call[c] \in CallType
    BY <1>0
  <2>3. CacheOK' /\ cache' \in CacheType
    BY <2>1, <1>0 DEF CacheOK
  <2>4. CASE Failed(c)
    <3>1. Fail(c) /\ gate' = Idle
      BY <1>5, <2>4 DEF Enter, Freed
    <3> QED
      BY <2>1, <3>1, <1>3 DEF Fail
  <2>5. CASE ~Failed(c) /\ Shared(c)
    <3> DEFINE r == [call[c] EXCEPT !.pc = "done", !.result = cache.value,
                                    !.at = now]
    <3>1. call' = [call EXCEPT ![c] = r] /\ gate' = Idle
      BY <1>5, <2>5, <1>0 DEF Enter, Return, Freed
    <3>2. cache.value \in Observation /\ now \in -1..MaxTime
      BY <1>0 DEF CacheType
    <3>3. /\ r \in CallType /\ r.pc = "done" /\ r.result = cache.value
          /\ r.at = now /\ r.force = call[c].force /\ r.key = call[c].key
      BY <2>2, <3>2 DEF CallType, PCs
    <3>4. call'[c] = r
      BY <3>1, <1>0
    <3>5. now - cache.value.to < Freshness
      <4>1. now < cache.until /\ cache.until <= cache.value.to + Freshness
        BY <2>5, <1>0 DEF Shared, CacheOK
      <4>2. now \in Int /\ cache.until \in Int /\ cache.value.to \in Int
        BY <1>0 DEF CacheType, Observation
      <4> QED BY <4>1, <4>2
    <3>6. cache.value.whole /\ ~call[c].force /\ call[c].key = cache.value.key
      BY <2>5, <1>0 DEF Shared, CacheOK
    <3>7. CallOK(c)'
      BY <3>3, <3>4, <3>5, <3>6 DEF CallOK, At
    <3>8. ~Behind(r)
      BY <3>3 DEF Behind
    <3> HIDE DEF r
    <3> QED
      BY <2>1, <2>3, <3>1, <3>3, <3>7, <3>8, CallChanges
  <2>6. CASE ~Failed(c) /\ ~Shared(c)
    <3> DEFINE o == [call[c].result EXCEPT !.from = now]
               r == [call[c] EXCEPT !.pc = "load", !.result = o]
    <3>1. call[c].result \in Observation /\ now \in -1..MaxTime
      BY <2>2, <1>0 DEF CallType
    <3>2. o \in Observation /\ o.from = now
      BY <3>1 DEF Observation
    <3>3. call' = [call EXCEPT ![c] = r] /\ gate' = gate
      BY <1>5, <2>6, <1>0 DEF Enter
    <3>4. r \in CallType /\ r.pc = "load" /\ r.result = o /\ r.began = call[c].began
      <4> HIDE DEF o
      <4> QED BY <2>2, <3>2 DEF CallType, PCs
    <3>5. call'[c] = r
      BY <3>3, <1>0
    <3>6. call[c].began \in Int /\ now \in Int
      BY <2>2, <1>0 DEF CallType
    <3> HIDE DEF o, r
    <3>7. CallOK(c)'
      BY <2>1, <3>2, <3>4, <3>5, <3>6 DEF CallOK, At
    <3>8. Behind(r)
      BY <3>4 DEF Behind
    <3> QED
      BY <2>1, <2>3, <3>3, <3>4, <3>7, <3>8, CallChanges
  <2> QED
    BY <2>4, <2>5, <2>6
<1>6. ASSUME NEW c \in Callers, Loaded(c) PROVE CacheInv'
  <2>1. gate = c /\ UNCHANGED <<accounts, now>> /\ gate' = Idle
    BY <1>6, <1>0 DEF Loaded, GateIsHeld, Freed
  <2>2. call[c] \in CallType
    BY <1>0
  <2>3. CASE Failed(c)
    <3>1. Fail(c) /\ UNCHANGED cache
      BY <1>6, <2>3 DEF Loaded
    <3> QED
      BY <2>1, <3>1, <1>3 DEF Fail
  <2>4. CASE ~Failed(c)
    <3> DEFINE v == [key |-> call[c].key, from |-> call[c].result.from,
                     to |-> now, whole |-> ~call[c].cancelled]
               r == [call[c] EXCEPT !.pc = "done", !.result = v, !.at = now]
    <3>1. /\ call' = [call EXCEPT ![c] = r]
          /\ cache' = [value |-> v, until |-> now + Freshness]
      BY <1>6, <2>4, <1>0 DEF Loaded, Return
    <3>2. now \in -1..MaxTime /\ now + Freshness \in -1..(MaxTime + Freshness)
      BY <1>0
    <3>3. /\ v \in Observation /\ v.to = now /\ v.whole
          /\ v.key = call[c].key /\ v.from = call[c].result.from
      BY <2>2, <2>4, <3>2 DEF CallType, Observation, Failed
    <3> HIDE DEF v
    <3>4. cache' \in CacheType /\ CacheOK'
      BY <3>1, <3>2, <3>3 DEF CacheType, CacheOK
    <3>5. /\ r \in CallType /\ r.pc = "done" /\ r.result = v /\ r.at = now
          /\ r.force = call[c].force /\ r.key = call[c].key
          /\ r.began = call[c].began
      BY <2>2, <3>2, <3>3 DEF CallType, PCs
    <3>6. call'[c] = r
      BY <3>1, <1>0
    <3>7. call[c].result.from >= call[c].began
      BY <1>6, <1>0 DEF Loaded, CallOK
    <3>8. now - now < Freshness
      BY <1>0
    <3> HIDE DEF r
    <3>9. CallOK(c)'
      BY <3>3, <3>5, <3>6, <3>7, <3>8 DEF CallOK, At
    <3>10. ~Behind(r)
      BY <3>5 DEF Behind
    <3> QED
      BY <2>1, <3>1, <3>4, <3>5, <3>9, <3>10, CallChanges
  <2> QED
    BY <2>3, <2>4
<1>7. ASSUME NEW c \in Callers, Cancel(c) PROVE CacheInv'
  <2> DEFINE r == [call[c] EXCEPT !.cancelled = TRUE]
  <2>1. call' = [call EXCEPT ![c] = r] /\ UNCHANGED <<accounts, gate, cache, now>>
    BY <1>7, <1>0 DEF Cancel
  <2>2. call[c] \in CallType
    BY <1>0
  <2>3. /\ r \in CallType /\ r.pc = call[c].pc /\ r.pc # "done"
        /\ r.began = call[c].began /\ r.result = call[c].result
    BY <2>2, <1>7 DEF CallType, PCs, Cancel, At
  <2>4. call'[c] = r
    BY <2>1, <1>0
  <2> HIDE DEF r
  <2>5. CallOK(c)'
    BY <2>1, <2>3, <2>4, <1>0 DEF CallOK, At
  <2>6. Behind(r) <=> gate = c
    BY <2>3, <1>0 DEF Behind, GateIsHeld, At
  <2>7. CacheOK' /\ cache' \in CacheType
    BY <2>1, <1>0 DEF CacheOK
  <2> QED
    BY <2>1, <2>3, <2>5, <2>6, <2>7, CallChanges
<1>8. CASE UpdateAccounts
  <2>1. accounts' \in 0..MaxUpdates /\ UNCHANGED <<gate, cache, call, now>>
    BY <1>8, <1>0 DEF UpdateAccounts
  <2> QED
    BY <2>1 DEF CacheInv, TypeOK, GateIsHeld, CacheOK, CallOK, At
<1>9. CASE Tick
  <2>1. now' \in 0..MaxTime /\ now' = now + 1 /\ UNCHANGED <<accounts, gate, cache, call>>
    BY <1>9, <1>0 DEF Tick
  <2>2. TypeOK' /\ GateIsHeld' /\ CacheOK'
    BY <2>1 DEF CacheInv, TypeOK, GateIsHeld, CacheOK, At
  <2>3. ASSUME NEW d \in Callers PROVE CallOK(d)'
    <3>1. CallOK(d) /\ call[d].began \in Int /\ now \in Int
      BY <1>0 DEF CallType
    <3> QED BY <2>1, <3>1 DEF CallOK, At
  <2> QED
    BY <2>2, <2>3 DEF CacheInv
<1>10. CASE UNCHANGED vars
  BY <1>10 DEF vars, CacheInv, TypeOK, GateIsHeld, CacheOK, CallOK, At
<1> QED
  BY <1>1, <1>2, <1>4, <1>5, <1>6, <1>7, <1>8, <1>9, <1>10 DEF Next

(***************************************************************************)
(* The inductive invariant of Refresh and RefreshAccounts.                 *)
(***************************************************************************)
THEOREM CacheInvariant == Spec => []CacheInv
  BY CacheInit, CacheStep, PTL DEF Spec

(* Accounts, gate, entry and calls have their types.                       *)
THEOREM CacheTyped == Spec => []TypeOK
<1>1. ASSUME CacheInv PROVE TypeOK
  BY <1>1 DEF CacheInv
<1> QED
  BY <1>1, CacheInvariant, PTL

(* The gate is held by the one call that is behind it, and given back on   *)
(* every way out of it.                                                    *)
THEOREM GateExclusion == Spec => []GateIsHeld
<1>1. ASSUME CacheInv PROVE GateIsHeld
  BY <1>1 DEF CacheInv
<1> QED
  BY <1>1, CacheInvariant, PTL

(* A call is given the observation of the accounts it read, for any number *)
(* of callers, rescans and changes of the accounts.                        *)
THEOREM ResultOfKey == Spec => []ResultIsMine
<1>1. ASSUME CacheInv PROVE ResultIsMine
  BY <1>1 DEF CacheInv, CallOK, ResultIsMine
<1> QED
  BY <1>1, CacheInvariant, PTL

(* A forced refresh never returns what was observed before it was asked    *)
(* for, however long it waited.                                            *)
THEOREM ForcedObservation == Spec => []ForcedIsNew
<1>1. ASSUME CacheInv PROVE ForcedIsNew
  BY <1>1 DEF CacheInv, CallOK, ForcedIsNew
<1> QED
  BY <1>1, CacheInvariant, PTL

(* What a call shares is never older than the freshness, for any length of *)
(* it and any time the load took.                                          *)
THEOREM SharedObservation == Spec => []SharedIsFresh
<1>1. ASSUME CacheInv PROVE SharedIsFresh
  BY <1>1 DEF CacheInv, CallOK, SharedIsFresh
<1> QED
  BY <1>1, CacheInvariant, PTL

(* An observation cut short by its caller's context is neither returned    *)
(* nor kept.                                                               *)
THEOREM WholeObservation == Spec => []NoPartialResult
<1>1. ASSUME CacheInv PROVE NoPartialResult
  BY <1>1 DEF CacheInv, CacheOK, CallOK, NoPartialResult
<1> QED
  BY <1>1, CacheInvariant, PTL
=============================================================================
