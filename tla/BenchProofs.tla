---------------------------- MODULE BenchProofs ----------------------------
(***************************************************************************)
(* Proofs about Bench, for any callers, any BENCH_MAX and any requested n. *)
(***************************************************************************)
EXTENDS Bench, TLAPS

USE BenchAssumption

\* benchSize is between 1 and BENCH_MAX, whatever `n` is (handlers.ts:101-106).
THEOREM SizeInRange ==
    ASSUME NEW raw \in Raws
    PROVE  benchSize(raw) \in 1..BenchMax
<1>1. CASE raw = <<>>
  BY <1>1 DEF benchSize
<1>2. CASE raw # <<>>
  <2>1. Trunc(raw[1]) \in Int
    BY <1>2 DEF Raws, Trunc
  <2>2. benchSize(raw) = Clamp(Trunc(raw[1]))
    BY <1>2 DEF benchSize
  <2>. QED
    BY <2>1, <2>2 DEF Clamp
<1>. QED
  BY <1>1, <1>2

BenchInv == TypeOK /\ PermitHeld /\ WorkInv

LEMMA InitBench == Init => BenchInv
  BY DEF Init, BenchInv, TypeOK, PermitHeld, WorkInv, Check!Init

\* Ending a run is the same whatever ended it: nobody runs afterwards.
LEMMA RunEnds ==
    ASSUME BenchInv, NEW c \in Callers, NEW a \in {"none", "ok", "failed"},
           pc[c] = "running", EndRun(c, a),
           running' \in [Callers -> BOOLEAN], retried' \in [Callers -> BOOLEAN],
           calls' \in [Callers -> 0..4],
           \A d \in Callers : ~running'[d] /\ ~retried'[d] /\ calls'[d] = 0
    PROVE  BenchInv'
<1>. permits' = 1
  BY DEF BenchInv, TypeOK, PermitHeld, EndRun
<1>1. TypeOK'
  <2>1. pc' \in [Callers -> {"idle", "running"}]
    BY DEF BenchInv, TypeOK, EndRun
  <2>2. left' \in [Callers -> 0..(WarmUps + BenchMax)] /\ spent' \in [Callers -> Nat]
    BY DEF BenchInv, TypeOK, EndRun
  <2>3. answer' \in [Callers -> {"none", "busy", "ok", "failed"}]
    BY DEF BenchInv, TypeOK, EndRun
  <2>. QED
    BY <2>1, <2>2, <2>3 DEF TypeOK
<1>2. PermitHeld'
  <2>2. \A d \in Callers : d # c => pc[d] = "idle"
    BY DEF BenchInv, TypeOK, PermitHeld
  <2>3. \A d \in Callers : pc'[d] = "idle"
    BY <2>2 DEF BenchInv, TypeOK, EndRun
  <2>. QED
    BY <2>3 DEF PermitHeld
<1>3. WorkInv'
  BY DEF BenchInv, TypeOK, PermitHeld, WorkInv, EndRun
<1>. QED
  BY <1>1, <1>2, <1>3 DEF BenchInv

LEMMA OthersIdle ==
    ASSUME BenchInv, NEW c \in Callers, pc[c] = "running"
    PROVE  \A d \in Callers : d # c => ~running[d] /\ ~retried[d] /\ calls[d] = 0
  BY DEF BenchInv, TypeOK, PermitHeld, WorkInv

LEMMA NextBench == BenchInv /\ [Next]_vars => BenchInv'
<1>. SUFFICES ASSUME BenchInv, [Next]_vars
              PROVE  BenchInv'
  OBVIOUS
<1>1. CASE UNCHANGED vars
  BY <1>1 DEF BenchInv, TypeOK, PermitHeld, WorkInv, vars
<1>2. ASSUME NEW c \in Callers, NEW raw \in Raws, Start(c, raw)
      PROVE  BenchInv'
  <2>1. left'[c] \in WarmUps + 1 .. WarmUps + BenchMax
    BY <1>2, SizeInRange DEF Start, BenchInv, TypeOK
  <2>2. TypeOK'
    BY <1>2, <2>1 DEF Start, BenchInv, TypeOK
  <2>3. PermitHeld'
    BY <1>2 DEF Start, BenchInv, TypeOK, PermitHeld
  <2>4. WorkInv'
    BY <1>2, <2>1 DEF Start, BenchInv, TypeOK, WorkInv
  <2>. QED
    BY <2>2, <2>3, <2>4 DEF BenchInv
<1>3. ASSUME NEW c \in Callers, Busy(c)
      PROVE  BenchInv'
  BY <1>3 DEF Busy, BenchInv, TypeOK, PermitHeld, WorkInv
<1>4. ASSUME NEW c \in Callers, NextCheck(c)
      PROVE  BenchInv'
  <2>1. TypeOK' /\ PermitHeld'
    BY <1>4 DEF NextCheck, BenchInv, TypeOK, PermitHeld, Check!Begin
  <2>2. WorkInv'
    BY <1>4 DEF NextCheck, BenchInv, TypeOK, WorkInv, Check!Begin
  <2>. QED
    BY <2>1, <2>2 DEF BenchInv
<1>5. ASSUME NEW c \in Callers, CheckCalls(c)
      PROVE  BenchInv'
  <2>1. running[c] /\ calls[c] < 4
    BY <1>5 DEF CheckCalls, Check!Call, Check!Budget, BenchInv, TypeOK
  <2>2. calls' = [calls EXCEPT ![c] = @ + 1]
    BY <1>5 DEF CheckCalls, Check!Call, BenchInv, TypeOK
  <2>3. UNCHANGED <<permits, pc, left, answer, spent, running, retried>>
    BY <1>5 DEF CheckCalls, Check!Call, runVars
  <2>. QED
    BY <2>1, <2>2, <2>3 DEF BenchInv, TypeOK, PermitHeld, WorkInv
<1>6. ASSUME NEW c \in Callers, CheckRetries(c)
      PROVE  BenchInv'
  BY <1>6 DEF CheckRetries, Check!Retry, runVars, BenchInv, TypeOK, PermitHeld, WorkInv
<1>7. ASSUME NEW c \in Callers, CheckAnswered(c)
      PROVE  BenchInv'
  <2>1. /\ running' \in [Callers -> BOOLEAN] /\ retried' \in [Callers -> BOOLEAN]
        /\ calls' \in [Callers -> 0..4]
    BY <1>7 DEF CheckAnswered, Check!End, BenchInv, TypeOK
  <2>2. \A d \in Callers : /\ running'[d] <=> running[d] /\ d # c
                           /\ retried'[d] <=> retried[d] /\ d # c
                           /\ calls'[d] = IF d = c THEN 0 ELSE calls[d]
    BY <1>7, Zenon DEF CheckAnswered, Check!End
  <2>3. TypeOK' /\ PermitHeld'
    <3>1. spent' \in [Callers -> Nat]
      <4>1. spent[c] + calls[c] \in Nat
        BY DEF BenchInv, TypeOK
      <4>. QED
        BY <1>7, <4>1 DEF CheckAnswered, BenchInv, TypeOK
    <3>2. UNCHANGED <<permits, pc, left, answer>>
      BY <1>7 DEF CheckAnswered
    <3>. QED
      BY <2>1, <3>1, <3>2 DEF BenchInv, TypeOK, PermitHeld
  <2>4. WorkInv'
    BY <1>7, <2>2 DEF CheckAnswered, BenchInv, TypeOK, WorkInv
  <2>. QED
    BY <2>3, <2>4 DEF BenchInv
<1>8. ASSUME NEW c \in Callers, CheckFailed(c)
      PROVE  BenchInv'
  <2>1. pc[c] = "running" /\ EndRun(c, "failed")
    BY <1>8 DEF CheckFailed, BenchInv, WorkInv
  <2>2. /\ running' \in [Callers -> BOOLEAN] /\ retried' \in [Callers -> BOOLEAN]
        /\ calls' \in [Callers -> 0..4]
    BY <1>8 DEF CheckFailed, Check!End, BenchInv, TypeOK
  <2>3. \A d \in Callers : /\ running'[d] <=> running[d] /\ d # c
                           /\ retried'[d] <=> retried[d] /\ d # c
                           /\ calls'[d] = IF d = c THEN 0 ELSE calls[d]
    BY <1>8, Zenon DEF CheckFailed, Check!End
  <2>. QED
    BY <2>1, <2>2, <2>3, OthersIdle, RunEnds
<1>9. ASSUME NEW c \in Callers, Finish(c)
      PROVE  BenchInv'
  <2>1. pc[c] = "running" /\ EndRun(c, "ok") /\ UNCHANGED <<running, retried, calls>>
    BY <1>9 DEF Finish
  <2>2. ~running[c] /\ ~retried[c] /\ calls[c] = 0
    BY <1>9 DEF Finish, BenchInv, TypeOK, WorkInv
  <2>3. /\ running' \in [Callers -> BOOLEAN] /\ retried' \in [Callers -> BOOLEAN]
        /\ calls' \in [Callers -> 0..4]
    BY <2>1 DEF BenchInv, TypeOK
  <2>. QED
    BY <2>1, <2>2, <2>3, OthersIdle, RunEnds
<1>10. ASSUME NEW c \in Callers, Disconnect(c)
       PROVE  BenchInv'
  <2>1. pc[c] = "running" /\ EndRun(c, "none")
    BY <1>10 DEF Disconnect
  <2>2. /\ running' \in [Callers -> BOOLEAN] /\ retried' \in [Callers -> BOOLEAN]
        /\ calls' \in [Callers -> 0..4]
    BY <1>10 DEF Disconnect, Check!End, BenchInv, TypeOK
  <2>3. ~running[c] => ~retried[c] /\ calls[c] = 0
    BY <1>10 DEF BenchInv, TypeOK, WorkInv
  <2>4. \A d \in Callers : /\ running'[d] => running[d] /\ d # c
                           /\ retried'[d] => retried[d] /\ (d # c \/ ~running[c])
                           /\ calls'[d] = IF d = c /\ running[c] THEN 0 ELSE calls[d]
    BY <1>10, Zenon DEF Disconnect, Check!End
  <2>. QED
    BY <2>1, <2>2, <2>3, <2>4, OthersIdle, RunEnds
<1>. QED
  BY <1>1, <1>2, <1>3, <1>4, <1>5, <1>6, <1>7, <1>8, <1>9, <1>10 DEF Next

LEMMA BenchHolds == Spec => []BenchInv
  BY InitBench, NextBench, PTL DEF Spec

\* Every variable of /bench keeps its type.
THEOREM BenchTyped == Spec => []TypeOK
<1>1. BenchInv => TypeOK
  BY DEF BenchInv
<1>. QED
  BY <1>1, BenchHolds, PTL

\* The permit is out exactly while one run holds it (handlers.ts:147-149).
THEOREM OneRun == Spec => []PermitHeld
<1>1. BenchInv => PermitHeld
  BY DEF BenchInv
<1>. QED
  BY <1>1, BenchHolds, PTL

\* One request to /bench never sends more than 4 * (WarmUps + BENCH_MAX) calls
\* to OpenFGA (handlers.ts:99-130).
THEOREM WorkIsBounded == Spec => []WorkBounded
<1>1. BenchInv => WorkBounded
  <2>. SUFFICES ASSUME BenchInv, NEW c \in Callers
                PROVE  /\ spent[c] + calls[c] <= WorkBound
                       /\ running[c] => pc[c] = "running"
    BY DEF WorkBounded
  <2>1. CASE running[c]
    BY <2>1 DEF BenchInv, TypeOK, WorkInv, WorkBound
  <2>2. CASE ~running[c]
    BY <2>2 DEF BenchInv, TypeOK, WorkInv, WorkBound
  <2>. QED
    BY <2>1, <2>2
<1>. QED
  BY <1>1, BenchHolds, PTL

\* Whoever is refused is refused for another run (handlers.ts:150-156).
THEOREM RefusalsJustified == Spec => RefusedForARun
<1>. DEFINE Refused == \A c \in Callers :
               answer'[c] = "busy" /\ answer[c] # "busy"
                 => \E d \in Callers \ {c} : pc[d] = "running"
<1>1. BenchInv /\ [Next]_vars => [Refused]_vars
  <2>. SUFFICES ASSUME BenchInv, Next, NEW c \in Callers,
                       answer'[c] = "busy", answer[c] # "busy"
                PROVE  \E d \in Callers \ {c} : pc[d] = "running"
    BY DEF Refused
  <2>1. PICK e \in Callers :
            \/ \E raw \in Raws : Start(e, raw)
            \/ Busy(e) \/ NextCheck(e) \/ CheckCalls(e) \/ CheckRetries(e)
            \/ CheckAnswered(e) \/ CheckFailed(e) \/ Finish(e) \/ Disconnect(e)
    BY Zenon DEF Next
  <2>2. ~(\E raw \in Raws : Start(e, raw))
    BY DEF Start, BenchInv, TypeOK
  <2>3. ~NextCheck(e) /\ ~CheckAnswered(e)
    BY DEF NextCheck, CheckAnswered
  <2>4. ~CheckCalls(e) /\ ~CheckRetries(e)
    BY DEF CheckCalls, CheckRetries, runVars
  <2>5. ~CheckFailed(e) /\ ~Finish(e) /\ ~Disconnect(e)
    BY DEF CheckFailed, Finish, Disconnect, EndRun, BenchInv, TypeOK
  <2>6. Busy(e) /\ e = c
    BY <2>1, <2>2, <2>3, <2>4, <2>5 DEF Busy, BenchInv, TypeOK
  <2>. QED
    BY <2>6 DEF Busy, BenchInv, TypeOK, PermitHeld
<1>. QED
  BY <1>1, BenchHolds, PTL DEF Spec, RefusedForARun
=============================================================================
