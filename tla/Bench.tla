------------------------------- MODULE Bench -------------------------------
(***************************************************************************)
(* GET /bench (api/src/handlers.ts): one run at a time, each a sequence of *)
(* checks.  A check is a request of the API's OpenFGA service, of which    *)
(* this module knows only what RequestPromise promises.                    *)
(***************************************************************************)
EXTENDS Integers

CONSTANTS Callers,
          BenchMax,    \* BENCH_MAX
          WarmUps,     \* unmeasured checks before the first sample
          RawHalves    \* bound: the numbers callers ask for, in halves

ASSUME BenchAssumption ==
    /\ BenchMax \in Nat \ {0}
    /\ WarmUps \in Nat
    /\ RawHalves \subseteq Int

VARIABLES permits,    \* the semaphore's free permits
          pc,         \* per caller: "idle", or "running" its bench
          left,       \* per caller: checks its run still has to start
          answer,     \* per caller: what its last request was answered
          spent,      \* history, per caller: calls sent by its run's past checks
          running, retried, calls    \* the check in flight: RequestPromise

vars == <<permits, pc, left, answer, spent, running, retried, calls>>
runVars == <<permits, pc, left, answer, spent>>

Check == INSTANCE RequestPromise WITH Clients <- Callers

\* The query's `n`: nothing (missing, blank, not a finite number) or a number.
Raws == {<<>>} \cup {<<h>> : h \in RawHalves}

Trunc(h) == IF h >= 0 THEN h \div 2 ELSE -((-h) \div 2)

Clamp(n) == IF n < 1 THEN 1 ELSE IF n > BenchMax THEN BenchMax ELSE n

\* Mutant: a number is taken as it is.
UnclampedSize(raw) == IF raw = <<>> THEN BenchMax ELSE Trunc(raw[1])

benchSize(raw) == IF raw = <<>> THEN BenchMax ELSE Clamp(Trunc(raw[1]))

TypeOK ==
    /\ permits \in 0..1
    /\ pc \in [Callers -> {"idle", "running"}]
    /\ left \in [Callers -> 0..(WarmUps + BenchMax)]
    /\ answer \in [Callers -> {"none", "busy", "ok", "failed"}]
    /\ spent \in [Callers -> Nat]
    /\ running \in [Callers -> BOOLEAN]
    /\ retried \in [Callers -> BOOLEAN]
    /\ calls \in [Callers -> 0..4]

Init ==
    /\ permits = 1
    /\ pc = [c \in Callers |-> "idle"]
    /\ left = [c \in Callers |-> 0]
    /\ answer = [c \in Callers |-> "none"]
    /\ spent = [c \in Callers |-> 0]
    /\ Check!Init

\* withPermitsIfAvailable takes the permit or answers 429, in one step.
Start(c, raw) ==
    /\ pc[c] = "idle"
    /\ permits > 0
    /\ permits' = permits - 1
    /\ pc' = [pc EXCEPT ![c] = "running"]
    /\ left' = [left EXCEPT ![c] = WarmUps + benchSize(raw)]
    /\ answer' = [answer EXCEPT ![c] = "none"]
    /\ UNCHANGED <<spent, running, retried, calls>>

Busy(c) ==
    /\ pc[c] = "idle"
    /\ permits = 0
    /\ answer' = [answer EXCEPT ![c] = "busy"]
    /\ UNCHANGED <<permits, pc, left, spent, running, retried, calls>>

NextCheck(c) ==
    /\ pc[c] = "running"
    /\ left[c] > 0
    /\ Check!Begin(c)
    /\ left' = [left EXCEPT ![c] = @ - 1]
    /\ UNCHANGED <<permits, pc, answer, spent>>

CheckCalls(c) ==
    /\ Check!Call({c})
    /\ UNCHANGED runVars

CheckRetries(c) ==
    /\ Check!Retry(c)
    /\ UNCHANGED runVars

CheckAnswered(c) ==
    /\ running[c]
    /\ Check!End({c})
    /\ spent' = [spent EXCEPT ![c] = @ + calls[c]]
    /\ UNCHANGED <<permits, pc, left, answer>>

\* Mutant: the permit comes back only with an answer.
EndRunKeepingPermit(c, a) ==
    /\ permits' = IF a = "none" THEN permits ELSE permits + 1
    /\ pc' = [pc EXCEPT ![c] = "idle"]
    /\ left' = [left EXCEPT ![c] = 0]
    /\ answer' = [answer EXCEPT ![c] = a]
    /\ spent' = [spent EXCEPT ![c] = 0]

\* However a run ends, its permit is released with it.
EndRun(c, a) ==
    /\ permits' = permits + 1
    /\ pc' = [pc EXCEPT ![c] = "idle"]
    /\ left' = [left EXCEPT ![c] = 0]
    /\ answer' = [answer EXCEPT ![c] = a]
    /\ spent' = [spent EXCEPT ![c] = 0]

\* Mutant: a failed check is skipped and tried again.
SkipFailed(c) ==
    /\ running[c]
    /\ Check!End({c})
    /\ left' = [left EXCEPT ![c] = IF @ < WarmUps + BenchMax THEN @ + 1 ELSE @]
    /\ spent' = [spent EXCEPT ![c] = @ + calls[c]]
    /\ UNCHANGED <<permits, pc, answer>>

\* One failed check fails the run.
CheckFailed(c) ==
    /\ running[c]
    /\ Check!End({c})
    /\ EndRun(c, "failed")

Finish(c) ==
    /\ pc[c] = "running"
    /\ left[c] = 0
    /\ ~running[c]
    /\ EndRun(c, "ok")
    /\ UNCHANGED <<running, retried, calls>>

\* The client goes away: the run and its check are interrupted.
Disconnect(c) ==
    /\ pc[c] = "running"
    /\ Check!End({x \in {c} : running[x]})
    /\ EndRun(c, "none")

Next ==
    \E c \in Callers :
        \/ \E raw \in Raws : Start(c, raw)
        \/ Busy(c)
        \/ NextCheck(c)
        \/ CheckCalls(c)
        \/ CheckRetries(c)
        \/ CheckAnswered(c)
        \/ CheckFailed(c)
        \/ Finish(c)
        \/ Disconnect(c)

Spec == Init /\ [][Next]_vars

\* The run's own steps are taken, and every check ends, which the service
\* promises (RequestPromise!Spec).  No client has to go away.
FairSpec ==
    /\ Spec
    /\ \A c \in Callers : WF_vars(NextCheck(c) \/ Finish(c))
    /\ \A c \in Callers : WF_vars(CheckAnswered(c) \/ CheckFailed(c))

(***************************************************************************)
(* Properties                                                              *)
(***************************************************************************)

\* The permit is out exactly while one run holds it: two runs never overlap,
\* and no way a run can end leaves /bench refusing everybody for good
\* (handlers.ts:147-149).
PermitHeld ==
    /\ permits = 1 <=> \A c \in Callers : pc[c] = "idle"
    /\ \A c, d \in Callers : pc[c] = "running" /\ pc[d] = "running" => c = d

\* The work one request can cause is bounded: however its checks fare, a run
\* sends at most four calls for each of its warm-ups and BENCH_MAX checks, and
\* only runs send any (handlers.ts:99-107).
WorkBound == 4 * (WarmUps + BenchMax)

WorkBounded ==
    /\ \A c \in Callers : spent[c] + calls[c] <= WorkBound
    /\ \A c \in Callers : running[c] => pc[c] = "running"

\* The inductive form of WorkBounded: what a run has sent, by the checks it
\* has left (handlers.ts:119-130).
WorkInv ==
    \A c \in Callers :
        /\ retried[c] \/ calls[c] > 0 => running[c]
        /\ running[c] => pc[c] = "running" /\ left[c] < WarmUps + BenchMax
        /\ spent[c] + (IF running[c] THEN 4 ELSE 0) <= 4 * (WarmUps + BenchMax - left[c])
        /\ calls[c] <= 4
        /\ pc[c] = "idle" => spent[c] = 0 /\ left[c] = 0

\* A bench is refused only because another one is running at that moment
\* (handlers.ts:150-156).
RefusedForARun ==
    [][ \A c \in Callers :
          answer'[c] = "busy" /\ answer[c] # "busy"
            => \E d \in Callers \ {c} : pc[d] = "running" ]_vars

\* Every run ends, whatever its checks get, so /bench is free again and again
\* (handlers.ts:99-107, 147-149).
FreeAgain == []<>(permits = 1)
=============================================================================
