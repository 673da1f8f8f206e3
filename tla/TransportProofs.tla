-------------------------- MODULE TransportProofs --------------------------
(***************************************************************************)
(* Proofs about Transport for any number of sends, any number of permits   *)
(* and any retry configuration.                                            *)
(***************************************************************************)
EXTENDS Transport, FiniteSetTheorems, TLAPS

-----------------------------------------------------------------------------
(* The inductive invariant                                                 *)

Waiting == {"loop", "sleep", "drain", "acquire"}

\* Attempts and history against the retries used, step by step.
CountsInv ==
    \A s \in Sends :
        /\ pc[s] = "idle" => attempts[s] = 0 /\ used[s]["total"] = 0
        /\ pc[s] \in Waiting => attempts[s] = used[s]["total"]
        /\ pc[s] \in {"execute", "body"} => attempts[s] = used[s]["total"] + 1
        /\ attempts[s] <= used[s]["total"] + 1
        /\ pc[s] \in {"idle"} \cup Waiting \cup {"execute"} =>
              /\ result[s] = "none"
              /\ used[s]["total"] > 0 => history[s] + 1 = used[s]["total"]
              /\ used[s]["total"] = 0 => history[s] = 0
        /\ pc[s] = "body" => result[s] = "response"
        /\ result[s] = "response" =>
              attempts[s] = used[s]["total"] + 1 /\ history[s] = used[s]["total"]

\* What a send that may not retry looks like.
SingleInv == \A s \in Sends : (~config.retry \/ ~retryable[s]) => used[s]["total"] = 0

\* The kept response.
HeldInv ==
    \A s \in Sends : held[s] =>
        pc[s] \in {"loop", "sleep", "drain"} /\ used[s]["total"] > 0

\* The budget itself.
BudgetInv ==
    \A s \in Sends :
        /\ used[s]["total"] = used[s]["connect"] + used[s]["read"] + used[s]["status"]
        /\ \A k \in Counts : used[s][k] > 0 => used[s][k] <= config.limit[k]

Executing == {s \in Sends : pc[s] = "execute"}

IInv == TypeOK /\ CountsInv /\ SingleInv /\ HeldInv /\ BudgetInv

-----------------------------------------------------------------------------
(* Lemmas                                                                  *)

\* Record adds one to the total and to the kind, and to nothing else.
LEMMA RecordFacts ==
    ASSUME NEW counts \in RetryCounts, NEW kind \in FailureKinds
    PROVE  /\ Record(counts, kind) \in RetryCounts
           /\ Record(counts, kind)["total"] = counts["total"] + 1
           /\ Record(counts, kind)[kind] = counts[kind] + 1
           /\ \A k \in FailureKinds \ {kind} : Record(counts, kind)[k] = counts[k]
BY DEF Record, RetryCounts, Counts, FailureKinds

\* With the sum of the kinds as the total, so has what Record returns.
LEMMA RecordSum ==
    ASSUME NEW counts \in RetryCounts, NEW kind \in FailureKinds,
           counts["total"] = counts["connect"] + counts["read"] + counts["status"]
    PROVE  LET r == Record(counts, kind)
           IN  r["total"] = r["connect"] + r["read"] + r["status"]
<1>1. counts["connect"] \in Nat /\ counts["read"] \in Nat /\ counts["status"] \in Nat
    BY DEF RetryCounts, Counts, FailureKinds
<1>2. \A k \in Counts : Record(counts, kind)[k] =
                  IF k \in {"total", kind} THEN counts[k] + 1 ELSE counts[k]
    BY DEF Record
<1>3. CASE kind = "connect"
    BY <1>1, <1>2, <1>3 DEF Counts, FailureKinds
<1>4. CASE kind = "read"
    BY <1>1, <1>2, <1>4 DEF Counts, FailureKinds
<1>5. CASE kind = "status"
    BY <1>1, <1>2, <1>5 DEF Counts, FailureKinds
<1> QED
    BY <1>3, <1>4, <1>5 DEF FailureKinds

\* The limits of a configuration are integers.
LEMMA LimitTypes == TypeOK => \A k \in Counts : config.limit[k] \in Int
BY TransportAssumption DEF TypeOK, Config

-----------------------------------------------------------------------------
(* Type correctness                                                        *)

LEMMA TypeInit == Init => TypeOK
BY TransportAssumption DEF Init, TypeOK, Steps, RetryCounts, Counts, FailureKinds

LEMMA TypeStep == TypeOK /\ [Next]_vars => TypeOK'
<1> SUFFICES ASSUME TypeOK, [Next]_vars PROVE TypeOK'
    OBVIOUS
<1>1. CASE UNCHANGED vars
    BY <1>1 DEF vars, TypeOK
<1>2. ASSUME NEW s \in Sends, Begin(s) PROVE TypeOK'
    BY <1>2 DEF TypeOK, Steps, Answers, FailureKinds, Begin, Goto
<1>3. ASSUME NEW s \in Sends, LoopTop(s) PROVE TypeOK'
    BY <1>3 DEF TypeOK, Steps, Answers, FailureKinds, LoopTop, Goto, ReturnError
<1>4. ASSUME NEW s \in Sends, Sleep(s) PROVE TypeOK'
    BY <1>4 DEF TypeOK, Steps, Answers, FailureKinds, Sleep, Goto
<1>5. ASSUME NEW s \in Sends, Drain(s) PROVE TypeOK'
    BY <1>5 DEF TypeOK, Steps, Answers, FailureKinds, Drain, Goto
<1>6. ASSUME NEW s \in Sends, Acquire(s) PROVE TypeOK'
    BY <1>6 DEF TypeOK, Steps, Answers, FailureKinds, Acquire, Goto
<1>7. ASSUME NEW s \in Sends, NEW answer \in Answers, AnswerSingle(s, answer) PROVE TypeOK'
    BY <1>7 DEF TypeOK, Steps, Answers, FailureKinds, AnswerSingle, Goto, Single, ReleasePermit, ReturnResponse, ReturnError
<1>8. ASSUME NEW s \in Sends, AnswerGood(s) PROVE TypeOK'
    BY <1>8 DEF TypeOK, Steps, Answers, FailureKinds, AnswerGood, Goto, Single, ReleasePermit, PushHistory, ReturnResponse
<1>9. ASSUME NEW s \in Sends, NEW kind \in FailureKinds, AnswerRetry(s, kind) PROVE TypeOK'
    BY <1>9, RecordFacts DEF TypeOK, Steps, Answers, FailureKinds, AnswerRetry, Goto, Single, ReleasePermit, PushHistory
<1>10. ASSUME NEW s \in Sends, NEW kind \in FailureKinds, AnswerExhausted(s, kind) PROVE TypeOK'
    BY <1>10 DEF TypeOK, Steps, Answers, FailureKinds, AnswerExhausted, Goto, Single, ReleasePermit, PushHistory, ReturnResponse, ReturnError
<1>11. ASSUME NEW s \in Sends, CallerDone(s) PROVE TypeOK'
    BY <1>11 DEF TypeOK, Steps, Answers, FailureKinds, CallerDone, Goto
<1>12. ASSUME NEW s \in Sends, Elapse(s) PROVE TypeOK'
    BY <1>12 DEF TypeOK, Steps, Answers, FailureKinds, Elapse
<1>13. ASSUME NEW s \in Sends, Cancel(s) PROVE TypeOK'
    BY <1>13 DEF TypeOK, Steps, Answers, FailureKinds, Cancel, Goto, ReleasePermit
<1> QED
    BY <1>1, <1>2, <1>3, <1>4, <1>5, <1>6, <1>7, <1>8, <1>9, <1>10, <1>11, <1>12, <1>13 DEF Next, Local, Answer

\* Every variable of the transport keeps its type, whatever the configuration
\* and however the sends of transport.rs interleave.
THEOREM TransportTypes == Spec => []TypeOK
<1> QED
    BY TypeInit, TypeStep, PTL DEF Spec

-----------------------------------------------------------------------------
(* The parts of the invariant                                              *)

LEMMA InvInit == Init => IInv
<1> SUFFICES ASSUME Init PROVE IInv
    OBVIOUS
<1>1. TypeOK
    BY TypeInit
<1>2. \A s \in Sends : \A k \in Counts : used[s][k] = 0
    BY DEF Init
<1>3. CountsInv /\ SingleInv /\ HeldInv
    BY <1>2 DEF Init, CountsInv, SingleInv, HeldInv, Waiting, Counts
<1>4. BudgetInv
    BY <1>2 DEF BudgetInv, Counts, FailureKinds
<1> QED
    BY <1>1, <1>3, <1>4 DEF IInv

LEMMA InvStep == IInv /\ [Next]_vars => IInv'
<1> SUFFICES ASSUME IInv, [Next]_vars PROVE IInv'
    OBVIOUS
<1> USE DEF IInv
<1>0. TypeOK'
    BY TypeStep
<1>1. CASE UNCHANGED vars
    BY <1>0, <1>1 DEF vars, CountsInv, SingleInv, HeldInv, BudgetInv
<1>2. \A t \in Sends : \A k \in Counts : used[t][k] \in Nat
    BY DEF TypeOK, RetryCounts
<1>3. ASSUME NEW s \in Sends, Begin(s) PROVE IInv'
    <2>1. CountsInv'
        BY <1>2, <1>3 DEF Begin, Goto, TypeOK, CountsInv, Waiting, Counts
    <2>2. SingleInv'
        BY <1>2, <1>3 DEF Begin, Goto, TypeOK, SingleInv, Counts, CountsInv
    <2>3. HeldInv'
        BY <1>2, <1>3 DEF Begin, Goto, TypeOK, HeldInv, Counts
    <2>4. BudgetInv'
        BY <1>2, <1>3 DEF Begin, Goto, TypeOK, BudgetInv, Counts, FailureKinds
    <2> QED
        BY <1>0, <2>1, <2>2, <2>3, <2>4
<1>4. ASSUME NEW s \in Sends, LoopTop(s) PROVE IInv'
    <2>1. CountsInv'
        BY <1>2, <1>4 DEF LoopTop, Goto, ReturnError, TypeOK, CountsInv, Waiting, Counts
    <2>2. SingleInv'
        BY <1>2, <1>4 DEF LoopTop, Goto, ReturnError, TypeOK, SingleInv, Counts
    <2>3. HeldInv'
        BY <1>2, <1>4 DEF LoopTop, Goto, ReturnError, TypeOK, HeldInv, Counts
    <2>4. BudgetInv'
        BY <1>2, <1>4 DEF LoopTop, Goto, ReturnError, TypeOK, BudgetInv, Counts, FailureKinds
    <2> QED
        BY <1>0, <2>1, <2>2, <2>3, <2>4
<1>5. ASSUME NEW s \in Sends, Sleep(s) PROVE IInv'
    <2>1. CountsInv'
        BY <1>2, <1>5 DEF Sleep, Goto, TypeOK, CountsInv, Waiting, Counts
    <2>2. SingleInv'
        BY <1>2, <1>5 DEF Sleep, Goto, TypeOK, SingleInv, Counts
    <2>3. HeldInv'
        BY <1>2, <1>5 DEF Sleep, Goto, TypeOK, HeldInv, Counts
    <2>4. BudgetInv'
        BY <1>2, <1>5 DEF Sleep, Goto, TypeOK, BudgetInv, Counts, FailureKinds
    <2> QED
        BY <1>0, <2>1, <2>2, <2>3, <2>4
<1>6. ASSUME NEW s \in Sends, Drain(s) PROVE IInv'
    <2>1. CountsInv'
        BY <1>2, <1>6 DEF Drain, Goto, TypeOK, CountsInv, Waiting, Counts
    <2>2. SingleInv'
        BY <1>2, <1>6 DEF Drain, Goto, TypeOK, SingleInv, Counts
    <2>3. HeldInv'
        BY <1>2, <1>6 DEF Drain, Goto, TypeOK, HeldInv, Counts
    <2>4. BudgetInv'
        BY <1>2, <1>6 DEF Drain, Goto, TypeOK, BudgetInv, Counts, FailureKinds
    <2> QED
        BY <1>0, <2>1, <2>2, <2>3, <2>4
<1>7. ASSUME NEW s \in Sends, Acquire(s) PROVE IInv'
    <2>1. CountsInv'
        BY <1>2, <1>7 DEF Acquire, Goto, TypeOK, CountsInv, Waiting, Counts
    <2>2. SingleInv'
        BY <1>2, <1>7 DEF Acquire, Goto, TypeOK, SingleInv, Counts
    <2>3. HeldInv'
        BY <1>2, <1>7 DEF Acquire, Goto, TypeOK, HeldInv, Counts
    <2>4. BudgetInv'
        BY <1>2, <1>7 DEF Acquire, Goto, TypeOK, BudgetInv, Counts, FailureKinds
    <2> QED
        BY <1>0, <2>1, <2>2, <2>3, <2>4
<1>8. ASSUME NEW s \in Sends, NEW answer \in Answers, AnswerSingle(s, answer) PROVE IInv'
    <2>1. CountsInv'
        BY <1>2, <1>8 DEF AnswerSingle, Goto, Single, ReleasePermit, ReturnResponse, ReturnError, TypeOK, CountsInv, Waiting, Counts, SingleInv
    <2>2. SingleInv'
        BY <1>2, <1>8 DEF AnswerSingle, Goto, Single, ReleasePermit, ReturnResponse, ReturnError, TypeOK, SingleInv, Counts
    <2>3. HeldInv'
        BY <1>2, <1>8 DEF AnswerSingle, Goto, Single, ReleasePermit, ReturnResponse, ReturnError, TypeOK, HeldInv, Counts
    <2>4. BudgetInv'
        BY <1>2, <1>8 DEF AnswerSingle, Goto, Single, ReleasePermit, ReturnResponse, ReturnError, TypeOK, BudgetInv, Counts, FailureKinds
    <2> QED
        BY <1>0, <2>1, <2>2, <2>3, <2>4
<1>9. ASSUME NEW s \in Sends, AnswerGood(s) PROVE IInv'
    <2>1. CountsInv'
        BY <1>2, <1>9 DEF AnswerGood, Goto, Single, ReleasePermit, PushHistory, ReturnResponse, TypeOK, CountsInv, Waiting, Counts
    <2>2. SingleInv'
        BY <1>2, <1>9 DEF AnswerGood, Goto, Single, ReleasePermit, PushHistory, ReturnResponse, TypeOK, SingleInv, Counts
    <2>3. HeldInv'
        BY <1>2, <1>9 DEF AnswerGood, Goto, Single, ReleasePermit, PushHistory, ReturnResponse, TypeOK, HeldInv, Counts
    <2>4. BudgetInv'
        BY <1>2, <1>9 DEF AnswerGood, Goto, Single, ReleasePermit, PushHistory, ReturnResponse, TypeOK, BudgetInv, Counts, FailureKinds
    <2> QED
        BY <1>0, <2>1, <2>2, <2>3, <2>4
<1>10. ASSUME NEW s \in Sends, NEW kind \in FailureKinds, AnswerRetry(s, kind) PROVE IInv'
    <2>1. used' = [used EXCEPT ![s] = Record(used[s], kind)] /\ UNCHANGED <<config, retryable>>
        BY <1>10 DEF AnswerRetry
    <2>2. used[s] \in RetryCounts
        BY DEF TypeOK
    <2>3. used'[s] = Record(used[s], kind) /\ \A t \in Sends \ {s} : used'[t] = used[t]
        BY <2>1 DEF TypeOK
    <2>4. used'[s]["total"] = used[s]["total"] + 1
        BY <2>2, <2>3, RecordFacts
    <2>5. CountsInv'
        BY <1>2, <1>10, <2>3, <2>4 DEF AnswerRetry, Goto, Single, ReleasePermit, PushHistory, TypeOK, Waiting, CountsInv, Counts
    <2>6. SingleInv'
        BY <1>10, <2>1, <2>3 DEF AnswerRetry, Single, SingleInv
    <2>7. HeldInv'
        BY <1>2, <1>10, <2>3, <2>4 DEF AnswerRetry, Goto, Single, ReleasePermit, PushHistory, TypeOK, HeldInv, Counts
    <2>8. BudgetInv'
        <3>1. used'[s]["total"] = used'[s]["connect"] + used'[s]["read"] + used'[s]["status"]
            BY <2>2, <2>3, RecordSum DEF BudgetInv
        <3>2. ASSUME NEW k \in Counts, used'[s][k] > 0 PROVE used'[s][k] <= config'.limit[k]
            <4>1. config.limit[k] \in Int /\ used[s][k] \in Nat
                BY <1>2, LimitTypes
            <4>2. CASE k \in {"total", kind}
                <5>1. used'[s][k] = used[s][k] + 1
                    BY <2>2, <2>3, <4>2, RecordFacts
                <5>2. used[s][k] < config.limit[k]
                    BY <1>10, <4>2 DEF AnswerRetry, AllowsAnother
                <5> QED
                    BY <2>1, <4>1, <5>1, <5>2
            <4>3. CASE k \notin {"total", kind}
                <5>1. used'[s][k] = used[s][k]
                    BY <2>2, <2>3, <4>3, RecordFacts DEF Counts
                <5> QED
                    BY <2>1, <3>2, <5>1 DEF BudgetInv
            <4> QED
                BY <4>2, <4>3
        <3> QED
            BY <2>1, <2>3, <3>1, <3>2 DEF BudgetInv
    <2> QED
        BY <1>0, <2>5, <2>6, <2>7, <2>8
<1>11. ASSUME NEW s \in Sends, NEW kind \in FailureKinds, AnswerExhausted(s, kind) PROVE IInv'
    <2>1. CountsInv'
        BY <1>2, <1>11 DEF AnswerExhausted, Goto, Single, ReleasePermit, PushHistory, ReturnResponse, ReturnError, TypeOK, CountsInv, Waiting, Counts
    <2>2. SingleInv'
        BY <1>2, <1>11 DEF AnswerExhausted, Goto, Single, ReleasePermit, PushHistory, ReturnResponse, ReturnError, TypeOK, SingleInv, Counts
    <2>3. HeldInv'
        BY <1>2, <1>11 DEF AnswerExhausted, Goto, Single, ReleasePermit, PushHistory, ReturnResponse, ReturnError, TypeOK, HeldInv, Counts
    <2>4. BudgetInv'
        BY <1>2, <1>11 DEF AnswerExhausted, Goto, Single, ReleasePermit, PushHistory, ReturnResponse, ReturnError, TypeOK, BudgetInv, Counts, FailureKinds
    <2> QED
        BY <1>0, <2>1, <2>2, <2>3, <2>4
<1>12. ASSUME NEW s \in Sends, CallerDone(s) PROVE IInv'
    <2>1. CountsInv'
        BY <1>2, <1>12 DEF CallerDone, Goto, TypeOK, CountsInv, Waiting, Counts
    <2>2. SingleInv'
        BY <1>2, <1>12 DEF CallerDone, Goto, TypeOK, SingleInv, Counts
    <2>3. HeldInv'
        BY <1>2, <1>12 DEF CallerDone, Goto, TypeOK, HeldInv, Counts
    <2>4. BudgetInv'
        BY <1>2, <1>12 DEF CallerDone, Goto, TypeOK, BudgetInv, Counts, FailureKinds
    <2> QED
        BY <1>0, <2>1, <2>2, <2>3, <2>4
<1>13. ASSUME NEW s \in Sends, Elapse(s) PROVE IInv'
    <2>1. CountsInv'
        BY <1>2, <1>13 DEF Elapse, TypeOK, CountsInv, Waiting, Counts
    <2>2. SingleInv'
        BY <1>2, <1>13 DEF Elapse, TypeOK, SingleInv, Counts
    <2>3. HeldInv'
        BY <1>2, <1>13 DEF Elapse, TypeOK, HeldInv, Counts
    <2>4. BudgetInv'
        BY <1>2, <1>13 DEF Elapse, TypeOK, BudgetInv, Counts, FailureKinds
    <2> QED
        BY <1>0, <2>1, <2>2, <2>3, <2>4
<1>14. ASSUME NEW s \in Sends, Cancel(s) PROVE IInv'
    <2>1. CountsInv'
        BY <1>2, <1>14 DEF Cancel, Goto, ReleasePermit, TypeOK, CountsInv, Waiting, Counts
    <2>2. SingleInv'
        BY <1>2, <1>14 DEF Cancel, Goto, ReleasePermit, TypeOK, SingleInv, Counts
    <2>3. HeldInv'
        BY <1>2, <1>14 DEF Cancel, Goto, ReleasePermit, TypeOK, HeldInv, Counts
    <2>4. BudgetInv'
        BY <1>2, <1>14 DEF Cancel, Goto, ReleasePermit, TypeOK, BudgetInv, Counts, FailureKinds
    <2> QED
        BY <1>0, <2>1, <2>2, <2>3, <2>4
<1> QED
    BY <1>1, <1>3, <1>4, <1>5, <1>6, <1>7, <1>8, <1>9, <1>10, <1>11, <1>12, <1>13, <1>14 DEF Next, Local, Answer

LEMMA TransportInvariant == Spec => []IInv
<1> QED
    BY InvInit, InvStep, PTL DEF Spec

-----------------------------------------------------------------------------
(* The theorems                                                            *)

\* For every Retry, negative limits included: transport.rs executes a request
\* at most once more than it has retries, and these respect total, connect,
\* read and status.
THEOREM BudgetHolds == Spec => []RetryBudget
<1>1. IInv => RetryBudget
    BY DEF IInv, CountsInv, BudgetInv, RetryBudget
<1> QED
    BY <1>1, TransportInvariant, PTL

\* A request whose method is not in allowed_methods is executed at most once.
THEOREM UnsafeMethods == Spec => []UnsafeMethodSentOnce
<1>1. IInv => UnsafeMethodSentOnce
    BY DEF IInv, TypeOK, CountsInv, SingleInv, UnsafeMethodSentOnce
<1> QED
    BY <1>1, TransportInvariant, PTL

\* The retry loop drains the response it keeps before it executes again.
THEOREM OneConnection == Spec => []OneConnectionPerSend
<1>1. IInv => OneConnectionPerSend
    BY DEF IInv, HeldInv, OneConnectionPerSend
<1> QED
    BY <1>1, TransportInvariant, PTL

\* num_retries and retry_history of every response are exact.
THEOREM HistoryExact == Spec => []HistoryMatchesAttempts
<1>1. IInv => HistoryMatchesAttempts
    BY DEF IInv, CountsInv, HistoryMatchesAttempts
<1> QED
    BY <1>1, TransportInvariant, PTL

-----------------------------------------------------------------------------
(* Exhaustion                                                              *)

\* What ExhaustionIsHonest says of one send.
Honest(s) ==
    /\ (result[s] = "response" /\ last[s] = "status") =>
          ~config.retry \/ ~retryable[s] \/ ~config.raise
    /\ result[s] = "MaxRetriesExceeded" =>
          expired[s] \/ (last[s] \in FailureKinds /\ ~AllowsAnother(last[s], used[s]))

\* A send that has its result keeps what the result was drawn from.
LEMMA HonestSame ==
    ASSUME NEW s \in Sends, Honest(s), config' = config, retryable'[s] = retryable[s],
           used'[s] = used[s], last'[s] = last[s], result'[s] = result[s],
           expired[s] => expired'[s]
    PROVE  Honest(s)'
BY DEF Honest, AllowsAnother

\* A send without a result, or with another one, claims nothing.
LEMMA HonestOther ==
    ASSUME NEW s \in Sends, result'[s] \notin {"response", "MaxRetriesExceeded"}
    PROVE  Honest(s)'
BY DEF Honest

LEMMA HonestStep == IInv /\ ExhaustionIsHonest /\ [Next]_vars => ExhaustionIsHonest'
<1> SUFFICES ASSUME IInv, ExhaustionIsHonest, [Next]_vars, NEW t \in Sends PROVE Honest(t)'
    BY DEF ExhaustionIsHonest, Honest
<1>0. Honest(t)
    BY DEF ExhaustionIsHonest, Honest
<1>a. TypeOK /\ CountsInv
    BY DEF IInv
<1>1. CASE UNCHANGED vars
    BY <1>0, <1>1, HonestSame DEF vars
<1>2. ASSUME NEW s \in Sends, Begin(s) PROVE Honest(t)'
    <2>1. /\ UNCHANGED <<config, used, last, result, expired>> /\ pc[s] = "idle"
          /\ t # s => retryable'[t] = retryable[t]
        BY <1>2, <1>a DEF Begin, TypeOK
    <2>2. result[s] = "none"
        BY <1>a, <2>1 DEF CountsInv
    <2> QED
        BY <1>0, <2>1, <2>2, HonestSame, HonestOther
<1>3. ASSUME NEW s \in Sends, LoopTop(s) PROVE Honest(t)'
    <2>1. UNCHANGED <<config, retryable, used, last, expired>>
        BY <1>3 DEF LoopTop
    <2>2. CASE expired[s]
        <3>1. result' = [result EXCEPT ![s] = "MaxRetriesExceeded"]
            BY <1>3, <2>2 DEF LoopTop, ReturnError
        <3>2. CASE t = s
            BY <1>a, <2>1, <2>2, <3>1, <3>2 DEF TypeOK, Honest
        <3>3. CASE t # s
            BY <1>0, <1>a, <2>1, <3>1, <3>3, HonestSame DEF TypeOK
        <3> QED
            BY <3>2, <3>3
    <2>3. CASE ~expired[s]
        BY <1>0, <1>3, <2>1, <2>3, HonestSame DEF LoopTop
    <2> QED
        BY <2>2, <2>3
<1>4. ASSUME NEW s \in Sends, Sleep(s) \/ Drain(s) \/ Acquire(s) \/ CallerDone(s) PROVE Honest(t)'
    BY <1>0, <1>4, HonestSame DEF Sleep, Drain, Acquire, CallerDone
<1>5. ASSUME NEW s \in Sends, Elapse(s) PROVE Honest(t)'
    <2>1. UNCHANGED <<config, retryable, used, last, result>> /\ (expired[t] => expired'[t])
        BY <1>5, <1>a DEF Elapse, TypeOK
    <2> QED
        BY <1>0, <2>1, HonestSame
<1>6. ASSUME NEW s \in Sends, Cancel(s) PROVE Honest(t)'
    <2>1. /\ UNCHANGED <<config, retryable, used, last, expired>>
          /\ result' = [result EXCEPT ![s] = "cancelled"]
        BY <1>6 DEF Cancel
    <2> QED
        BY <1>0, <1>a, <2>1, HonestSame, HonestOther DEF TypeOK
<1>7. ASSUME NEW s \in Sends, NEW answer \in Answers, AnswerSingle(s, answer) PROVE Honest(t)'
    <2>1. /\ UNCHANGED <<config, retryable, used, expired>> /\ Single(s)
          /\ last' = [last EXCEPT ![s] = answer]
          /\ \E r \in {"response", "error"} : result' = [result EXCEPT ![s] = r]
        BY <1>7 DEF AnswerSingle, ReturnResponse, ReturnError
    <2>2. CASE t = s
        BY <1>a, <2>1, <2>2 DEF TypeOK, Honest, Single
    <2>3. CASE t # s
        BY <1>0, <1>a, <2>1, <2>3, HonestSame DEF TypeOK
    <2> QED
        BY <2>2, <2>3
<1>8. ASSUME NEW s \in Sends, AnswerGood(s) PROVE Honest(t)'
    <2>1. /\ UNCHANGED <<config, retryable, used, expired>>
          /\ last' = [last EXCEPT ![s] = "ok"]
          /\ result' = [result EXCEPT ![s] = "response"]
        BY <1>8 DEF AnswerGood, ReturnResponse
    <2>2. CASE t = s
        BY <1>a, <2>1, <2>2 DEF TypeOK, Honest
    <2>3. CASE t # s
        BY <1>0, <1>a, <2>1, <2>3, HonestSame DEF TypeOK
    <2> QED
        BY <2>2, <2>3
<1>9. ASSUME NEW s \in Sends, NEW kind \in FailureKinds, AnswerRetry(s, kind) PROVE Honest(t)'
    <2>1. /\ UNCHANGED <<config, retryable, expired, result>> /\ pc[s] = "execute"
          /\ \A o \in Sends : o # s => used'[o] = used[o] /\ last'[o] = last[o]
        BY <1>9, <1>a DEF AnswerRetry, TypeOK
    <2>2. result[s] = "none"
        BY <1>a, <2>1 DEF CountsInv
    <2> QED
        BY <1>0, <2>1, <2>2, HonestSame, HonestOther
<1>10. ASSUME NEW s \in Sends, NEW kind \in FailureKinds, AnswerExhausted(s, kind) PROVE Honest(t)'
    <2>1. /\ UNCHANGED <<config, retryable, used, expired>>
          /\ ~AllowsAnother(kind, used[s])
          /\ last' = [last EXCEPT ![s] = kind]
          /\ result' = [result EXCEPT ![s] =
                           IF kind = "status" /\ ~config.raise THEN "response"
                                                              ELSE "MaxRetriesExceeded"]
        BY <1>10 DEF AnswerExhausted, ReturnResponse, ReturnError
    <2>2. CASE t = s
        <3>1. last'[s] = kind /\ used'[s] = used[s] /\ AllowsAnother(kind, used[s])' = AllowsAnother(kind, used[s])
            BY <1>a, <2>1 DEF TypeOK, AllowsAnother
        <3>2. result'[s] = IF kind = "status" /\ ~config.raise THEN "response"
                                                              ELSE "MaxRetriesExceeded"
            BY <1>a, <2>1 DEF TypeOK
        <3> QED
            BY <2>1, <2>2, <3>1, <3>2 DEF Honest, AllowsAnother
    <2>3. CASE t # s
        BY <1>0, <1>a, <2>1, <2>3, HonestSame DEF TypeOK
    <2> QED
        BY <2>2, <2>3
<1> QED
    BY <1>1, <1>2, <1>3, <1>4, <1>5, <1>6, <1>7, <1>8, <1>9, <1>10 DEF Next, Local, Answer

\* For every Retry: transport.rs raises MaxRetriesExceeded only when the clock
\* or the budget has run out, and with raise_on_status it never hands out a
\* status of the forcelist that it was allowed to retry.
THEOREM ExhaustionHonest == Spec => []ExhaustionIsHonest
<1>1. Init => ExhaustionIsHonest
    BY DEF Init, ExhaustionIsHonest
<1> QED
    BY <1>1, TransportInvariant, HonestStep, PTL DEF Spec

-----------------------------------------------------------------------------
(* The semaphore                                                           *)

LEMMA ExecutingFinite == IsFiniteSet(Executing) /\ Cardinality(Executing) \in Nat
<1>1. IsFiniteSet(Executing)
    BY TransportAssumption, FS_Subset DEF Executing
<1> QED
    BY <1>1, FS_CardinalityType

\* A send that starts to execute.
LEMMA ExecutingGains ==
    ASSUME TypeOK, NEW s \in Sends, pc[s] # "execute",
           pc' = [pc EXCEPT ![s] = "execute"]
    PROVE  Cardinality(Executing') = Cardinality(Executing) + 1
<1>1. Executing' = Executing \cup {s} /\ s \notin Executing
    BY DEF TypeOK, Executing
<1> QED
    BY <1>1, ExecutingFinite, FS_AddElement

\* A send that stops executing.
LEMMA ExecutingLoses ==
    ASSUME TypeOK, NEW s \in Sends, NEW step, pc[s] = "execute", step # "execute",
           pc' = [pc EXCEPT ![s] = step]
    PROVE  Cardinality(Executing') = Cardinality(Executing) - 1
<1>1. Executing' = Executing \ {s} /\ s \in Executing
    BY DEF TypeOK, Executing
<1> QED
    BY <1>1, ExecutingFinite, FS_RemoveElement

\* A send that does neither.
LEMMA ExecutingSame ==
    ASSUME TypeOK, NEW s \in Sends, NEW step, pc[s] # "execute", step # "execute",
           pc' = [pc EXCEPT ![s] = step]
    PROVE  Executing' = Executing
BY DEF TypeOK, Executing

LEMMA PermitsStep == TypeOK /\ PermitsBalance /\ [Next]_vars => PermitsBalance'
<1> SUFFICES ASSUME TypeOK, PermitsBalance, [Next]_vars PROVE PermitsBalance'
    OBVIOUS
<1>0. /\ PermitsBalance <=> (config.limited => permits + Cardinality(Executing) = MaxConnections)
      /\ PermitsBalance' <=> (config'.limited => permits' + Cardinality(Executing') = MaxConnections)
    BY DEF PermitsBalance, Executing
<1>1. permits \in Nat /\ Cardinality(Executing) \in Nat /\ MaxConnections \in Nat
    BY ExecutingFinite, TransportAssumption DEF TypeOK
<1>2. ASSUME UNCHANGED <<config, permits, pc>> PROVE PermitsBalance'
    BY <1>2 DEF PermitsBalance
<1>3. ASSUME NEW s \in Sends, NEW step, pc[s] # "execute", step # "execute",
             Goto(s, step), UNCHANGED <<config, permits>>
      PROVE  PermitsBalance'
    <2>1. Executing' = Executing
        BY <1>3, ExecutingSame DEF Goto
    <2> QED
        BY <1>0, <1>3, <2>1
<1>4. ASSUME NEW s \in Sends, NEW step, pc[s] = "execute", step # "execute",
             Goto(s, step), ReleasePermit, UNCHANGED config
      PROVE  PermitsBalance'
    <2>1. Cardinality(Executing') = Cardinality(Executing) - 1
        BY <1>4, ExecutingLoses DEF Goto
    <2> QED
        BY <1>0, <1>1, <1>4, <2>1 DEF ReleasePermit
<1>5. ASSUME NEW s \in Sends, Acquire(s) PROVE PermitsBalance'
    <2>1. Cardinality(Executing') = Cardinality(Executing) + 1
        BY <1>5, ExecutingGains DEF Acquire, Goto
    <2> QED
        BY <1>0, <1>1, <1>5, <2>1 DEF Acquire
<1>6. ASSUME NEW s \in Sends, Begin(s) \/ LoopTop(s) \/ Sleep(s) \/ Drain(s) \/ CallerDone(s)
      PROVE  PermitsBalance'
    <2>1. /\ pc[s] # "execute" /\ UNCHANGED <<config, permits>>
          /\ \E step \in Steps \ {"execute"} : Goto(s, step)
        BY <1>6 DEF Begin, LoopTop, Sleep, Drain, CallerDone, ReturnError, Goto, Steps
    <2> QED
        BY <1>3, <2>1
<1>7. ASSUME NEW s \in Sends, Answer(s) PROVE PermitsBalance'
    <2>1. /\ pc[s] = "execute" /\ ReleasePermit /\ UNCHANGED config
          /\ \E step \in Steps \ {"execute"} : Goto(s, step)
        BY <1>7 DEF Answer, AnswerSingle, AnswerGood, AnswerRetry, AnswerExhausted,
                    ReturnResponse, ReturnError, Goto, Steps
    <2> QED
        BY <1>4, <2>1
<1>8. ASSUME NEW s \in Sends, Elapse(s) PROVE PermitsBalance'
    BY <1>2, <1>8 DEF Elapse
<1>9. ASSUME NEW s \in Sends, Cancel(s) PROVE PermitsBalance'
    <2>1. CASE pc[s] = "execute"
        BY <1>4, <1>9, <2>1 DEF Cancel
    <2>2. CASE pc[s] # "execute"
        BY <1>3, <1>9, <2>2 DEF Cancel
    <2> QED
        BY <2>1, <2>2
<1>10. CASE UNCHANGED vars
    BY <1>2, <1>10 DEF vars
<1> QED
    BY <1>5, <1>6, <1>7, <1>8, <1>9, <1>10 DEF Next, Local

\* The permits of transport.rs's semaphore are never lost or duplicated, so at
\* most max_connections requests wait for their headers at a time.
THEOREM PermitsConserved == Spec => []PermitsBalance
<1>1. Init => PermitsBalance
    <2> SUFFICES ASSUME Init PROVE permits + Cardinality({s \in Sends : pc[s] = "execute"}) = MaxConnections
        BY DEF PermitsBalance
    <2>1. {s \in Sends : pc[s] = "execute"} = {}
        BY DEF Init
    <2> QED
        BY <2>1, FS_EmptySet, TransportAssumption DEF Init
<1> QED
    BY <1>1, TransportTypes, PermitsStep, PTL DEF Spec

=============================================================================
