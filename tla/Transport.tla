----------------------------- MODULE Transport -----------------------------
(***************************************************************************)
(* Transport::send: the connection semaphore and the retry state machine,  *)
(* crates/rqx-core/src/{transport,retry}.rs.                               *)
(*                                                                         *)
(* Several sends share one transport.  Each runs the retry loop; an        *)
(* attempt holds a permit of the semaphore until the headers are there.    *)
(* The numbers of the backoff are left out: a sleep takes any time, and so *)
(* does everything else, so the total timeout may expire at any moment.    *)
(***************************************************************************)
EXTENDS Integers, FiniteSets

CONSTANTS Sends,           \* the sends that share the transport
          MaxConnections,  \* permits of the semaphore
          Configs          \* the transport configurations to choose from

FailureKinds == {"connect", "read", "status"}

\* What RetryCounts counts and Retry limits.
Counts == FailureKinds \cup {"total"}

\* A configuration: limited (max_connections is set), retry (retry_config is
\* Some), the four limits of Retry, which Python may set to any i32,
\* raise_on_status, and whether total_timeout is set.
Config == [limited : BOOLEAN, retry : BOOLEAN, limit : [Counts -> Int],
           raise : BOOLEAN, timeout : BOOLEAN]

ASSUME TransportAssumption ==
    /\ IsFiniteSet(Sends)
    /\ MaxConnections \in Nat
    /\ Configs \subseteq Config

VARIABLES config,     \* the configuration of this transport
          permits,    \* permits left in the semaphore
          pc,         \* pc[s]: the step send s takes next
          retryable,  \* the method of s is in allowed_methods
          used,       \* the RetryCounts of s
          held,       \* current_response of s is Some, and keeps its connection
          expired,    \* the total timeout of s has passed
          history,    \* the length of s's retry_history
          attempts,   \* how often s has executed its request
          last,       \* how the last attempt of s went
          result      \* what s returned

vars == <<config, permits, pc, retryable, used, held, expired, history,
          attempts, last, result>>

\* How an attempt goes: an answer, an answer whose status is in the forcelist,
\* an error while connecting, or any other error.
Answers == {"ok", "status", "connect", "read"}

RetryCounts == [Counts -> Nat]

Init ==
    /\ config \in Configs
    /\ permits = MaxConnections
    /\ pc = [s \in Sends |-> "idle"]
    /\ retryable = [s \in Sends |-> FALSE]
    /\ used = [s \in Sends |-> [k \in Counts |-> 0]]
    /\ held = [s \in Sends |-> FALSE]
    /\ expired = [s \in Sends |-> FALSE]
    /\ history = [s \in Sends |-> 0]
    /\ attempts = [s \in Sends |-> 0]
    /\ last = [s \in Sends |-> "none"]
    /\ result = [s \in Sends |-> "none"]

Goto(s, step) == pc' = [pc EXCEPT ![s] = step]

\* A response goes to the caller, who still has to read its body.
ReturnResponse(s) ==
    /\ Goto(s, "body")
    /\ result' = [result EXCEPT ![s] = "response"]

\* An error goes to the caller; the response that was kept is dropped.
ReturnError(s, error) ==
    /\ Goto(s, "done")
    /\ result' = [result EXCEPT ![s] = error]

-----------------------------------------------------------------------------
(* RetryCounts and Retry                                                   *)

\* RetryCounts::record
Record(counts, kind) ==
    [k \in Counts |-> IF k \in {"total", kind} THEN counts[k] + 1 ELSE counts[k]]

\* Mutant of AllowsAnother: one retry too many of each kind.
AllowsOneMore(kind, counts) ==
    /\ counts["total"] < config.limit["total"]
    /\ counts[kind] <= config.limit[kind]

\* Retry::allows_another
AllowsAnother(kind, counts) ==
    /\ counts["total"] < config.limit["total"]
    /\ counts[kind] < config.limit[kind]

-----------------------------------------------------------------------------
(* send and the retry loop                                                 *)

\* send: with a retry_config the loop, else a single attempt.
Begin(s) ==
    /\ pc[s] = "idle"
    /\ retryable' \in {[retryable EXCEPT ![s] = b] : b \in BOOLEAN}
    /\ Goto(s, IF config.retry THEN "loop" ELSE "acquire")
    /\ UNCHANGED <<config, permits, used, held, expired, history, attempts,
                   last, result>>

\* The head of the loop: the total timeout; a retry sleeps first.
LoopTop(s) ==
    /\ pc[s] = "loop"
    /\ \/ /\ expired[s]
          /\ ReturnError(s, "MaxRetriesExceeded")
          /\ held' = [held EXCEPT ![s] = FALSE]
       \/ /\ ~expired[s]
          /\ Goto(s, IF used[s]["total"] > 0 THEN "sleep" ELSE "acquire")
          /\ UNCHANGED <<held, result>>
    /\ UNCHANGED <<config, permits, retryable, used, expired, history,
                   attempts, last>>

\* Mutant of Sleep: the next attempt starts with the old response still open.
SleepNoDrain(s) ==
    /\ pc[s] = "sleep"
    /\ Goto(s, "acquire")
    /\ UNCHANGED <<config, permits, retryable, used, held, expired, history,
                   attempts, last, result>>

\* The backoff has passed; the response of the last attempt is drained next.
Sleep(s) ==
    /\ pc[s] = "sleep"
    /\ Goto(s, IF held[s] THEN "drain" ELSE "acquire")
    /\ UNCHANGED <<config, permits, retryable, used, held, expired, history,
                   attempts, last, result>>

\* old.bytes().await, whatever comes of it: the connection is free again.
Drain(s) ==
    /\ pc[s] = "drain"
    /\ held' = [held EXCEPT ![s] = FALSE]
    /\ Goto(s, "acquire")
    /\ UNCHANGED <<config, permits, retryable, used, expired, history,
                   attempts, last, result>>

\* execute: the permit, then the request is under way.
Acquire(s) ==
    /\ pc[s] = "acquire"
    /\ \/ /\ config.limited
          /\ permits > 0
          /\ permits' = permits - 1
       \/ /\ ~config.limited
          /\ UNCHANGED permits
    /\ attempts' = [attempts EXCEPT ![s] = @ + 1]
    /\ Goto(s, "execute")
    /\ UNCHANGED <<config, retryable, used, held, expired, history, last, result>>

\* The end of execute: _permit is dropped.
ReleasePermit == permits' = IF config.limited THEN permits + 1 ELSE permits

\* Mutant of PushHistory: the first attempt is entered, too.
PushAlways(s) == history' = [history EXCEPT ![s] = @ + 1]

\* Each attempt after the first is entered into retry_history.
PushHistory(s) ==
    history' = [history EXCEPT ![s] = IF used[s]["total"] > 0 THEN @ + 1 ELSE @]

\* Mutant of Single: a method outside allowed_methods is retried as well.
SingleAnyMethod(s) == ~config.retry

\* Without a retry_config, or when the method may not be replayed, the first
\* answer is the result.
Single(s) == ~config.retry \/ ~retryable[s]

AnswerSingle(s, answer) ==
    /\ pc[s] = "execute"
    /\ Single(s)
    /\ ReleasePermit
    /\ last' = [last EXCEPT ![s] = answer]
    /\ IF answer \in {"ok", "status"} THEN ReturnResponse(s) ELSE ReturnError(s, "error")
    /\ UNCHANGED <<config, retryable, used, held, expired, history, attempts>>

\* An answer outside the forcelist ends the loop.
AnswerGood(s) ==
    /\ pc[s] = "execute"
    /\ ~Single(s)
    /\ ReleasePermit
    /\ last' = [last EXCEPT ![s] = "ok"]
    /\ PushHistory(s)
    /\ ReturnResponse(s)
    /\ UNCHANGED <<config, retryable, used, held, expired, attempts>>

\* A failure the budget still covers: recorded, and round the loop.
AnswerRetry(s, kind) ==
    /\ pc[s] = "execute"
    /\ ~Single(s)
    /\ AllowsAnother(kind, used[s])
    /\ ReleasePermit
    /\ last' = [last EXCEPT ![s] = kind]
    /\ PushHistory(s)
    /\ held' = [held EXCEPT ![s] = kind = "status"]
    /\ used' = [used EXCEPT ![s] = Record(@, kind)]
    /\ Goto(s, "loop")
    /\ UNCHANGED <<config, retryable, expired, attempts, result>>

\* Mutant of AnswerExhausted: raise_on_status is ignored.
AnswerExhaustedReturns(s, kind) ==
    /\ pc[s] = "execute"
    /\ ~Single(s)
    /\ ~AllowsAnother(kind, used[s])
    /\ ReleasePermit
    /\ last' = [last EXCEPT ![s] = kind]
    /\ PushHistory(s)
    /\ IF kind = "status" THEN ReturnResponse(s) ELSE ReturnError(s, "MaxRetriesExceeded")
    /\ UNCHANGED <<config, retryable, used, held, expired, attempts>>

\* A failure beyond the budget: an error, or, for a status and without
\* raise_on_status, the failing response itself.
AnswerExhausted(s, kind) ==
    /\ pc[s] = "execute"
    /\ ~Single(s)
    /\ ~AllowsAnother(kind, used[s])
    /\ ReleasePermit
    /\ last' = [last EXCEPT ![s] = kind]
    /\ PushHistory(s)
    /\ IF kind = "status" /\ ~config.raise
       THEN ReturnResponse(s)
       ELSE ReturnError(s, "MaxRetriesExceeded")
    /\ UNCHANGED <<config, retryable, used, held, expired, attempts>>

-----------------------------------------------------------------------------
(* The caller, the clock and cancellation                                  *)

\* The caller reads the body or drops the response: the connection is free.
CallerDone(s) ==
    /\ pc[s] = "body"
    /\ Goto(s, "done")
    /\ UNCHANGED <<config, permits, retryable, used, held, expired, history,
                   attempts, last, result>>

Elapse(s) ==
    /\ config.timeout
    /\ pc[s] \in {"loop", "sleep", "drain", "acquire", "execute"}
    /\ expired' = [expired EXCEPT ![s] = TRUE]
    /\ UNCHANGED <<config, permits, pc, retryable, used, held, history,
                   attempts, last, result>>

\* Mutant of Cancel: the permit of a cancelled attempt is not returned.
CancelLeaks(s) ==
    /\ pc[s] \in {"sleep", "drain", "acquire", "execute"}
    /\ Goto(s, "done")
    /\ held' = [held EXCEPT ![s] = FALSE]
    /\ result' = [result EXCEPT ![s] = "cancelled"]
    /\ UNCHANGED <<config, permits, retryable, used, expired, history,
                   attempts, last>>

\* Python cancels the task where it is suspended: the response, the request
\* and the permit are dropped.
Cancel(s) ==
    /\ pc[s] \in {"sleep", "drain", "acquire", "execute"}
    /\ IF pc[s] = "execute" THEN ReleasePermit ELSE UNCHANGED permits
    /\ Goto(s, "done")
    /\ held' = [held EXCEPT ![s] = FALSE]
    /\ result' = [result EXCEPT ![s] = "cancelled"]
    /\ UNCHANGED <<config, retryable, used, expired, history, attempts, last>>

-----------------------------------------------------------------------------
Answer(s) ==
    \/ \E answer \in Answers : AnswerSingle(s, answer)
    \/ AnswerGood(s)
    \/ \E kind \in FailureKinds : AnswerRetry(s, kind) \/ AnswerExhausted(s, kind)

Local(s) == LoopTop(s) \/ Sleep(s) \/ Drain(s) \/ Answer(s)

Next ==
    \E s \in Sends :
        Begin(s) \/ Local(s) \/ Acquire(s) \/ CallerDone(s) \/ Elapse(s) \/ Cancel(s)

Spec == Init /\ [][Next]_vars

(***************************************************************************)
(* Every request carries a timeout (Client::build), so an attempt and the  *)
(* draining of a body end; a sleep ends.  The semaphore is fair: whoever   *)
(* waits gets one of the permits that are returned.  Nothing is assumed of *)
(* the caller: it may keep a response for ever.                            *)
(***************************************************************************)
Fairness == \A s \in Sends : WF_vars(Local(s)) /\ SF_vars(Acquire(s))

FairSpec == Spec /\ Fairness

-----------------------------------------------------------------------------
(* Properties                                                              *)

Steps == {"idle", "loop", "sleep", "drain", "acquire", "execute", "body", "done"}

TypeOK ==
    /\ config \in Configs
    /\ permits \in Nat
    /\ pc \in [Sends -> Steps]
    /\ retryable \in [Sends -> BOOLEAN]
    /\ used \in [Sends -> RetryCounts]
    /\ held \in [Sends -> BOOLEAN]
    /\ expired \in [Sends -> BOOLEAN]
    /\ history \in [Sends -> Nat]
    /\ attempts \in [Sends -> Nat]
    /\ last \in [Sends -> Answers \cup {"none"}]
    /\ result \in [Sends -> {"none", "response", "error", "MaxRetriesExceeded", "cancelled"}]

\* The semaphore: permits are neither lost nor made, whatever is cancelled, so
\* at most MaxConnections requests wait for their headers.
PermitsBalance ==
    config.limited =>
        permits + Cardinality({s \in Sends : pc[s] = "execute"}) = MaxConnections

\* The retry budget: a send is executed once more than it has retries, and
\* these stay within the total and within the limit of each kind.
RetryBudget ==
    \A s \in Sends :
        /\ attempts[s] <= used[s]["total"] + 1
        /\ used[s]["total"] = used[s]["connect"] + used[s]["read"] + used[s]["status"]
        /\ \A k \in Counts : used[s][k] > 0 => used[s][k] <= config.limit[k]

\* A method outside allowed_methods reaches the server at most once, and so
\* does every request of a transport without a retry_config.
UnsafeMethodSentOnce ==
    \A s \in Sends : (~config.retry \/ ~retryable[s]) => attempts[s] <= 1

\* A send never has two connections: the response it kept is gone before the
\* next attempt starts.
OneConnectionPerSend == \A s \in Sends : held[s] => pc[s] \in {"loop", "sleep", "drain"}

\* num_retries and retry_history on a response agree with each other and with
\* what was really sent.
HistoryMatchesAttempts ==
    \A s \in Sends : result[s] = "response" =>
        history[s] = used[s]["total"] /\ attempts[s] = used[s]["total"] + 1

\* With raise_on_status a status of the forcelist is returned only where no
\* retry was allowed in the first place, and MaxRetriesExceeded is raised only
\* when the clock or the budget has run out.
ExhaustionIsHonest ==
    \A s \in Sends :
        /\ (result[s] = "response" /\ last[s] = "status") =>
              ~config.retry \/ ~retryable[s] \/ ~config.raise
        /\ result[s] = "MaxRetriesExceeded" =>
              expired[s] \/ (last[s] \in FailureKinds /\ ~AllowsAnother(last[s], used[s]))

\* docs/reqx_project_spec.md:226, "no more than 5 connections should be open
\* simultaneously" for max_connections=5.
OpenConnections ==
    {s \in Sends : pc[s] \in {"execute", "body"} \/ held[s]}

ConnectionLimit ==
    config.limited => Cardinality(OpenConnections) <= MaxConnections

\* Every send ends: the loop is finite, and nobody waits for a permit for ever.
SendEnds == \A s \in Sends : pc[s] # "idle" ~> pc[s] \in {"body", "done"}

=============================================================================
