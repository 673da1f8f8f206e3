----------------------------- MODULE LiveStream -----------------------------
(***************************************************************************)
(* The body of a streamed response while an iterator reads it:             *)
(* crates/rqx-core/src/streaming/live_stream.rs.                           *)
(*                                                                         *)
(* The stream, and with it the connection, sits behind an async mutex.  A  *)
(* read holds the mutex while it waits for the network; a close sets a     *)
(* flag, signals the pending read through a Notify, and then needs the     *)
(* mutex itself to drop the stream.  Tasks run on several workers, and the *)
(* Python side may cancel a task wherever it is suspended.                 *)
(***************************************************************************)
EXTENDS Naturals

CONSTANTS Readers,     \* tasks that call next_chunk
          Closers,     \* tasks that call close, once each
          NoTask,      \* the mutex is free
          MaxChunks,   \* bound: chunks the server sends
          Cancellable  \* the tasks that Python may cancel

Tasks == Readers \cup Closers

ASSUME LiveStreamAssumption ==
    /\ Readers \cap Closers = {}
    /\ NoTask \notin Tasks
    /\ MaxChunks \in Nat

VARIABLES stream,   \* the Option<ChunkStream>: "some" holds the connection
          closed,   \* the closed flag
          permit,   \* Notify: a stored notification
          waiter,   \* Notify: the state of the reader inside select!
          lock,     \* who holds the mutex
          net,      \* what the next poll of the stream yields
          sent,     \* chunks the server has sent
          pc,       \* pc[t]: the step task t takes next
          out       \* out[r]: what the last next_chunk of reader r returned

vars == <<stream, closed, permit, waiter, lock, net, sent, pc, out>>

ReadSteps == {"lock", "check", "poll", "data", "wait"}
CloseSteps == {"mark", "notify", "drop"}

Outcomes == {"none", "chunk", "end", "error", "closed"}

\* LiveStream::new wraps a response whose body has not been read.
Init ==
    /\ stream = "some"
    /\ closed = FALSE
    /\ permit = FALSE
    /\ waiter = "none"
    /\ lock = NoTask
    /\ net = "pending"
    /\ sent = 0
    /\ pc = [t \in Tasks |-> "idle"]
    /\ out = [r \in Readers |-> "none"]

Goto(t, step) == pc' = [pc EXCEPT ![t] = step]

\* next_chunk returns: the guard is dropped.
Return(r, outcome) ==
    /\ lock' = NoTask
    /\ pc' = [pc EXCEPT ![r] = "idle"]
    /\ out' = [out EXCEPT ![r] = outcome]

\* Mutant of NotifyOne: notify_waiters, which stores nothing.
NotifyWaiters ==
    /\ waiter' = IF waiter = "waiting" THEN "woken" ELSE waiter
    /\ UNCHANGED permit

\* notify_one: the registered waiter is woken, or the permit is stored.
NotifyOne ==
    IF waiter = "waiting"
    THEN waiter' = "woken" /\ UNCHANGED permit
    ELSE permit' = TRUE /\ UNCHANGED waiter

\* Dropping the Notified future: a notification it had received but not
\* consumed is handed on, to be stored as a permit.
DropNotified ==
    /\ waiter' = "none"
    /\ permit' = (permit \/ waiter = "woken")

-----------------------------------------------------------------------------
(* next_chunk                                                              *)

\* The iterator asks for the next chunk and queues for the mutex.
ReadBegin(r) ==
    /\ pc[r] = "idle"
    /\ Goto(r, "lock")
    /\ out' = [out EXCEPT ![r] = "none"]
    /\ UNCHANGED <<stream, closed, permit, waiter, lock, net, sent>>

ReadLock(r) ==
    /\ pc[r] = "lock"
    /\ lock = NoTask
    /\ lock' = r
    /\ Goto(r, "check")
    /\ UNCHANGED <<stream, closed, permit, waiter, net, sent, out>>

\* check_open, then the Option: a closed or finished stream is an error.
ReadCheck(r) ==
    /\ pc[r] = "check"
    /\ \/ /\ closed \/ stream = "none"
          /\ Return(r, "closed")
       \/ /\ ~closed /\ stream = "some"
          /\ Goto(r, "poll")
          /\ UNCHANGED <<lock, out>>
    /\ UNCHANGED <<stream, closed, permit, waiter, net, sent>>

\* select!, biased: the close signal is polled first.  A stored permit or a
\* wake-up ends the read and drops the stream; else the reader is registered.
ReadPoll(r) ==
    /\ pc[r] = "poll"
    /\ \/ /\ waiter = "woken" \/ permit
          /\ waiter' = "none"
          /\ permit' = IF waiter = "woken" THEN permit ELSE FALSE
          /\ stream' = "none"
          /\ Return(r, "closed")
       \/ /\ ~(waiter = "woken" \/ permit)
          /\ waiter' = "waiting"
          /\ Goto(r, "data")
          /\ UNCHANGED <<stream, permit, lock, out>>
    /\ UNCHANGED <<closed, net, sent>>

\* The second branch, stream.next(): a chunk is returned; an error or the end
\* drops the stream; without either the task is suspended, holding the mutex.
ReadData(r) ==
    /\ pc[r] = "data"
    /\ \/ /\ net = "pending"
          /\ Goto(r, "wait")
          /\ UNCHANGED <<stream, permit, waiter, lock, net, out>>
       \/ /\ net = "chunk"
          /\ net' = "pending"
          /\ DropNotified
          /\ Return(r, "chunk")
          /\ UNCHANGED stream
       \/ /\ net \in {"error", "end"}
          /\ DropNotified
          /\ stream' = "none"
          /\ Return(r, net)
          /\ UNCHANGED net
    /\ UNCHANGED <<closed, sent>>

\* The suspended task is woken by the signal or by the network.
ReadWake(r) ==
    /\ pc[r] = "wait"
    /\ waiter = "woken" \/ net # "pending"
    /\ Goto(r, "poll")
    /\ UNCHANGED <<stream, closed, permit, waiter, lock, net, sent, out>>

-----------------------------------------------------------------------------
(* close and mark_closed                                                   *)

CloseBegin(c) ==
    /\ pc[c] = "idle"
    /\ Goto(c, "mark")
    /\ UNCHANGED <<stream, closed, permit, waiter, lock, net, sent, out>>

\* mark_closed: the flag ...
CloseMark(c) ==
    /\ pc[c] = "mark"
    /\ closed' = TRUE
    /\ Goto(c, "notify")
    /\ UNCHANGED <<stream, permit, waiter, lock, net, sent, out>>

\* ... then the signal.
CloseNotify(c) ==
    /\ pc[c] = "notify"
    /\ NotifyOne
    /\ Goto(c, "drop")
    /\ UNCHANGED <<stream, closed, lock, net, sent, out>>

\* Mutant of CloseDrop: close returns without waiting for the mutex.
CloseNoLock(c) ==
    /\ pc[c] = "drop"
    /\ stream' = IF lock = NoTask THEN "none" ELSE stream
    /\ Goto(c, "done")
    /\ UNCHANGED <<closed, permit, waiter, lock, net, sent, out>>

\* *self.0.stream.lock().await = None.  The guard is a temporary: the mutex
\* is free again when the statement ends.
CloseDrop(c) ==
    /\ pc[c] = "drop"
    /\ lock = NoTask
    /\ stream' = "none"
    /\ Goto(c, "done")
    /\ UNCHANGED <<closed, permit, waiter, lock, net, sent, out>>

-----------------------------------------------------------------------------
(* The environment                                                         *)

\* The server sends a chunk, ends the body or fails.
Network ==
    /\ net = "pending"
    /\ \/ /\ sent < MaxChunks
          /\ sent' = sent + 1
          /\ net' = "chunk"
       \/ /\ net' \in {"error", "end"}
          /\ UNCHANGED sent
    /\ UNCHANGED <<stream, closed, permit, waiter, lock, pc, out>>

\* Mutant of Cancel: the guard outlives the cancelled read.
CancelKeepsLock(t) ==
    /\ t \in Cancellable
    /\ pc[t] \in {"lock", "drop", "wait"}
    /\ Goto(t, IF t \in Closers THEN "cancelled" ELSE "idle")
    /\ UNCHANGED <<stream, closed, permit, waiter, lock, net, sent, out>>

\* Python cancels the task where it is suspended: queueing for a mutex that
\* somebody holds, or in select!, where the guard and the Notified are dropped.
Cancel(t) ==
    /\ t \in Cancellable
    /\ \/ /\ pc[t] \in {"lock", "drop"}
          /\ lock # NoTask
          /\ UNCHANGED <<permit, waiter, lock>>
       \/ /\ pc[t] = "wait"
          /\ DropNotified
          /\ lock' = NoTask
    /\ Goto(t, IF t \in Closers THEN "cancelled" ELSE "idle")
    /\ UNCHANGED <<stream, closed, net, sent, out>>

-----------------------------------------------------------------------------
ReadStep(r) ==
    \/ ReadCheck(r)
    \/ ReadPoll(r)
    \/ ReadData(r)
    \/ ReadWake(r)

CloseStep(c) ==
    \/ CloseMark(c)
    \/ CloseNotify(c)

Next ==
    \/ \E r \in Readers : ReadBegin(r) \/ ReadLock(r) \/ ReadStep(r)
    \/ \E c \in Closers : CloseBegin(c) \/ CloseStep(c) \/ CloseDrop(c)
    \/ \E t \in Tasks : Cancel(t)
    \/ Network

Spec == Init /\ [][Next]_vars

(***************************************************************************)
(* A woken task is polled: weak fairness.  The tokio mutex queues its      *)
(* waiters in order, so one that waits is served although others come and  *)
(* go: strong fairness for taking the lock.  Nothing is assumed of the     *)
(* network, of new reads or of cancellations.                              *)
(***************************************************************************)
Fairness ==
    /\ \A r \in Readers : WF_vars(ReadStep(r)) /\ SF_vars(ReadLock(r))
    /\ \A c \in Closers : WF_vars(CloseStep(c)) /\ SF_vars(CloseDrop(c))

FairSpec == Spec /\ Fairness

-----------------------------------------------------------------------------
(* Properties                                                              *)

\* Types, and who holds the mutex: exactly the reader between its acquisition
\* and its return.
TypeOK ==
    /\ stream \in {"some", "none"}
    /\ closed \in BOOLEAN
    /\ permit \in BOOLEAN
    /\ waiter \in {"none", "waiting", "woken"}
    /\ lock \in Readers \cup {NoTask}
    /\ net \in {"pending", "chunk", "error", "end"}
    /\ sent \in 0..MaxChunks
    /\ pc \in [Tasks -> {"idle", "done", "cancelled"} \cup ReadSteps \cup CloseSteps]
    /\ out \in [Readers -> Outcomes]
    /\ \A t \in Tasks : t = lock <=> pc[t] \in {"check", "poll", "data", "wait"}

\* A reader that sleeps on the network can be woken: once the flag is set and
\* the closers have signalled, the reader has been woken or nobody sleeps.
NoLostWakeup ==
    (closed /\ ~ \E c \in Closers : pc[c] = "notify") =>
        ~ \E r \in Readers : pc[r] = "wait" /\ waiter = "waiting"

\* live_stream.rs:42-44, "A closed response or a failed read drops the stream,
\* so the connection is released without waiting for the iterator to be
\* dropped": once the flag is set and no task is inside the stream any more,
\* the stream is gone.
ClosedStreamIsDropped ==
    (\A t \in Tasks : pc[t] \in {"idle", "done", "cancelled"}) =>
        (closed => stream = "none")

\* A close returns although the server sends nothing.
CloseReturns ==
    \A c \in Closers : pc[c] = "mark" ~> pc[c] \in {"done", "cancelled"}

\* A close ends the read that waits on the network, and every later one.
CloseEndsReads ==
    \A r \in Readers : (closed /\ pc[r] \in ReadSteps) ~> pc[r] = "idle"

=============================================================================
