-------------------------- MODULE LiveStreamProofs --------------------------
(***************************************************************************)
(* Proofs about LiveStream for any number of reading and closing tasks,    *)
(* any number of chunks and any set of tasks that Python may cancel.       *)
(***************************************************************************)
EXTENDS LiveStream, TLAPS

-----------------------------------------------------------------------------
(* The inductive invariant                                                 *)

\* The steps between check_open and the return of next_chunk.
Inside == {"poll", "data", "wait"}

\* notify_one stores a permit only when nobody waits, and a reader registers
\* only when there is none to take: a permit is never left next to a sleeper.
PermitOrWaiter == waiter = "waiting" => ~permit

\* Once the closers have signalled, the signal has reached the reader that is
\* past check_open, or lies where its next poll finds it.
SignalReaches ==
    (closed /\ ~ \E c \in Closers : pc[c] = "notify") =>
        \A r \in Readers : pc[r] \in Inside => permit \/ waiter = "woken"

\* Whoever set the flag drops the stream, unless it is cancelled before.
CloserDrops ==
    closed => \/ stream = "none"
              \/ \E c \in Closers : pc[c] \in {"notify", "drop", "cancelled"}

IInv == TypeOK /\ PermitOrWaiter /\ SignalReaches /\ CloserDrops

\* A close is cancelled only when closes can be cancelled.
NoCloseCancelled ==
    Cancellable \cap Closers = {} => \A c \in Closers : pc[c] # "cancelled"

-----------------------------------------------------------------------------
(* Type correctness                                                        *)

LEMMA TypeInit == Init => TypeOK
<1> SUFFICES ASSUME Init PROVE TypeOK
    OBVIOUS
<1>1. sent \in 0..MaxChunks
    BY LiveStreamAssumption DEF Init
<1>2. pc \in [Tasks -> {"idle", "done", "cancelled"} \cup ReadSteps \cup CloseSteps]
    BY DEF Init
<1>3. \A t \in Tasks : t # lock /\ pc[t] = "idle"
    BY LiveStreamAssumption DEF Init
<1> QED
    BY <1>1, <1>2, <1>3 DEF Init, TypeOK, Outcomes

LEMMA TypeStep == TypeOK /\ [Next]_vars => TypeOK'
<1> SUFFICES ASSUME TypeOK, [Next]_vars PROVE TypeOK'
    OBVIOUS
<1> USE LiveStreamAssumption DEF TypeOK, Tasks, ReadSteps, CloseSteps, Outcomes
<1>1. CASE UNCHANGED vars
    BY <1>1 DEF vars
<1>2. ASSUME NEW r \in Readers, ReadBegin(r) PROVE TypeOK'
    BY <1>2 DEF ReadBegin, Goto
<1>3. ASSUME NEW r \in Readers, ReadLock(r) PROVE TypeOK'
    BY <1>3 DEF ReadLock, Goto
<1>4. ASSUME NEW r \in Readers, ReadCheck(r) PROVE TypeOK'
    BY <1>4 DEF ReadCheck, Goto, Return
<1>5. ASSUME NEW r \in Readers, ReadPoll(r) PROVE TypeOK'
    <2>1. CASE waiter = "woken" \/ permit
        <3>1. /\ waiter' = "none" /\ permit' \in BOOLEAN /\ stream' = "none"
              /\ lock' = NoTask /\ pc' = [pc EXCEPT ![r] = "idle"]
              /\ out' = [out EXCEPT ![r] = "closed"]
              /\ UNCHANGED <<closed, net, sent>>
            BY <1>5, <2>1 DEF ReadPoll, Return
        <3> QED
            BY <1>5, <3>1 DEF ReadPoll
    <2>2. CASE ~(waiter = "woken" \/ permit)
        BY <1>5, <2>2 DEF ReadPoll, Goto, Return
    <2> QED
        BY <2>1, <2>2
<1>6. ASSUME NEW r \in Readers, ReadData(r) PROVE TypeOK'
    <2>1. CASE net = "pending"
        BY <1>6, <2>1 DEF ReadData, Goto
    <2>2. CASE net # "pending"
        <3>1. /\ waiter' = "none" /\ permit' = (permit \/ waiter = "woken")
              /\ lock' = NoTask /\ pc' = [pc EXCEPT ![r] = "idle"]
              /\ out' = [out EXCEPT ![r] = net]
              /\ stream' \in {stream, "none"} /\ net' \in {"pending", net}
              /\ UNCHANGED <<closed, sent>>
            BY <1>6, <2>2 DEF ReadData, Return, DropNotified
        <3> QED
            BY <1>6, <2>2, <3>1 DEF ReadData
    <2> QED
        BY <2>1, <2>2
<1>7. ASSUME NEW r \in Readers, ReadWake(r) PROVE TypeOK'
    BY <1>7 DEF ReadWake, Goto
<1>8. ASSUME NEW c \in Closers, CloseBegin(c) PROVE TypeOK'
    BY <1>8 DEF CloseBegin, Goto
<1>9. ASSUME NEW c \in Closers, CloseMark(c) PROVE TypeOK'
    BY <1>9 DEF CloseMark, Goto
<1>10. ASSUME NEW c \in Closers, CloseNotify(c) PROVE TypeOK'
    BY <1>10 DEF CloseNotify, NotifyOne, Goto
<1>11. ASSUME NEW c \in Closers, CloseDrop(c) PROVE TypeOK'
    BY <1>11 DEF CloseDrop, Goto
<1>12. ASSUME NEW t \in Tasks, Cancel(t) PROVE TypeOK'
    BY <1>12 DEF Cancel, DropNotified, Goto
<1>13. CASE Network
    BY <1>13 DEF Network
<1> QED
    BY <1>1, <1>2, <1>3, <1>4, <1>5, <1>6, <1>7, <1>8, <1>9, <1>10, <1>11, <1>12, <1>13
    DEF Next, ReadStep, CloseStep

\* The variables of live_stream.rs keep their types, and the mutex is held by
\* exactly the reader between its acquisition and its return, so that no two
\* reads ever poll the stream together.
THEOREM LiveStreamTypes == Spec => []TypeOK
<1> QED
    BY TypeInit, TypeStep, PTL DEF Spec

-----------------------------------------------------------------------------
(* The wake-up and the drop                                                *)

LEMMA InvInit == Init => IInv
<1> SUFFICES ASSUME Init PROVE IInv
    OBVIOUS
<1>1. TypeOK
    BY TypeInit
<1> QED
    BY <1>1 DEF Init, IInv, PermitOrWaiter, SignalReaches, CloserDrops

LEMMA InvStep == IInv /\ [Next]_vars => IInv'
<1> SUFFICES ASSUME IInv, [Next]_vars PROVE IInv'
    OBVIOUS
<1>0. TypeOK /\ TypeOK'
    BY TypeStep DEF IInv
<1>a. \A t \in Tasks : t = lock <=> pc[t] \in {"check", "poll", "data", "wait"}
    BY <1>0 DEF TypeOK
<1>b. \A t \in Readers : t \in Tasks /\ t \notin Closers
    BY LiveStreamAssumption DEF Tasks
<1>c. \A t \in Closers : t \in Tasks /\ t \notin Readers
    BY LiveStreamAssumption DEF Tasks
<1>d. pc \in [Tasks -> {"idle", "done", "cancelled"} \cup ReadSteps \cup CloseSteps]
    BY <1>0 DEF TypeOK
<1>e. permit \in BOOLEAN /\ closed \in BOOLEAN
    BY <1>0 DEF TypeOK
<1> USE <1>a, <1>b, <1>c, <1>d, <1>e
    DEF IInv, PermitOrWaiter, SignalReaches, CloserDrops, Inside
<1>1. CASE UNCHANGED vars
    BY <1>0, <1>1 DEF vars
<1>2. ASSUME NEW r \in Readers, ReadBegin(r) PROVE IInv'
    BY <1>0, <1>2 DEF ReadBegin, Goto
<1>3. ASSUME NEW r \in Readers, ReadLock(r) PROVE IInv'
    BY <1>0, <1>3 DEF ReadLock, Goto
<1>4. ASSUME NEW r \in Readers, ReadCheck(r) PROVE IInv'
    BY <1>0, <1>4 DEF ReadCheck, Goto, Return
<1>5. ASSUME NEW r \in Readers, ReadPoll(r) PROVE IInv'
    <2>1. pc[r] = "poll" /\ closed' = closed
        BY <1>5 DEF ReadPoll
    <2>2. CASE waiter = "woken" \/ permit
        <3>1. /\ waiter' = "none" /\ stream' = "none"
              /\ pc' = [pc EXCEPT ![r] = "idle"]
            BY <1>5, <2>2 DEF ReadPoll, Return
        <3> QED
            BY <1>0, <2>1, <3>1
    <2>3. CASE ~(waiter = "woken" \/ permit)
        <3>1. /\ waiter' = "waiting" /\ permit' = permit /\ stream' = stream
              /\ pc' = [pc EXCEPT ![r] = "data"]
            BY <1>5, <2>3 DEF ReadPoll, Goto
        <3>2. closed => \E c \in Closers : pc[c] = "notify"
            BY <2>1, <2>3
        <3> QED
            BY <1>0, <2>1, <2>3, <3>1, <3>2
    <2> QED
        BY <2>2, <2>3
<1>6. ASSUME NEW r \in Readers, ReadData(r) PROVE IInv'
    BY <1>0, <1>6 DEF ReadData, Goto, Return, DropNotified
<1>7. ASSUME NEW r \in Readers, ReadWake(r) PROVE IInv'
    BY <1>0, <1>7 DEF ReadWake, Goto
<1>8. ASSUME NEW c \in Closers, CloseBegin(c) PROVE IInv'
    BY <1>0, <1>8 DEF CloseBegin, Goto
<1>9. ASSUME NEW c \in Closers, CloseMark(c) PROVE IInv'
    BY <1>0, <1>9 DEF CloseMark, Goto
<1>10. ASSUME NEW c \in Closers, CloseNotify(c) PROVE IInv'
    BY <1>0, <1>10 DEF CloseNotify, NotifyOne, Goto
<1>11. ASSUME NEW c \in Closers, CloseDrop(c) PROVE IInv'
    BY <1>0, <1>11 DEF CloseDrop, Goto
<1>12. ASSUME NEW t \in Tasks, Cancel(t) PROVE IInv'
    BY <1>0, <1>12 DEF Cancel, DropNotified, Goto
<1>13. CASE Network
    BY <1>0, <1>13 DEF Network
<1> QED
    BY <1>1, <1>2, <1>3, <1>4, <1>5, <1>6, <1>7, <1>8, <1>9, <1>10, <1>11, <1>12, <1>13
    DEF Next, ReadStep, CloseStep

\* The wake-up of live_stream.rs is not lost between the flag, the Notify and
\* the select!, whatever the number of readers and closers and whoever is
\* cancelled: no reader sleeps unwoken once every close has signalled.
THEOREM WakeupIsNotLost == Spec => []NoLostWakeup
<1>1. IInv => NoLostWakeup
    BY DEF IInv, PermitOrWaiter, SignalReaches, NoLostWakeup, Inside
<1> QED
    BY <1>1, InvInit, InvStep, PTL DEF Spec

-----------------------------------------------------------------------------
LEMMA NoCancelInit == Init => NoCloseCancelled
BY DEF Init, NoCloseCancelled, Tasks

LEMMA NoCancelStep == TypeOK /\ NoCloseCancelled /\ [Next]_vars => NoCloseCancelled'
<1> SUFFICES ASSUME TypeOK, NoCloseCancelled, [Next]_vars,
                    Cancellable \cap Closers = {}, NEW c \in Closers
             PROVE  pc'[c] # "cancelled"
    BY DEF NoCloseCancelled
<1>1. pc \in [Tasks -> {"idle", "done", "cancelled"} \cup ReadSteps \cup CloseSteps]
    BY DEF TypeOK
<1>2. c \in Tasks /\ pc[c] # "cancelled"
    BY DEF NoCloseCancelled, Tasks
<1>3. CASE UNCHANGED vars
    BY <1>2, <1>3 DEF vars
<1>4. ASSUME NEW r \in Readers, ReadBegin(r) \/ ReadLock(r) \/ ReadStep(r)
      PROVE  pc'[c] # "cancelled"
    BY <1>1, <1>2, <1>4 DEF ReadBegin, ReadLock, ReadStep, ReadCheck, ReadPoll, ReadData,
                            ReadWake, Goto, Return
<1>5. ASSUME NEW d \in Closers, CloseBegin(d) \/ CloseStep(d) \/ CloseDrop(d)
      PROVE  pc'[c] # "cancelled"
    BY <1>1, <1>2, <1>5 DEF CloseBegin, CloseStep, CloseMark, CloseNotify, CloseDrop, Goto
<1>6. ASSUME NEW t \in Tasks, Cancel(t) PROVE pc'[c] # "cancelled"
    <2>1. t \notin Closers
        BY <1>6 DEF Cancel
    <2> QED
        BY <1>1, <1>2, <1>6, <2>1 DEF Cancel, Goto
<1>7. CASE Network
    BY <1>2, <1>7 DEF Network
<1> QED
    BY <1>3, <1>4, <1>5, <1>6, <1>7 DEF Next

\* The code as it is, with closes that Python may cancel: a stream that is left
\* behind by everybody after mark_closed has set the flag is gone, unless a
\* close was cancelled while it waited for the mutex.
THEOREM DroppedUnlessCancelled ==
    Spec => [](~(\E c \in Closers : pc[c] = "cancelled") => ClosedStreamIsDropped)
<1>1. IInv => (~(\E c \in Closers : pc[c] = "cancelled") => ClosedStreamIsDropped)
    BY DEF IInv, CloserDrops, ClosedStreamIsDropped, Tasks
<1> QED
    BY <1>1, InvInit, InvStep, PTL DEF Spec

\* When no close can be cancelled, which holds of the synchronous API, a closed
\* stream that nobody is inside of is always dropped.
THEOREM ClosedIsDropped ==
    ASSUME Cancellable \cap Closers = {}
    PROVE  Spec => []ClosedStreamIsDropped
<1>1. IInv /\ NoCloseCancelled => ClosedStreamIsDropped
    BY DEF IInv, CloserDrops, NoCloseCancelled, ClosedStreamIsDropped, Tasks
<1>2. IInv => TypeOK
    BY DEF IInv
<1> QED
    BY <1>1, <1>2, InvInit, InvStep, NoCancelInit, NoCancelStep, PTL DEF Spec

=============================================================================
