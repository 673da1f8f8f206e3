----------------------------- MODULE SyncStream -----------------------------
(***************************************************************************)
(* The synchronous streaming API used from several Python threads:         *)
(* PyStreamContext, PyStreamResponse and the iterators of                  *)
(* crates/rqx/src/{stream,stream_context}.rs over the LiveStream.          *)
(*                                                                         *)
(* A thread runs a method with the GIL.  It gives the GIL up only inside   *)
(* block_on (py.detach), and a method with a mutable receiver borrows its  *)
(* object until it returns, also while the GIL is given up.  A close keeps *)
(* the GIL while it waits for the mutex of the stream.                     *)
(*                                                                         *)
(* A piece is a chunk, as it is without a chunk_size: of the chunker only  *)
(* whether it holds one is kept.                                           *)
(***************************************************************************)
EXTENDS Naturals

CONSTANTS Readers,     \* threads that call next() on the iterator
          Loaders,     \* threads that call read()
          Closers,     \* threads that call close(), once each
          Exit,        \* the closer that leaves the with block instead
          NoTask, MaxChunks

Threads == Readers \cup Loaders \cup Closers

\* A blocked Python thread is not cancelled.
Cancellable == {}

ASSUME SyncStreamAssumption ==
    /\ Readers \cap Closers = {}
    /\ Loaders \cap (Readers \cup Closers) = {}
    /\ NoTask \notin Threads
    /\ Exit \in Closers
    /\ MaxChunks \in Nat

VARIABLES stream, closed, permit, waiter, lock, net, sent, pc, out,
          gil,       \* the thread that runs Python
          response,  \* the thread that has the response borrowed
          iterator,  \* the thread that has the iterator borrowed
          slot,      \* the context still has its response
          body,      \* Option<Body> of the response
          started,   \* the iterator exists
          fed,       \* its chunker holds a chunk
          finished,  \* it has seen the end of the body
          tpc,       \* tpc[t]: where thread t is
          ret        \* ret[t]: how its last call ended

liveVars == <<stream, closed, permit, waiter, lock, net, sent, pc, out>>
objectVars == <<slot, body, started, fed, finished>>
vars == <<liveVars, objectVars, gil, response, iterator, tpc, ret>>

LS == INSTANCE LiveStream

\* Between __enter__ and __exit__: the response is there, its body unread.
Init ==
    /\ LS!Init
    /\ gil = NoTask
    /\ response = NoTask
    /\ iterator = NoTask
    /\ slot = TRUE
    /\ body = "live"
    /\ started = FALSE
    /\ fed = FALSE
    /\ finished = FALSE
    /\ tpc = [t \in Threads |-> "python"]
    /\ ret = [t \in Threads |-> "none"]

\* Thread t has the GIL, or takes it, to make its next step in Python.
Attached(t) == gil \in {t, NoTask}

Goto(t, step) == tpc' = [tpc EXCEPT ![t] = step]

\* The call of t returns to Python; another thread may run.
Return(t, what) ==
    /\ gil' = NoTask
    /\ tpc' = [tpc EXCEPT ![t] = IF t \in Closers THEN "done" ELSE "python"]
    /\ ret' = [ret EXCEPT ![t] = what]

-----------------------------------------------------------------------------
(* iter_bytes, iter_text, iter_lines                                       *)

\* start_stream: a call that finds no live body raises and changes nothing.
StartStream(t) ==
    /\ gil = NoTask
    /\ tpc[t] = "python"
    /\ response = NoTask
    /\ body = "live"
    /\ body' = "streaming"
    /\ started' = TRUE
    /\ UNCHANGED <<liveVars, slot, fed, finished, gil, response, iterator, tpc, ret>>

-----------------------------------------------------------------------------
(* __next__                                                                *)

\* The iterator is borrowed; a second thread gets a borrow error.
NextBegin(t) ==
    /\ started
    /\ gil = NoTask
    /\ tpc[t] = "python"
    /\ \/ /\ iterator # NoTask
          /\ Return(t, "borrowed")
          /\ UNCHANGED iterator
       \/ /\ iterator = NoTask
          /\ iterator' = t
          /\ gil' = t
          /\ Goto(t, "top")
          /\ UNCHANGED ret
    /\ UNCHANGED <<liveVars, objectVars, response>>

\* The head of the loop: check_open, unless the body has ended, then the piece
\* that the chunker holds, then the end, else block_on(next_chunk), with the GIL
\* released.
NextTop(t) ==
    /\ tpc[t] = "top"
    /\ gil = t
    /\ \/ /\ closed /\ ~finished
          /\ Return(t, "closed")
          /\ iterator' = NoTask
          /\ UNCHANGED <<liveVars, fed>>
       \/ /\ finished \/ (fed /\ ~closed)
          /\ Return(t, IF fed THEN "chunk" ELSE "stop")
          /\ iterator' = NoTask
          /\ fed' = FALSE
          /\ UNCHANGED liveVars
       \/ /\ ~closed /\ ~fed /\ ~finished
          /\ LS!ReadBegin(t)
          /\ gil' = NoTask
          /\ Goto(t, "inner")
          /\ UNCHANGED <<iterator, ret, fed>>
    /\ UNCHANGED <<slot, body, started, finished, response>>

NextInner(t) ==
    /\ tpc[t] = "inner"
    /\ LS!ReadStep(t)
    /\ UNCHANGED <<objectVars, gil, response, iterator, tpc, ret>>

NextInnerLock(t) ==
    /\ tpc[t] = "inner"
    /\ LS!ReadLock(t)
    /\ UNCHANGED <<objectVars, gil, response, iterator, tpc, ret>>

\* block_on has returned and the thread has the GIL again: a chunk is fed to the
\* chunker, the end is noted, and both go round the loop; an error ends the call.
NextAttach(t) ==
    /\ tpc[t] = "inner" /\ pc[t] = "idle"
    /\ Attached(t)
    /\ \/ /\ out[t] \in {"chunk", "end"}
          /\ fed' = (out[t] = "chunk")
          /\ finished' = (out[t] = "end")
          /\ gil' = t
          /\ Goto(t, "top")
          /\ UNCHANGED <<iterator, ret>>
       \/ /\ out[t] \notin {"chunk", "end"}
          /\ Return(t, out[t])
          /\ iterator' = NoTask
          /\ UNCHANGED <<fed, finished>>
    /\ UNCHANGED <<liveVars, slot, body, started, response>>

-----------------------------------------------------------------------------
(* read                                                                    *)

\* The response is borrowed and its body taken; a live one is read with the
\* GIL released, any other is put back and the call returns at once.
ReadTake(t) ==
    /\ gil = NoTask
    /\ tpc[t] = "python"
    /\ \/ /\ response = NoTask /\ body = "live"
          /\ response' = t
          /\ body' = "none"
          /\ Goto(t, "reading")
          /\ UNCHANGED <<gil, ret>>
       \/ /\ response # NoTask \/ body # "live"
          /\ Return(t, IF response # NoTask THEN "borrowed" ELSE body)
          /\ UNCHANGED <<response, body>>
    /\ UNCHANGED <<liveVars, slot, started, fed, finished, iterator>>

\* response.bytes() collects the chunks ...
ReadChunk(t) ==
    /\ tpc[t] = "reading"
    /\ net = "chunk"
    /\ net' = "pending"
    /\ UNCHANGED <<stream, closed, permit, waiter, lock, sent, pc, out>>
    /\ UNCHANGED <<objectVars, gil, response, iterator, tpc, ret>>

\* ... to the end or to an error.
ReadEnds(t) ==
    /\ tpc[t] = "reading"
    /\ net \in {"end", "error"}
    /\ Goto(t, "read")
    /\ UNCHANGED <<liveVars, objectVars, gil, response, iterator, ret>>

\* With the GIL again, the bytes are stored, or the error returned.
ReadAttach(t) ==
    /\ tpc[t] = "read"
    /\ Attached(t)
    /\ body' = IF net = "end" THEN "buffered" ELSE body
    /\ response' = NoTask
    /\ Return(t, net)
    /\ UNCHANGED <<liveVars, slot, started, fed, finished, iterator>>

-----------------------------------------------------------------------------
(* close and __exit__                                                      *)

\* __exit__ takes the response out of the context; a second one does nothing.
Leaves(c) ==
    IF c = Exit THEN slot /\ slot' = FALSE ELSE UNCHANGED slot

\* Mutant of CloseBegin: the body is taken behind a mutex instead of under a
\* borrow, while a read may have the response.
CloseUnborrowed(c) ==
    /\ gil = NoTask
    /\ tpc[c] = "python"
    /\ Leaves(c)
    /\ body' = "none"
    /\ \/ /\ body = "streaming"
          /\ LS!CloseBegin(c)
          /\ gil' = c
          /\ Goto(c, "closing")
          /\ UNCHANGED ret
       \/ /\ body # "streaming"
          /\ Return(c, "ok")
          /\ UNCHANGED liveVars
    /\ UNCHANGED <<started, fed, finished, response, iterator>>

\* A response that is borrowed makes close raise and __exit__ panic, whose
\* context has lost it by then.  Else the body is taken: a stream is closed
\* with the GIL held, anything else is dropped.
CloseBegin(c) ==
    /\ gil = NoTask
    /\ tpc[c] = "python"
    /\ Leaves(c)
    /\ \/ /\ response # NoTask
          /\ Return(c, IF c = Exit THEN "panic" ELSE "borrowed")
          /\ UNCHANGED <<liveVars, body, response>>
       \/ /\ response = NoTask /\ body = "streaming"
          /\ LS!CloseBegin(c)
          /\ body' = "none"
          /\ response' = c
          /\ gil' = c
          /\ Goto(c, "closing")
          /\ UNCHANGED ret
       \/ /\ response = NoTask /\ body # "streaming"
          /\ body' = "none"
          /\ Return(c, "ok")
          /\ UNCHANGED <<liveVars, response>>
    /\ UNCHANGED <<started, fed, finished, iterator>>

\* Mutant of CloseInner: close_blocking takes the mutex before it signals.
CloseInnerLockFirst(c) ==
    /\ tpc[c] = "closing"
    /\ lock = NoTask
    /\ LS!CloseStep(c)
    /\ UNCHANGED <<objectVars, gil, response, iterator, tpc, ret>>

\* mark_closed: the flag, then the signal.
CloseInner(c) ==
    /\ tpc[c] = "closing"
    /\ LS!CloseStep(c)
    /\ UNCHANGED <<objectVars, gil, response, iterator, tpc, ret>>

\* blocking_lock, and the return.
CloseReturn(c) ==
    /\ tpc[c] = "closing"
    /\ LS!CloseDrop(c)
    /\ response' = NoTask
    /\ Return(c, "ok")
    /\ UNCHANGED <<objectVars, iterator>>

-----------------------------------------------------------------------------
\* Somebody holds the connection, so the server can still send.
Held ==
    \/ body = "live"
    \/ started /\ stream = "some"
    \/ \E t \in Loaders : tpc[t] = "reading"

Network ==
    /\ Held
    /\ LS!Network
    /\ UNCHANGED <<objectVars, gil, response, iterator, tpc, ret>>

\* The steps of a call that do not wait for the GIL or for the mutex.
Step(t) ==
    \/ t \in Readers /\ (NextTop(t) \/ NextInner(t))
    \/ t \in Loaders /\ (ReadChunk(t) \/ ReadEnds(t))
    \/ t \in Closers /\ CloseInner(t)

\* The steps that do.
Waiting(t) ==
    \/ t \in Readers /\ (NextInnerLock(t) \/ NextAttach(t))
    \/ t \in Loaders /\ ReadAttach(t)
    \/ t \in Closers /\ CloseReturn(t)

Next ==
    \/ \E t \in Readers : StartStream(t) \/ NextBegin(t)
    \/ \E t \in Loaders : ReadTake(t)
    \/ \E t \in Closers : CloseBegin(t)
    \/ \E t \in Threads : Step(t) \/ Waiting(t)
    \/ Network

Spec == Init /\ [][Next]_vars

(***************************************************************************)
(* A thread that is inside a call runs, and whoever waits for the GIL or   *)
(* for the mutex gets it when it keeps being free: both queue fairly.      *)
(* Nothing is assumed of the network or of new calls.                      *)
(***************************************************************************)
Fairness == \A t \in Threads : WF_vars(Step(t)) /\ SF_vars(Waiting(t))

FairSpec == Spec /\ Fairness

-----------------------------------------------------------------------------
(* Properties                                                              *)

\* Types, and the borrows: the iterator belongs to the thread inside next(),
\* the response to the thread inside read() or close().
TypeOK ==
    /\ LS!TypeOK
    /\ gil \in Threads \cup {NoTask}
    /\ slot \in BOOLEAN /\ started \in BOOLEAN /\ fed \in BOOLEAN /\ finished \in BOOLEAN
    /\ body \in {"none", "live", "streaming", "buffered"}
    /\ \A t \in Threads :
          /\ iterator = t <=> tpc[t] \in {"top", "inner"}
          /\ response = t <=> tpc[t] \in {"reading", "read", "closing"}

\* A close that returns is final: the connection is released, and no read that
\* was under way brings a body back.  (In the async flavour it does.)
CloseIsFinal ==
    (\E c \in Closers : ret[c] = "ok") => body = "none" /\ ~Held

\* live_stream.rs:72-74, the wake-up comes first "so a read waiting on the
\* network gives up the lock instead of holding this call until data arrives":
\* no call keeps the GIL for ever, although a close waits with the GIL for a
\* mutex that a reader holds, and the server may be silent.
GilComesBack == gil # NoTask ~> gil = NoTask

=============================================================================
