--------------------------- MODULE StreamResponse ---------------------------
(***************************************************************************)
(* The async streaming API: the `async with` context, the response and its *)
(* iterator (crates/rqx/src/stream.rs, stream_context.rs and               *)
(* crates/rqx-core/src/streaming/{body,context}.rs), composed with the     *)
(* LiveStream they share.                                                  *)
(*                                                                         *)
(* Every asynchronous method runs as a task on the worker threads, so two  *)
(* of them interleave wherever one gives up a lock.  The byte, text and    *)
(* line iterators have the same control; they differ in how they regroup   *)
(* what they are fed, which Regroup models, and which is abstracted here   *)
(* to a count: a network chunk is Width units, a piece is Size units, and  *)
(* what remains at the end is the last piece.                              *)
(*                                                                         *)
(* A call can be cancelled where it is suspended, and also when its future *)
(* has finished and asyncio has not taken the result yet: then the work is *)
(* done, but what the call returns goes nowhere.                           *)
(***************************************************************************)
EXTENDS Naturals, FiniteSets

CONSTANTS Readers, Closers, NoTask, MaxChunks, Cancellable,
          Areaders,   \* tasks that call aread
          Exit,       \* the closer that runs __aexit__; the others run aclose
          Width,      \* units in a network chunk
          Size        \* units in a piece of the iterator

Users == Readers \cup Closers \cup Areaders

ASSUME StreamResponseAssumption ==
    /\ Exit \in Closers
    /\ Readers \cap Closers = {}
    /\ Areaders \cap (Readers \cup Closers) = {}
    /\ NoTask \notin Users
    /\ Cancellable \subseteq Readers \cup Closers \cup Areaders
    /\ MaxChunks \in Nat
    /\ Size \in Nat \ {0} /\ Width \in Nat \ {0}

VARIABLES stream, closed, permit, waiter, lock, net, sent, pc, out,
          ctx,       \* the context: "unsent", "sending", "entered", "spent", "left",
                     \* "orphaned" (a response nobody was given) or "dropped"
          body,      \* Option<Body> of the response
          started,   \* start_stream has handed out the iterator
          ilock,     \* who holds the mutex around the iterator's state
          buf,       \* units fed to the chunker and not yet handed out
          finished,  \* the iterator has seen the end of the body
          served,    \* units handed out in pieces
          lost,      \* units in pieces whose call was cancelled in delivery
          late,      \* late[r]: the current or last anext of r began after a close
          kept,      \* chunks in the buffered body
          rpc,       \* rpc[u]: where user task u is
          ret        \* ret[u]: what its last call returned

liveVars == <<stream, closed, permit, waiter, lock, net, sent, pc, out>>
iterVars == <<ilock, buf, finished, served, lost, late>>
respVars == <<ctx, body, started, kept>>
vars == <<liveVars, iterVars, respVars, rpc, ret>>

\* A task of the live stream is cancelled only together with the task of the
\* response it runs in.
LS == INSTANCE LiveStream

Bodies == {"none", "live", "streaming", "buffered"}
AnextSteps == {"ilock", "top", "serve", "inner"}

Init ==
    /\ LS!Init
    /\ ctx = "unsent"
    /\ body = "none"
    /\ started = FALSE
    /\ ilock = NoTask
    /\ buf = 0
    /\ finished = FALSE
    /\ served = 0
    /\ lost = 0
    /\ late = [r \in Readers |-> FALSE]
    /\ kept = 0
    /\ rpc = [u \in Users |-> "idle"]
    /\ ret = [u \in Users |-> "none"]

Goto(u, step) == rpc' = [rpc EXCEPT ![u] = step]

\* A call that has not begun returns at once.
ReturnNow(u, what) ==
    /\ ret' = [ret EXCEPT ![u] = what]
    /\ UNCHANGED rpc

\* The future of a call ends; its result arrives, or the call is cancelled
\* before it does.
Delivered(u, what) == {what} \cup (IF u \in Cancellable THEN {"cancelled"} ELSE {})

Finish(u, what) ==
    /\ rpc' = [rpc EXCEPT ![u] = "idle"]
    /\ \E got \in Delivered(u, what) : ret' = [ret EXCEPT ![u] = got]

-----------------------------------------------------------------------------
(* PyAsyncStreamContext::__aenter__                                        *)

\* Unsent::take: the request is sent once, on enter.
EnterBegin ==
    /\ ctx = "unsent"
    /\ ctx' = "sending"
    /\ UNCHANGED <<liveVars, iterVars, body, started, kept, rpc, ret>>

\* The response arrives: from_pending, and the slot that __aexit__ empties.
\* When the call is cancelled in delivery, the block is not entered, so that
\* there is no __aexit__ either.
EnterDone ==
    /\ ctx = "sending"
    /\ ctx' \in {"entered", "orphaned"}
    /\ body' = "live"
    /\ UNCHANGED <<liveVars, iterVars, started, kept, rpc, ret>>

\* The context goes out of scope, and the response in its slot with it.
DropContext ==
    /\ ctx = "orphaned"
    /\ ctx' = "dropped"
    /\ body' = "none"
    /\ UNCHANGED <<liveVars, iterVars, started, kept, rpc, ret>>

\* The request fails or is cancelled: there is nothing to enter a second time.
EnterFails ==
    /\ ctx = "sending"
    /\ ctx' = "spent"
    /\ UNCHANGED <<liveVars, iterVars, body, started, kept, rpc, ret>>

-----------------------------------------------------------------------------
(* aiter_bytes, aiter_text, aiter_lines                                    *)

\* start_stream: only a live body becomes a stream; any other is put back and
\* the call raises, which changes nothing.
StartStream ==
    /\ ctx \in {"entered", "left"}
    /\ body = "live"
    /\ body' = "streaming"
    /\ started' = TRUE
    /\ UNCHANGED <<liveVars, iterVars, ctx, kept, rpc, ret>>

-----------------------------------------------------------------------------
(* __anext__ of the three iterators                                        *)

AnextBegin(r) ==
    /\ started
    /\ rpc[r] = "idle"
    /\ Goto(r, "ilock")
    /\ ret' = [ret EXCEPT ![r] = "none"]
    /\ late' = [late EXCEPT ![r] = closed]
    /\ UNCHANGED <<liveVars, ilock, buf, finished, served, lost, respVars>>

AnextLock(r) ==
    /\ rpc[r] = "ilock"
    /\ ilock = NoTask
    /\ ilock' = r
    /\ Goto(r, "top")
    /\ UNCHANGED <<liveVars, buf, finished, served, lost, late, respVars, ret>>

\* Mutant of AnextTop: a closed stream is noticed only by the next chunk.
AnextTopUnchecked(r) ==
    /\ rpc[r] = "top"
    /\ Goto(r, "serve")
    /\ UNCHANGED <<liveVars, iterVars, respVars, ret>>

\* The head of the loop: check_open, unless the body has ended.
AnextTop(r) ==
    /\ rpc[r] = "top"
    /\ \/ /\ closed /\ ~finished
          /\ Finish(r, "closed")
          /\ ilock' = NoTask
       \/ /\ finished \/ ~closed
          /\ Goto(r, "serve")
          /\ UNCHANGED <<ilock, ret>>
    /\ UNCHANGED <<liveVars, buf, finished, served, lost, late, respVars>>

\* A full piece; at the end the remainder, then StopAsyncIteration; else the
\* loop pulls the next chunk.
AnextServe(r) ==
    /\ rpc[r] = "serve"
    /\ \/ \E n \in {IF buf >= Size THEN Size ELSE buf} :
             /\ buf >= Size \/ (finished /\ buf > 0)
             /\ buf' = buf - n
             /\ ilock' = NoTask
             /\ Finish(r, "piece")
             /\ served' = IF ret'[r] = "piece" THEN served + n ELSE served
             /\ lost' = IF ret'[r] = "piece" THEN lost ELSE lost + n
             /\ UNCHANGED liveVars
       \/ /\ finished /\ buf = 0
          /\ ilock' = NoTask
          /\ Finish(r, "stop")
          /\ UNCHANGED <<buf, served, lost, liveVars>>
       \/ /\ ~finished /\ buf < Size
          /\ LS!ReadBegin(r)
          /\ Goto(r, "inner")
          /\ UNCHANGED <<ilock, buf, served, lost, ret>>
    /\ UNCHANGED <<finished, late, respVars>>

\* Mutant of AnextFeed: the end of the body is not remembered.
AnextFeedForgetsEnd(r) ==
    /\ rpc[r] = "inner" /\ pc[r] = "idle"
    /\ \/ /\ out[r] = "chunk"
          /\ buf' = buf + Width
          /\ Goto(r, "top")
          /\ UNCHANGED <<ilock, ret>>
       \/ /\ out[r] # "chunk"
          /\ ilock' = NoTask
          /\ Finish(r, IF out[r] = "end" THEN "stop" ELSE out[r])
          /\ UNCHANGED buf
    /\ UNCHANGED <<liveVars, finished, served, lost, late, respVars>>

\* Mutant of AnextFeed: a chunk replaces what the chunker still holds.
AnextFeedReplaces(r) ==
    /\ rpc[r] = "inner" /\ pc[r] = "idle"
    /\ \/ /\ out[r] = "chunk"
          /\ buf' = Width
          /\ Goto(r, "top")
          /\ UNCHANGED <<ilock, finished, ret>>
       \/ /\ out[r] = "end"
          /\ finished' = TRUE
          /\ Goto(r, "top")
          /\ UNCHANGED <<ilock, buf, ret>>
       \/ /\ out[r] \in {"error", "closed"}
          /\ ilock' = NoTask
          /\ Finish(r, out[r])
          /\ UNCHANGED <<buf, finished>>
    /\ UNCHANGED <<liveVars, served, lost, late, respVars>>

\* next_chunk has returned: its chunk is fed to the chunker, its end sets the
\* flag, and both go round the loop; an error ends the call.
AnextFeed(r) ==
    /\ rpc[r] = "inner" /\ pc[r] = "idle"
    /\ \/ /\ out[r] = "chunk"
          /\ buf' = buf + Width
          /\ Goto(r, "top")
          /\ UNCHANGED <<ilock, finished, ret>>
       \/ /\ out[r] = "end"
          /\ finished' = TRUE
          /\ Goto(r, "top")
          /\ UNCHANGED <<ilock, buf, ret>>
       \/ /\ out[r] \in {"error", "closed"}
          /\ ilock' = NoTask
          /\ Finish(r, out[r])
          /\ UNCHANGED <<buf, finished>>
    /\ UNCHANGED <<liveVars, served, lost, late, respVars>>

\* The steps of next_chunk inside the call.
AnextInner(r) ==
    /\ rpc[r] = "inner"
    /\ LS!ReadStep(r)
    /\ UNCHANGED <<iterVars, respVars, rpc, ret>>

AnextInnerLock(r) ==
    /\ rpc[r] = "inner"
    /\ LS!ReadLock(r)
    /\ UNCHANGED <<iterVars, respVars, rpc, ret>>

-----------------------------------------------------------------------------
(* aread                                                                   *)

\* Mutant of AreadTake: the rest of a stream that is being iterated is read too.
AreadTakesStream(a) ==
    /\ ctx \in {"entered", "left"}
    /\ rpc[a] = "idle"
    /\ \/ /\ body \in {"live", "streaming"}
          /\ body' = "none"
          /\ kept' = 0
          /\ Goto(a, "reading")
          /\ UNCHANGED ret
       \/ /\ body \notin {"live", "streaming"}
          /\ ReturnNow(a, IF body = "buffered" THEN "bytes" ELSE "closed")
          /\ UNCHANGED <<body, kept>>
    /\ UNCHANGED <<liveVars, iterVars, ctx, started>>

\* The body is taken under the lock; a live one is read, any other is put
\* back and the call returns at once.
AreadTake(a) ==
    /\ ctx \in {"entered", "left"}
    /\ rpc[a] = "idle"
    /\ \/ /\ body = "live"
          /\ body' = "none"
          /\ kept' = 0
          /\ Goto(a, "reading")
          /\ UNCHANGED ret
       \/ /\ body # "live"
          /\ ReturnNow(a, CASE body = "buffered" -> "bytes"
                            [] body = "streaming" -> "consumed"
                            [] OTHER -> "closed")
          /\ UNCHANGED <<body, kept>>
    /\ UNCHANGED <<liveVars, iterVars, ctx, started>>

\* live.bytes().await: chunk by chunk to the end, or to an error, which drops
\* the connection and leaves the response without a body.
AreadChunk(a) ==
    /\ rpc[a] = "reading"
    /\ net = "chunk"
    /\ net' = "pending"
    /\ kept' = kept + 1
    /\ UNCHANGED <<stream, closed, permit, waiter, lock, sent, pc, out>>
    /\ UNCHANGED <<iterVars, ctx, body, started, rpc, ret>>

\* Mutant of AreadEnds: a read that fails keeps what it has.
AreadKeepsPart(a) ==
    /\ rpc[a] = "reading"
    /\ net \in {"end", "error"}
    /\ Goto(a, "store")
    /\ UNCHANGED <<liveVars, iterVars, respVars, ret>>

AreadEnds(a) ==
    /\ rpc[a] = "reading"
    /\ \/ net = "end" /\ Goto(a, "store") /\ UNCHANGED ret
       \/ net = "error" /\ Finish(a, "error")
    /\ UNCHANGED <<liveVars, iterVars, respVars>>

\* *body.lock() = Some(Buffered), whatever is in it by now.
AreadStore(a) ==
    /\ rpc[a] = "store"
    /\ body' = "buffered"
    /\ Finish(a, "bytes")
    /\ UNCHANGED <<liveVars, iterVars, ctx, started, kept>>

-----------------------------------------------------------------------------
(* aclose and __aexit__                                                    *)

\* Mutant of TakeBody: a stream is dropped like a buffer, without a close; the
\* iterator still shares it.
TakeBodyOnly(c) ==
    /\ body' = "none"
    /\ Goto(c, "done")
    /\ UNCHANGED liveVars

\* The body is taken out of the response.  A live one or a buffer is dropped
\* with it; a stream is closed, which ends the iterator too.
TakeBody(c) ==
    /\ body' = "none"
    /\ \/ /\ body = "streaming"
          /\ LS!CloseBegin(c)
          /\ Goto(c, "closing")
       \/ /\ body # "streaming"
          /\ Goto(c, "done")
          /\ UNCHANGED liveVars

Aclose(c) ==
    /\ c # Exit
    /\ ctx \in {"entered", "left"}
    /\ rpc[c] = "idle"
    /\ TakeBody(c)
    /\ UNCHANGED <<iterVars, ctx, started, kept, ret>>

\* __aexit__ empties the slot of the context, then takes the body.  Only
\* __aexit__ uses the slot, so the two are one step.
Aexit(c) ==
    /\ c = Exit
    /\ ctx = "entered"
    /\ ctx' = "left"
    /\ TakeBody(c)
    /\ UNCHANGED <<iterVars, started, kept, ret>>

CloseInner(c) ==
    /\ rpc[c] = "closing"
    /\ LS!CloseStep(c)
    /\ UNCHANGED <<iterVars, respVars, rpc, ret>>

\* The last step of LiveStream::close, and the return of the call.
CloseReturn(c) ==
    /\ rpc[c] = "closing"
    /\ LS!CloseDrop(c)
    /\ Goto(c, "done")
    /\ UNCHANGED <<iterVars, respVars, ret>>

-----------------------------------------------------------------------------
(* The environment                                                         *)

Held ==
    \/ body = "live"
    \/ started /\ stream = "some"
    \/ \E a \in Areaders : rpc[a] = "reading"

Network ==
    /\ Held
    /\ LS!Network
    /\ UNCHANGED <<iterVars, respVars, rpc, ret>>

\* Mutant of Cancel: a cancelled anext keeps the iterator's mutex.
CancelKeepsLock(u) ==
    /\ u \in Cancellable
    /\ \/ rpc[u] = "ilock" /\ ilock # NoTask /\ UNCHANGED liveVars
       \/ rpc[u] \in {"inner", "closing"} /\ LS!Cancel(u)
       \/ rpc[u] = "reading" /\ net = "pending" /\ UNCHANGED liveVars
    /\ Goto(u, IF u \in Closers THEN "cancelled" ELSE "idle")
    /\ ret' = [ret EXCEPT ![u] = "cancelled"]
    /\ UNCHANGED <<ilock, buf, finished, served, lost, late, respVars>>

\* Python cancels a call where it is suspended.  The guards it holds are
\* dropped, and an aread drops the connection.
Cancel(u) ==
    /\ u \in Cancellable
    /\ \/ /\ rpc[u] = "ilock" /\ ilock # NoTask
          /\ UNCHANGED <<liveVars, ilock>>
       \/ /\ rpc[u] = "inner" /\ LS!Cancel(u)
          /\ ilock' = NoTask
       \/ /\ rpc[u] = "closing" /\ LS!Cancel(u)
          /\ UNCHANGED ilock
       \/ /\ rpc[u] = "reading" /\ net = "pending"
          /\ UNCHANGED <<liveVars, ilock>>
    /\ Goto(u, IF u \in Closers THEN "cancelled" ELSE "idle")
    /\ ret' = [ret EXCEPT ![u] = "cancelled"]
    /\ UNCHANGED <<buf, finished, served, lost, late, respVars>>

-----------------------------------------------------------------------------
AnextStep(r) == AnextTop(r) \/ AnextServe(r) \/ AnextFeed(r) \/ AnextInner(r)

AreadStep(a) == AreadChunk(a) \/ AreadEnds(a) \/ AreadStore(a)

Next ==
    \/ EnterBegin \/ EnterDone \/ EnterFails \/ DropContext
    \/ StartStream
    \/ \E r \in Readers :
          AnextBegin(r) \/ AnextLock(r) \/ AnextStep(r) \/ AnextInnerLock(r)
    \/ \E a \in Areaders : AreadTake(a) \/ AreadStep(a)
    \/ \E c \in Closers :
          Aclose(c) \/ Aexit(c) \/ CloseInner(c) \/ CloseReturn(c)
    \/ \E u \in Users : Cancel(u)
    \/ Network

Spec == Init /\ [][Next]_vars

-----------------------------------------------------------------------------
(* Properties                                                              *)

\* Body::is_closed and the is_closed getter; try_lock fails while a read runs.
IsClosed ==
    CASE body = "none" -> TRUE
      [] body = "streaming" -> closed \/ (lock = NoTask /\ stream = "none")
      [] OTHER -> FALSE

TypeOK ==
    /\ LS!TypeOK
    /\ ctx \in {"unsent", "sending", "entered", "spent", "left", "orphaned", "dropped"}
    /\ body \in Bodies
    /\ started \in BOOLEAN /\ finished \in BOOLEAN
    /\ ilock \in Readers \cup {NoTask}
    /\ {buf, served, lost} \subseteq 0..MaxChunks * Width
    /\ late \in [Readers -> BOOLEAN] /\ kept \in 0..MaxChunks
    /\ rpc \in [Users -> AnextSteps
                  \cup {"idle", "reading", "store", "closing", "done", "cancelled"}]
    /\ \A r \in Readers : ilock = r <=> rpc[r] \in {"top", "serve", "inner"}

\* The connection always has one holder and is handed over at most once: the
\* response, its iterator and its aread never share it, and what was released
\* is not read again.
Holder ==
    CASE ctx \in {"unsent", "sending", "spent"} -> "nobody"
      [] body = "live" -> "response"
      [] started /\ stream = "some" -> "iterator"
      [] \E a \in Areaders : rpc[a] = "reading" -> "read"
      [] OTHER -> "released"

Contract == INSTANCE Connection WITH holder <- Holder, whole <- (body = "buffered")

ImplementsConnection == Contract!Spec

\* Nothing of the body is lost or handed out twice on the way through the two
\* mutexes, the chunker and the select!, whoever is cancelled: each chunk the
\* connection delivered is in a piece, in the chunker, or in the hands of the
\* one reader that has just pulled it.  Only a piece that was complete when its
\* call was cancelled is gone, and no other piece with it.
NoChunkLost ==
    started =>
        LET pulled == {r \in Readers : rpc[r] = "inner" /\ pc[r] = "idle" /\ out[r] = "chunk"}
            ready == IF net = "chunk" THEN 1 ELSE 0
        IN  sent * Width = served + lost + buf + Width * (Cardinality(pulled) + ready)

\* An iteration stops normally only when everything the server sent has been
\* handed out, up to the pieces whose call was cancelled in delivery: a close,
\* an error or another cancellation never looks like the end.
StopMeansComplete ==
    \A r \in Readers : ret[r] = "stop" => net = "end" /\ buf = 0 /\ served + lost = sent * Width

\* content, text and json are only ever served from a complete body.
BufferedIsWhole == body = "buffered" => net = "end" /\ kept = sent

\* When a close has returned and no other is still at work, the connection is
\* released, unless an aread took it before the close came.
CloseReleasesConnection ==
    (/\ \E c \in Closers : rpc[c] = "done"
     /\ \A c \in Closers : rpc[c] # "closing"
     /\ \A a \in Areaders : rpc[a] # "reading") => ~Held

\* stream_context.rs:56-57, "leaving the block closes it": after __aexit__ the
\* response is closed and its connection released.
ExitClosesResponse == rpc[Exit] = "done" => IsClosed /\ ~Held

\* live_stream.rs:90-92, "buffered pieces are not served after a close, only
\* after the stream's own end": an anext that begins after a close yields a
\* piece only when the body has been read to its end.
NoPieceAfterClose ==
    \A r \in Readers : late[r] /\ ret[r] = "piece" => finished

=============================================================================
