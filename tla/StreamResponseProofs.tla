------------------------ MODULE StreamResponseProofs ------------------------
(***************************************************************************)
(* Proofs about StreamResponse for any number of readers, areads and       *)
(* closers, any number and size of chunks and pieces, and any set of tasks *)
(* that Python may cancel.  What the steps of the live stream preserve is  *)
(* taken from LiveStreamProofs.                                            *)
(***************************************************************************)
EXTENDS StreamResponse, FiniteSetTheorems, TLAPS

LSP == INSTANCE LiveStreamProofs

-----------------------------------------------------------------------------
(* The inductive invariant                                                 *)

Results == {"none", "piece", "stop", "closed", "error", "bytes", "consumed", "cancelled"}

\* Types, without the bounds, which follow from the count of the chunks.
VarTypes ==
    /\ ctx \in {"unsent", "sending", "entered", "spent", "left", "orphaned", "dropped"}
    /\ body \in Bodies
    /\ started \in BOOLEAN /\ finished \in BOOLEAN
    /\ buf \in Nat /\ served \in Nat /\ lost \in Nat /\ kept \in Nat
    /\ ilock \in Readers \cup {NoTask}
    /\ late \in [Readers -> BOOLEAN]
    /\ rpc \in [Users -> AnextSteps
                  \cup {"idle", "reading", "store", "closing", "done", "cancelled"}]
    /\ ret \in [Users -> Results]

\* Where the tasks of each kind can be, in the response and in the live stream.
ReaderSteps ==
    \A r \in Readers :
        /\ rpc[r] \in AnextSteps \cup {"idle"}
        /\ rpc[r] # "inner" => pc[r] = "idle"
        /\ ilock = r <=> rpc[r] \in {"top", "serve", "inner"}
        /\ rpc[r] # "idle" => started

CloserSteps ==
    \A c \in Closers :
        /\ rpc[c] \in {"idle", "closing", "done", "cancelled"}
        /\ rpc[c] = "closing" <=> pc[c] \in {"mark", "notify", "drop"}
        /\ rpc[c] = "idle" => pc[c] = "idle"
        /\ rpc[c] = "closing" => started
        /\ rpc[c] # "idle" => body \notin {"live", "streaming"}

AreaderSteps ==
    \A a \in Areaders :
        /\ rpc[a] \in {"idle", "reading", "store"}
        /\ rpc[a] # "idle" => body = "none" /\ ~started
        /\ \A b \in Areaders : rpc[a] # "idle" /\ rpc[b] # "idle" => a = b

\* The life of the context: nobody has a call under way before the block is
\* entered, and only __aexit__ leaves it.
ContextInv ==
    /\ ctx \in {"unsent", "sending"} => net = "pending" /\ sent = 0
    /\ ctx \in {"unsent", "sending", "spent", "dropped"} => body = "none"
    /\ ctx \notin {"entered", "left"} => ~started /\ \A u \in Users : rpc[u] = "idle"
    /\ ctx # "left" => rpc[Exit] = "idle"

\* What each state of the body says about the connection.
BodyInv ==
    /\ body \in {"live", "buffered"} => ~started
    /\ body = "streaming" => started
    /\ ~started => /\ stream = "some" /\ ~finished
                   /\ buf = 0 /\ served = 0 /\ lost = 0

\* An iterator with a connection belongs to a response that still has it, or to
\* a close that is on its way, or was cancelled on its way.
ReleaseInv ==
    started /\ stream = "some" =>
        body = "streaming" \/ \E c \in Closers : rpc[c] \in {"closing", "cancelled"}

Ready == IF net = "chunk" THEN 1 ELSE 0

\* The chunks of an aread.
KeptInv ==
    /\ kept <= sent
    /\ body = "live" => sent = Ready
    /\ body = "buffered" => net = "end" /\ kept = sent
    /\ \A a \in Areaders :
          /\ rpc[a] = "reading" => kept + Ready = sent
          /\ rpc[a] = "store" => net = "end" /\ kept = sent

\* The readers, at most one, that have pulled a chunk and not fed it yet.
Pulled == {r \in Readers : rpc[r] = "inner" /\ pc[r] = "idle" /\ out[r] = "chunk"}

\* The chunks of an iterator, in units.
CountInv ==
    started => sent * Width = served + lost + buf
                                + (IF Pulled = {} THEN 0 ELSE Width)
                                + (IF net = "chunk" THEN Width ELSE 0)

\* The end of the body, on its way from the network to StopAsyncIteration.
EndInv ==
    /\ finished => net = "end" /\ \A r \in Readers : rpc[r] # "inner"
    /\ \A r \in Readers :
          /\ rpc[r] = "inner" /\ pc[r] = "idle" /\ out[r] = "end" => net = "end"
          /\ ret[r] = "stop" => finished /\ buf = 0

\* A call that began after a close passes check_open only at the end.
LateInv ==
    \A r \in Readers : late[r] =>
        /\ closed
        /\ rpc[r] = "serve" => finished
        /\ ret[r] = "piece" => finished

StepsInv == VarTypes /\ ReaderSteps /\ CloserSteps /\ AreaderSteps

IInv == /\ LSP!IInv
        /\ StepsInv
        /\ ContextInv
        /\ BodyInv
        /\ ReleaseInv
        /\ KeptInv
        /\ CountInv
        /\ EndInv
        /\ LateInv

-----------------------------------------------------------------------------
(* The steps of the live stream, as the response sees them                 *)

LEMMA LiveAssumption == LSP!LiveStreamAssumption
BY StreamResponseAssumption DEF LSP!LiveStreamAssumption, LSP!Tasks, Users

\* The live stream of the proofs is the live stream of the model.
LEMMA SameTypes == LS!TypeOK <=> LSP!TypeOK
BY DEF LS!TypeOK, LSP!TypeOK, LS!Tasks, LSP!Tasks, LS!ReadSteps, LSP!ReadSteps,
       LS!CloseSteps, LSP!CloseSteps, LS!Outcomes, LSP!Outcomes

LEMMA SameReads ==
    ASSUME NEW r \in Readers
    PROVE  /\ LS!ReadBegin(r) => LSP!Next
           /\ LS!ReadLock(r) => LSP!Next
           /\ LS!ReadStep(r) => LSP!Next
<1>1. LS!ReadBegin(r) => LSP!ReadBegin(r)
    BY DEF LS!ReadBegin, LSP!ReadBegin, LS!Goto, LSP!Goto
<1>2. LS!ReadLock(r) => LSP!ReadLock(r)
    BY DEF LS!ReadLock, LSP!ReadLock, LS!Goto, LSP!Goto
<1>3. LS!ReadCheck(r) => LSP!ReadCheck(r)
    BY DEF LS!ReadCheck, LSP!ReadCheck, LS!Goto, LSP!Goto, LS!Return, LSP!Return
<1>4. LS!ReadPoll(r) => LSP!ReadPoll(r)
    BY DEF LS!ReadPoll, LSP!ReadPoll, LS!Goto, LSP!Goto, LS!Return, LSP!Return
<1>5. LS!ReadData(r) => LSP!ReadData(r)
    BY DEF LS!ReadData, LSP!ReadData, LS!Goto, LSP!Goto, LS!Return, LSP!Return,
           LS!DropNotified, LSP!DropNotified
<1>6. LS!ReadWake(r) => LSP!ReadWake(r)
    BY DEF LS!ReadWake, LSP!ReadWake, LS!Goto, LSP!Goto
<1> QED
    BY <1>1, <1>2, <1>3, <1>4, <1>5, <1>6 DEF LS!ReadStep, LSP!ReadStep, LSP!Next

LEMMA SameCloses ==
    ASSUME NEW c \in Closers
    PROVE  /\ LS!CloseBegin(c) => LSP!Next
           /\ LS!CloseStep(c) => LSP!Next
           /\ LS!CloseDrop(c) => LSP!Next
<1>1. LS!CloseBegin(c) => LSP!CloseBegin(c)
    BY DEF LS!CloseBegin, LSP!CloseBegin, LS!Goto, LSP!Goto
<1>2. LS!CloseMark(c) => LSP!CloseMark(c)
    BY DEF LS!CloseMark, LSP!CloseMark, LS!Goto, LSP!Goto
<1>3. LS!CloseNotify(c) => LSP!CloseNotify(c)
    BY DEF LS!CloseNotify, LSP!CloseNotify, LS!Goto, LSP!Goto, LS!NotifyOne, LSP!NotifyOne
<1>4. LS!CloseDrop(c) => LSP!CloseDrop(c)
    BY DEF LS!CloseDrop, LSP!CloseDrop, LS!Goto, LSP!Goto
<1> QED
    BY <1>1, <1>2, <1>3, <1>4 DEF LS!CloseStep, LSP!CloseStep, LSP!Next

LEMMA SameRest ==
    /\ \A t \in Readers \cup Closers : LS!Cancel(t) => LSP!Next
    /\ LS!Network => LSP!Next
<1>1. ASSUME NEW t \in Readers \cup Closers, LS!Cancel(t) PROVE LSP!Cancel(t)
    BY <1>1 DEF LS!Cancel, LSP!Cancel, LS!Goto, LSP!Goto, LS!DropNotified, LSP!DropNotified
<1>2. LS!Network => LSP!Network
    BY DEF LS!Network, LSP!Network
<1> QED
    BY <1>1, <1>2 DEF LSP!Next, LSP!Tasks

\* A step of next_chunk: only the task's own state moves, the stream can only
\* go, and a chunk leaves the network exactly when it is the task's outcome.
LEMMA ReadEffect ==
    ASSUME NEW r \in Readers, LS!ReadStep(r) \/ LS!ReadLock(r), LSP!TypeOK
    PROVE  /\ closed' = closed /\ sent' = sent
           /\ stream' = stream \/ stream' = "none"
           /\ \A t \in Readers \cup Closers : t # r => pc'[t] = pc[t]
           /\ \A t \in Readers : t # r => out'[t] = out[t]
           /\ pc[r] # "idle"
           /\ \/ net' = net /\ ~(pc'[r] = "idle" /\ out'[r] = "chunk")
              \/ net = "chunk" /\ net' = "pending" /\ pc'[r] = "idle" /\ out'[r] = "chunk"
           /\ pc'[r] = "idle" /\ out'[r] = "end" => net' = "end"
<1>0. /\ \A t \in Readers \cup Closers : t \in DOMAIN pc
      /\ DOMAIN pc = LSP!Tasks /\ DOMAIN out = Readers /\ r \in LSP!Tasks
      /\ r \in DOMAIN pc /\ r \in DOMAIN out
      /\ net \in {"pending", "chunk", "error", "end"}
    BY DEF LSP!TypeOK, LSP!Tasks
<1>1. CASE LS!ReadLock(r)
    BY <1>0, <1>1 DEF LS!ReadLock, LS!Goto
<1>2. CASE LS!ReadCheck(r)
    BY <1>0, <1>2 DEF LS!ReadCheck, LS!Goto, LS!Return
<1>3. CASE LS!ReadPoll(r)
    BY <1>0, <1>3 DEF LS!ReadPoll, LS!Goto, LS!Return
<1>4. CASE LS!ReadData(r)
    BY <1>0, <1>4 DEF LS!ReadData, LS!Goto, LS!Return
<1>5. CASE LS!ReadWake(r)
    BY <1>0, <1>5 DEF LS!ReadWake, LS!Goto
<1> QED
    BY <1>1, <1>2, <1>3, <1>4, <1>5 DEF LS!ReadStep

\* The beginning of next_chunk.
LEMMA BeginEffect ==
    ASSUME NEW r \in Readers, LS!ReadBegin(r), LSP!TypeOK
    PROVE  /\ UNCHANGED <<stream, closed, net, sent>>
           /\ pc[r] = "idle" /\ pc'[r] = "lock"
           /\ \A t \in Readers \cup Closers : t # r => pc'[t] = pc[t]
           /\ \A t \in Readers : t # r => out'[t] = out[t]
BY DEF LS!ReadBegin, LS!Goto, LSP!TypeOK, LSP!Tasks

\* The steps of a close.
LEMMA CloseEffect ==
    ASSUME NEW c \in Closers, LSP!TypeOK
    PROVE  /\ LS!CloseBegin(c) =>
                 /\ UNCHANGED <<stream, closed, net, sent, out>>
                 /\ pc'[c] = "mark"
                 /\ \A t \in Readers \cup Closers : t # c => pc'[t] = pc[t]
           /\ LS!CloseStep(c) =>
                 /\ UNCHANGED <<stream, net, sent, out>>
                 /\ closed => closed'
                 /\ pc'[c] \in {"notify", "drop"}
                 /\ \A t \in Readers \cup Closers : t # c => pc'[t] = pc[t]
           /\ LS!CloseDrop(c) =>
                 /\ UNCHANGED <<closed, net, sent, out>>
                 /\ stream' = "none"
                 /\ pc'[c] = "done"
                 /\ \A t \in Readers \cup Closers : t # c => pc'[t] = pc[t]
<1>0. c \in DOMAIN pc /\ DOMAIN pc = Readers \cup Closers
    BY DEF LSP!TypeOK, LSP!Tasks
<1>1. LS!CloseMark(c) \/ LS!CloseNotify(c) =>
                 /\ UNCHANGED <<stream, net, sent, out>>
                 /\ closed => closed'
                 /\ pc'[c] \in {"notify", "drop"}
                 /\ \A t \in Readers \cup Closers : t # c => pc'[t] = pc[t]
    BY <1>0 DEF LS!CloseMark, LS!CloseNotify, LS!Goto
<1> QED
    BY <1>0, <1>1 DEF LS!CloseBegin, LS!CloseStep, LS!CloseDrop, LS!Goto

\* A cancellation in the live stream takes effect only inside a call.
LEMMA CancelEffect ==
    ASSUME NEW t \in Readers \cup Closers, LS!Cancel(t), LSP!TypeOK
    PROVE  /\ UNCHANGED <<stream, closed, net, sent, out>>
           /\ pc[t] # "idle"
           /\ pc'[t] = IF t \in Closers THEN "cancelled" ELSE "idle"
           /\ \A o \in Readers \cup Closers : o # t => pc'[o] = pc[o]
<1>0. t \in DOMAIN pc /\ DOMAIN pc = Readers \cup Closers
    BY DEF LSP!TypeOK, LSP!Tasks
<1> QED
    BY <1>0 DEF LS!Cancel, LS!Goto

\* The answer of the server.
LEMMA NetworkEffect ==
    ASSUME LS!Network
    PROVE  /\ UNCHANGED <<stream, closed, pc, out>>
           /\ net = "pending"
           /\ \/ net' = "chunk" /\ sent' = sent + 1 /\ sent < MaxChunks
              \/ net' \in {"error", "end"} /\ sent' = sent
BY DEF LS!Network

-----------------------------------------------------------------------------
(* The invariant is preserved                                              *)

\* A task is of one kind.
LEMMA Kinds ==
    /\ \A r \in Readers : r \in Users /\ r \notin Closers /\ r \notin Areaders
    /\ \A c \in Closers : c \in Users /\ c \notin Readers /\ c \notin Areaders
    /\ \A a \in Areaders : a \in Users /\ a \notin Readers /\ a \notin Closers
    /\ \A u \in Users : u # NoTask /\ u \in Readers \cup Closers \cup Areaders
    /\ Exit \in Closers
BY StreamResponseAssumption DEF Users

LEMMA VarTypesStep == IInv /\ [Next]_vars => VarTypes'
<1> SUFFICES ASSUME IInv, [Next]_vars PROVE VarTypes'
    OBVIOUS
<1>a. LSP!TypeOK
    BY DEF IInv, LSP!IInv
<1>b. closed \in BOOLEAN /\ out \in [Readers -> LSP!Outcomes]
    BY <1>a DEF LSP!TypeOK
<1> USE StreamResponseAssumption, <1>a, <1>b, Kinds DEF IInv, StepsInv, VarTypes, Bodies, AnextSteps, Results
<1>1. CASE UNCHANGED vars
    BY <1>1 DEF vars, liveVars, iterVars, respVars
<1>2. CASE EnterBegin
    BY <1>2 DEF EnterBegin, liveVars, iterVars, respVars
<1>3. CASE EnterDone
    BY <1>3 DEF EnterDone, liveVars, iterVars, respVars
<1>4. CASE EnterFails
    BY <1>4 DEF EnterFails, liveVars, iterVars, respVars
<1>5. CASE DropContext
    BY <1>5 DEF DropContext, liveVars, iterVars, respVars
<1>6. CASE StartStream
    BY <1>6 DEF StartStream, liveVars, iterVars, respVars
<1>7. ASSUME NEW r \in Readers, AnextBegin(r) PROVE VarTypes'
    BY <1>7 DEF AnextBegin, Goto, liveVars, iterVars, respVars
<1>8. ASSUME NEW r \in Readers, AnextLock(r) PROVE VarTypes'
    BY <1>8 DEF AnextLock, Goto, liveVars, iterVars, respVars
<1>9. ASSUME NEW r \in Readers, AnextTop(r) PROVE VarTypes'
    BY <1>9 DEF AnextTop, Goto, Finish, Delivered, liveVars, iterVars, respVars
<1>10. ASSUME NEW r \in Readers, AnextServe(r) PROVE VarTypes'
    BY <1>10, BeginEffect DEF AnextServe, Goto, Finish, Delivered, liveVars, iterVars, respVars
<1>11. ASSUME NEW r \in Readers, AnextFeed(r) PROVE VarTypes'
    <2>1. CASE out[r] = "chunk"
        <3>1. buf' = buf + Width /\ rpc' = [rpc EXCEPT ![r] = "top"]
              /\ UNCHANGED <<ilock, finished, ret, served, lost, late, ctx, body, started, kept>>
            BY <1>11, <2>1 DEF AnextFeed, Goto, liveVars, respVars
        <3> QED
            BY <3>1
    <2>3. CASE out[r] = "end"
        BY <1>11, <2>3 DEF AnextFeed, Goto, liveVars, respVars
    <2>2. CASE out[r] \in {"error", "closed"}
        BY <1>11, <2>2 DEF AnextFeed, Finish, Delivered, liveVars, respVars
    <2> QED
        BY <1>11, <2>1, <2>2, <2>3 DEF AnextFeed
<1>12. ASSUME NEW r \in Readers, AnextInner(r) PROVE VarTypes'
    BY <1>12, ReadEffect DEF AnextInner, liveVars, iterVars, respVars
<1>13. ASSUME NEW r \in Readers, AnextInnerLock(r) PROVE VarTypes'
    BY <1>13, ReadEffect DEF AnextInnerLock, liveVars, iterVars, respVars
<1>14. ASSUME NEW a \in Areaders, AreadTake(a) PROVE VarTypes'
    BY <1>14 DEF AreadTake, Goto, ReturnNow, liveVars, iterVars, respVars
<1>15. ASSUME NEW a \in Areaders, AreadChunk(a) PROVE VarTypes'
    BY <1>15 DEF AreadChunk, liveVars, iterVars, respVars
<1>16. ASSUME NEW a \in Areaders, AreadEnds(a) PROVE VarTypes'
    BY <1>16 DEF AreadEnds, Goto, Finish, Delivered, liveVars, iterVars, respVars
<1>17. ASSUME NEW a \in Areaders, AreadStore(a) PROVE VarTypes'
    BY <1>17 DEF AreadStore, Finish, Delivered, liveVars, iterVars, respVars
<1>18. ASSUME NEW c \in Closers, Aclose(c) PROVE VarTypes'
    BY <1>18, CloseEffect DEF Aclose, TakeBody, Goto, liveVars, iterVars, respVars
<1>19. ASSUME NEW c \in Closers, Aexit(c) PROVE VarTypes'
    BY <1>19, CloseEffect DEF Aexit, TakeBody, Goto, liveVars, iterVars, respVars
<1>20. ASSUME NEW c \in Closers, CloseInner(c) PROVE VarTypes'
    BY <1>20, CloseEffect DEF CloseInner, liveVars, iterVars, respVars
<1>21. ASSUME NEW c \in Closers, CloseReturn(c) PROVE VarTypes'
    BY <1>21, CloseEffect DEF CloseReturn, Goto, liveVars, iterVars, respVars
<1>22. ASSUME NEW u \in Users, Cancel(u) PROVE VarTypes'
    BY <1>22, CancelEffect DEF Cancel, Goto, liveVars, iterVars, respVars
<1>23. CASE Network
    BY <1>23, NetworkEffect DEF Network, Held, liveVars, iterVars, respVars
<1> QED
    BY <1>1, <1>2, <1>3, <1>4, <1>5, <1>6, <1>7, <1>8, <1>9, <1>10, <1>11, <1>12, <1>13,
        <1>14, <1>15, <1>16, <1>17, <1>18, <1>19, <1>20, <1>21, <1>22, <1>23
    DEF Next, AnextStep, AreadStep

LEMMA ReaderStepsStep == IInv /\ [Next]_vars => ReaderSteps'
<1> SUFFICES ASSUME IInv, [Next]_vars PROVE ReaderSteps'
    OBVIOUS
<1>a. LSP!TypeOK
    BY DEF IInv, LSP!IInv
<1> USE <1>a, Kinds DEF IInv, StepsInv, VarTypes, ReaderSteps, CloserSteps, AreaderSteps, AnextSteps
<1>1. CASE UNCHANGED vars
    BY <1>1 DEF vars, liveVars, iterVars, respVars
<1>2. CASE EnterBegin
    BY <1>2 DEF EnterBegin, liveVars, iterVars, respVars
<1>3. CASE EnterDone
    BY <1>3 DEF EnterDone, liveVars, iterVars, respVars
<1>4. CASE EnterFails
    BY <1>4 DEF EnterFails, liveVars, iterVars, respVars
<1>5. CASE DropContext
    BY <1>5 DEF DropContext, liveVars, iterVars, respVars
<1>6. CASE StartStream
    BY <1>6 DEF StartStream, liveVars, iterVars, respVars
<1>7. ASSUME NEW r \in Readers, AnextBegin(r) PROVE ReaderSteps'
    BY <1>7 DEF AnextBegin, Goto, liveVars, iterVars, respVars
<1>8. ASSUME NEW r \in Readers, AnextLock(r) PROVE ReaderSteps'
    BY <1>8 DEF AnextLock, Goto, liveVars, iterVars, respVars
<1>9. ASSUME NEW r \in Readers, AnextTop(r) PROVE ReaderSteps'
    BY <1>9 DEF AnextTop, Goto, Finish, Delivered, liveVars, iterVars, respVars
<1>10. ASSUME NEW r \in Readers, AnextServe(r) PROVE ReaderSteps'
    BY <1>10, BeginEffect DEF AnextServe, Goto, Finish, Delivered, liveVars, iterVars, respVars
<1>11. ASSUME NEW r \in Readers, AnextFeed(r) PROVE ReaderSteps'
    BY <1>11 DEF AnextFeed, Goto, Finish, Delivered, liveVars, iterVars, respVars
<1>12. ASSUME NEW r \in Readers, AnextInner(r) PROVE ReaderSteps'
    BY <1>12, ReadEffect DEF AnextInner, liveVars, iterVars, respVars
<1>13. ASSUME NEW r \in Readers, AnextInnerLock(r) PROVE ReaderSteps'
    BY <1>13, ReadEffect DEF AnextInnerLock, liveVars, iterVars, respVars
<1>14. ASSUME NEW a \in Areaders, AreadTake(a) PROVE ReaderSteps'
    BY <1>14 DEF AreadTake, Goto, ReturnNow, liveVars, iterVars, respVars
<1>15. ASSUME NEW a \in Areaders, AreadChunk(a) PROVE ReaderSteps'
    BY <1>15 DEF AreadChunk, liveVars, iterVars, respVars
<1>16. ASSUME NEW a \in Areaders, AreadEnds(a) PROVE ReaderSteps'
    BY <1>16 DEF AreadEnds, Goto, Finish, Delivered, liveVars, iterVars, respVars
<1>17. ASSUME NEW a \in Areaders, AreadStore(a) PROVE ReaderSteps'
    BY <1>17 DEF AreadStore, Finish, Delivered, liveVars, iterVars, respVars
<1>18. ASSUME NEW c \in Closers, Aclose(c) PROVE ReaderSteps'
    BY <1>18, CloseEffect DEF Aclose, TakeBody, Goto, liveVars, iterVars, respVars
<1>19. ASSUME NEW c \in Closers, Aexit(c) PROVE ReaderSteps'
    BY <1>19, CloseEffect DEF Aexit, TakeBody, Goto, liveVars, iterVars, respVars
<1>20. ASSUME NEW c \in Closers, CloseInner(c) PROVE ReaderSteps'
    BY <1>20, CloseEffect DEF CloseInner, liveVars, iterVars, respVars
<1>21. ASSUME NEW c \in Closers, CloseReturn(c) PROVE ReaderSteps'
    BY <1>21, CloseEffect DEF CloseReturn, Goto, liveVars, iterVars, respVars
<1>22. ASSUME NEW u \in Users, Cancel(u) PROVE ReaderSteps'
    BY <1>22, CancelEffect DEF Cancel, Goto, liveVars, iterVars, respVars
<1>23. CASE Network
    BY <1>23, NetworkEffect DEF Network, Held, liveVars, iterVars, respVars
<1> QED
    BY <1>1, <1>2, <1>3, <1>4, <1>5, <1>6, <1>7, <1>8, <1>9, <1>10, <1>11, <1>12, <1>13,
        <1>14, <1>15, <1>16, <1>17, <1>18, <1>19, <1>20, <1>21, <1>22, <1>23
    DEF Next, AnextStep, AreadStep

LEMMA CloserStepsStep == IInv /\ [Next]_vars => CloserSteps'
<1> SUFFICES ASSUME IInv, [Next]_vars PROVE CloserSteps'
    OBVIOUS
<1>a. LSP!TypeOK
    BY DEF IInv, LSP!IInv
<1> USE <1>a, Kinds DEF IInv, StepsInv, VarTypes, ReaderSteps, CloserSteps, AreaderSteps, ContextInv, BodyInv
<1>1. CASE UNCHANGED vars
    BY <1>1 DEF vars, liveVars, iterVars, respVars
<1>2. CASE EnterBegin
    BY <1>2 DEF EnterBegin, liveVars, iterVars, respVars
<1>3. CASE EnterDone
    BY <1>3 DEF EnterDone, liveVars, iterVars, respVars
<1>4. CASE EnterFails
    BY <1>4 DEF EnterFails, liveVars, iterVars, respVars
<1>5. CASE DropContext
    BY <1>5 DEF DropContext, liveVars, iterVars, respVars
<1>6. CASE StartStream
    BY <1>6 DEF StartStream, liveVars, iterVars, respVars
<1>7. ASSUME NEW r \in Readers, AnextBegin(r) PROVE CloserSteps'
    BY <1>7 DEF AnextBegin, Goto, liveVars, iterVars, respVars
<1>8. ASSUME NEW r \in Readers, AnextLock(r) PROVE CloserSteps'
    BY <1>8 DEF AnextLock, Goto, liveVars, iterVars, respVars
<1>9. ASSUME NEW r \in Readers, AnextTop(r) PROVE CloserSteps'
    BY <1>9 DEF AnextTop, Goto, Finish, Delivered, liveVars, iterVars, respVars
<1>10. ASSUME NEW r \in Readers, AnextServe(r) PROVE CloserSteps'
    BY <1>10, BeginEffect DEF AnextServe, Goto, Finish, Delivered, liveVars, iterVars, respVars
<1>11. ASSUME NEW r \in Readers, AnextFeed(r) PROVE CloserSteps'
    BY <1>11 DEF AnextFeed, Goto, Finish, Delivered, liveVars, iterVars, respVars
<1>12. ASSUME NEW r \in Readers, AnextInner(r) PROVE CloserSteps'
    BY <1>12, ReadEffect DEF AnextInner, liveVars, iterVars, respVars
<1>13. ASSUME NEW r \in Readers, AnextInnerLock(r) PROVE CloserSteps'
    BY <1>13, ReadEffect DEF AnextInnerLock, liveVars, iterVars, respVars
<1>14. ASSUME NEW a \in Areaders, AreadTake(a) PROVE CloserSteps'
    BY <1>14 DEF AreadTake, Goto, ReturnNow, liveVars, iterVars, respVars
<1>15. ASSUME NEW a \in Areaders, AreadChunk(a) PROVE CloserSteps'
    BY <1>15 DEF AreadChunk, liveVars, iterVars, respVars
<1>16. ASSUME NEW a \in Areaders, AreadEnds(a) PROVE CloserSteps'
    BY <1>16 DEF AreadEnds, Goto, Finish, Delivered, liveVars, iterVars, respVars
<1>17. ASSUME NEW a \in Areaders, AreadStore(a) PROVE CloserSteps'
    BY <1>17 DEF AreadStore, Finish, Delivered, liveVars, iterVars, respVars
<1>18. ASSUME NEW c \in Closers, Aclose(c) PROVE CloserSteps'
    BY <1>18, CloseEffect DEF Aclose, TakeBody, Goto, liveVars, iterVars, respVars
<1>19. ASSUME NEW c \in Closers, Aexit(c) PROVE CloserSteps'
    BY <1>19, CloseEffect DEF Aexit, TakeBody, Goto, liveVars, iterVars, respVars
<1>20. ASSUME NEW c \in Closers, CloseInner(c) PROVE CloserSteps'
    BY <1>20, CloseEffect DEF CloseInner, liveVars, iterVars, respVars
<1>21. ASSUME NEW c \in Closers, CloseReturn(c) PROVE CloserSteps'
    BY <1>21, CloseEffect DEF CloseReturn, Goto, liveVars, iterVars, respVars
<1>22. ASSUME NEW u \in Users, Cancel(u) PROVE CloserSteps'
    BY <1>22, CancelEffect DEF Cancel, Goto, liveVars, iterVars, respVars
<1>23. CASE Network
    BY <1>23, NetworkEffect DEF Network, Held, liveVars, iterVars, respVars
<1> QED
    BY <1>1, <1>2, <1>3, <1>4, <1>5, <1>6, <1>7, <1>8, <1>9, <1>10, <1>11, <1>12, <1>13,
        <1>14, <1>15, <1>16, <1>17, <1>18, <1>19, <1>20, <1>21, <1>22, <1>23
    DEF Next, AnextStep, AreadStep

LEMMA AreaderStepsStep == IInv /\ [Next]_vars => AreaderSteps'
<1> SUFFICES ASSUME IInv, [Next]_vars PROVE AreaderSteps'
    OBVIOUS
<1>a. LSP!TypeOK
    BY DEF IInv, LSP!IInv
<1> USE <1>a, Kinds DEF IInv, StepsInv, VarTypes, ReaderSteps, CloserSteps, AreaderSteps, ContextInv, BodyInv
<1>1. CASE UNCHANGED vars
    BY <1>1 DEF vars, liveVars, iterVars, respVars
<1>2. CASE EnterBegin
    BY <1>2 DEF EnterBegin, liveVars, iterVars, respVars
<1>3. CASE EnterDone
    BY <1>3 DEF EnterDone, liveVars, iterVars, respVars
<1>4. CASE EnterFails
    BY <1>4 DEF EnterFails, liveVars, iterVars, respVars
<1>5. CASE DropContext
    BY <1>5 DEF DropContext, liveVars, iterVars, respVars
<1>6. CASE StartStream
    BY <1>6 DEF StartStream, liveVars, iterVars, respVars
<1>7. ASSUME NEW r \in Readers, AnextBegin(r) PROVE AreaderSteps'
    BY <1>7 DEF AnextBegin, Goto, liveVars, iterVars, respVars
<1>8. ASSUME NEW r \in Readers, AnextLock(r) PROVE AreaderSteps'
    BY <1>8 DEF AnextLock, Goto, liveVars, iterVars, respVars
<1>9. ASSUME NEW r \in Readers, AnextTop(r) PROVE AreaderSteps'
    BY <1>9 DEF AnextTop, Goto, Finish, Delivered, liveVars, iterVars, respVars
<1>10. ASSUME NEW r \in Readers, AnextServe(r) PROVE AreaderSteps'
    BY <1>10, BeginEffect DEF AnextServe, Goto, Finish, Delivered, liveVars, iterVars, respVars
<1>11. ASSUME NEW r \in Readers, AnextFeed(r) PROVE AreaderSteps'
    BY <1>11 DEF AnextFeed, Goto, Finish, Delivered, liveVars, iterVars, respVars
<1>12. ASSUME NEW r \in Readers, AnextInner(r) PROVE AreaderSteps'
    BY <1>12, ReadEffect DEF AnextInner, liveVars, iterVars, respVars
<1>13. ASSUME NEW r \in Readers, AnextInnerLock(r) PROVE AreaderSteps'
    BY <1>13, ReadEffect DEF AnextInnerLock, liveVars, iterVars, respVars
<1>14. ASSUME NEW a \in Areaders, AreadTake(a) PROVE AreaderSteps'
    BY <1>14 DEF AreadTake, Goto, ReturnNow, liveVars, iterVars, respVars
<1>15. ASSUME NEW a \in Areaders, AreadChunk(a) PROVE AreaderSteps'
    BY <1>15 DEF AreadChunk, liveVars, iterVars, respVars
<1>16. ASSUME NEW a \in Areaders, AreadEnds(a) PROVE AreaderSteps'
    BY <1>16 DEF AreadEnds, Goto, Finish, Delivered, liveVars, iterVars, respVars
<1>17. ASSUME NEW a \in Areaders, AreadStore(a) PROVE AreaderSteps'
    BY <1>17 DEF AreadStore, Finish, Delivered, liveVars, iterVars, respVars
<1>18. ASSUME NEW c \in Closers, Aclose(c) PROVE AreaderSteps'
    BY <1>18, CloseEffect DEF Aclose, TakeBody, Goto, liveVars, iterVars, respVars
<1>19. ASSUME NEW c \in Closers, Aexit(c) PROVE AreaderSteps'
    BY <1>19, CloseEffect DEF Aexit, TakeBody, Goto, liveVars, iterVars, respVars
<1>20. ASSUME NEW c \in Closers, CloseInner(c) PROVE AreaderSteps'
    BY <1>20, CloseEffect DEF CloseInner, liveVars, iterVars, respVars
<1>21. ASSUME NEW c \in Closers, CloseReturn(c) PROVE AreaderSteps'
    BY <1>21, CloseEffect DEF CloseReturn, Goto, liveVars, iterVars, respVars
<1>22. ASSUME NEW u \in Users, Cancel(u) PROVE AreaderSteps'
    BY <1>22, CancelEffect DEF Cancel, Goto, liveVars, iterVars, respVars
<1>23. CASE Network
    BY <1>23, NetworkEffect DEF Network, Held, liveVars, iterVars, respVars
<1> QED
    BY <1>1, <1>2, <1>3, <1>4, <1>5, <1>6, <1>7, <1>8, <1>9, <1>10, <1>11, <1>12, <1>13,
        <1>14, <1>15, <1>16, <1>17, <1>18, <1>19, <1>20, <1>21, <1>22, <1>23
    DEF Next, AnextStep, AreadStep

LEMMA ContextStep == IInv /\ [Next]_vars => ContextInv'
<1> SUFFICES ASSUME IInv, [Next]_vars PROVE ContextInv'
    OBVIOUS
<1>a. LSP!TypeOK
    BY DEF IInv, LSP!IInv
<1> USE <1>a, Kinds DEF IInv, StepsInv, VarTypes, ReaderSteps, CloserSteps, AreaderSteps, ContextInv
<1>1. CASE UNCHANGED vars
    BY <1>1 DEF vars, liveVars, iterVars, respVars
<1>2. CASE EnterBegin
    BY <1>2 DEF EnterBegin, liveVars, iterVars, respVars
<1>3. CASE EnterDone
    BY <1>3 DEF EnterDone, liveVars, iterVars, respVars
<1>4. CASE EnterFails
    BY <1>4 DEF EnterFails, liveVars, iterVars, respVars
<1>5. CASE DropContext
    BY <1>5 DEF DropContext, liveVars, iterVars, respVars
<1>6. CASE StartStream
    BY <1>6 DEF StartStream, liveVars, iterVars, respVars
<1>7. ASSUME NEW r \in Readers, AnextBegin(r) PROVE ContextInv'
    BY <1>7 DEF AnextBegin, Goto, liveVars, iterVars, respVars
<1>8. ASSUME NEW r \in Readers, AnextLock(r) PROVE ContextInv'
    BY <1>8 DEF AnextLock, Goto, liveVars, iterVars, respVars
<1>9. ASSUME NEW r \in Readers, AnextTop(r) PROVE ContextInv'
    BY <1>9 DEF AnextTop, Goto, Finish, Delivered, liveVars, iterVars, respVars
<1>10. ASSUME NEW r \in Readers, AnextServe(r) PROVE ContextInv'
    BY <1>10, BeginEffect DEF AnextServe, Goto, Finish, Delivered, liveVars, iterVars, respVars
<1>11. ASSUME NEW r \in Readers, AnextFeed(r) PROVE ContextInv'
    BY <1>11 DEF AnextFeed, Goto, Finish, Delivered, liveVars, iterVars, respVars
<1>12. ASSUME NEW r \in Readers, AnextInner(r) PROVE ContextInv'
    BY <1>12, ReadEffect DEF AnextInner, liveVars, iterVars, respVars
<1>13. ASSUME NEW r \in Readers, AnextInnerLock(r) PROVE ContextInv'
    BY <1>13, ReadEffect DEF AnextInnerLock, liveVars, iterVars, respVars
<1>14. ASSUME NEW a \in Areaders, AreadTake(a) PROVE ContextInv'
    BY <1>14 DEF AreadTake, Goto, ReturnNow, liveVars, iterVars, respVars
<1>15. ASSUME NEW a \in Areaders, AreadChunk(a) PROVE ContextInv'
    BY <1>15 DEF AreadChunk, liveVars, iterVars, respVars
<1>16. ASSUME NEW a \in Areaders, AreadEnds(a) PROVE ContextInv'
    BY <1>16 DEF AreadEnds, Goto, Finish, Delivered, liveVars, iterVars, respVars
<1>17. ASSUME NEW a \in Areaders, AreadStore(a) PROVE ContextInv'
    BY <1>17 DEF AreadStore, Finish, Delivered, liveVars, iterVars, respVars
<1>18. ASSUME NEW c \in Closers, Aclose(c) PROVE ContextInv'
    BY <1>18, CloseEffect DEF Aclose, TakeBody, Goto, liveVars, iterVars, respVars
<1>19. ASSUME NEW c \in Closers, Aexit(c) PROVE ContextInv'
    BY <1>19, CloseEffect DEF Aexit, TakeBody, Goto, liveVars, iterVars, respVars
<1>20. ASSUME NEW c \in Closers, CloseInner(c) PROVE ContextInv'
    BY <1>20, CloseEffect DEF CloseInner, liveVars, iterVars, respVars
<1>21. ASSUME NEW c \in Closers, CloseReturn(c) PROVE ContextInv'
    BY <1>21, CloseEffect DEF CloseReturn, Goto, liveVars, iterVars, respVars
<1>22. ASSUME NEW u \in Users, Cancel(u) PROVE ContextInv'
    BY <1>22, CancelEffect DEF Cancel, Goto, liveVars, iterVars, respVars
<1>23. CASE Network
    BY <1>23, NetworkEffect DEF Network, Held, liveVars, iterVars, respVars
<1> QED
    BY <1>1, <1>2, <1>3, <1>4, <1>5, <1>6, <1>7, <1>8, <1>9, <1>10, <1>11, <1>12, <1>13,
        <1>14, <1>15, <1>16, <1>17, <1>18, <1>19, <1>20, <1>21, <1>22, <1>23
    DEF Next, AnextStep, AreadStep

LEMMA BodyStep == IInv /\ [Next]_vars => BodyInv'
<1> SUFFICES ASSUME IInv, [Next]_vars PROVE BodyInv'
    OBVIOUS
<1>a. LSP!TypeOK
    BY DEF IInv, LSP!IInv
<1> USE <1>a, Kinds DEF IInv, StepsInv, VarTypes, ReaderSteps, CloserSteps, AreaderSteps, ContextInv, BodyInv, Bodies
<1>1. CASE UNCHANGED vars
    BY <1>1 DEF vars, liveVars, iterVars, respVars
<1>2. CASE EnterBegin
    BY <1>2 DEF EnterBegin, liveVars, iterVars, respVars
<1>3. CASE EnterDone
    BY <1>3 DEF EnterDone, liveVars, iterVars, respVars
<1>4. CASE EnterFails
    BY <1>4 DEF EnterFails, liveVars, iterVars, respVars
<1>5. CASE DropContext
    BY <1>5 DEF DropContext, liveVars, iterVars, respVars
<1>6. CASE StartStream
    BY <1>6 DEF StartStream, liveVars, iterVars, respVars
<1>7. ASSUME NEW r \in Readers, AnextBegin(r) PROVE BodyInv'
    BY <1>7 DEF AnextBegin, Goto, liveVars, iterVars, respVars
<1>8. ASSUME NEW r \in Readers, AnextLock(r) PROVE BodyInv'
    BY <1>8 DEF AnextLock, Goto, liveVars, iterVars, respVars
<1>9. ASSUME NEW r \in Readers, AnextTop(r) PROVE BodyInv'
    BY <1>9 DEF AnextTop, Goto, Finish, Delivered, liveVars, iterVars, respVars
<1>10. ASSUME NEW r \in Readers, AnextServe(r) PROVE BodyInv'
    BY <1>10, BeginEffect DEF AnextServe, Goto, Finish, Delivered, liveVars, iterVars, respVars
<1>11. ASSUME NEW r \in Readers, AnextFeed(r) PROVE BodyInv'
    BY <1>11 DEF AnextFeed, Goto, Finish, Delivered, liveVars, iterVars, respVars
<1>12. ASSUME NEW r \in Readers, AnextInner(r) PROVE BodyInv'
    BY <1>12, ReadEffect DEF AnextInner, liveVars, iterVars, respVars
<1>13. ASSUME NEW r \in Readers, AnextInnerLock(r) PROVE BodyInv'
    BY <1>13, ReadEffect DEF AnextInnerLock, liveVars, iterVars, respVars
<1>14. ASSUME NEW a \in Areaders, AreadTake(a) PROVE BodyInv'
    BY <1>14 DEF AreadTake, Goto, ReturnNow, liveVars, iterVars, respVars
<1>15. ASSUME NEW a \in Areaders, AreadChunk(a) PROVE BodyInv'
    BY <1>15 DEF AreadChunk, liveVars, iterVars, respVars
<1>16. ASSUME NEW a \in Areaders, AreadEnds(a) PROVE BodyInv'
    BY <1>16 DEF AreadEnds, Goto, Finish, Delivered, liveVars, iterVars, respVars
<1>17. ASSUME NEW a \in Areaders, AreadStore(a) PROVE BodyInv'
    BY <1>17 DEF AreadStore, Finish, Delivered, liveVars, iterVars, respVars
<1>18. ASSUME NEW c \in Closers, Aclose(c) PROVE BodyInv'
    BY <1>18, CloseEffect DEF Aclose, TakeBody, Goto, liveVars, iterVars, respVars
<1>19. ASSUME NEW c \in Closers, Aexit(c) PROVE BodyInv'
    BY <1>19, CloseEffect DEF Aexit, TakeBody, Goto, liveVars, iterVars, respVars
<1>20. ASSUME NEW c \in Closers, CloseInner(c) PROVE BodyInv'
    BY <1>20, CloseEffect DEF CloseInner, liveVars, iterVars, respVars
<1>21. ASSUME NEW c \in Closers, CloseReturn(c) PROVE BodyInv'
    BY <1>21, CloseEffect DEF CloseReturn, Goto, liveVars, iterVars, respVars
<1>22. ASSUME NEW u \in Users, Cancel(u) PROVE BodyInv'
    BY <1>22, CancelEffect DEF Cancel, Goto, liveVars, iterVars, respVars
<1>23. CASE Network
    BY <1>23, NetworkEffect DEF Network, Held, liveVars, iterVars, respVars
<1> QED
    BY <1>1, <1>2, <1>3, <1>4, <1>5, <1>6, <1>7, <1>8, <1>9, <1>10, <1>11, <1>12, <1>13,
        <1>14, <1>15, <1>16, <1>17, <1>18, <1>19, <1>20, <1>21, <1>22, <1>23
    DEF Next, AnextStep, AreadStep

LEMMA ReleaseStep == IInv /\ [Next]_vars => ReleaseInv'
<1> SUFFICES ASSUME IInv, [Next]_vars PROVE ReleaseInv'
    OBVIOUS
<1>a. LSP!TypeOK
    BY DEF IInv, LSP!IInv
<1> USE <1>a, Kinds DEF IInv, StepsInv, VarTypes, CloserSteps, AreaderSteps, ContextInv, BodyInv, ReleaseInv
<1>1. CASE UNCHANGED vars
    BY <1>1 DEF vars, liveVars, iterVars, respVars
<1>2. CASE EnterBegin
    BY <1>2 DEF EnterBegin, liveVars, iterVars, respVars
<1>3. CASE EnterDone
    BY <1>3 DEF EnterDone, liveVars, iterVars, respVars
<1>4. CASE EnterFails
    BY <1>4 DEF EnterFails, liveVars, iterVars, respVars
<1>5. CASE DropContext
    BY <1>5 DEF DropContext, liveVars, iterVars, respVars
<1>6. CASE StartStream
    BY <1>6 DEF StartStream, liveVars, iterVars, respVars
<1>7. ASSUME NEW r \in Readers, AnextBegin(r) PROVE ReleaseInv'
    BY <1>7 DEF AnextBegin, Goto, liveVars, iterVars, respVars
<1>8. ASSUME NEW r \in Readers, AnextLock(r) PROVE ReleaseInv'
    BY <1>8 DEF AnextLock, Goto, liveVars, iterVars, respVars
<1>9. ASSUME NEW r \in Readers, AnextTop(r) PROVE ReleaseInv'
    BY <1>9 DEF AnextTop, Goto, Finish, Delivered, liveVars, iterVars, respVars
<1>10. ASSUME NEW r \in Readers, AnextServe(r) PROVE ReleaseInv'
    BY <1>10, BeginEffect DEF AnextServe, Goto, Finish, Delivered, liveVars, iterVars, respVars
<1>11. ASSUME NEW r \in Readers, AnextFeed(r) PROVE ReleaseInv'
    BY <1>11 DEF AnextFeed, Goto, Finish, Delivered, liveVars, iterVars, respVars
<1>12. ASSUME NEW r \in Readers, AnextInner(r) PROVE ReleaseInv'
    BY <1>12, ReadEffect DEF AnextInner, liveVars, iterVars, respVars
<1>13. ASSUME NEW r \in Readers, AnextInnerLock(r) PROVE ReleaseInv'
    BY <1>13, ReadEffect DEF AnextInnerLock, liveVars, iterVars, respVars
<1>14. ASSUME NEW a \in Areaders, AreadTake(a) PROVE ReleaseInv'
    BY <1>14 DEF AreadTake, Goto, ReturnNow, liveVars, iterVars, respVars
<1>15. ASSUME NEW a \in Areaders, AreadChunk(a) PROVE ReleaseInv'
    BY <1>15 DEF AreadChunk, liveVars, iterVars, respVars
<1>16. ASSUME NEW a \in Areaders, AreadEnds(a) PROVE ReleaseInv'
    BY <1>16 DEF AreadEnds, Goto, Finish, Delivered, liveVars, iterVars, respVars
<1>17. ASSUME NEW a \in Areaders, AreadStore(a) PROVE ReleaseInv'
    BY <1>17 DEF AreadStore, Finish, Delivered, liveVars, iterVars, respVars
<1>18. ASSUME NEW c \in Closers, Aclose(c) PROVE ReleaseInv'
    BY <1>18, CloseEffect DEF Aclose, TakeBody, Goto, liveVars, iterVars, respVars
<1>19. ASSUME NEW c \in Closers, Aexit(c) PROVE ReleaseInv'
    BY <1>19, CloseEffect DEF Aexit, TakeBody, Goto, liveVars, iterVars, respVars
<1>20. ASSUME NEW c \in Closers, CloseInner(c) PROVE ReleaseInv'
    BY <1>20, CloseEffect DEF CloseInner, liveVars, iterVars, respVars
<1>21. ASSUME NEW c \in Closers, CloseReturn(c) PROVE ReleaseInv'
    BY <1>21, CloseEffect DEF CloseReturn, Goto, liveVars, iterVars, respVars
<1>22. ASSUME NEW u \in Users, Cancel(u) PROVE ReleaseInv'
    <2>1. CASE rpc[u] = "ilock"
        <3>1. u \in Readers /\ rpc' = [rpc EXCEPT ![u] = "idle"]
            BY <1>22, <2>1 DEF Cancel, Goto, ReaderSteps, CloserSteps, AreaderSteps, AnextSteps
        <3> QED
            BY <1>22, <2>1, <3>1 DEF Cancel, liveVars, iterVars, respVars
    <2>2. CASE rpc[u] = "inner"
        <3>1. u \in Readers /\ rpc' = [rpc EXCEPT ![u] = "idle"]
            BY <1>22, <2>2 DEF Cancel, Goto, ReaderSteps, CloserSteps, AreaderSteps, AnextSteps
        <3> QED
            BY <1>22, <2>2, <3>1, CancelEffect DEF Cancel, liveVars, iterVars, respVars
    <2>3. CASE rpc[u] = "closing"
        <3>1. u \in Closers /\ rpc' = [rpc EXCEPT ![u] = "cancelled"]
            BY <1>22, <2>3 DEF Cancel, Goto, ReaderSteps, CloserSteps, AreaderSteps, AnextSteps
        <3> QED
            BY <1>22, <2>3, <3>1, CancelEffect DEF Cancel, liveVars, iterVars, respVars
    <2>4. CASE rpc[u] = "reading"
        <3>1. u \in Areaders /\ rpc' = [rpc EXCEPT ![u] = "idle"]
            BY <1>22, <2>4 DEF Cancel, Goto, ReaderSteps, CloserSteps, AreaderSteps, AnextSteps
        <3> QED
            BY <1>22, <2>4, <3>1 DEF Cancel, liveVars, iterVars, respVars
    <2> QED
        BY <1>22, <2>1, <2>2, <2>3, <2>4 DEF Cancel
<1>23. CASE Network
    BY <1>23, NetworkEffect DEF Network, Held, liveVars, iterVars, respVars
<1> QED
    BY <1>1, <1>2, <1>3, <1>4, <1>5, <1>6, <1>7, <1>8, <1>9, <1>10, <1>11, <1>12, <1>13,
        <1>14, <1>15, <1>16, <1>17, <1>18, <1>19, <1>20, <1>21, <1>22, <1>23
    DEF Next, AnextStep, AreadStep

LEMMA KeptStep == IInv /\ [Next]_vars => KeptInv'
<1> SUFFICES ASSUME IInv, [Next]_vars PROVE KeptInv'
    OBVIOUS
<1>a. LSP!TypeOK
    BY DEF IInv, LSP!IInv
<1>b. sent \in Nat /\ MaxChunks \in Nat /\ net \in {"pending", "chunk", "error", "end"}
    BY <1>a, StreamResponseAssumption DEF LSP!TypeOK
<1> USE <1>a, <1>b, Kinds DEF IInv, StepsInv, VarTypes, ReaderSteps, AreaderSteps, ContextInv, BodyInv, KeptInv, Ready
<1>1. CASE UNCHANGED vars
    BY <1>1 DEF vars, liveVars, iterVars, respVars
<1>2. CASE EnterBegin
    BY <1>2 DEF EnterBegin, liveVars, iterVars, respVars
<1>3. CASE EnterDone
    BY <1>3 DEF EnterDone, liveVars, iterVars, respVars
<1>4. CASE EnterFails
    BY <1>4 DEF EnterFails, liveVars, iterVars, respVars
<1>5. CASE DropContext
    BY <1>5 DEF DropContext, liveVars, iterVars, respVars
<1>6. CASE StartStream
    BY <1>6 DEF StartStream, liveVars, iterVars, respVars
<1>7. ASSUME NEW r \in Readers, AnextBegin(r) PROVE KeptInv'
    BY <1>7 DEF AnextBegin, Goto, liveVars, iterVars, respVars
<1>8. ASSUME NEW r \in Readers, AnextLock(r) PROVE KeptInv'
    BY <1>8 DEF AnextLock, Goto, liveVars, iterVars, respVars
<1>9. ASSUME NEW r \in Readers, AnextTop(r) PROVE KeptInv'
    BY <1>9 DEF AnextTop, Goto, Finish, Delivered, liveVars, iterVars, respVars
<1>10. ASSUME NEW r \in Readers, AnextServe(r) PROVE KeptInv'
    BY <1>10, BeginEffect DEF AnextServe, Goto, Finish, Delivered, liveVars, iterVars, respVars
<1>11. ASSUME NEW r \in Readers, AnextFeed(r) PROVE KeptInv'
    BY <1>11 DEF AnextFeed, Goto, Finish, Delivered, liveVars, iterVars, respVars
<1>12. ASSUME NEW r \in Readers, AnextInner(r) PROVE KeptInv'
    BY <1>12, ReadEffect DEF AnextInner, liveVars, iterVars, respVars
<1>13. ASSUME NEW r \in Readers, AnextInnerLock(r) PROVE KeptInv'
    BY <1>13, ReadEffect DEF AnextInnerLock, liveVars, iterVars, respVars
<1>14. ASSUME NEW a \in Areaders, AreadTake(a) PROVE KeptInv'
    BY <1>14 DEF AreadTake, Goto, ReturnNow, liveVars, iterVars, respVars
<1>15. ASSUME NEW a \in Areaders, AreadChunk(a) PROVE KeptInv'
    BY <1>15 DEF AreadChunk, liveVars, iterVars, respVars
<1>16. ASSUME NEW a \in Areaders, AreadEnds(a) PROVE KeptInv'
    BY <1>16 DEF AreadEnds, Goto, Finish, Delivered, liveVars, iterVars, respVars
<1>17. ASSUME NEW a \in Areaders, AreadStore(a) PROVE KeptInv'
    BY <1>17 DEF AreadStore, Finish, Delivered, liveVars, iterVars, respVars
<1>18. ASSUME NEW c \in Closers, Aclose(c) PROVE KeptInv'
    BY <1>18, CloseEffect DEF Aclose, TakeBody, Goto, liveVars, iterVars, respVars
<1>19. ASSUME NEW c \in Closers, Aexit(c) PROVE KeptInv'
    BY <1>19, CloseEffect DEF Aexit, TakeBody, Goto, liveVars, iterVars, respVars
<1>20. ASSUME NEW c \in Closers, CloseInner(c) PROVE KeptInv'
    BY <1>20, CloseEffect DEF CloseInner, liveVars, iterVars, respVars
<1>21. ASSUME NEW c \in Closers, CloseReturn(c) PROVE KeptInv'
    BY <1>21, CloseEffect DEF CloseReturn, Goto, liveVars, iterVars, respVars
<1>22. ASSUME NEW u \in Users, Cancel(u) PROVE KeptInv'
    BY <1>22, CancelEffect DEF Cancel, Goto, liveVars, iterVars, respVars
<1>23. CASE Network
    BY <1>23, NetworkEffect DEF Network, Held, liveVars, iterVars, respVars
<1> QED
    BY <1>1, <1>2, <1>3, <1>4, <1>5, <1>6, <1>7, <1>8, <1>9, <1>10, <1>11, <1>12, <1>13,
        <1>14, <1>15, <1>16, <1>17, <1>18, <1>19, <1>20, <1>21, <1>22, <1>23
    DEF Next, AnextStep, AreadStep

LEMMA EndStep == IInv /\ [Next]_vars => EndInv'
<1> SUFFICES ASSUME IInv, [Next]_vars PROVE EndInv'
    OBVIOUS
<1>a. LSP!TypeOK
    BY DEF IInv, LSP!IInv
<1> USE <1>a, Kinds DEF IInv, StepsInv, VarTypes, ReaderSteps, AreaderSteps, BodyInv, EndInv
<1>1. CASE UNCHANGED vars
    BY <1>1 DEF vars, liveVars, iterVars, respVars
<1>2. CASE EnterBegin
    BY <1>2 DEF EnterBegin, liveVars, iterVars, respVars
<1>3. CASE EnterDone
    BY <1>3 DEF EnterDone, liveVars, iterVars, respVars
<1>4. CASE EnterFails
    BY <1>4 DEF EnterFails, liveVars, iterVars, respVars
<1>5. CASE DropContext
    BY <1>5 DEF DropContext, liveVars, iterVars, respVars
<1>6. CASE StartStream
    BY <1>6 DEF StartStream, liveVars, iterVars, respVars
<1>7. ASSUME NEW r \in Readers, AnextBegin(r) PROVE EndInv'
    BY <1>7 DEF AnextBegin, Goto, liveVars, iterVars, respVars
<1>8. ASSUME NEW r \in Readers, AnextLock(r) PROVE EndInv'
    BY <1>8 DEF AnextLock, Goto, liveVars, iterVars, respVars
<1>9. ASSUME NEW r \in Readers, AnextTop(r) PROVE EndInv'
    BY <1>9 DEF AnextTop, Goto, Finish, Delivered, liveVars, iterVars, respVars
<1>10. ASSUME NEW r \in Readers, AnextServe(r) PROVE EndInv'
    <2>0. rpc[r] = "serve" /\ ilock = r
        BY <1>10 DEF AnextServe
    <2>1. CASE finished /\ buf = 0
        <3>1. /\ finished' = finished /\ buf' = buf /\ UNCHANGED <<net, pc, out>>
              /\ rpc' = [rpc EXCEPT ![r] = "idle"]
              /\ \A o \in Readers : o # r => ret'[o] = ret[o]
            BY <1>10, <2>1, StreamResponseAssumption DEF AnextServe, Finish, Delivered, liveVars
        <3> QED
            BY <2>1, <3>1
    <2>2. CASE buf >= Size \/ (finished /\ buf > 0)
        <3>1. /\ finished' = finished /\ UNCHANGED <<net, pc, out>>
              /\ rpc' = [rpc EXCEPT ![r] = "idle"]
              /\ \A o \in Readers : o # r => ret'[o] = ret[o]
              /\ ret'[r] \in {"piece", "cancelled"}
            BY <1>10, <2>2, StreamResponseAssumption DEF AnextServe, Finish, Delivered, liveVars
        <3>2. buf > 0 /\ \A o \in Readers : ret[o] # "stop"
            BY <2>2, StreamResponseAssumption
        <3> QED
            BY <3>1, <3>2
    <2>3. CASE ~finished /\ buf < Size
        <3>1. LS!ReadBegin(r) /\ rpc' = [rpc EXCEPT ![r] = "inner"] /\ UNCHANGED <<buf, finished, ret>>
            BY <1>10, <2>3, StreamResponseAssumption DEF AnextServe, Goto
        <3> QED
            BY <2>3, <3>1, BeginEffect
    <2> QED
        BY <1>10, <2>1, <2>2, <2>3 DEF AnextServe
<1>11. ASSUME NEW r \in Readers, AnextFeed(r) PROVE EndInv'
    BY <1>11 DEF AnextFeed, Goto, Finish, Delivered, liveVars, iterVars, respVars
<1>12. ASSUME NEW r \in Readers, AnextInner(r) PROVE EndInv'
    BY <1>12, ReadEffect DEF AnextInner, liveVars, iterVars, respVars
<1>13. ASSUME NEW r \in Readers, AnextInnerLock(r) PROVE EndInv'
    BY <1>13, ReadEffect DEF AnextInnerLock, liveVars, iterVars, respVars
<1>14. ASSUME NEW a \in Areaders, AreadTake(a) PROVE EndInv'
    BY <1>14 DEF AreadTake, Goto, ReturnNow, liveVars, iterVars, respVars
<1>15. ASSUME NEW a \in Areaders, AreadChunk(a) PROVE EndInv'
    BY <1>15 DEF AreadChunk, liveVars, iterVars, respVars
<1>16. ASSUME NEW a \in Areaders, AreadEnds(a) PROVE EndInv'
    BY <1>16 DEF AreadEnds, Goto, Finish, Delivered, liveVars, iterVars, respVars
<1>17. ASSUME NEW a \in Areaders, AreadStore(a) PROVE EndInv'
    BY <1>17 DEF AreadStore, Finish, Delivered, liveVars, iterVars, respVars
<1>18. ASSUME NEW c \in Closers, Aclose(c) PROVE EndInv'
    BY <1>18, CloseEffect DEF Aclose, TakeBody, Goto, liveVars, iterVars, respVars
<1>19. ASSUME NEW c \in Closers, Aexit(c) PROVE EndInv'
    BY <1>19, CloseEffect DEF Aexit, TakeBody, Goto, liveVars, iterVars, respVars
<1>20. ASSUME NEW c \in Closers, CloseInner(c) PROVE EndInv'
    BY <1>20, CloseEffect DEF CloseInner, liveVars, iterVars, respVars
<1>21. ASSUME NEW c \in Closers, CloseReturn(c) PROVE EndInv'
    BY <1>21, CloseEffect DEF CloseReturn, Goto, liveVars, iterVars, respVars
<1>22. ASSUME NEW u \in Users, Cancel(u) PROVE EndInv'
    <2>1. CASE rpc[u] = "ilock"
        <3>1. u \in Readers /\ rpc' = [rpc EXCEPT ![u] = "idle"]
            BY <1>22, <2>1 DEF Cancel, Goto, ReaderSteps, CloserSteps, AreaderSteps, AnextSteps
        <3> QED
            BY <1>22, <2>1, <3>1 DEF Cancel, liveVars, iterVars, respVars
    <2>2. CASE rpc[u] = "inner"
        <3>1. u \in Readers /\ rpc' = [rpc EXCEPT ![u] = "idle"]
            BY <1>22, <2>2 DEF Cancel, Goto, ReaderSteps, CloserSteps, AreaderSteps, AnextSteps
        <3> QED
            BY <1>22, <2>2, <3>1, CancelEffect DEF Cancel, liveVars, iterVars, respVars
    <2>3. CASE rpc[u] = "closing"
        <3>1. u \in Closers /\ rpc' = [rpc EXCEPT ![u] = "cancelled"]
            BY <1>22, <2>3 DEF Cancel, Goto, ReaderSteps, CloserSteps, AreaderSteps, AnextSteps
        <3> QED
            BY <1>22, <2>3, <3>1, CancelEffect DEF Cancel, liveVars, iterVars, respVars
    <2>4. CASE rpc[u] = "reading"
        <3>1. u \in Areaders /\ rpc' = [rpc EXCEPT ![u] = "idle"]
            BY <1>22, <2>4 DEF Cancel, Goto, ReaderSteps, CloserSteps, AreaderSteps, AnextSteps
        <3> QED
            BY <1>22, <2>4, <3>1 DEF Cancel, liveVars, iterVars, respVars
    <2> QED
        BY <1>22, <2>1, <2>2, <2>3, <2>4 DEF Cancel
<1>23. CASE Network
    BY <1>23, NetworkEffect DEF Network, Held, liveVars, iterVars, respVars
<1> QED
    BY <1>1, <1>2, <1>3, <1>4, <1>5, <1>6, <1>7, <1>8, <1>9, <1>10, <1>11, <1>12, <1>13,
        <1>14, <1>15, <1>16, <1>17, <1>18, <1>19, <1>20, <1>21, <1>22, <1>23
    DEF Next, AnextStep, AreadStep

LEMMA LateStep == IInv /\ [Next]_vars => LateInv'
<1> SUFFICES ASSUME IInv, [Next]_vars PROVE LateInv'
    OBVIOUS
<1>a. LSP!TypeOK
    BY DEF IInv, LSP!IInv
<1> USE <1>a, Kinds DEF IInv, StepsInv, VarTypes, ReaderSteps, LateInv
<1>1. CASE UNCHANGED vars
    BY <1>1 DEF vars, liveVars, iterVars, respVars
<1>2. CASE EnterBegin
    BY <1>2 DEF EnterBegin, liveVars, iterVars, respVars
<1>3. CASE EnterDone
    BY <1>3 DEF EnterDone, liveVars, iterVars, respVars
<1>4. CASE EnterFails
    BY <1>4 DEF EnterFails, liveVars, iterVars, respVars
<1>5. CASE DropContext
    BY <1>5 DEF DropContext, liveVars, iterVars, respVars
<1>6. CASE StartStream
    BY <1>6 DEF StartStream, liveVars, iterVars, respVars
<1>7. ASSUME NEW r \in Readers, AnextBegin(r) PROVE LateInv'
    BY <1>7 DEF AnextBegin, Goto, liveVars, iterVars, respVars
<1>8. ASSUME NEW r \in Readers, AnextLock(r) PROVE LateInv'
    BY <1>8 DEF AnextLock, Goto, liveVars, iterVars, respVars
<1>9. ASSUME NEW r \in Readers, AnextTop(r) PROVE LateInv'
    BY <1>9 DEF AnextTop, Goto, Finish, Delivered, liveVars, iterVars, respVars
<1>10. ASSUME NEW r \in Readers, AnextServe(r) PROVE LateInv'
    BY <1>10, BeginEffect DEF AnextServe, Goto, Finish, Delivered, liveVars, iterVars, respVars
<1>11. ASSUME NEW r \in Readers, AnextFeed(r) PROVE LateInv'
    BY <1>11 DEF AnextFeed, Goto, Finish, Delivered, liveVars, iterVars, respVars
<1>12. ASSUME NEW r \in Readers, AnextInner(r) PROVE LateInv'
    BY <1>12, ReadEffect DEF AnextInner, liveVars, iterVars, respVars
<1>13. ASSUME NEW r \in Readers, AnextInnerLock(r) PROVE LateInv'
    BY <1>13, ReadEffect DEF AnextInnerLock, liveVars, iterVars, respVars
<1>14. ASSUME NEW a \in Areaders, AreadTake(a) PROVE LateInv'
    BY <1>14 DEF AreadTake, Goto, ReturnNow, liveVars, iterVars, respVars
<1>15. ASSUME NEW a \in Areaders, AreadChunk(a) PROVE LateInv'
    BY <1>15 DEF AreadChunk, liveVars, iterVars, respVars
<1>16. ASSUME NEW a \in Areaders, AreadEnds(a) PROVE LateInv'
    BY <1>16 DEF AreadEnds, Goto, Finish, Delivered, liveVars, iterVars, respVars
<1>17. ASSUME NEW a \in Areaders, AreadStore(a) PROVE LateInv'
    BY <1>17 DEF AreadStore, Finish, Delivered, liveVars, iterVars, respVars
<1>18. ASSUME NEW c \in Closers, Aclose(c) PROVE LateInv'
    BY <1>18, CloseEffect DEF Aclose, TakeBody, Goto, liveVars, iterVars, respVars
<1>19. ASSUME NEW c \in Closers, Aexit(c) PROVE LateInv'
    BY <1>19, CloseEffect DEF Aexit, TakeBody, Goto, liveVars, iterVars, respVars
<1>20. ASSUME NEW c \in Closers, CloseInner(c) PROVE LateInv'
    BY <1>20, CloseEffect DEF CloseInner, liveVars, iterVars, respVars
<1>21. ASSUME NEW c \in Closers, CloseReturn(c) PROVE LateInv'
    BY <1>21, CloseEffect DEF CloseReturn, Goto, liveVars, iterVars, respVars
<1>22. ASSUME NEW u \in Users, Cancel(u) PROVE LateInv'
    <2>1. CASE rpc[u] = "ilock"
        <3>1. u \in Readers /\ rpc' = [rpc EXCEPT ![u] = "idle"]
            BY <1>22, <2>1 DEF Cancel, Goto, ReaderSteps, CloserSteps, AreaderSteps, AnextSteps
        <3> QED
            BY <1>22, <2>1, <3>1 DEF Cancel, liveVars, iterVars, respVars
    <2>2. CASE rpc[u] = "inner"
        <3>1. u \in Readers /\ rpc' = [rpc EXCEPT ![u] = "idle"]
            BY <1>22, <2>2 DEF Cancel, Goto, ReaderSteps, CloserSteps, AreaderSteps, AnextSteps
        <3> QED
            BY <1>22, <2>2, <3>1, CancelEffect DEF Cancel, liveVars, iterVars, respVars
    <2>3. CASE rpc[u] = "closing"
        <3>1. u \in Closers /\ rpc' = [rpc EXCEPT ![u] = "cancelled"]
            BY <1>22, <2>3 DEF Cancel, Goto, ReaderSteps, CloserSteps, AreaderSteps, AnextSteps
        <3> QED
            BY <1>22, <2>3, <3>1, CancelEffect DEF Cancel, liveVars, iterVars, respVars
    <2>4. CASE rpc[u] = "reading"
        <3>1. u \in Areaders /\ rpc' = [rpc EXCEPT ![u] = "idle"]
            BY <1>22, <2>4 DEF Cancel, Goto, ReaderSteps, CloserSteps, AreaderSteps, AnextSteps
        <3> QED
            BY <1>22, <2>4, <3>1 DEF Cancel, liveVars, iterVars, respVars
    <2> QED
        BY <1>22, <2>1, <2>2, <2>3, <2>4 DEF Cancel
<1>23. CASE Network
    BY <1>23, NetworkEffect DEF Network, Held, liveVars, iterVars, respVars
<1> QED
    BY <1>1, <1>2, <1>3, <1>4, <1>5, <1>6, <1>7, <1>8, <1>9, <1>10, <1>11, <1>12, <1>13,
        <1>14, <1>15, <1>16, <1>17, <1>18, <1>19, <1>20, <1>21, <1>22, <1>23
    DEF Next, AnextStep, AreadStep

\* The chunk in a reader's hands is in the hands of the holder of the
\* iterator's mutex.
LEMMA PulledByHolder == IInv => Pulled \subseteq {ilock}
BY DEF IInv, StepsInv, ReaderSteps, Pulled

\* What the count depends on.
LEMMA CountSame ==
    ASSUME CountInv, UNCHANGED <<started, sent, buf, served, lost, net>>,
           \A r \in Readers : r \in Pulled <=> r \in Pulled'
    PROVE  CountInv'
<1>1. Pulled' = Pulled
    BY DEF Pulled
<1> QED
    BY <1>1 DEF CountInv

LEMMA CountStep == IInv /\ [Next]_vars => CountInv'
<1> SUFFICES ASSUME IInv, [Next]_vars PROVE CountInv'
    OBVIOUS
<1>a. LSP!TypeOK /\ CountInv
    BY DEF IInv, LSP!IInv
<1>b. /\ sent \in Nat /\ Width \in Nat \ {0} /\ Size \in Nat \ {0}
      /\ buf \in Nat /\ served \in Nat /\ lost \in Nat
      /\ net \in {"pending", "chunk", "error", "end"}
    BY <1>a, StreamResponseAssumption DEF LSP!TypeOK, IInv, StepsInv, VarTypes
<1>c. sent * Width \in Nat /\ (sent + 1) * Width = sent * Width + Width
    BY <1>b
<1>d. Pulled \subseteq {ilock} /\ Pulled \subseteq Readers
    BY PulledByHolder DEF Pulled
<1>e. /\ rpc \in [Users -> AnextSteps \cup {"idle", "reading", "store", "closing", "done", "cancelled"}]
      /\ ReaderSteps /\ CloserSteps /\ AreaderSteps
    BY DEF IInv, StepsInv, VarTypes
<1> USE <1>a, Kinds
<1>1. CASE UNCHANGED vars
    BY <1>1, CountSame DEF vars, liveVars, iterVars, respVars, Pulled
<1>2. CASE EnterBegin \/ EnterDone \/ EnterFails \/ DropContext
    BY <1>2, CountSame DEF EnterBegin, EnterDone, EnterFails, DropContext,
                           liveVars, iterVars, respVars, Pulled
<1>3. CASE StartStream
    <2>1. /\ started' /\ UNCHANGED <<sent, buf, served, lost, net, rpc, pc, out>>
          /\ body = "live"
        BY <1>3 DEF StartStream, liveVars, iterVars
    <2>2. /\ ~started /\ buf = 0 /\ served = 0 /\ lost = 0 /\ sent = Ready
        BY <2>1 DEF IInv, BodyInv, KeptInv
    <2>3. Pulled' = {}
        BY <1>e, <2>1, <2>2 DEF ReaderSteps, Pulled
    <2>4. sent * Width = IF net = "chunk" THEN Width ELSE 0
        BY <1>b, <2>2 DEF Ready
    <2> QED
        BY <1>b, <2>1, <2>2, <2>3, <2>4 DEF CountInv
<1>4. ASSUME NEW r \in Readers, AnextBegin(r) \/ AnextLock(r) \/ AnextTop(r) PROVE CountInv'
    <2>1. /\ UNCHANGED <<started, sent, buf, served, lost, net, pc, out>>
          /\ rpc[r] # "inner"
          /\ \E step \in {"ilock", "top", "idle", "serve"} : rpc' = [rpc EXCEPT ![r] = step]
        BY <1>4 DEF AnextBegin, AnextLock, AnextTop, Goto, Finish, liveVars, iterVars, respVars
    <2> QED
        BY <1>e, <2>1, CountSame DEF Pulled
<1>5. ASSUME NEW r \in Readers, AnextServe(r) PROVE CountInv'
    <2>0. rpc[r] = "serve" /\ started' = started /\ Pulled = {}
        BY <1>5, <1>d, <1>e DEF AnextServe, respVars, ReaderSteps, Pulled
    <2>1. CASE ~finished /\ buf < Size
        <3>1. /\ LS!ReadBegin(r) /\ rpc' = [rpc EXCEPT ![r] = "inner"]
              /\ UNCHANGED <<buf, served, lost>>
            BY <1>5, <1>b, <2>1 DEF AnextServe, Goto
        <3>2. /\ UNCHANGED <<net, sent>> /\ pc'[r] = "lock"
              /\ \A o \in Readers : o # r => pc'[o] = pc[o] /\ out'[o] = out[o]
            BY <3>1, BeginEffect
        <3> QED
            BY <1>e, <2>0, <3>1, <3>2, CountSame DEF Pulled
    <2>2. CASE finished /\ buf = 0
        <3>1. /\ UNCHANGED <<buf, served, lost, net, sent, pc, out>>
              /\ rpc' = [rpc EXCEPT ![r] = "idle"]
            BY <1>5, <1>b, <2>2 DEF AnextServe, Finish, liveVars
        <3> QED
            BY <1>e, <2>0, <3>1, CountSame DEF Pulled
    <2>3. CASE buf >= Size \/ (finished /\ buf > 0)
        <3>1. PICK n \in {IF buf >= Size THEN Size ELSE buf} :
                  /\ buf' = buf - n
                  /\ rpc' = [rpc EXCEPT ![r] = "idle"]
                  /\ served' = IF ret'[r] = "piece" THEN served + n ELSE served
                  /\ lost' = IF ret'[r] = "piece" THEN lost ELSE lost + n
                  /\ UNCHANGED <<net, sent, pc, out>>
            BY <1>5, <1>b, <2>3 DEF AnextServe, Finish, liveVars
        <3>2. n \in Nat /\ n <= buf
            BY <1>b
        <3>3. served' + lost' + buf' = served + lost + buf
            BY <1>b, <3>1, <3>2
        <3>4. Pulled' = {}
            BY <1>e, <2>0, <3>1 DEF Pulled
        <3>5. served' \in Nat /\ lost' \in Nat /\ buf' \in Nat
            BY <1>b, <3>1, <3>2
        <3> QED
            BY <1>b, <1>c, <2>0, <3>1, <3>3, <3>4, <3>5 DEF CountInv
    <2> QED
        BY <1>b, <1>5, <2>1, <2>2, <2>3 DEF AnextServe
<1>6. ASSUME NEW r \in Readers, AnextFeed(r) PROVE CountInv'
    <2>0. /\ UNCHANGED <<started, sent, served, lost, net, pc, out>>
          /\ rpc[r] = "inner" /\ pc[r] = "idle" /\ ilock = r
          /\ \E step \in {"top", "idle"} : rpc' = [rpc EXCEPT ![r] = step]
        BY <1>6, <1>e DEF AnextFeed, Goto, Finish, liveVars, respVars, ReaderSteps
    <2>1. CASE out[r] = "chunk"
        <3>1. buf' = buf + Width /\ Pulled # {}
            BY <1>6, <2>0, <2>1 DEF AnextFeed, Pulled
        <3>2. Pulled' = {}
            BY <1>d, <1>e, <2>0 DEF Pulled
        <3> QED
            BY <1>b, <1>c, <2>0, <3>1, <3>2 DEF CountInv
    <2>2. CASE out[r] # "chunk"
        <3>1. buf' = buf
            BY <1>6, <2>2 DEF AnextFeed
        <3> QED
            BY <1>e, <2>0, <2>2, <3>1, CountSame DEF Pulled
    <2> QED
        BY <2>1, <2>2
<1>7. ASSUME NEW r \in Readers, AnextInner(r) \/ AnextInnerLock(r) PROVE CountInv'
    <2>0. /\ LS!ReadStep(r) \/ LS!ReadLock(r)
          /\ UNCHANGED <<started, buf, served, lost, rpc>>
          /\ rpc[r] = "inner" /\ ilock = r
        BY <1>7, <1>e DEF AnextInner, AnextInnerLock, iterVars, respVars, ReaderSteps
    <2>1. /\ sent' = sent /\ pc[r] # "idle"
          /\ \A o \in Readers : o # r => pc'[o] = pc[o] /\ out'[o] = out[o]
          /\ \/ net' = net /\ ~(pc'[r] = "idle" /\ out'[r] = "chunk")
             \/ net = "chunk" /\ net' = "pending" /\ pc'[r] = "idle" /\ out'[r] = "chunk"
        BY <2>0, ReadEffect
    <2>2. Pulled = {}
        BY <1>d, <2>0, <2>1 DEF Pulled
    <2>3. CASE net' = net /\ ~(pc'[r] = "idle" /\ out'[r] = "chunk")
        BY <2>0, <2>1, <2>2, <2>3, CountSame DEF Pulled
    <2>4. CASE net = "chunk" /\ net' = "pending" /\ pc'[r] = "idle" /\ out'[r] = "chunk"
        <3>1. Pulled' # {}
            BY <2>0, <2>4 DEF Pulled
        <3> QED
            BY <1>b, <1>c, <2>0, <2>1, <2>2, <2>4, <3>1 DEF CountInv
    <2> QED
        BY <2>1, <2>3, <2>4
<1>8. ASSUME NEW a \in Areaders, AreadTake(a) \/ AreadEnds(a) \/ AreadStore(a) PROVE CountInv'
    <2>1. /\ UNCHANGED <<started, sent, buf, served, lost, net, pc, out>>
          /\ \A u \in Users : u # a => rpc'[u] = rpc[u]
        BY <1>8, <1>e DEF AreadTake, AreadEnds, AreadStore, Goto, ReturnNow, Finish,
                          liveVars, iterVars, respVars
    <2> QED
        BY <2>1, CountSame DEF Pulled
<1>9. ASSUME NEW a \in Areaders, AreadChunk(a) PROVE CountInv'
    BY <1>9, <1>e DEF AreadChunk, AreaderSteps, CountInv
<1>10. ASSUME NEW c \in Closers, Aclose(c) \/ Aexit(c) \/ CloseInner(c) \/ CloseReturn(c)
       PROVE CountInv'
    <2>1. /\ UNCHANGED <<started, buf, served, lost>>
          /\ \A u \in Users : u # c => rpc'[u] = rpc[u]
          /\ UNCHANGED liveVars \/ LS!CloseBegin(c) \/ LS!CloseStep(c) \/ LS!CloseDrop(c)
        BY <1>10, <1>e DEF Aclose, Aexit, TakeBody, CloseInner, CloseReturn, Goto, iterVars, respVars
    <2>2. /\ UNCHANGED <<net, sent, out>>
          /\ \A r \in Readers : pc'[r] = pc[r]
        BY <2>1, CloseEffect DEF liveVars
    <2> QED
        BY <2>1, <2>2, CountSame DEF Pulled
<1>11. ASSUME NEW u \in Users, Cancel(u) PROVE CountInv'
    <2>1. /\ UNCHANGED <<started, buf, served, lost>>
          /\ rpc' = [rpc EXCEPT ![u] = IF u \in Closers THEN "cancelled" ELSE "idle"]
          /\ \/ UNCHANGED liveVars /\ rpc[u] # "inner"
             \/ LS!Cancel(u) /\ u \in Readers \cup Closers
        BY <1>11, <1>e DEF Cancel, Goto, respVars, ReaderSteps, CloserSteps, AreaderSteps, AnextSteps
    <2>2. CASE UNCHANGED liveVars /\ rpc[u] # "inner"
        BY <1>e, <2>1, <2>2, CountSame DEF Pulled, liveVars
    <2>3. CASE LS!Cancel(u) /\ u \in Readers \cup Closers
        <3>1. /\ UNCHANGED <<net, sent, out>> /\ pc[u] # "idle"
              /\ \A o \in Readers : o # u => pc'[o] = pc[o]
            BY <2>3, CancelEffect
        <3> QED
            BY <1>e, <2>1, <3>1, CountSame DEF Pulled
    <2> QED
        BY <2>1, <2>2, <2>3
<1>12. CASE Network
    <2>1. /\ UNCHANGED <<started, buf, served, lost, rpc, pc, out>>
          /\ net = "pending"
          /\ \/ net' = "chunk" /\ sent' = sent + 1
             \/ net' \in {"error", "end"} /\ sent' = sent
        BY <1>12, NetworkEffect DEF Network, iterVars, respVars
    <2>2. Pulled' = Pulled
        BY <2>1 DEF Pulled
    <2>3. CASE net' = "chunk" /\ sent' = sent + 1
        BY <1>b, <1>c, <2>1, <2>2, <2>3 DEF CountInv
    <2>4. CASE net' \in {"error", "end"} /\ sent' = sent
        BY <1>b, <1>c, <2>1, <2>2, <2>4 DEF CountInv
    <2> QED
        BY <2>1, <2>3, <2>4
<1> QED
    BY <1>1, <1>2, <1>3, <1>4, <1>5, <1>6, <1>7, <1>8, <1>9, <1>10, <1>11, <1>12
    DEF Next, AnextStep, AreadStep

\* The live stream keeps its own invariant inside the response: every step is
\* one of its steps, leaves it alone, or is the aread, which takes the chunk of
\* a connection that no live stream has.
LEMMA LiveStep == IInv /\ [Next]_vars => LSP!IInv'
<1> SUFFICES ASSUME IInv, [Next]_vars PROVE LSP!IInv'
    OBVIOUS
<1>0. LSP!IInv /\ ReaderSteps /\ CloserSteps /\ AreaderSteps
    BY DEF IInv, StepsInv
<1>1. ASSUME [LSP!Next]_(LSP!vars) PROVE LSP!IInv'
    BY <1>0, <1>1, LiveAssumption, LSP!InvStep
<1>2. ASSUME UNCHANGED liveVars PROVE LSP!IInv'
    BY <1>1, <1>2 DEF LSP!vars, liveVars
<1>3. ASSUME NEW a \in Areaders, AreadChunk(a) PROVE LSP!IInv'
    BY <1>0, <1>3 DEF AreadChunk, LSP!IInv, LSP!TypeOK, LSP!PermitOrWaiter,
                      LSP!SignalReaches, LSP!CloserDrops
<1>4. ASSUME NEW r \in Readers,
             AnextBegin(r) \/ AnextLock(r) \/ AnextStep(r) \/ AnextInnerLock(r)
      PROVE  LSP!IInv'
    BY <1>1, <1>2, <1>4, SameReads
    DEF AnextBegin, AnextLock, AnextStep, AnextTop, AnextServe, AnextFeed, AnextInner, AnextInnerLock
<1>5. ASSUME NEW a \in Areaders, AreadTake(a) \/ AreadEnds(a) \/ AreadStore(a) PROVE LSP!IInv'
    BY <1>2, <1>5 DEF AreadTake, AreadEnds, AreadStore
<1>6. ASSUME NEW c \in Closers, Aclose(c) \/ Aexit(c) \/ CloseInner(c) \/ CloseReturn(c)
      PROVE  LSP!IInv'
    BY <1>1, <1>2, <1>6, SameCloses DEF Aclose, Aexit, TakeBody, CloseInner, CloseReturn
<1>7. ASSUME NEW u \in Users, Cancel(u) PROVE LSP!IInv'
    <2>1. CASE UNCHANGED liveVars
        BY <1>2, <2>1
    <2>2. CASE LS!Cancel(u) /\ rpc[u] \in {"inner", "closing"}
        <3>1. u \in Readers \cup Closers
            BY <1>0, <2>2, Kinds DEF AreaderSteps
        <3> QED
            BY <1>1, <2>2, <3>1, SameRest
    <2> QED
        BY <1>7, <2>1, <2>2 DEF Cancel
<1>8. CASE Network
    BY <1>1, <1>8, SameRest DEF Network
<1>9. CASE EnterBegin \/ EnterDone \/ EnterFails \/ DropContext \/ StartStream
    BY <1>2, <1>9 DEF EnterBegin, EnterDone, EnterFails, DropContext, StartStream
<1>10. CASE UNCHANGED vars
    BY <1>2, <1>10 DEF vars
<1> QED
    BY <1>3, <1>4, <1>5, <1>6, <1>7, <1>8, <1>9, <1>10 DEF Next, AreadStep

-----------------------------------------------------------------------------
(* The safety theorems                                                     *)

LEMMA InvInit == Init => IInv
<1> SUFFICES ASSUME Init PROVE IInv
    OBVIOUS
<1>1. LSP!Init
    BY DEF Init, LS!Init, LSP!Init, LS!Tasks, LSP!Tasks
<1>2. LSP!IInv
    BY <1>1, LiveAssumption, LSP!InvInit
<1>3. /\ \A t \in Readers \cup Closers : pc[t] = "idle"
      /\ stream = "some" /\ net = "pending" /\ sent = 0
    BY DEF Init, LS!Init, LS!Tasks
<1>4. \A u \in Users : rpc[u] = "idle" /\ ret[u] = "none"
    BY DEF Init
<1>5. VarTypes
    BY DEF Init, VarTypes, Bodies, Results
<1>6. ReaderSteps /\ CloserSteps /\ AreaderSteps
    BY <1>3, <1>4, Kinds DEF Init, ReaderSteps, CloserSteps, AreaderSteps
<1>7. ContextInv /\ BodyInv /\ ReleaseInv /\ CountInv
    BY <1>3, <1>4, Kinds DEF Init, ContextInv, BodyInv, ReleaseInv, CountInv
<1>8. KeptInv
    BY <1>3, <1>4, Kinds DEF Init, KeptInv
<1>9. EndInv /\ LateInv
    BY <1>4, Kinds DEF Init, EndInv, LateInv
<1> QED
    BY <1>2, <1>5, <1>6, <1>7, <1>8, <1>9 DEF IInv, StepsInv

LEMMA InvStep == IInv /\ [Next]_vars => IInv'
BY VarTypesStep, ReaderStepsStep, CloserStepsStep, AreaderStepsStep, ContextStep, BodyStep,
   ReleaseStep, KeptStep, CountStep, EndStep, LateStep, LiveStep
DEF IInv, StepsInv

\* The inductive invariant holds in every reachable state.
LEMMA Invariant == Spec => []IInv
<1> QED
    BY InvInit, InvStep, PTL DEF Spec

\* Chunks in units: a sum of units is bounded by what the server may send.
LEMMA UnitsBounded ==
    ASSUME NEW n \in 0..MaxChunks, NEW a \in Nat, NEW b \in Nat, NEW c \in Nat,
           NEW d \in Nat, n * Width = a + b + c + d
    PROVE  /\ a \in 0..MaxChunks * Width
           /\ b \in 0..MaxChunks * Width
           /\ c \in 0..MaxChunks * Width
<1>1. MaxChunks \in Nat /\ Width \in Nat /\ n \in Nat /\ n <= MaxChunks
    BY StreamResponseAssumption
<1>2. n * Width <= MaxChunks * Width /\ n * Width \in Nat /\ MaxChunks * Width \in Nat
    BY <1>1
<1> QED
    BY <1>2

\* Types, with what is buffered, handed out and lost bounded by what the server
\* sent, the mutex of the iterator held by exactly the reader inside __anext__,
\* and the types of the live stream inside the response.
THEOREM ResponseTypes == Spec => []TypeOK
<1>1. ASSUME IInv PROVE TypeOK
    <2>1. LSP!TypeOK
        BY <1>1 DEF IInv, LSP!IInv
    <2>2. LS!TypeOK
        BY <2>1, SameTypes
    <2>3. sent \in 0..MaxChunks /\ sent \in Nat /\ MaxChunks \in Nat /\ Width \in Nat
        BY <2>1, StreamResponseAssumption DEF LSP!TypeOK
    <2>4. VarTypes /\ ReaderSteps /\ BodyInv /\ CountInv /\ kept <= sent
        BY <1>1 DEF IInv, StepsInv, KeptInv
    <2>5. kept \in 0..MaxChunks
        BY <2>3, <2>4 DEF VarTypes
    <2>6. {buf, served, lost} \subseteq 0..MaxChunks * Width
        <3>1. CASE ~started
            <4>1. buf = 0 /\ served = 0 /\ lost = 0
                BY <2>4, <3>1 DEF BodyInv
            <4>2. 0 \in 0..MaxChunks * Width
                BY <2>3
            <4> QED
                BY <4>1, <4>2
        <3>2. CASE started
            <4> DEFINE rest == (IF Pulled = {} THEN 0 ELSE Width)
                                 + (IF net = "chunk" THEN Width ELSE 0)
            <4>1. rest \in Nat
                BY <2>3
            <4>2. sent * Width = served + lost + buf + rest
                <5>1. (IF Pulled = {} THEN 0 ELSE Width) \in Nat /\ (IF net = "chunk" THEN Width ELSE 0) \in Nat
                    BY <2>3
                <5>2. served \in Nat /\ lost \in Nat /\ buf \in Nat
                    BY <2>4 DEF VarTypes
                <5> QED
                    BY <2>4, <3>2, <5>1, <5>2 DEF CountInv
            <4>3. buf \in Nat /\ served \in Nat /\ lost \in Nat
                BY <2>4 DEF VarTypes
            <4> HIDE DEF rest
            <4> QED
                BY <2>3, <4>1, <4>2, <4>3, UnitsBounded
        <3> QED
            BY <2>4, <3>1, <3>2 DEF VarTypes
    <2> QED
        BY <2>2, <2>4, <2>5, <2>6 DEF TypeOK, VarTypes, ReaderSteps
<1> QED
    BY <1>1, Invariant, PTL

\* Nothing of the body is lost or handed out twice between the connection and
\* the caller, for any sizes of chunks and pieces, any number of concurrent
\* __anext__ calls and wherever they are cancelled.
THEOREM ChunksConserved == Spec => []NoChunkLost
<1>1. ASSUME IInv, started
      PROVE  sent * Width = served + lost + buf
                 + Width * (Cardinality(Pulled) + (IF net = "chunk" THEN 1 ELSE 0))
    <2>1. /\ Width \in Nat /\ served \in Nat /\ lost \in Nat /\ buf \in Nat
          /\ CountInv
        BY <1>1, StreamResponseAssumption DEF IInv, StepsInv, VarTypes
    <2>2. CASE Pulled = {}
        <3>1. Cardinality(Pulled) = 0
            BY <2>2, FS_EmptySet
        <3> QED
            BY <1>1, <2>1, <2>2, <3>1 DEF CountInv
    <2>3. CASE Pulled # {}
        <3>1. Pulled = {ilock}
            BY <1>1, <2>3, PulledByHolder
        <3>2. Cardinality(Pulled) = 1
            BY <3>1, FS_Singleton
        <3> QED
            BY <1>1, <2>1, <2>3, <3>2 DEF CountInv
    <2> QED
        BY <2>2, <2>3
<1>2. IInv => NoChunkLost
    BY <1>1 DEF NoChunkLost, Pulled
<1> QED
    BY <1>2, Invariant, PTL

\* StopAsyncIteration is raised only at the end of the body, with everything
\* handed out but the pieces that were cancelled in delivery: no close, error
\* or cancellation makes a truncated body look complete.
THEOREM StopIsHonest == Spec => []StopMeansComplete
<1>1. ASSUME IInv, NEW r \in Readers, ret[r] = "stop"
      PROVE  net = "end" /\ buf = 0 /\ served + lost = sent * Width
    <2>1. finished /\ buf = 0 /\ net = "end" /\ \A o \in Readers : rpc[o] # "inner"
        BY <1>1 DEF IInv, EndInv
    <2>2. started /\ Pulled = {}
        BY <1>1, <2>1 DEF IInv, BodyInv, Pulled
    <2>3. served \in Nat /\ lost \in Nat /\ CountInv
        BY <1>1 DEF IInv, StepsInv, VarTypes
    <2> QED
        BY <2>1, <2>2, <2>3 DEF CountInv
<1>2. IInv => StopMeansComplete
    BY <1>1 DEF StopMeansComplete
<1> QED
    BY <1>2, Invariant, PTL

\* The buffer that content, text and json are served from holds every chunk up
\* to the end of the body, whatever is closed or cancelled meanwhile.
THEOREM BufferIsWhole == Spec => []BufferedIsWhole
<1>1. IInv => BufferedIsWhole
    BY DEF IInv, KeptInv, BufferedIsWhole
<1> QED
    BY <1>1, Invariant, PTL

\* An __anext__ that begins after a close serves buffered pieces only when the
\* body was read to its end, however the close and the calls interleave.
THEOREM NoLatePiece == Spec => []NoPieceAfterClose
<1>1. IInv => NoPieceAfterClose
    BY DEF IInv, LateInv, NoPieceAfterClose
<1> QED
    BY <1>1, Invariant, PTL

\* Inside the response too, a close wakes the read that waits on the network:
\* the calls of the response use the live stream only as its proof assumes.
THEOREM ResponseWakesReads == Spec => []LS!NoLostWakeup
<1>1. IInv => LS!NoLostWakeup
    BY DEF IInv, LSP!IInv, LSP!PermitOrWaiter, LSP!SignalReaches, LSP!Inside, LS!NoLostWakeup
<1> QED
    BY <1>1, Invariant, PTL

\* A close that has returned released the connection, unless a close was
\* cancelled on its way or an aread took the connection before.
THEOREM ReleasedUnlessCancelled ==
    Spec => [](~(\E c \in Closers : rpc[c] = "cancelled") => CloseReleasesConnection)
<1>1. IInv => (~(\E c \in Closers : rpc[c] = "cancelled") => CloseReleasesConnection)
    BY DEF IInv, StepsInv, CloserSteps, ReleaseInv, CloseReleasesConnection, Held
<1> QED
    BY <1>1, Invariant, PTL

\* No close is cancelled when closes cannot be.
NoCloseCancelled == \A c \in Closers : rpc[c] # "cancelled"

\* When closes run to their end, one that has returned released the connection.
THEOREM CloseReleases ==
    ASSUME Cancellable \cap Closers = {}
    PROVE  Spec => []CloseReleasesConnection
<1>1. Init => NoCloseCancelled
    BY Kinds DEF Init, NoCloseCancelled
<1>2. ASSUME IInv, NoCloseCancelled, [Next]_vars PROVE NoCloseCancelled'
    <2> SUFFICES ASSUME NEW c \in Closers PROVE rpc'[c] # "cancelled"
        BY DEF NoCloseCancelled
    <2>0. /\ rpc \in [Users -> AnextSteps \cup {"idle", "reading", "store", "closing", "done", "cancelled"}]
          /\ c \in Users /\ rpc[c] # "cancelled"
        BY <1>2, Kinds DEF IInv, StepsInv, VarTypes, NoCloseCancelled
    <2>1. CASE UNCHANGED vars
        BY <2>0, <2>1 DEF vars
    <2>2. CASE EnterBegin \/ EnterDone \/ EnterFails \/ DropContext \/ StartStream \/ Network
        BY <2>0, <2>2 DEF EnterBegin, EnterDone, EnterFails, DropContext, StartStream, Network
    <2>3. ASSUME NEW r \in Readers,
                 AnextBegin(r) \/ AnextLock(r) \/ AnextStep(r) \/ AnextInnerLock(r)
          PROVE  rpc'[c] # "cancelled"
        BY <2>0, <2>3 DEF AnextBegin, AnextLock, AnextStep, AnextTop, AnextServe, AnextFeed,
                          AnextInner, AnextInnerLock, Goto, Finish
    <2>4. ASSUME NEW a \in Areaders, AreadTake(a) \/ AreadStep(a) PROVE rpc'[c] # "cancelled"
        BY <2>0, <2>4 DEF AreadTake, AreadStep, AreadChunk, AreadEnds, AreadStore, Goto,
                          Finish, ReturnNow
    <2>5. ASSUME NEW d \in Closers, Aclose(d) \/ Aexit(d) \/ CloseInner(d) \/ CloseReturn(d)
          PROVE  rpc'[c] # "cancelled"
        BY <2>0, <2>5 DEF Aclose, Aexit, TakeBody, CloseInner, CloseReturn, Goto
    <2>6. ASSUME NEW u \in Users, Cancel(u) PROVE rpc'[c] # "cancelled"
        <3>1. u \notin Closers
            BY <2>6 DEF Cancel
        <3> QED
            BY <2>0, <2>6, <3>1 DEF Cancel, Goto
    <2> QED
        BY <1>2, <2>1, <2>2, <2>3, <2>4, <2>5, <2>6 DEF Next
<1>3. IInv /\ NoCloseCancelled => CloseReleasesConnection
    BY DEF IInv, StepsInv, CloserSteps, ReleaseInv, CloseReleasesConnection, Held, NoCloseCancelled
<1> QED
    BY <1>1, <1>2, <1>3, Invariant, PTL DEF Spec

-----------------------------------------------------------------------------
(* The refinement of Connection                                            *)

Reading == \E a \in Areaders : rpc[a] = "reading"

\* The cases of Holder exclude each other.
LEMMA HoldersExclude ==
    IInv => /\ ctx \in {"unsent", "sending", "spent"} => body # "live" /\ ~started /\ ~Reading
            /\ body = "live" => ~started /\ ~Reading
            /\ started => ~Reading
BY Kinds DEF IInv, StepsInv, ContextInv, BodyInv, AreaderSteps, Reading

\* Who holds the connection, case by case.
HolderCases ==
    /\ ctx \in {"unsent", "sending", "spent"} => Holder = "nobody"
    /\ ctx \notin {"unsent", "sending", "spent"} =>
          /\ body = "live" => Holder = "response"
          /\ body # "live" /\ started /\ stream = "some" => Holder = "iterator"
          /\ body # "live" /\ ~(started /\ stream = "some") /\ Reading => Holder = "read"
          /\ body # "live" /\ ~(started /\ stream = "some") /\ ~Reading => Holder = "released"

LEMMA HolderIs == IInv => HolderCases
<1> SUFFICES ASSUME IInv PROVE HolderCases
    OBVIOUS
<1> USE DEF HolderCases
<1>0. /\ ctx \in {"unsent", "sending", "spent"} => body # "live" /\ ~started /\ ~Reading
      /\ body = "live" => ~started /\ ~Reading
      /\ started => ~Reading
    BY HoldersExclude
<1>1. CASE ctx \in {"unsent", "sending", "spent"}
    BY <1>0, <1>1 DEF Holder, Reading
<1>2. CASE ctx \notin {"unsent", "sending", "spent"} /\ body = "live"
    BY <1>0, <1>2 DEF Holder, Reading
<1>3. CASE ctx \notin {"unsent", "sending", "spent"} /\ body # "live" /\ started /\ stream = "some"
    BY <1>0, <1>3 DEF Holder, Reading
<1>4. CASE ctx \notin {"unsent", "sending", "spent"} /\ body # "live"
              /\ ~(started /\ stream = "some") /\ Reading
    BY <1>4 DEF Holder, Reading
<1>5. CASE ctx \notin {"unsent", "sending", "spent"} /\ body # "live"
              /\ ~(started /\ stream = "some") /\ ~Reading
    BY <1>5 DEF Holder, Reading
<1> QED
    BY <1>1, <1>2, <1>3, <1>4, <1>5

LEMMA HolderIsNext == IInv' => HolderCases'
BY HolderIs, PTL

\* A step that leaves the context, the body, the stream and the areads alone
\* does not touch the connection.
LEMMA HolderSame ==
    ASSUME HolderCases, HolderCases', UNCHANGED <<ctx, body, started, stream>>,
           \A a \in Areaders : rpc'[a] = "reading" <=> rpc[a] = "reading"
    PROVE  UNCHANGED Contract!vars
<1>1. Reading' <=> Reading
    BY DEF Reading
<1>2. Holder' = Holder
    BY <1>1 DEF HolderCases
<1> QED
    BY <1>2 DEF Contract!vars

LEMMA ConnectionStep == IInv /\ IInv' /\ [Next]_vars => [Contract!Next]_(Contract!vars)
<1> SUFFICES ASSUME IInv, IInv', [Next]_vars PROVE [Contract!Next]_(Contract!vars)
    OBVIOUS
<1>a. /\ LSP!TypeOK
      /\ rpc \in [Users -> AnextSteps \cup {"idle", "reading", "store", "closing", "done", "cancelled"}]
      /\ body \in Bodies /\ ctx \in {"unsent", "sending", "entered", "spent", "left", "orphaned", "dropped"}
      /\ ReaderSteps /\ CloserSteps /\ AreaderSteps /\ ContextInv /\ BodyInv
    BY DEF IInv, StepsInv, VarTypes, LSP!IInv
<1>b. stream \in {"some", "none"}
    BY <1>a DEF LSP!TypeOK
<1>c. AreaderSteps'
    BY DEF IInv, StepsInv
<1>d. HolderCases /\ HolderCases'
    BY HolderIs, HolderIsNext
<1> USE Kinds, <1>d DEF HolderCases
<1>1. CASE UNCHANGED vars
    BY <1>1, HolderSame DEF vars, liveVars, iterVars, respVars
<1>2. CASE EnterBegin \/ EnterFails
    BY <1>2, <1>a DEF EnterBegin, EnterFails, ContextInv, Contract!vars
<1>3. CASE EnterDone
    BY <1>3, <1>a DEF EnterDone, ContextInv, Contract!Next, Contract!Answer
<1>4. CASE DropContext
    <2>1. Holder' = "released"
        BY <1>4, <1>a DEF DropContext, ContextInv, Reading
    <2>2. CASE body = "live"
        BY <1>4, <2>1, <2>2 DEF DropContext, Contract!Next, Contract!Release
    <2>3. CASE body # "live"
        <3>1. Holder = "released"
            BY <1>4, <1>a, <2>3 DEF DropContext, ContextInv, Reading
        <3> QED
            BY <1>4, <2>1, <3>1 DEF DropContext, Contract!Next, Contract!Discard
    <2> QED
        BY <2>2, <2>3
<1>5. CASE StartStream
    <2>1. Holder = "response" /\ Holder' = "iterator"
        BY <1>5, <1>a DEF StartStream, liveVars, BodyInv
    <2> QED
        BY <1>5, <2>1 DEF StartStream, Contract!Next, Contract!HandOver
<1>6. ASSUME NEW r \in Readers,
             AnextBegin(r) \/ AnextLock(r) \/ AnextTop(r) \/ AnextServe(r) \/ AnextFeed(r)
      PROVE  UNCHANGED Contract!vars
    <2>1. /\ UNCHANGED <<ctx, body, started>>
          /\ UNCHANGED liveVars \/ LS!ReadBegin(r)
          /\ \A u \in Users : u # r => rpc'[u] = rpc[u]
        BY <1>6, <1>a DEF AnextBegin, AnextLock, AnextTop, AnextServe, AnextFeed, Goto, Finish,
                          respVars
    <2>2. stream' = stream
        BY <1>a, <2>1, BeginEffect DEF liveVars
    <2> QED
        BY <2>1, <2>2, HolderSame
<1>7. ASSUME NEW r \in Readers, AnextInner(r) \/ AnextInnerLock(r)
      PROVE  [Contract!Next]_(Contract!vars)
    <2>1. /\ UNCHANGED <<ctx, body, started, rpc>> /\ rpc[r] = "inner"
          /\ stream' = stream \/ stream' = "none"
        BY <1>7, <1>a, ReadEffect DEF AnextInner, AnextInnerLock, respVars
    <2>2. started /\ body # "live" /\ ctx \notin {"unsent", "sending", "spent"} /\ ~Reading
        BY <1>a, <2>1 DEF ReaderSteps, AreaderSteps, BodyInv, ContextInv, Reading
    <2>3. CASE stream' = stream
        BY <2>1, <2>3, HolderSame
    <2>4. CASE stream = "some" /\ stream' = "none"
        <3>1. Holder = "iterator" /\ Holder' = "released"
            BY <2>1, <2>2, <2>4 DEF Reading
        <3> QED
            BY <2>1, <3>1 DEF Contract!Next, Contract!Release
    <2> QED
        BY <1>b, <2>1, <2>3, <2>4
<1>8. ASSUME NEW a \in Areaders, AreadTake(a) PROVE [Contract!Next]_(Contract!vars)
    <2>1. CASE body = "live"
        <3>1. /\ body' = "none" /\ UNCHANGED <<ctx, started, stream>>
              /\ rpc' = [rpc EXCEPT ![a] = "reading"]
            BY <1>8, <2>1 DEF AreadTake, Goto, liveVars
        <3>2. Holder = "response" /\ Holder' = "read"
            BY <1>8, <1>a, <2>1, <3>1 DEF AreadTake, BodyInv, Reading
        <3> QED
            BY <2>1, <3>1, <3>2 DEF Contract!Next, Contract!HandOver
    <2>2. CASE body # "live"
        BY <1>8, <2>2, HolderSame DEF AreadTake, ReturnNow, liveVars
    <2> QED
        BY <2>1, <2>2
<1>9. ASSUME NEW a \in Areaders, AreadChunk(a) PROVE UNCHANGED Contract!vars
    BY <1>9, HolderSame DEF AreadChunk
<1>10. ASSUME NEW a \in Areaders, AreadEnds(a) PROVE Contract!Next
    <2>1. /\ rpc[a] = "reading" /\ UNCHANGED <<ctx, body, started, stream>>
          /\ \E step \in {"store", "idle"} : rpc' = [rpc EXCEPT ![a] = step]
        BY <1>10 DEF AreadEnds, Goto, Finish, liveVars, respVars
    <2>2. body = "none" /\ ~started /\ ctx \notin {"unsent", "sending", "spent"} /\ Reading
        BY <1>a, <2>1 DEF AreaderSteps, ContextInv, Reading
    <2>3. ~Reading'
        BY <1>a, <2>1 DEF AreaderSteps, Reading
    <2>4. Holder = "read" /\ Holder' = "released"
        BY <2>1, <2>2, <2>3
    <2> QED
        BY <2>1, <2>4 DEF Contract!Next, Contract!Release
<1>11. ASSUME NEW a \in Areaders, AreadStore(a) PROVE Contract!Next
    <2>1. /\ rpc[a] = "store" /\ UNCHANGED <<ctx, started, stream>> /\ body' = "buffered"
          /\ rpc' = [rpc EXCEPT ![a] = "idle"]
        BY <1>11 DEF AreadStore, Finish, liveVars
    <2>2. body = "none" /\ ~started /\ ctx \notin {"unsent", "sending", "spent"}
        BY <1>a, <2>1 DEF AreaderSteps, ContextInv
    <2>3. ~Reading /\ ~Reading'
        BY <1>a, <2>1 DEF AreaderSteps, Reading
    <2>4. Holder = "released" /\ Holder' = "released"
        BY <2>1, <2>2, <2>3
    <2> QED
        BY <2>1, <2>4 DEF Contract!Next, Contract!Keep
<1>12. ASSUME NEW c \in Closers, Aclose(c) \/ Aexit(c) PROVE [Contract!Next]_(Contract!vars)
    <2>1. /\ ctx \in {"entered", "left"} /\ ctx' \in {"entered", "left"}
          /\ TakeBody(c) /\ body' = "none" /\ started' = started
          /\ \A a \in Areaders : rpc'[a] = rpc[a]
        BY <1>12, <1>a DEF Aclose, Aexit, TakeBody, Goto
    <2>2. stream' = stream
        BY <1>a, <2>1, CloseEffect DEF TakeBody, liveVars
    <2>3. Reading' <=> Reading
        BY <2>1 DEF Reading
    <2>4. CASE body = "live"
        <3>1. Holder = "response" /\ Holder' = "released"
            BY <1>a, <2>1, <2>2, <2>3, <2>4 DEF BodyInv, AreaderSteps, Reading
        <3> QED
            BY <2>1, <2>4, <3>1 DEF Contract!Next, Contract!Release
    <2>5. CASE body # "live"
        <3>1. Holder' = Holder
            BY <2>1, <2>2, <2>3, <2>5
        <3> QED
            BY <2>1, <3>1 DEF Contract!Next, Contract!Discard
    <2> QED
        BY <2>4, <2>5
<1>13. ASSUME NEW c \in Closers, CloseInner(c) PROVE UNCHANGED Contract!vars
    BY <1>13, <1>a, CloseEffect, HolderSame DEF CloseInner, respVars
<1>14. ASSUME NEW c \in Closers, CloseReturn(c) PROVE [Contract!Next]_(Contract!vars)
    <2>1. /\ UNCHANGED <<ctx, body, started>> /\ rpc[c] = "closing" /\ stream' = "none"
          /\ \A u \in Users : u # c => rpc'[u] = rpc[u]
        BY <1>14, <1>a, CloseEffect DEF CloseReturn, Goto, respVars
    <2>2. started /\ body # "live" /\ ctx \notin {"unsent", "sending", "spent"} /\ ~Reading /\ ~Reading'
        BY <1>a, <2>1 DEF CloserSteps, AreaderSteps, ContextInv, Reading
    <2>3. Holder \in {"iterator", "released"} /\ Holder' = "released"
        BY <2>1, <2>2
    <2> QED
        BY <2>1, <2>3 DEF Contract!Next, Contract!Release, Contract!vars
<1>15. ASSUME NEW u \in Users, Cancel(u) PROVE [Contract!Next]_(Contract!vars)
    <2>1. /\ UNCHANGED <<ctx, body, started>>
          /\ \A o \in Users : o # u => rpc'[o] = rpc[o]
          /\ \/ UNCHANGED liveVars
             \/ LS!Cancel(u) /\ u \in Readers \cup Closers
        BY <1>15, <1>a DEF Cancel, Goto, respVars, AreaderSteps
    <2>2. stream' = stream
        BY <1>a, <2>1, CancelEffect DEF liveVars
    <2>3. CASE rpc[u] # "reading"
        <3>1. rpc'[u] # "reading"
            BY <1>15, <1>a DEF Cancel, Goto
        <3> QED
            BY <2>1, <2>2, <2>3, <3>1, HolderSame
    <2>4. CASE rpc[u] = "reading"
        <3>1. u \in Areaders /\ rpc' = [rpc EXCEPT ![u] = "idle"]
            BY <1>15, <1>a, <2>4 DEF Cancel, Goto, ReaderSteps, CloserSteps, AnextSteps
        <3>2. body = "none" /\ ~started /\ ctx \notin {"unsent", "sending", "spent"} /\ Reading
            BY <1>a, <2>4, <3>1 DEF AreaderSteps, ContextInv, Reading
        <3>3. ~Reading'
            BY <1>a, <2>4, <3>1 DEF AreaderSteps, Reading
        <3>4. Holder = "read" /\ Holder' = "released"
            BY <2>1, <2>2, <3>2, <3>3
        <3> QED
            BY <2>1, <3>4 DEF Contract!Next, Contract!Release
    <2> QED
        BY <2>3, <2>4
<1>16. CASE Network
    BY <1>16, NetworkEffect, HolderSame DEF Network, respVars
<1> QED
    BY <1>1, <1>2, <1>3, <1>4, <1>5, <1>6, <1>7, <1>8, <1>9, <1>10, <1>11, <1>12, <1>13,
       <1>14, <1>15, <1>16
    DEF Next, AnextStep, AreadStep

\* The response, its iterators, areads and closes implement Connection: the
\* connection has one holder at any time, is handed over at most once, is never
\* taken up again after its release, and only a released one is kept as bytes.
THEOREM ResponseImplementsConnection == Spec => ImplementsConnection
<1>1. Init => Contract!Init
    BY InvInit, HolderIs DEF Init, HolderCases, Contract!Init
<1> QED
    BY <1>1, Invariant, ConnectionStep, PTL DEF Spec, ImplementsConnection, Contract!Spec

=============================================================================
