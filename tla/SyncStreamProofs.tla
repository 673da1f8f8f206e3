-------------------------- MODULE SyncStreamProofs --------------------------
(***************************************************************************)
(* Proofs about SyncStream for any number of threads that call next(),     *)
(* read() and close() and any number of chunks.  What the steps of the     *)
(* live stream preserve is taken from LiveStreamProofs.                    *)
(***************************************************************************)
EXTENDS SyncStream, TLAPS

LSP == INSTANCE LiveStreamProofs

-----------------------------------------------------------------------------
(* The inductive invariant                                                 *)

Results == {"none", "chunk", "end", "error", "closed", "stop", "borrowed", "panic",
            "ok", "pending", "live", "streaming", "buffered"}

VarTypes ==
    /\ gil \in Threads \cup {NoTask}
    /\ response \in Threads \cup {NoTask}
    /\ iterator \in Threads \cup {NoTask}
    /\ slot \in BOOLEAN /\ started \in BOOLEAN /\ fed \in BOOLEAN /\ finished \in BOOLEAN
    /\ body \in {"none", "live", "streaming", "buffered"}
    /\ tpc \in [Threads -> {"python", "top", "inner", "reading", "read", "closing", "done"}]
    /\ ret \in [Threads -> Results]

\* A borrow of the iterator or of the response lasts exactly as long as the
\* method that took it, also while the GIL is given up.
Borrows ==
    \A t \in Threads :
        /\ iterator = t <=> tpc[t] \in {"top", "inner"}
        /\ response = t <=> tpc[t] \in {"reading", "read", "closing"}

\* Where the threads of each kind can be, in Python and in the live stream.
ThreadSteps ==
    /\ \A r \in Readers :
          /\ tpc[r] \in {"python", "top", "inner"}
          /\ tpc[r] # "inner" => pc[r] = "idle"
          /\ tpc[r] # "python" => started
    /\ \A l \in Loaders :
          /\ tpc[l] \in {"python", "reading", "read"}
          /\ tpc[l] # "python" => body = "none" /\ ~started
    /\ \A c \in Closers :
          /\ tpc[c] \in {"python", "closing", "done"}
          /\ tpc[c] = "closing" <=> pc[c] \in {"mark", "notify", "drop"}
          /\ pc[c] # "cancelled"
          /\ pc[c] \in {"notify", "drop"} => closed
          /\ tpc[c] = "closing" => body = "none" /\ started
          /\ ret[c] = "ok" => tpc[c] = "done"

\* What each state of the body says about the iterator, and who still has the
\* connection of an iterator: the response, or the close that took it.
BodyInv ==
    /\ body \in {"live", "buffered"} => ~started
    /\ body = "streaming" => started
    /\ started /\ stream = "some" =>
          body = "streaming" \/ \E c \in Closers : tpc[c] = "closing"

\* What a close that has returned leaves behind.
FinalInv ==
    \A c \in Closers : ret[c] = "ok" =>
        /\ body = "none"
        /\ ~(started /\ stream = "some")
        /\ \A l \in Loaders : tpc[l] = "python"

IInv == LSP!IInv /\ VarTypes /\ Borrows /\ ThreadSteps /\ BodyInv /\ FinalInv

-----------------------------------------------------------------------------
(* The steps of the live stream, as the threads see them                   *)

LEMMA LiveAssumption == LSP!LiveStreamAssumption
BY SyncStreamAssumption DEF LSP!LiveStreamAssumption, LSP!Tasks, Threads

\* The live stream of the proofs is the live stream of the model.
LEMMA SameTypes == LS!TypeOK <=> LSP!TypeOK
BY DEF LS!TypeOK, LSP!TypeOK, LS!Tasks, LSP!Tasks, LS!ReadSteps, LSP!ReadSteps,
       LS!CloseSteps, LSP!CloseSteps, LS!Outcomes, LSP!Outcomes

LEMMA SameReads ==
    ASSUME NEW r \in Readers
    PROVE  /\ LS!ReadBegin(r) => LSP!Next
           /\ LS!ReadLock(r) => LSP!Next
           /\ LS!ReadStep(r) => LSP!Next
<1>1. LS!ReadBegin(r) => LSP!ReadBegin(r)
    BY DEF LS!ReadBegin, LSP!ReadBegin, LS!Goto, LSP!Goto
<1>2. LS!ReadLock(r) => LSP!ReadLock(r)
    BY DEF LS!ReadLock, LSP!ReadLock, LS!Goto, LSP!Goto
<1>3. LS!ReadCheck(r) => LSP!ReadCheck(r)
    BY DEF LS!ReadCheck, LSP!ReadCheck, LS!Goto, LSP!Goto, LS!Return, LSP!Return
<1>4. LS!ReadPoll(r) => LSP!ReadPoll(r)
    BY DEF LS!ReadPoll, LSP!ReadPoll, LS!Goto, LSP!Goto, LS!Return, LSP!Return
<1>5. LS!ReadData(r) => LSP!ReadData(r)
    BY DEF LS!ReadData, LSP!ReadData, LS!Goto, LSP!Goto, LS!Return, LSP!Return,
           LS!DropNotified, LSP!DropNotified
<1>6. LS!ReadWake(r) => LSP!ReadWake(r)
    BY DEF LS!ReadWake, LSP!ReadWake, LS!Goto, LSP!Goto
<1> QED
    BY <1>1, <1>2, <1>3, <1>4, <1>5, <1>6 DEF LS!ReadStep, LSP!ReadStep, LSP!Next

LEMMA SameCloses ==
    ASSUME NEW c \in Closers
    PROVE  /\ LS!CloseBegin(c) => LSP!Next
           /\ LS!CloseStep(c) => LSP!Next
           /\ LS!CloseDrop(c) => LSP!Next
<1>1. LS!CloseBegin(c) => LSP!CloseBegin(c)
    BY DEF LS!CloseBegin, LSP!CloseBegin, LS!Goto, LSP!Goto
<1>2. LS!CloseMark(c) => LSP!CloseMark(c)
    BY DEF LS!CloseMark, LSP!CloseMark, LS!Goto, LSP!Goto
<1>3. LS!CloseNotify(c) => LSP!CloseNotify(c)
    BY DEF LS!CloseNotify, LSP!CloseNotify, LS!Goto, LSP!Goto, LS!NotifyOne, LSP!NotifyOne
<1>4. LS!CloseDrop(c) => LSP!CloseDrop(c)
    BY DEF LS!CloseDrop, LSP!CloseDrop, LS!Goto, LSP!Goto
<1> QED
    BY <1>1, <1>2, <1>3, <1>4 DEF LS!CloseStep, LSP!CloseStep, LSP!Next

LEMMA SameNetwork == LS!Network => LSP!Next
BY DEF LS!Network, LSP!Network, LSP!Next

\* A step of next_chunk moves only the thread's own state, and the stream can
\* only go.
LEMMA ReadEffect ==
    ASSUME NEW r \in Readers, LS!ReadStep(r) \/ LS!ReadLock(r), LSP!TypeOK
    PROVE  /\ closed' = closed
           /\ stream' = stream \/ stream' = "none"
           /\ \A t \in Readers \cup Closers : t # r => pc'[t] = pc[t]
<1>0. r \in DOMAIN pc /\ DOMAIN pc = Readers \cup Closers
    BY DEF LSP!TypeOK, LSP!Tasks
<1>1. CASE LS!ReadLock(r)
    BY <1>0, <1>1 DEF LS!ReadLock, LS!Goto
<1>2. CASE LS!ReadCheck(r)
    BY <1>0, <1>2 DEF LS!ReadCheck, LS!Goto, LS!Return
<1>3. CASE LS!ReadPoll(r)
    BY <1>0, <1>3 DEF LS!ReadPoll, LS!Goto, LS!Return
<1>4. CASE LS!ReadData(r)
    BY <1>0, <1>4 DEF LS!ReadData, LS!Goto, LS!Return
<1>5. CASE LS!ReadWake(r)
    BY <1>0, <1>5 DEF LS!ReadWake, LS!Goto
<1> QED
    BY <1>1, <1>2, <1>3, <1>4, <1>5 DEF LS!ReadStep

\* The beginning of next_chunk.
LEMMA BeginEffect ==
    ASSUME NEW r \in Readers, LS!ReadBegin(r), LSP!TypeOK
    PROVE  /\ UNCHANGED <<stream, closed>>
           /\ \A t \in Readers \cup Closers : t # r => pc'[t] = pc[t]
BY DEF LS!ReadBegin, LS!Goto, LSP!TypeOK, LSP!Tasks

\* The steps of a close.
LEMMA CloseEffect ==
    ASSUME NEW c \in Closers, LSP!TypeOK
    PROVE  /\ LS!CloseBegin(c) =>
                 /\ UNCHANGED <<stream, closed>>
                 /\ pc'[c] = "mark"
                 /\ \A t \in Readers \cup Closers : t # c => pc'[t] = pc[t]
           /\ LS!CloseStep(c) =>
                 /\ UNCHANGED stream
                 /\ \/ pc'[c] = "notify" /\ closed'
                    \/ pc[c] = "notify" /\ pc'[c] = "drop" /\ closed' = closed
                 /\ closed => closed'
                 /\ \A t \in Readers \cup Closers : t # c => pc'[t] = pc[t]
           /\ LS!CloseDrop(c) =>
                 /\ UNCHANGED closed
                 /\ stream' = "none"
                 /\ pc'[c] = "done"
                 /\ \A t \in Readers \cup Closers : t # c => pc'[t] = pc[t]
<1>0. c \in DOMAIN pc /\ DOMAIN pc = Readers \cup Closers
    BY DEF LSP!TypeOK, LSP!Tasks
<1>1. LS!CloseMark(c) \/ LS!CloseNotify(c) =>
                 /\ UNCHANGED stream
                 /\ \/ pc'[c] = "notify" /\ closed'
                    \/ pc[c] = "notify" /\ pc'[c] = "drop" /\ closed' = closed
                 /\ closed => closed'
                 /\ \A t \in Readers \cup Closers : t # c => pc'[t] = pc[t]
    BY <1>0 DEF LS!CloseMark, LS!CloseNotify, LS!Goto
<1> QED
    BY <1>0, <1>1 DEF LS!CloseBegin, LS!CloseStep, LS!CloseDrop, LS!Goto

\* The answer of the server.
LEMMA NetworkEffect == LS!Network => UNCHANGED <<stream, closed, pc>>
BY DEF LS!Network

\* A thread is of one kind.
LEMMA Kinds ==
    /\ NoTask \notin Threads
    /\ Readers \subseteq Threads /\ Loaders \subseteq Threads /\ Closers \subseteq Threads
    /\ \A r \in Readers : r \notin Loaders /\ r \notin Closers /\ r # NoTask
    /\ \A l \in Loaders : l \notin Readers /\ l \notin Closers /\ l # NoTask
    /\ \A c \in Closers : c \notin Readers /\ c \notin Loaders /\ c # NoTask
BY SyncStreamAssumption DEF Threads

-----------------------------------------------------------------------------
(* One lemma for each part of the invariant                                *)

LEMMA VarTypesStep == IInv /\ [Next]_vars => VarTypes'
<1> SUFFICES ASSUME IInv, [Next]_vars PROVE VarTypes'
    OBVIOUS
<1>0. /\ LSP!TypeOK /\ VarTypes /\ Borrows /\ ThreadSteps /\ BodyInv /\ FinalInv
      /\ \A t \in Threads : t \in DOMAIN tpc /\ t \in DOMAIN ret
    BY DEF IInv, LSP!IInv, VarTypes
<1> USE <1>0, Kinds DEF VarTypes, Results
<1>1. CASE UNCHANGED vars
    BY <1>1 DEF vars, liveVars, objectVars
<1>2. ASSUME NEW t \in Readers, StartStream(t) PROVE VarTypes'
    BY <1>2 DEF StartStream, liveVars, objectVars
<1>3. ASSUME NEW t \in Readers, NextBegin(t) PROVE VarTypes'
    BY <1>3 DEF NextBegin, Goto, Return, liveVars, objectVars
<1>4. ASSUME NEW t \in Readers, NextTop(t) PROVE VarTypes'
    BY <1>4, BeginEffect DEF NextTop, Goto, Return, liveVars, objectVars
<1>5. ASSUME NEW t \in Readers, NextInner(t) PROVE VarTypes'
    BY <1>5, ReadEffect DEF NextInner, liveVars, objectVars
<1>6. ASSUME NEW t \in Readers, NextInnerLock(t) PROVE VarTypes'
    BY <1>6, ReadEffect DEF NextInnerLock, liveVars, objectVars
<1>7. ASSUME NEW t \in Readers, NextAttach(t) PROVE VarTypes'
    <2>1. out[t] \in {"none", "chunk", "end", "error", "closed"}
        <3>1. out \in [Readers -> LSP!Outcomes]
            BY <1>0 DEF LSP!TypeOK
        <3> QED
            BY <3>1 DEF LSP!Outcomes
    <2> QED
        <3>1. CASE out[t] \in {"chunk", "end"}
            <4>1. fed' \in BOOLEAN /\ finished' \in BOOLEAN
                <5>1. fed' = (out[t] = "chunk") /\ finished' = (out[t] = "end")
                    BY <1>7, <3>1 DEF NextAttach
                <5> QED
                    BY <5>1, Zenon
            <4>2. /\ gil' = t /\ tpc' = [tpc EXCEPT ![t] = "top"]
                  /\ UNCHANGED <<iterator, ret, response, slot, body, started>>
                BY <1>7, <3>1 DEF NextAttach, Goto
            <4> QED
                BY <4>1, <4>2
        <3>2. CASE out[t] \notin {"chunk", "end"}
            BY <1>7, <2>1, <3>2 DEF NextAttach, Return
        <3> QED
            BY <3>1, <3>2
<1>8. ASSUME NEW t \in Loaders, ReadTake(t) PROVE VarTypes'
    BY <1>8 DEF ReadTake, Goto, Return, liveVars, objectVars
<1>9. ASSUME NEW t \in Loaders, ReadChunk(t) PROVE VarTypes'
    BY <1>9 DEF ReadChunk, liveVars, objectVars
<1>10. ASSUME NEW t \in Loaders, ReadEnds(t) PROVE VarTypes'
    BY <1>10 DEF ReadEnds, Goto, liveVars, objectVars
<1>11. ASSUME NEW t \in Loaders, ReadAttach(t) PROVE VarTypes'
    <2>1. net \in {"pending", "chunk", "error", "end"}
        BY <1>0 DEF LSP!TypeOK
    <2> QED
        BY <1>11, <2>1 DEF ReadAttach, Return, liveVars, objectVars
<1>12. ASSUME NEW t \in Closers, CloseBegin(t) PROVE VarTypes'
    BY <1>12, CloseEffect DEF CloseBegin, Leaves, Goto, Return, liveVars, objectVars
<1>13. ASSUME NEW t \in Closers, CloseInner(t) PROVE VarTypes'
    BY <1>13, CloseEffect DEF CloseInner, liveVars, objectVars
<1>14. ASSUME NEW t \in Closers, CloseReturn(t) PROVE VarTypes'
    BY <1>14, CloseEffect DEF CloseReturn, Return, liveVars, objectVars
<1>15. CASE Network
    BY <1>15, NetworkEffect DEF Network, liveVars, objectVars
<1> QED
    BY <1>1, <1>2, <1>3, <1>4, <1>5, <1>6, <1>7, <1>8, <1>9, <1>10, <1>11, <1>12,
       <1>13, <1>14, <1>15
    DEF Next, Step, Waiting

LEMMA BorrowsStep == IInv /\ [Next]_vars => Borrows'
<1> SUFFICES ASSUME IInv, [Next]_vars PROVE Borrows'
    OBVIOUS
<1>0. /\ LSP!TypeOK /\ VarTypes /\ Borrows /\ ThreadSteps /\ BodyInv /\ FinalInv
      /\ \A t \in Threads : t \in DOMAIN tpc /\ t \in DOMAIN ret
    BY DEF IInv, LSP!IInv, VarTypes
<1> USE <1>0, Kinds DEF Borrows, VarTypes, ThreadSteps
<1>1. CASE UNCHANGED vars
    BY <1>1 DEF vars, liveVars, objectVars
<1>2. ASSUME NEW t \in Readers, StartStream(t) PROVE Borrows'
    BY <1>2 DEF StartStream, liveVars, objectVars
<1>3. ASSUME NEW t \in Readers, NextBegin(t) PROVE Borrows'
    <2> SUFFICES ASSUME NEW o \in Threads
                 PROVE  /\ iterator' = o <=> tpc'[o] \in {"top", "inner"}
                        /\ response' = o <=> tpc'[o] \in {"reading", "read", "closing"}
        OBVIOUS
    <2>1. CASE o = t
        BY <1>3, <2>1 DEF NextBegin, Goto, Return, objectVars
    <2>2. CASE o # t
        BY <1>3, <2>2 DEF NextBegin, Goto, Return, objectVars
    <2> QED
        BY <2>1, <2>2
<1>4. ASSUME NEW t \in Readers, NextTop(t) PROVE Borrows'
    <2> SUFFICES ASSUME NEW o \in Threads
                 PROVE  /\ iterator' = o <=> tpc'[o] \in {"top", "inner"}
                        /\ response' = o <=> tpc'[o] \in {"reading", "read", "closing"}
        OBVIOUS
    <2>1. CASE o = t
        BY <1>4, <2>1, BeginEffect DEF NextTop, Goto, Return, objectVars
    <2>2. CASE o # t
        BY <1>4, <2>2, BeginEffect DEF NextTop, Goto, Return, objectVars
    <2> QED
        BY <2>1, <2>2
<1>5. ASSUME NEW t \in Readers, NextInner(t) PROVE Borrows'
    BY <1>5, ReadEffect DEF NextInner, liveVars, objectVars
<1>6. ASSUME NEW t \in Readers, NextInnerLock(t) PROVE Borrows'
    BY <1>6, ReadEffect DEF NextInnerLock, liveVars, objectVars
<1>7. ASSUME NEW t \in Readers, NextAttach(t) PROVE Borrows'
    <2> SUFFICES ASSUME NEW o \in Threads
                 PROVE  /\ iterator' = o <=> tpc'[o] \in {"top", "inner"}
                        /\ response' = o <=> tpc'[o] \in {"reading", "read", "closing"}
        OBVIOUS
    <2>1. CASE o = t
        BY <1>7, <2>1 DEF NextAttach, Goto, Return, objectVars
    <2>2. CASE o # t
        BY <1>7, <2>2 DEF NextAttach, Goto, Return, objectVars
    <2> QED
        BY <2>1, <2>2
<1>8. ASSUME NEW t \in Loaders, ReadTake(t) PROVE Borrows'
    <2> SUFFICES ASSUME NEW o \in Threads
                 PROVE  /\ iterator' = o <=> tpc'[o] \in {"top", "inner"}
                        /\ response' = o <=> tpc'[o] \in {"reading", "read", "closing"}
        OBVIOUS
    <2>1. CASE o = t
        BY <1>8, <2>1 DEF ReadTake, Goto, Return, objectVars
    <2>2. CASE o # t
        BY <1>8, <2>2 DEF ReadTake, Goto, Return, objectVars
    <2> QED
        BY <2>1, <2>2
<1>9. ASSUME NEW t \in Loaders, ReadChunk(t) PROVE Borrows'
    BY <1>9 DEF ReadChunk, liveVars, objectVars
<1>10. ASSUME NEW t \in Loaders, ReadEnds(t) PROVE Borrows'
    BY <1>10 DEF ReadEnds, Goto, liveVars, objectVars
<1>11. ASSUME NEW t \in Loaders, ReadAttach(t) PROVE Borrows'
    <2> SUFFICES ASSUME NEW o \in Threads
                 PROVE  /\ iterator' = o <=> tpc'[o] \in {"top", "inner"}
                        /\ response' = o <=> tpc'[o] \in {"reading", "read", "closing"}
        OBVIOUS
    <2>1. CASE o = t
        BY <1>11, <2>1 DEF ReadAttach, Return, objectVars
    <2>2. CASE o # t
        BY <1>11, <2>2 DEF ReadAttach, Return, objectVars
    <2> QED
        BY <2>1, <2>2
<1>12. ASSUME NEW t \in Closers, CloseBegin(t) PROVE Borrows'
    <2> SUFFICES ASSUME NEW o \in Threads
                 PROVE  /\ iterator' = o <=> tpc'[o] \in {"top", "inner"}
                        /\ response' = o <=> tpc'[o] \in {"reading", "read", "closing"}
        OBVIOUS
    <2>1. CASE o = t
        BY <1>12, <2>1, CloseEffect DEF CloseBegin, Leaves, Goto, Return, objectVars
    <2>2. CASE o # t
        BY <1>12, <2>2, CloseEffect DEF CloseBegin, Leaves, Goto, Return, objectVars
    <2> QED
        BY <2>1, <2>2
<1>13. ASSUME NEW t \in Closers, CloseInner(t) PROVE Borrows'
    BY <1>13, CloseEffect DEF CloseInner, liveVars, objectVars
<1>14. ASSUME NEW t \in Closers, CloseReturn(t) PROVE Borrows'
    <2> SUFFICES ASSUME NEW o \in Threads
                 PROVE  /\ iterator' = o <=> tpc'[o] \in {"top", "inner"}
                        /\ response' = o <=> tpc'[o] \in {"reading", "read", "closing"}
        OBVIOUS
    <2>1. CASE o = t
        BY <1>14, <2>1, CloseEffect DEF CloseReturn, Return, objectVars
    <2>2. CASE o # t
        BY <1>14, <2>2, CloseEffect DEF CloseReturn, Return, objectVars
    <2> QED
        BY <2>1, <2>2
<1>15. CASE Network
    BY <1>15, NetworkEffect DEF Network, liveVars, objectVars
<1> QED
    BY <1>1, <1>2, <1>3, <1>4, <1>5, <1>6, <1>7, <1>8, <1>9, <1>10, <1>11, <1>12,
       <1>13, <1>14, <1>15
    DEF Next, Step, Waiting

LEMMA ThreadStepsStep == IInv /\ [Next]_vars => ThreadSteps'
<1> SUFFICES ASSUME IInv, [Next]_vars PROVE ThreadSteps'
    OBVIOUS
<1>0. /\ LSP!TypeOK /\ VarTypes /\ Borrows /\ ThreadSteps /\ BodyInv /\ FinalInv
      /\ \A t \in Threads : t \in DOMAIN tpc /\ t \in DOMAIN ret
    BY DEF IInv, LSP!IInv, VarTypes
<1> USE <1>0, Kinds DEF Borrows, VarTypes, ThreadSteps, BodyInv
<1>1. CASE UNCHANGED vars
    BY <1>1 DEF vars, liveVars, objectVars
<1>2. ASSUME NEW t \in Readers, StartStream(t) PROVE ThreadSteps'
    BY <1>2 DEF StartStream, liveVars, objectVars
<1>3. ASSUME NEW t \in Readers, NextBegin(t) PROVE ThreadSteps'
    BY <1>3 DEF NextBegin, Goto, Return, liveVars, objectVars
<1>4. ASSUME NEW t \in Readers, NextTop(t) PROVE ThreadSteps'
    BY <1>4, BeginEffect DEF NextTop, Goto, Return, liveVars, objectVars
<1>5. ASSUME NEW t \in Readers, NextInner(t) PROVE ThreadSteps'
    BY <1>5, ReadEffect DEF NextInner, liveVars, objectVars
<1>6. ASSUME NEW t \in Readers, NextInnerLock(t) PROVE ThreadSteps'
    BY <1>6, ReadEffect DEF NextInnerLock, liveVars, objectVars
<1>7. ASSUME NEW t \in Readers, NextAttach(t) PROVE ThreadSteps'
    BY <1>7 DEF NextAttach, Goto, Return, liveVars, objectVars
<1>8. ASSUME NEW t \in Loaders, ReadTake(t) PROVE ThreadSteps'
    BY <1>8 DEF ReadTake, Goto, Return, liveVars, objectVars
<1>9. ASSUME NEW t \in Loaders, ReadChunk(t) PROVE ThreadSteps'
    BY <1>9 DEF ReadChunk, liveVars, objectVars
<1>10. ASSUME NEW t \in Loaders, ReadEnds(t) PROVE ThreadSteps'
    BY <1>10 DEF ReadEnds, Goto, liveVars, objectVars
<1>11. ASSUME NEW t \in Loaders, ReadAttach(t) PROVE ThreadSteps'
    BY <1>11 DEF ReadAttach, Return, liveVars, objectVars
<1>12. ASSUME NEW t \in Closers, CloseBegin(t) PROVE ThreadSteps'
    BY <1>12, CloseEffect DEF CloseBegin, Leaves, Goto, Return, liveVars, objectVars
<1>13. ASSUME NEW t \in Closers, CloseInner(t) PROVE ThreadSteps'
    BY <1>13, CloseEffect DEF CloseInner, liveVars, objectVars
<1>14. ASSUME NEW t \in Closers, CloseReturn(t) PROVE ThreadSteps'
    BY <1>14, CloseEffect DEF CloseReturn, Return, liveVars, objectVars
<1>15. CASE Network
    BY <1>15, NetworkEffect DEF Network, liveVars, objectVars
<1> QED
    BY <1>1, <1>2, <1>3, <1>4, <1>5, <1>6, <1>7, <1>8, <1>9, <1>10, <1>11, <1>12,
       <1>13, <1>14, <1>15
    DEF Next, Step, Waiting

LEMMA BodyStep == IInv /\ [Next]_vars => BodyInv'
<1> SUFFICES ASSUME IInv, [Next]_vars PROVE BodyInv'
    OBVIOUS
<1>0. /\ LSP!TypeOK /\ VarTypes /\ Borrows /\ ThreadSteps /\ BodyInv /\ FinalInv
      /\ \A t \in Threads : t \in DOMAIN tpc /\ t \in DOMAIN ret
    BY DEF IInv, LSP!IInv, VarTypes
<1> USE <1>0, Kinds DEF Borrows, VarTypes, ThreadSteps, BodyInv
<1>1. CASE UNCHANGED vars
    BY <1>1 DEF vars, liveVars, objectVars
<1>2. ASSUME NEW t \in Readers, StartStream(t) PROVE BodyInv'
    BY <1>2 DEF StartStream, liveVars, objectVars
<1>3. ASSUME NEW t \in Readers, NextBegin(t) PROVE BodyInv'
    BY <1>3 DEF NextBegin, Goto, Return, liveVars, objectVars
<1>4. ASSUME NEW t \in Readers, NextTop(t) PROVE BodyInv'
    BY <1>4, BeginEffect DEF NextTop, Goto, Return, liveVars, objectVars
<1>5. ASSUME NEW t \in Readers, NextInner(t) PROVE BodyInv'
    BY <1>5, ReadEffect DEF NextInner, liveVars, objectVars
<1>6. ASSUME NEW t \in Readers, NextInnerLock(t) PROVE BodyInv'
    BY <1>6, ReadEffect DEF NextInnerLock, liveVars, objectVars
<1>7. ASSUME NEW t \in Readers, NextAttach(t) PROVE BodyInv'
    BY <1>7 DEF NextAttach, Goto, Return, liveVars, objectVars
<1>8. ASSUME NEW t \in Loaders, ReadTake(t) PROVE BodyInv'
    BY <1>8 DEF ReadTake, Goto, Return, liveVars, objectVars
<1>9. ASSUME NEW t \in Loaders, ReadChunk(t) PROVE BodyInv'
    BY <1>9 DEF ReadChunk, liveVars, objectVars
<1>10. ASSUME NEW t \in Loaders, ReadEnds(t) PROVE BodyInv'
    BY <1>10 DEF ReadEnds, Goto, liveVars, objectVars
<1>11. ASSUME NEW t \in Loaders, ReadAttach(t) PROVE BodyInv'
    BY <1>11 DEF ReadAttach, Return, liveVars, objectVars
<1>12. ASSUME NEW t \in Closers, CloseBegin(t) PROVE BodyInv'
    BY <1>12, CloseEffect DEF CloseBegin, Leaves, Goto, Return, liveVars, objectVars
<1>13. ASSUME NEW t \in Closers, CloseInner(t) PROVE BodyInv'
    BY <1>13, CloseEffect DEF CloseInner, liveVars, objectVars
<1>14. ASSUME NEW t \in Closers, CloseReturn(t) PROVE BodyInv'
    BY <1>14, CloseEffect DEF CloseReturn, Return, liveVars, objectVars
<1>15. CASE Network
    BY <1>15, NetworkEffect DEF Network, liveVars, objectVars
<1> QED
    BY <1>1, <1>2, <1>3, <1>4, <1>5, <1>6, <1>7, <1>8, <1>9, <1>10, <1>11, <1>12,
       <1>13, <1>14, <1>15
    DEF Next, Step, Waiting

LEMMA FinalStep == IInv /\ [Next]_vars => FinalInv'
<1> SUFFICES ASSUME IInv, [Next]_vars PROVE FinalInv'
    OBVIOUS
<1>0. /\ LSP!TypeOK /\ VarTypes /\ Borrows /\ ThreadSteps /\ BodyInv /\ FinalInv
      /\ \A t \in Threads : t \in DOMAIN tpc /\ t \in DOMAIN ret
    BY DEF IInv, LSP!IInv, VarTypes
<1> USE <1>0, Kinds DEF Borrows, VarTypes, ThreadSteps, BodyInv, FinalInv
<1>1. CASE UNCHANGED vars
    BY <1>1 DEF vars, liveVars, objectVars
<1>2. ASSUME NEW t \in Readers, StartStream(t) PROVE FinalInv'
    BY <1>2 DEF StartStream, liveVars, objectVars
<1>3. ASSUME NEW t \in Readers, NextBegin(t) PROVE FinalInv'
    BY <1>3 DEF NextBegin, Goto, Return, liveVars, objectVars
<1>4. ASSUME NEW t \in Readers, NextTop(t) PROVE FinalInv'
    BY <1>4, BeginEffect DEF NextTop, Goto, Return, liveVars, objectVars
<1>5. ASSUME NEW t \in Readers, NextInner(t) PROVE FinalInv'
    BY <1>5, ReadEffect DEF NextInner, liveVars, objectVars
<1>6. ASSUME NEW t \in Readers, NextInnerLock(t) PROVE FinalInv'
    BY <1>6, ReadEffect DEF NextInnerLock, liveVars, objectVars
<1>7. ASSUME NEW t \in Readers, NextAttach(t) PROVE FinalInv'
    BY <1>7 DEF NextAttach, Goto, Return, liveVars, objectVars
<1>8. ASSUME NEW t \in Loaders, ReadTake(t) PROVE FinalInv'
    BY <1>8 DEF ReadTake, Goto, Return, liveVars, objectVars
<1>9. ASSUME NEW t \in Loaders, ReadChunk(t) PROVE FinalInv'
    BY <1>9 DEF ReadChunk, liveVars, objectVars
<1>10. ASSUME NEW t \in Loaders, ReadEnds(t) PROVE FinalInv'
    BY <1>10 DEF ReadEnds, Goto, liveVars, objectVars
<1>11. ASSUME NEW t \in Loaders, ReadAttach(t) PROVE FinalInv'
    BY <1>11 DEF ReadAttach, Return, liveVars, objectVars
<1>12. ASSUME NEW t \in Closers, CloseBegin(t) PROVE FinalInv'
    BY <1>12, CloseEffect DEF CloseBegin, Leaves, Goto, Return, liveVars, objectVars
<1>13. ASSUME NEW t \in Closers, CloseInner(t) PROVE FinalInv'
    BY <1>13, CloseEffect DEF CloseInner, liveVars, objectVars
<1>14. ASSUME NEW t \in Closers, CloseReturn(t) PROVE FinalInv'
    BY <1>14, CloseEffect DEF CloseReturn, Return, liveVars, objectVars
<1>15. CASE Network
    BY <1>15, NetworkEffect DEF Network, liveVars, objectVars
<1> QED
    BY <1>1, <1>2, <1>3, <1>4, <1>5, <1>6, <1>7, <1>8, <1>9, <1>10, <1>11, <1>12,
       <1>13, <1>14, <1>15
    DEF Next, Step, Waiting

\* The threads use the live stream by its own steps; read() takes a chunk off
\* the network without it, which its invariant does not mind.
LEMMA LiveStep == IInv /\ [Next]_vars => LSP!IInv'
<1> SUFFICES ASSUME IInv, [Next]_vars PROVE LSP!IInv'
    OBVIOUS
<1>0. LSP!IInv
    BY DEF IInv
<1>1. ASSUME [LSP!Next]_(LSP!vars) PROVE LSP!IInv'
    BY <1>0, <1>1, LiveAssumption, LSP!InvStep
<1>2. ASSUME UNCHANGED liveVars PROVE LSP!IInv'
    BY <1>1, <1>2 DEF LSP!vars, liveVars
<1>3. ASSUME NEW t \in Loaders, ReadChunk(t) PROVE LSP!IInv'
    BY <1>0, <1>3 DEF ReadChunk, LSP!IInv, LSP!TypeOK, LSP!PermitOrWaiter,
                      LSP!SignalReaches, LSP!CloserDrops
<1>4. ASSUME NEW t \in Readers,
             \/ StartStream(t) \/ NextBegin(t) \/ NextTop(t)
             \/ NextInner(t) \/ NextInnerLock(t) \/ NextAttach(t)
      PROVE  LSP!IInv'
    BY <1>1, <1>2, <1>4, SameReads
    DEF StartStream, NextBegin, NextTop, NextInner, NextInnerLock, NextAttach
<1>5. ASSUME NEW t \in Loaders, ReadTake(t) \/ ReadEnds(t) \/ ReadAttach(t)
      PROVE  LSP!IInv'
    BY <1>2, <1>5 DEF ReadTake, ReadEnds, ReadAttach
<1>6. ASSUME NEW t \in Closers, CloseBegin(t) \/ CloseInner(t) \/ CloseReturn(t)
      PROVE  LSP!IInv'
    BY <1>1, <1>2, <1>6, SameCloses DEF CloseBegin, CloseInner, CloseReturn
<1>7. CASE Network
    BY <1>1, <1>7, SameNetwork DEF Network
<1>8. CASE UNCHANGED vars
    BY <1>2, <1>8 DEF vars
<1> QED
    BY <1>3, <1>4, <1>5, <1>6, <1>7, <1>8 DEF Next, Step, Waiting

-----------------------------------------------------------------------------
(* The theorems                                                            *)

LEMMA InvInit == Init => IInv
<1> SUFFICES ASSUME Init PROVE IInv
    OBVIOUS
<1>1. LSP!Init
    BY DEF Init, LS!Init, LSP!Init, LS!Tasks, LSP!Tasks
<1>2. LSP!IInv
    BY <1>1, LiveAssumption, LSP!InvInit
<1>3. /\ \A t \in Readers \cup Closers : pc[t] = "idle"
      /\ stream = "some"
    BY DEF Init, LS!Init, LS!Tasks
<1>4. \A t \in Threads : tpc[t] = "python" /\ ret[t] = "none"
    BY DEF Init
<1>5. VarTypes
    BY DEF Init, VarTypes, Results
<1>6. Borrows /\ ThreadSteps /\ BodyInv /\ FinalInv
    BY <1>3, <1>4, Kinds DEF Init, Borrows, ThreadSteps, BodyInv, FinalInv
<1> QED
    BY <1>2, <1>5, <1>6 DEF IInv

LEMMA InvStep == IInv /\ [Next]_vars => IInv'
BY LiveStep, VarTypesStep, BorrowsStep, ThreadStepsStep, BodyStep, FinalStep DEF IInv

\* The invariant holds in every state of the threads.
LEMMA Invariant == Spec => []IInv
<1> QED
    BY InvInit, InvStep, PTL DEF Spec

\* Types, and the borrows of PyO3 for any number of threads: the iterator is
\* borrowed by exactly the thread inside next(), the response by exactly the
\* thread inside read() or close(), although each gives the GIL up meanwhile.
THEOREM SyncTypes == Spec => []TypeOK
<1>1. ASSUME IInv PROVE TypeOK
    <2>1. LSP!TypeOK /\ VarTypes /\ Borrows
        BY <1>1 DEF IInv, LSP!IInv
    <2>2. LS!TypeOK
        BY <2>1, SameTypes
    <2> QED
        BY <2>1, <2>2 DEF TypeOK, VarTypes, Borrows
<1> QED
    BY <1>1, Invariant, PTL

\* A close() or __exit__ that returns without an error is final: nothing holds
\* the connection any more, and no read() under way brings a body back.
THEOREM SyncCloseFinal == Spec => []CloseIsFinal
<1>1. ASSUME IInv, NEW c \in Closers, ret[c] = "ok" PROVE body = "none" /\ ~Held
    BY <1>1 DEF IInv, FinalInv, Held
<1>2. IInv => CloseIsFinal
    BY <1>1 DEF CloseIsFinal
<1> QED
    BY <1>2, Invariant, PTL

\* A close has come to the mutex, where it waits with the GIL, and a reader
\* sleeps in select! that only the server can wake.
CloseSleepsBehindReader ==
    \E c \in Closers, r \in Readers :
        pc[c] = "drop" /\ pc[r] = "wait" /\ waiter = "waiting"

\* A close that has come to the mutex, with the GIL, never waits there for a
\* reader that sleeps until the server sends something: the reader has been
\* woken, or finds the signal at its next poll.  With the fairness of FairSpec
\* this is why the GIL comes back.
THEOREM GilNeverWaitsForServer == Spec => []~CloseSleepsBehindReader
<1>1. ASSUME IInv, NEW c \in Closers, pc[c] = "drop"
      PROVE  closed /\ \A d \in Closers : pc[d] # "notify"
    <2>1. /\ closed /\ tpc[c] = "closing"
          /\ \A d \in Closers : pc[d] = "notify" => tpc[d] = "closing"
        BY <1>1 DEF IInv, ThreadSteps
    <2>2. \A d \in Closers : tpc[d] = "closing" => d = c
        BY <1>1, <2>1, Kinds DEF IInv, Borrows
    <2> QED
        BY <1>1, <2>1, <2>2
<1>2. ASSUME IInv, NEW c \in Closers, pc[c] = "drop", NEW r \in Readers, pc[r] = "wait"
      PROVE  waiter # "waiting"
    BY <1>1, <1>2 DEF IInv, LSP!IInv, LSP!PermitOrWaiter, LSP!SignalReaches, LSP!Inside
<1>3. IInv => ~CloseSleepsBehindReader
    BY <1>2 DEF CloseSleepsBehindReader
<1> QED
    BY <1>3, Invariant, PTL

\* Once the flag is set and no thread is inside the live stream, the stream is
\* gone: no close of a thread can be cancelled, so it needs no hypothesis.
THEOREM SyncClosedIsDropped == Spec => []LS!ClosedStreamIsDropped
<1>1. ASSUME IInv PROVE LS!ClosedStreamIsDropped
    <2>1. LSP!CloserDrops /\ LSP!TypeOK /\ \A c \in Closers : pc[c] # "cancelled"
        BY <1>1 DEF IInv, LSP!IInv, ThreadSteps
    <2> QED
        BY <2>1 DEF LS!ClosedStreamIsDropped, LS!Tasks, LSP!CloserDrops
<1> QED
    BY <1>1, Invariant, PTL

=============================================================================
