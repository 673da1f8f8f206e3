------------------------------ MODULE Runtime ------------------------------
(***************************************************************************)
(* The fork-aware tokio runtime of crates/rqx/src/runtime.rs.              *)
(*                                                                         *)
(* Every process keeps one static Runtime: an AtomicPtr to the current     *)
(* Slot and a closed flag.  Threads of the process call handle() to get    *)
(* the runtime, building it on first use and rebuilding it after fork();   *)
(* the atexit hook calls shutdown().  Each action below is one atomic step *)
(* of that code (a load, a store, a swap or a compare_exchange, with the   *)
(* thread-private work up to the next one).                                *)
(*                                                                         *)
(* fork() copies the heap of a process, with its Slots, but not the worker *)
(* threads of its tokio runtimes and not the other threads: a Slot whose   *)
(* home is another process holds a runtime that nobody drives.             *)
(***************************************************************************)

CONSTANTS Procs,    \* the processes that may exist
          Threads,  \* the Python threads that call into the extension
          Addrs,    \* heap addresses at which a Slot can be allocated
          Home,     \* the process each thread belongs to
          PidOf,    \* the PID each process is given when it is forked
          Root,     \* the process that exists first
          Null      \* the null pointer

ASSUME RuntimeAssumption ==
    /\ Home \in [Threads -> Procs]
    /\ Root \in Procs
    /\ Null \notin Addrs

VARIABLES life,     \* life[p]: has p been forked, has it exited
          current,  \* current[p]: Runtime.current of process p
          closed,   \* closed[p]: Runtime.closed of process p
          heap,     \* heap[p][a]: the Slot at address a of process p
          pc,       \* pc[t]: the atomic step thread t takes next
          seen,     \* seen[t]: the pointer build() expects to replace
          slot,     \* slot[t]: the Slot the running call works on
          task      \* task[t]: the slot on which a future of t is in flight

vars == <<life, current, closed, heap, pc, seen, slot, task>>

Pids == {PidOf[p] : p \in Procs}

(***************************************************************************)
(* A Slot: the PID it was built for, the process whose worker threads      *)
(* drive it, and its Mutex<Option<TokioRuntime>>.  "held" is Some,         *)
(* "taken" is None with the runtime still shutting down, "stopped" is None *)
(* and down.  A cell that is not allocated is "free".                      *)
(***************************************************************************)
Slot == [pid : Pids, home : Procs, runtime : {"free", "held", "taken", "stopped"}]

FreeCell == [pid |-> PidOf[Root], home |-> Root, runtime |-> "free"]

NewSlot(p) == [pid |-> PidOf[p], home |-> p, runtime |-> "held"]

HandleSteps == {"check", "load", "build", "install", "recheck", "retract", "retake"}
ShutdownSteps == {"swap", "take", "stop"}

Running(t) == life[Home[t]] = "running"

At(t, step) == Running(t) /\ pc[t] = step

\* Thread t returns to Python, with an error or with nothing to hand over.
Return(t) ==
    /\ pc' = [pc EXCEPT ![t] = "idle"]
    /\ seen' = [seen EXCEPT ![t] = Null]
    /\ slot' = [slot EXCEPT ![t] = Null]

\* Mutant of SlotFor: the PID of the slot is not compared.
SlotForNoPid(p, a) == a # Null

\* slot_for: the slot behind a pointer, if there is one and it has our PID.
SlotFor(p, a) == a # Null /\ heap[p][a].pid = PidOf[p]

Init ==
    /\ life = [p \in Procs |-> IF p = Root THEN "running" ELSE "unborn"]
    /\ current = [p \in Procs |-> Null]
    /\ closed = [p \in Procs |-> FALSE]
    /\ heap = [p \in Procs |-> [a \in Addrs |-> FreeCell]]
    /\ pc = [t \in Threads |-> "idle"]
    /\ seen = [t \in Threads |-> Null]
    /\ slot = [t \in Threads |-> Null]
    /\ task = [t \in Threads |-> Null]

-----------------------------------------------------------------------------
(* handle() and build()                                                    *)

\* A Python thread calls an operation that needs the runtime.  Bound: one
\* future per thread is in flight at a time.
Call(t) ==
    /\ At(t, "idle")
    /\ task[t] = Null
    /\ pc' = [pc EXCEPT ![t] = "check"]
    /\ UNCHANGED <<life, current, closed, heap, seen, slot, task>>

\* closed.load(): an error once shutdown has begun.
HandleCheck(t) ==
    /\ At(t, "check")
    /\ \/ /\ closed[Home[t]]
          /\ Return(t)
       \/ /\ ~closed[Home[t]]
          /\ pc' = [pc EXCEPT ![t] = "load"]
          /\ UNCHANGED <<seen, slot>>
    /\ UNCHANGED <<life, current, closed, heap, task>>

\* current.load(): our own slot is returned, anything else is to be replaced.
HandleLoad(t) ==
    LET p == Home[t] IN
    /\ At(t, "load")
    /\ \/ /\ SlotFor(p, current[p])
          /\ slot' = [slot EXCEPT ![t] = current[p]]
          /\ pc' = [pc EXCEPT ![t] = "ready"]
          /\ UNCHANGED seen
       \/ /\ ~SlotFor(p, current[p])
          /\ seen' = [seen EXCEPT ![t] = current[p]]
          /\ pc' = [pc EXCEPT ![t] = "build"]
          /\ UNCHANGED slot
    /\ UNCHANGED <<life, current, closed, heap, task>>

\* Builder::build() succeeds and the runtime is boxed in a fresh Slot, at any
\* address that is free, one that a losing thread freed included ...
BuildSlot(t) ==
    LET p == Home[t] IN
    /\ At(t, "build")
    /\ \E a \in {b \in Addrs : heap[p][b].runtime = "free"} :
          /\ heap' = [heap EXCEPT ![p][a] = NewSlot(p)]
          /\ slot' = [slot EXCEPT ![t] = a]
    /\ pc' = [pc EXCEPT ![t] = "install"]
    /\ UNCHANGED <<life, current, closed, seen, task>>

\* ... or it fails and handle() returns the error.
BuildFails(t) ==
    /\ At(t, "build")
    /\ Return(t)
    /\ UNCHANGED <<life, current, closed, heap, task>>

\* Mutant of InstallWins: a plain store instead of a compare_exchange.
InstallStores(t) ==
    LET p == Home[t] IN
    /\ At(t, "install")
    /\ current' = [current EXCEPT ![p] = slot[t]]
    /\ pc' = [pc EXCEPT ![t] = "recheck"]
    /\ seen' = [seen EXCEPT ![t] = Null]
    /\ UNCHANGED <<life, closed, heap, slot, task>>

\* current.compare_exchange(seen, slot) succeeds.
InstallWins(t) ==
    LET p == Home[t] IN
    /\ At(t, "install")
    /\ current[p] = seen[t]
    /\ current' = [current EXCEPT ![p] = slot[t]]
    /\ pc' = [pc EXCEPT ![t] = "recheck"]
    /\ seen' = [seen EXCEPT ![t] = Null]
    /\ UNCHANGED <<life, closed, heap, slot, task>>

\* Mutant of InstallLoses: the next attempt expects the old pointer again.
InstallLosesKeepsSeen(t) ==
    LET p == Home[t] IN
    /\ At(t, "install")
    /\ current[p] # seen[t]
    /\ heap' = [heap EXCEPT ![p][slot[t]] = FreeCell]
    /\ slot' = [slot EXCEPT ![t] = IF SlotFor(p, current[p]) THEN current[p] ELSE Null]
    /\ seen' = [seen EXCEPT ![t] = IF SlotFor(p, current[p]) THEN Null ELSE @]
    /\ pc' = [pc EXCEPT ![t] = IF SlotFor(p, current[p]) THEN "ready" ELSE "build"]
    /\ UNCHANGED <<life, current, closed, task>>

\* It fails: our slot is freed, and the winner is used if it has our PID,
\* else it is the next one to replace.
InstallLoses(t) ==
    LET p == Home[t] IN
    /\ At(t, "install")
    /\ current[p] # seen[t]
    /\ heap' = [heap EXCEPT ![p][slot[t]] = FreeCell]
    /\ \/ /\ SlotFor(p, current[p])
          /\ slot' = [slot EXCEPT ![t] = current[p]]
          /\ seen' = [seen EXCEPT ![t] = Null]
          /\ pc' = [pc EXCEPT ![t] = "ready"]
       \/ /\ ~SlotFor(p, current[p])
          /\ seen' = [seen EXCEPT ![t] = current[p]]
          /\ slot' = [slot EXCEPT ![t] = Null]
          /\ pc' = [pc EXCEPT ![t] = "build"]
    /\ UNCHANGED <<life, current, closed, task>>

\* Mutant of BuildRecheck: the flag is not read again.
BuildNoRecheck(t) ==
    /\ At(t, "recheck")
    /\ pc' = [pc EXCEPT ![t] = "ready"]
    /\ UNCHANGED <<life, current, closed, heap, seen, slot, task>>

\* closed.load() after the install: shutdown may have run in between.
BuildRecheck(t) ==
    /\ At(t, "recheck")
    /\ pc' = [pc EXCEPT ![t] = IF closed[Home[t]] THEN "retract" ELSE "ready"]
    /\ UNCHANGED <<life, current, closed, heap, seen, slot, task>>

\* retract: current.compare_exchange(slot, null), whatever it returns.
RetractUnpublish(t) ==
    LET p == Home[t] IN
    /\ At(t, "retract")
    /\ current' = [current EXCEPT ![p] = IF @ = slot[t] THEN Null ELSE @]
    /\ pc' = [pc EXCEPT ![t] = "retake"]
    /\ UNCHANGED <<life, closed, heap, seen, slot, task>>

\* A runtime that is shut down cancels the futures that run on it.
CancelTasks(p, a) ==
    [u \in Threads |-> IF Home[u] = p /\ task[u] = a THEN Null ELSE task[u]]

\* Mutant of RetractTake: the slot is freed with the runtime in it.
RetractFrees(t) ==
    LET p == Home[t]
        a == slot[t]
    IN
    /\ At(t, "retake")
    /\ heap' = [heap EXCEPT ![p][a] = FreeCell]
    /\ task' = CancelTasks(p, a)
    /\ Return(t)
    /\ UNCHANGED <<life, current, closed>>

\* retract: the runtime is taken out of the slot, unless shutdown has taken
\* it, and shut down in the background.
RetractTake(t) ==
    LET p == Home[t]
        a == slot[t]
    IN
    /\ At(t, "retake")
    /\ \/ /\ heap[p][a].runtime = "held"
          /\ heap' = [heap EXCEPT ![p][a].runtime = "stopped"]
          /\ task' = CancelTasks(p, a)
       \/ /\ heap[p][a].runtime # "held"
          /\ UNCHANGED <<heap, task>>
    /\ Return(t)
    /\ UNCHANGED <<life, current, closed>>

-----------------------------------------------------------------------------
(* What the caller does with the handle                                    *)

\* block_on or future_into_py: the future is handed to the runtime, which
\* drops it at once when it is no longer running.
Spawn(t) ==
    /\ At(t, "ready")
    /\ task' = [task EXCEPT ![t] =
                    IF heap[Home[t]][slot[t]].runtime = "stopped" THEN Null ELSE slot[t]]
    /\ Return(t)
    /\ UNCHANGED <<life, current, closed, heap>>

\* The future completes on the runtime's workers.
TaskDone(t) ==
    /\ Running(t)
    /\ task[t] # Null
    /\ task' = [task EXCEPT ![t] = Null]
    /\ UNCHANGED <<life, current, closed, heap, pc, seen, slot>>

-----------------------------------------------------------------------------
(* shutdown(), from the atexit hook, with the GIL released                 *)

\* closed.store(true).
ShutdownClose(t) ==
    /\ At(t, "idle")
    /\ closed' = [closed EXCEPT ![Home[t]] = TRUE]
    /\ pc' = [pc EXCEPT ![t] = "swap"]
    /\ UNCHANGED <<life, current, heap, seen, slot, task>>

\* current.swap(null): a slot of our own is to be emptied; nothing, or the
\* slot of an ancestor, is left alone.
ShutdownSwap(t) ==
    LET p == Home[t] IN
    /\ At(t, "swap")
    /\ current' = [current EXCEPT ![p] = Null]
    /\ \/ /\ SlotFor(p, current[p])
          /\ slot' = [slot EXCEPT ![t] = current[p]]
          /\ pc' = [pc EXCEPT ![t] = "take"]
          /\ UNCHANGED seen
       \/ /\ ~SlotFor(p, current[p])
          /\ Return(t)
    /\ UNCHANGED <<life, closed, heap, task>>

\* The runtime is taken out of the slot, unless retract has taken it.
ShutdownTake(t) ==
    LET p == Home[t]
        a == slot[t]
    IN
    /\ At(t, "take")
    /\ \/ /\ heap[p][a].runtime = "held"
          /\ heap' = [heap EXCEPT ![p][a].runtime = "taken"]
          /\ pc' = [pc EXCEPT ![t] = "stop"]
          /\ UNCHANGED <<seen, slot>>
       \/ /\ heap[p][a].runtime # "held"
          /\ Return(t)
          /\ UNCHANGED heap
    /\ UNCHANGED <<life, current, closed, task>>

\* shutdown_timeout returns: the tasks are cancelled and the workers joined.
ShutdownStop(t) ==
    LET p == Home[t]
        a == slot[t]
    IN
    /\ At(t, "stop")
    /\ heap' = [heap EXCEPT ![p][a].runtime = "stopped"]
    /\ task' = CancelTasks(p, a)
    /\ Return(t)
    /\ UNCHANGED <<life, current, closed>>

-----------------------------------------------------------------------------
(* Processes                                                               *)

\* Thread t of p forks q: the memory is copied, the forking thread is the
\* only one that survives (at "idle": it is in fork(), not in handle()), and
\* the PID is one that no running process has.
Fork(t, q) ==
    LET p == Home[t] IN
    /\ At(t, "idle")
    /\ life[q] = "unborn"
    /\ \A r \in Procs : life[r] = "running" => PidOf[r] # PidOf[q]
    /\ life' = [life EXCEPT ![q] = "running"]
    /\ current' = [current EXCEPT ![q] = current[p]]
    /\ closed' = [closed EXCEPT ![q] = closed[p]]
    /\ heap' = [heap EXCEPT ![q] = heap[p]]
    /\ UNCHANGED <<pc, seen, slot, task>>

\* Process p ends, at any point, and its memory and threads with it.
Exit(p) ==
    /\ life[p] = "running"
    /\ life' = [life EXCEPT ![p] = "exited"]
    /\ current' = [current EXCEPT ![p] = Null]
    /\ closed' = [closed EXCEPT ![p] = FALSE]
    /\ heap' = [heap EXCEPT ![p] = [a \in Addrs |-> FreeCell]]
    /\ pc' = [t \in Threads |-> IF Home[t] = p THEN "idle" ELSE pc[t]]
    /\ seen' = [t \in Threads |-> IF Home[t] = p THEN Null ELSE seen[t]]
    /\ slot' = [t \in Threads |-> IF Home[t] = p THEN Null ELSE slot[t]]
    /\ task' = [t \in Threads |-> IF Home[t] = p THEN Null ELSE task[t]]

-----------------------------------------------------------------------------
\* The steps a thread takes inside handle(), until it has its answer.
HandleStep(t) ==
    \/ HandleCheck(t)
    \/ HandleLoad(t)
    \/ BuildSlot(t)
    \/ BuildFails(t)
    \/ InstallWins(t)
    \/ InstallLoses(t)
    \/ BuildRecheck(t)
    \/ RetractUnpublish(t)
    \/ RetractTake(t)

\* The steps a thread takes inside shutdown(), once it has set the flag.
ShutdownStep(t) ==
    \/ ShutdownSwap(t)
    \/ ShutdownTake(t)
    \/ ShutdownStop(t)

Next ==
    \/ \E t \in Threads :
          \/ Call(t)
          \/ HandleStep(t)
          \/ Spawn(t)
          \/ TaskDone(t)
          \/ ShutdownClose(t)
          \/ ShutdownStep(t)
          \/ \E q \in Procs : Fork(t, q)
    \/ \E p \in Procs : Exit(p)

Spec == Init /\ [][Next]_vars

(***************************************************************************)
(* The operating system schedules every thread that is inside handle() or  *)
(* shutdown().  Calls, futures, forks and exits are the program's choice.  *)
(***************************************************************************)
Fairness == \A t \in Threads : WF_vars(HandleStep(t) \/ ShutdownStep(t))

FairSpec == Spec /\ Fairness

-----------------------------------------------------------------------------
(* Properties                                                              *)

\* The values each variable ranges over.
VarTypes ==
    /\ life \in [Procs -> {"unborn", "running", "exited"}]
    /\ current \in [Procs -> Addrs \cup {Null}]
    /\ closed \in [Procs -> BOOLEAN]
    /\ heap \in [Procs -> [Addrs -> Slot]]
    /\ pc \in [Threads -> {"idle", "ready"} \cup HandleSteps \cup ShutdownSteps]
    /\ seen \in [Threads -> Addrs \cup {Null}]
    /\ slot \in [Threads -> Addrs \cup {Null}]
    /\ task \in [Threads -> Addrs \cup {Null}]

\* A call's local variables are set exactly at the steps that use them.
LocalsInUse ==
    \A t \in Threads :
        /\ slot[t] = Null <=> pc[t] \in {"idle", "check", "load", "build", "swap"}
        /\ seen[t] # Null => pc[t] \in {"build", "install"}

\* Type correctness of the state of all processes and threads.
TypeOK == VarTypes /\ LocalsInUse

\* The steps at which slot[t] is a slot that build() or handle() published.
PublishedSteps == {"ready", "recheck", "retract", "retake", "take", "stop"}

\* runtime.rs:23-26, "A child that inherited a runtime from its parent gets a
\* fresh one": a handle that is given out, a runtime that is retracted and one
\* that is shut down were built by the calling process, so no future waits for
\* workers that fork() left behind and no inherited mutex is ever locked.
OwnRuntimeOnly ==
    \A t \in Threads :
        pc[t] \in PublishedSteps => heap[Home[t]][slot[t]].home = Home[t]

\* runtime.rs:71-76 and 274-279: the one slot that is freed was never shared.
\* No pointer that a running process still keeps, in current or in a local
\* variable of a thread, leads to memory that has been freed.
NoUseAfterFree ==
    /\ \A p \in Procs : current[p] # Null => heap[p][current[p]].runtime # "free"
    /\ \A t \in Threads :
          /\ seen[t] # Null => heap[Home[t]][seen[t]].runtime # "free"
          /\ slot[t] # Null => heap[Home[t]][slot[t]].runtime # "free"
          /\ task[t] # Null => heap[Home[t]][task[t]].runtime # "free"

\* Until shutdown begins the process has one runtime: every handle that a
\* thread holds and every future in flight is on the slot current points at,
\* whichever threads raced in build().
OneRuntimeWhileOpen ==
    \A t \in Threads :
        ~closed[Home[t]] =>
            /\ pc[t] \in {"ready", "recheck"} => slot[t] = current[Home[t]]
            /\ task[t] # Null => task[t] = current[Home[t]]

\* A runtime whose worker threads run in process p.
Live(p, a) == heap[p][a].home = p /\ heap[p][a].runtime \in {"held", "taken"}

\* Thread t is committed to stopping, or freeing, the runtime at address a.
WillStop(t, a) ==
    \/ pc[t] = "swap" /\ current[Home[t]] = a
    \/ pc[t] \in {"install", "recheck", "retract", "retake", "take", "stop"} /\ slot[t] = a

\* runtime.rs:262-265, "no runtime outlives shutdown": from the moment the
\* flag is set, every runtime still up has a thread that is on its way to
\* stop it, builders that shutdown could not see included.
NoRuntimeOutlivesShutdown ==
    \A p \in Procs : closed[p] =>
        \A a \in Addrs : Live(p, a) =>
            \E t \in Threads : Home[t] = p /\ WillStop(t, a)

\* runtime.rs:202-203, "The runtime is brand new and owns no tasks, so a
\* non-blocking shutdown is complete": nothing runs on a runtime that retract
\* is about to shut down without waiting.
RetractedRuntimeIsIdle ==
    \A t \in Threads :
        (pc[t] = "retake" /\ heap[Home[t]][slot[t]].runtime = "held") =>
            ~ \E u \in Threads : Home[u] = Home[t] /\ task[u] = slot[t]

\* Every call of handle() comes back, with a handle or an error, however the
\* other threads race it, fork or shut down: no thread stays inside for ever.
HandleReturns ==
    \A t \in Threads : []<>(pc[t] \notin HandleSteps)

\* Once shutdown() has begun, the process gets rid of every runtime it built,
\* also of one that a late build() puts up.  (The flag is never taken back.)
ShutdownDrains ==
    \A p \in Procs : []<>(closed[p] => \A a \in Addrs : ~Live(p, a))

=============================================================================
