--------------------------- MODULE RuntimeProofs ---------------------------
(***************************************************************************)
(* Theorems about Runtime: type correctness for all constants, and the     *)
(* safety properties of the runtime for any number of processes, threads   *)
(* and addresses, provided that no two processes ever have the same PID.   *)
(***************************************************************************)
EXTENDS Runtime, TLAPS

\* The kernel never gives the PID of a process to another one.
PidsDistinct == \A p, q \in Procs : PidOf[p] = PidOf[q] => p = q

-----------------------------------------------------------------------------
(* The inductive invariant                                                 *)

\* A process that is not running has no memory and no thread in a call.
NotRunningIsEmpty ==
    /\ \A p \in Procs : life[p] # "running" =>
          /\ current[p] = Null
          /\ ~closed[p]
          /\ \A a \in Addrs : heap[p][a].runtime = "free"
    /\ \A t \in Threads : life[Home[t]] # "running" => pc[t] = "idle" /\ task[t] = Null

\* A slot carries the PID of the process that drives it, which has existed.
SlotOrigin ==
    \A p \in Procs, a \in Addrs : heap[p][a].runtime # "free" =>
        /\ heap[p][a].pid = PidOf[heap[p][a].home]
        /\ life[heap[p][a].home] # "unborn"

\* A thread that retracts or shuts down has seen the flag set.
FlagSeen ==
    \A t \in Threads :
        pc[t] \in {"retract", "retake", "swap", "take", "stop"} => closed[Home[t]]

\* What a thread points at: the slot it means to replace is foreign, the one
\* it works on is its own process's, and so is the one its future runs on.
SeenIsForeign ==
    \A t \in Threads : seen[t] # Null => heap[Home[t]][seen[t]].home # Home[t]

SlotIsOwn ==
    \A t \in Threads :
        /\ slot[t] # Null => heap[Home[t]][slot[t]].home = Home[t]
        /\ task[t] # Null => heap[Home[t]][task[t]].home = Home[t]

\* The slot of a thread about to install it is known to that thread alone.
InstallIsPrivate ==
    \A t \in Threads : pc[t] = "install" =>
        /\ current[Home[t]] # slot[t]
        /\ \A u \in Threads : Home[u] = Home[t] =>
              /\ seen[u] # slot[t]
              /\ task[u] # slot[t]
              /\ u # t => slot[u] # slot[t]

\* Until shutdown begins, a runtime that is up is current or still private.
LiveWhileOpen ==
    \A p \in Procs : ~closed[p] =>
        \A a \in Addrs : Live(p, a) =>
            \/ current[p] = a
            \/ \E t \in Threads : Home[t] = p /\ pc[t] = "install" /\ slot[t] = a

\* A runtime that has been taken out of its slot is being stopped.
TakenIsStopping ==
    \A p \in Procs, a \in Addrs :
        (heap[p][a].home = p /\ heap[p][a].runtime = "taken") =>
            \E t \in Threads : Home[t] = p /\ pc[t] = "stop" /\ slot[t] = a

IInv ==
    /\ TypeOK
    /\ NotRunningIsEmpty
    /\ SlotOrigin
    /\ FlagSeen
    /\ SeenIsForeign
    /\ SlotIsOwn
    /\ InstallIsPrivate
    /\ NoUseAfterFree
    /\ OneRuntimeWhileOpen
    /\ LiveWhileOpen
    /\ TakenIsStopping
    /\ NoRuntimeOutlivesShutdown

-----------------------------------------------------------------------------
(* Type correctness                                                        *)

\* The cells that build() fills and frees are slots.
LEMMA CellTypes ==
    /\ FreeCell \in Slot
    /\ \A p \in Procs : NewSlot(p) \in Slot
  BY RuntimeAssumption DEF FreeCell, NewSlot, Slot, Pids

\* Storing a new state of the runtime in a slot keeps the heap's type.
LEMMA HeapUpdate ==
    ASSUME heap \in [Procs -> [Addrs -> Slot]],
           NEW p \in Procs, NEW a \in Addrs, NEW r \in {"free", "held", "taken", "stopped"}
    PROVE  [heap EXCEPT ![p][a].runtime = r] \in [Procs -> [Addrs -> Slot]]
<1>1. heap[p][a] \in Slot
  OBVIOUS
<1>2. [heap[p][a] EXCEPT !.runtime = r] \in Slot
  BY <1>1 DEF Slot
<1>3. QED
  BY <1>2

\* What each step does to the types, the fork and the exit included.
LEMMA TypeStep == ASSUME TypeOK, [Next]_vars PROVE TypeOK'
<1>0. VarTypes /\ LocalsInUse /\ \A t \in Threads : Home[t] \in Procs
  BY RuntimeAssumption DEF TypeOK
<1> USE <1>0, RuntimeAssumption DEF TypeOK
<1>1. ASSUME NEW t \in Threads, Call(t) PROVE TypeOK'
  <2>1. VarTypes'
    BY <1>1 DEF Call, VarTypes, HandleSteps, ShutdownSteps
  <2>2. LocalsInUse'
    BY <1>1 DEF Call, At, VarTypes, LocalsInUse
  <2>3. QED
    BY <2>1, <2>2
<1>2. ASSUME NEW t \in Threads, HandleCheck(t) PROVE TypeOK'
  <2>1. VarTypes'
    BY <1>2 DEF HandleCheck, Return, VarTypes, HandleSteps, ShutdownSteps
  <2>2. LocalsInUse'
    BY <1>2 DEF HandleCheck, Return, At, VarTypes, LocalsInUse
  <2>3. QED
    BY <2>1, <2>2
<1>3. ASSUME NEW t \in Threads, HandleLoad(t) PROVE TypeOK'
  <2>0. /\ current[Home[t]] \in Addrs \cup {Null}
        /\ slot' = [slot EXCEPT ![t] = current[Home[t]]] \/ slot' = slot
        /\ seen' = [seen EXCEPT ![t] = current[Home[t]]] \/ seen' = seen
        /\ \E step \in {"ready", "build"} : pc' = [pc EXCEPT ![t] = step]
        /\ UNCHANGED <<life, current, closed, heap, task>>
    BY <1>3 DEF HandleLoad, VarTypes
  <2>1. VarTypes'
    BY <2>0 DEF VarTypes, HandleSteps
  <2>2. LocalsInUse'
    BY <1>3 DEF HandleLoad, SlotFor, At, VarTypes, LocalsInUse
  <2>3. QED
    BY <2>1, <2>2
<1>4. ASSUME NEW t \in Threads, BuildSlot(t) PROVE TypeOK'
  <2>1. VarTypes'
    BY <1>4, CellTypes DEF BuildSlot, VarTypes, HandleSteps, ShutdownSteps
  <2>2. LocalsInUse'
    BY <1>4 DEF BuildSlot, At, VarTypes, LocalsInUse
  <2>3. QED
    BY <2>1, <2>2
<1>5. ASSUME NEW t \in Threads, BuildFails(t) PROVE TypeOK'
  <2>1. VarTypes'
    BY <1>5 DEF BuildFails, Return, VarTypes, HandleSteps, ShutdownSteps
  <2>2. LocalsInUse'
    BY <1>5 DEF BuildFails, Return, At, VarTypes, LocalsInUse
  <2>3. QED
    BY <2>1, <2>2
<1>6. ASSUME NEW t \in Threads, InstallWins(t) PROVE TypeOK'
  <2>1. VarTypes'
    BY <1>6 DEF InstallWins, VarTypes, HandleSteps, ShutdownSteps
  <2>2. LocalsInUse'
    BY <1>6 DEF InstallWins, At, VarTypes, LocalsInUse
  <2>3. QED
    BY <2>1, <2>2
<1>7. ASSUME NEW t \in Threads, InstallLoses(t) PROVE TypeOK'
  <2>0. /\ slot[t] \in Addrs /\ current[Home[t]] \in Addrs \cup {Null}
        /\ heap' = [heap EXCEPT ![Home[t]][slot[t]] = FreeCell]
        /\ \E a \in Addrs \cup {Null} : slot' = [slot EXCEPT ![t] = a]
        /\ \E a \in Addrs \cup {Null} : seen' = [seen EXCEPT ![t] = a]
        /\ \E step \in {"ready", "build"} : pc' = [pc EXCEPT ![t] = step]
        /\ UNCHANGED <<life, current, closed, task>>
    BY <1>7 DEF InstallLoses, At, LocalsInUse, VarTypes
  <2>1. VarTypes'
    BY <2>0, CellTypes DEF VarTypes, HandleSteps
  <2>2. LocalsInUse'
    <3>1. /\ slot'[t] = Null <=> pc'[t] \in {"idle", "check", "load", "build", "swap"}
          /\ seen'[t] # Null => pc'[t] \in {"build", "install"}
      BY <1>7 DEF InstallLoses, SlotFor, VarTypes
    <3>2. \A u \in Threads \ {t} : pc'[u] = pc[u] /\ seen'[u] = seen[u] /\ slot'[u] = slot[u]
      BY <2>0 DEF VarTypes
    <3>3. QED
      BY <3>1, <3>2 DEF LocalsInUse
  <2>3. QED
    BY <2>1, <2>2
<1>8. ASSUME NEW t \in Threads, BuildRecheck(t) PROVE TypeOK'
  <2>1. VarTypes'
    BY <1>8 DEF BuildRecheck, VarTypes, HandleSteps, ShutdownSteps
  <2>2. LocalsInUse'
    BY <1>8 DEF BuildRecheck, At, VarTypes, LocalsInUse
  <2>3. QED
    BY <2>1, <2>2
<1>9. ASSUME NEW t \in Threads, RetractUnpublish(t) PROVE TypeOK'
  <2>1. VarTypes'
    BY <1>9 DEF RetractUnpublish, VarTypes, HandleSteps, ShutdownSteps
  <2>2. LocalsInUse'
    BY <1>9 DEF RetractUnpublish, At, VarTypes, LocalsInUse
  <2>3. QED
    BY <2>1, <2>2
<1>10. ASSUME NEW t \in Threads, RetractTake(t) PROVE TypeOK'
  <2>1. slot[t] \in Addrs
    BY <1>10 DEF RetractTake, At, VarTypes, LocalsInUse
  <2>2. [heap EXCEPT ![Home[t]][slot[t]].runtime = "stopped"] \in [Procs -> [Addrs -> Slot]]
    BY <2>1, HeapUpdate DEF VarTypes
  <2>3. heap' \in [Procs -> [Addrs -> Slot]]
    BY <1>10, <2>2 DEF RetractTake, VarTypes
  <2>4. task' \in [Threads -> Addrs \cup {Null}]
    BY <1>10 DEF RetractTake, CancelTasks, VarTypes
  <2>5. VarTypes'
    BY <1>10, <2>3, <2>4 DEF RetractTake, Return, VarTypes, HandleSteps, ShutdownSteps
  <2>6. LocalsInUse'
    BY <1>10 DEF RetractTake, At, Return, VarTypes, LocalsInUse
  <2>7. QED
    BY <2>5, <2>6
<1>11. ASSUME NEW t \in Threads, Spawn(t) PROVE TypeOK'
  <2>1. VarTypes'
    BY <1>11 DEF Spawn, Return, VarTypes, HandleSteps, ShutdownSteps
  <2>2. LocalsInUse'
    BY <1>11 DEF Spawn, Return, At, VarTypes, LocalsInUse
  <2>3. QED
    BY <2>1, <2>2
<1>12. ASSUME NEW t \in Threads, TaskDone(t) PROVE TypeOK'
  <2>1. VarTypes'
    BY <1>12 DEF TaskDone, VarTypes, HandleSteps, ShutdownSteps
  <2>2. LocalsInUse'
    BY <1>12 DEF TaskDone, At, VarTypes, LocalsInUse
  <2>3. QED
    BY <2>1, <2>2
<1>13. ASSUME NEW t \in Threads, ShutdownClose(t) PROVE TypeOK'
  <2>1. VarTypes'
    BY <1>13 DEF ShutdownClose, VarTypes, HandleSteps, ShutdownSteps
  <2>2. LocalsInUse'
    BY <1>13 DEF ShutdownClose, At, VarTypes, LocalsInUse
  <2>3. QED
    BY <2>1, <2>2
<1>14. ASSUME NEW t \in Threads, ShutdownSwap(t) PROVE TypeOK'
  <2>0. /\ current' = [current EXCEPT ![Home[t]] = Null]
        /\ \E a \in Addrs \cup {Null} : slot' = [slot EXCEPT ![t] = a]
        /\ seen' = [seen EXCEPT ![t] = Null] \/ seen' = seen
        /\ \E step \in {"take", "idle"} : pc' = [pc EXCEPT ![t] = step]
        /\ UNCHANGED <<life, closed, heap, task>>
    BY <1>14 DEF ShutdownSwap, Return, VarTypes
  <2>1. VarTypes'
    BY <2>0 DEF VarTypes, ShutdownSteps
  <2>2. LocalsInUse'
    BY <1>14 DEF ShutdownSwap, Return, SlotFor, At, VarTypes, LocalsInUse
  <2>3. QED
    BY <2>1, <2>2
<1>15. ASSUME NEW t \in Threads, ShutdownTake(t) PROVE TypeOK'
  <2>1. slot[t] \in Addrs
    BY <1>15 DEF ShutdownTake, At, VarTypes, LocalsInUse
  <2>2. [heap EXCEPT ![Home[t]][slot[t]].runtime = "taken"] \in [Procs -> [Addrs -> Slot]]
    BY <2>1, HeapUpdate DEF VarTypes
  <2>3. heap' \in [Procs -> [Addrs -> Slot]]
    BY <1>15, <2>2 DEF ShutdownTake, VarTypes
  <2>4. task' \in [Threads -> Addrs \cup {Null}]
    BY <1>15 DEF ShutdownTake, VarTypes
  <2>5. VarTypes'
    <3>1. pc' \in [Threads -> {"idle", "ready"} \cup HandleSteps \cup ShutdownSteps]
      BY <1>15 DEF ShutdownTake, Return, VarTypes, ShutdownSteps
    <3>2. /\ seen' \in [Threads -> Addrs \cup {Null}] /\ slot' \in [Threads -> Addrs \cup {Null}]
          /\ UNCHANGED <<life, current, closed>>
      BY <1>15 DEF ShutdownTake, Return, VarTypes
    <3>3. QED
      BY <2>3, <2>4, <3>1, <3>2 DEF VarTypes
  <2>6. LocalsInUse'
    <3>1. /\ slot'[t] = Null <=> pc'[t] \in {"idle", "check", "load", "build", "swap"}
          /\ seen'[t] # Null => pc'[t] \in {"build", "install"}
      BY <1>15, <2>1 DEF ShutdownTake, At, Return, VarTypes, LocalsInUse
    <3>2. \A u \in Threads \ {t} : pc'[u] = pc[u] /\ seen'[u] = seen[u] /\ slot'[u] = slot[u]
      BY <1>15 DEF ShutdownTake, Return, VarTypes
    <3>3. QED
      BY <3>1, <3>2 DEF LocalsInUse
  <2>7. QED
    BY <2>5, <2>6
<1>16. ASSUME NEW t \in Threads, ShutdownStop(t) PROVE TypeOK'
  <2>1. slot[t] \in Addrs
    BY <1>16 DEF ShutdownStop, At, VarTypes, LocalsInUse
  <2>2. [heap EXCEPT ![Home[t]][slot[t]].runtime = "stopped"] \in [Procs -> [Addrs -> Slot]]
    BY <2>1, HeapUpdate DEF VarTypes
  <2>3. heap' \in [Procs -> [Addrs -> Slot]]
    BY <1>16, <2>2 DEF ShutdownStop, VarTypes
  <2>4. task' \in [Threads -> Addrs \cup {Null}]
    BY <1>16 DEF ShutdownStop, CancelTasks, VarTypes
  <2>5. VarTypes'
    BY <1>16, <2>3, <2>4 DEF ShutdownStop, Return, VarTypes, HandleSteps, ShutdownSteps
  <2>6. LocalsInUse'
    BY <1>16 DEF ShutdownStop, At, Return, VarTypes, LocalsInUse
  <2>7. QED
    BY <2>5, <2>6
<1>17. ASSUME NEW t \in Threads, NEW q \in Procs, Fork(t, q) PROVE TypeOK'
  BY <1>17 DEF Fork, VarTypes, LocalsInUse
<1>18. ASSUME NEW p \in Procs, Exit(p) PROVE TypeOK'
  BY <1>18, CellTypes DEF Exit, VarTypes, LocalsInUse
<1>19. CASE UNCHANGED vars
  BY <1>19 DEF vars, VarTypes, LocalsInUse
<1>20. QED
  BY <1>1, <1>2, <1>3, <1>4, <1>5, <1>6, <1>7, <1>8, <1>9, <1>10, <1>11, <1>12, <1>13, <1>14, <1>15, <1>16, <1>17, <1>18, <1>19 DEF Next, HandleStep, ShutdownStep

\* Every variable of Runtime keeps its type, and a call's local variables are
\* set exactly at the steps that use them, for all processes and threads.
THEOREM TypeCorrect == Spec => []TypeOK
<1>1. Init => TypeOK
  BY RuntimeAssumption, CellTypes DEF Init, TypeOK, VarTypes, LocalsInUse
<1>2. QED
  BY <1>1, TypeStep, PTL DEF Spec

-----------------------------------------------------------------------------
(* The inductive invariant is preserved by every step                      *)

\* A pointer passes slot_for exactly when its slot was built here.
LEMMA SlotForIsOwn ==
    ASSUME PidsDistinct, VarTypes, SlotOrigin,
           NEW p \in Procs, NEW a \in Addrs, heap[p][a].runtime # "free"
    PROVE  SlotFor(p, a) <=> heap[p][a].home = p
<1>1. heap[p][a].home \in Procs /\ heap[p][a].pid = PidOf[heap[p][a].home]
  BY DEF VarTypes, SlotOrigin, Slot
<1>2. QED
  BY <1>1, RuntimeAssumption DEF SlotFor, PidsDistinct

\* Taking a runtime out of its slot changes no other part of the heap.
LEMMA RuntimeStored ==
    ASSUME VarTypes, NEW p \in Procs, NEW a \in Addrs, NEW r,
           heap' = [heap EXCEPT ![p][a].runtime = r]
    PROVE  \A q \in Procs, b \in Addrs :
              /\ heap'[q][b].pid = heap[q][b].pid
              /\ heap'[q][b].home = heap[q][b].home
              /\ heap'[q][b].runtime = IF q = p /\ b = a THEN r ELSE heap[q][b].runtime
<1>1. heap[p][a] \in Slot
  BY DEF VarTypes
<1>2. /\ [heap[p][a] EXCEPT !.runtime = r].pid = heap[p][a].pid
      /\ [heap[p][a] EXCEPT !.runtime = r].home = heap[p][a].home
      /\ [heap[p][a] EXCEPT !.runtime = r].runtime = r
  BY <1>1 DEF Slot
<1>3. QED
  BY <1>2 DEF VarTypes

\* The caller enters handle().
LEMMA CallStep ==
    ASSUME PidsDistinct, IInv, TypeOK', NEW t \in Threads, Call(t)
    PROVE  IInv'
<1>0. VarTypes /\ LocalsInUse /\ VarTypes' /\ LocalsInUse' /\ \A u \in Threads : Home[u] \in Procs
  BY RuntimeAssumption DEF IInv, TypeOK
<1> USE <1>0, RuntimeAssumption
<1>1. NotRunningIsEmpty'
  BY DEF IInv, Call, At, Running, VarTypes, LocalsInUse, NotRunningIsEmpty
<1>2. SlotOrigin'
  BY DEF IInv, Call, VarTypes, SlotOrigin
<1>3. FlagSeen'
  BY DEF IInv, Call, VarTypes, FlagSeen
<1>4. SeenIsForeign'
  BY DEF IInv, Call, VarTypes, SeenIsForeign
<1>5. SlotIsOwn'
  BY DEF IInv, Call, VarTypes, SlotIsOwn
<1>6. InstallIsPrivate'
  BY DEF IInv, Call, VarTypes, InstallIsPrivate
<1>7. NoUseAfterFree'
  BY DEF IInv, Call, VarTypes, NoUseAfterFree
<1>8. OneRuntimeWhileOpen'
  BY DEF IInv, Call, VarTypes, OneRuntimeWhileOpen
<1>9. LiveWhileOpen'
  BY DEF IInv, Call, At, VarTypes, LocalsInUse, LiveWhileOpen, Live
<1>10. TakenIsStopping'
  BY DEF IInv, Call, At, VarTypes, LocalsInUse, TakenIsStopping
<1>11. NoRuntimeOutlivesShutdown'
  BY DEF IInv, Call, At, VarTypes, LocalsInUse, NoRuntimeOutlivesShutdown, Live, WillStop
<1>12. QED
  BY <1>1, <1>2, <1>3, <1>4, <1>5, <1>6, <1>7, <1>8, <1>9, <1>10, <1>11 DEF IInv

\* handle() reads the flag.
LEMMA HandleCheckStep ==
    ASSUME PidsDistinct, IInv, TypeOK', NEW t \in Threads, HandleCheck(t)
    PROVE  IInv'
<1>0. VarTypes /\ LocalsInUse /\ VarTypes' /\ LocalsInUse' /\ \A u \in Threads : Home[u] \in Procs
  BY RuntimeAssumption DEF IInv, TypeOK
<1> USE <1>0, RuntimeAssumption
<1>1. NotRunningIsEmpty'
  BY DEF IInv, HandleCheck, Return, At, VarTypes, LocalsInUse, NotRunningIsEmpty
<1>2. SlotOrigin'
  BY DEF IInv, HandleCheck, Return, VarTypes, SlotOrigin
<1>3. FlagSeen'
  BY DEF IInv, HandleCheck, Return, VarTypes, FlagSeen
<1>4. SeenIsForeign'
  BY DEF IInv, HandleCheck, Return, VarTypes, SeenIsForeign
<1>5. SlotIsOwn'
  BY DEF IInv, HandleCheck, Return, VarTypes, SlotIsOwn
<1>6. InstallIsPrivate'
  BY DEF IInv, HandleCheck, Return, At, VarTypes, LocalsInUse, InstallIsPrivate
<1>7. NoUseAfterFree'
  BY DEF IInv, HandleCheck, Return, VarTypes, NoUseAfterFree
<1>8. OneRuntimeWhileOpen'
  BY DEF IInv, HandleCheck, Return, VarTypes, OneRuntimeWhileOpen
<1>9. LiveWhileOpen'
  BY DEF IInv, HandleCheck, Return, At, VarTypes, LocalsInUse, LiveWhileOpen, Live
<1>10. TakenIsStopping'
  BY DEF IInv, HandleCheck, Return, At, VarTypes, LocalsInUse, TakenIsStopping
<1>11. NoRuntimeOutlivesShutdown'
  <2> SUFFICES ASSUME NEW p \in Procs, closed'[p], NEW a \in Addrs, Live(p, a)'
               PROVE  \E u \in Threads : Home[u] = p /\ WillStop(u, a)'
    BY DEF NoRuntimeOutlivesShutdown
  <2>1. PICK u \in Threads : Home[u] = p /\ WillStop(u, a)
    BY DEF IInv, HandleCheck, Live, NoRuntimeOutlivesShutdown
  <2>2. QED
    BY <2>1 DEF IInv, HandleCheck, Return, At, VarTypes, WillStop
<1>12. QED
  BY <1>1, <1>2, <1>3, <1>4, <1>5, <1>6, <1>7, <1>8, <1>9, <1>10, <1>11 DEF IInv

\* handle() reads current.
LEMMA HandleLoadStep ==
    ASSUME PidsDistinct, IInv, TypeOK', NEW t \in Threads, HandleLoad(t)
    PROVE  IInv'
<1>0. VarTypes /\ LocalsInUse /\ VarTypes' /\ LocalsInUse' /\ \A u \in Threads : Home[u] \in Procs
  BY RuntimeAssumption DEF IInv, TypeOK
<1> USE <1>0, RuntimeAssumption
<1>a. current[Home[t]] # Null =>
        (SlotFor(Home[t], current[Home[t]]) <=> heap[Home[t]][current[Home[t]]].home = Home[t])
  <2>1. current[Home[t]] # Null =>
            current[Home[t]] \in Addrs /\ heap[Home[t]][current[Home[t]]].runtime # "free"
    BY DEF IInv, VarTypes, NoUseAfterFree
  <2>2. SlotOrigin
    BY DEF IInv
  <2>3. QED
    BY <2>1, <2>2, SlotForIsOwn
<1>1. NotRunningIsEmpty'
  BY DEF IInv, HandleLoad, SlotFor, At, VarTypes, LocalsInUse, NotRunningIsEmpty
<1>2. SlotOrigin'
  BY DEF IInv, HandleLoad, SlotFor, VarTypes, SlotOrigin
<1>3. FlagSeen'
  BY DEF IInv, HandleLoad, SlotFor, VarTypes, FlagSeen
<1>4. SeenIsForeign'
  BY DEF IInv, HandleLoad, At, Running, SlotFor, VarTypes, LocalsInUse, SeenIsForeign, SlotOrigin,
       NoUseAfterFree, InstallIsPrivate
<1>5. SlotIsOwn'
  BY <1>a DEF IInv, HandleLoad, VarTypes, SlotIsOwn, SlotFor
<1>6. InstallIsPrivate'
  BY DEF IInv, HandleLoad, SlotFor, VarTypes, InstallIsPrivate
<1>7. NoUseAfterFree'
  BY DEF IInv, HandleLoad, SlotFor, At, VarTypes, LocalsInUse, NoUseAfterFree
<1>8. OneRuntimeWhileOpen'
  BY DEF IInv, HandleLoad, SlotFor, VarTypes, OneRuntimeWhileOpen
<1>9. LiveWhileOpen'
  BY DEF IInv, HandleLoad, SlotFor, At, VarTypes, LocalsInUse, LiveWhileOpen, Live
<1>10. TakenIsStopping'
  <2> SUFFICES ASSUME NEW p \in Procs, NEW a \in Addrs,
                      heap[p][a].home = p, heap[p][a].runtime = "taken"
               PROVE  \E u \in Threads : Home[u] = p /\ pc'[u] = "stop" /\ slot'[u] = a
    BY DEF HandleLoad, TakenIsStopping
  <2>1. PICK u \in Threads : Home[u] = p /\ pc[u] = "stop" /\ slot[u] = a
    BY DEF IInv, TakenIsStopping
  <2>2. QED
    BY <2>1 DEF HandleLoad, At, VarTypes
<1>11. NoRuntimeOutlivesShutdown'
  BY DEF IInv, HandleLoad, SlotFor, At, VarTypes, LocalsInUse, NoRuntimeOutlivesShutdown, Live,
       WillStop
<1>12. QED
  BY <1>1, <1>2, <1>3, <1>4, <1>5, <1>6, <1>7, <1>8, <1>9, <1>10, <1>11 DEF IInv

\* build() allocates at an address that nothing points at.
LEMMA BuildSlotStep ==
    ASSUME PidsDistinct, IInv, TypeOK', NEW t \in Threads, BuildSlot(t)
    PROVE  IInv'
<1>0. VarTypes /\ LocalsInUse /\ VarTypes' /\ LocalsInUse' /\ \A u \in Threads : Home[u] \in Procs
  BY RuntimeAssumption DEF IInv, TypeOK
<1> USE <1>0, RuntimeAssumption
<1>1. NotRunningIsEmpty'
  BY DEF IInv, BuildSlot, NewSlot, At, VarTypes, LocalsInUse, NotRunningIsEmpty
<1>2. SlotOrigin'
  BY DEF IInv, BuildSlot, At, Running, NewSlot, VarTypes, LocalsInUse, SlotOrigin, NotRunningIsEmpty
<1>3. FlagSeen'
  BY DEF IInv, BuildSlot, NewSlot, VarTypes, FlagSeen
<1>4. SeenIsForeign'
  BY DEF IInv, BuildSlot, At, Running, NewSlot, VarTypes, LocalsInUse, SeenIsForeign, SlotOrigin,
       NoUseAfterFree, InstallIsPrivate
<1>5. SlotIsOwn'
  BY DEF IInv, BuildSlot, NewSlot, VarTypes, SlotIsOwn
<1>6. InstallIsPrivate'
  BY DEF IInv, BuildSlot, At, Running, NewSlot, VarTypes, LocalsInUse, InstallIsPrivate,
       NoUseAfterFree
<1>7. NoUseAfterFree'
  BY DEF IInv, BuildSlot, NewSlot, VarTypes, NoUseAfterFree
<1>8. OneRuntimeWhileOpen'
  BY DEF IInv, BuildSlot, NewSlot, VarTypes, OneRuntimeWhileOpen
<1>9. LiveWhileOpen'
  BY DEF IInv, BuildSlot, NewSlot, At, VarTypes, LocalsInUse, LiveWhileOpen, Live
<1>10. TakenIsStopping'
  BY DEF IInv, BuildSlot, NewSlot, At, VarTypes, LocalsInUse, TakenIsStopping
<1>11. NoRuntimeOutlivesShutdown'
  <2> SUFFICES ASSUME NEW p \in Procs, closed'[p], NEW a \in Addrs, Live(p, a)'
               PROVE  \E u \in Threads : Home[u] = p /\ WillStop(u, a)'
    BY DEF NoRuntimeOutlivesShutdown
  <2>1. CASE pc'[t] = "install" /\ slot'[t] = a /\ p = Home[t]
    BY <2>1 DEF WillStop
  <2>2. CASE ~(slot'[t] = a /\ p = Home[t])
    <3>1. Live(p, a) /\ closed[p]
      BY <2>2 DEF BuildSlot, VarTypes, Live
    <3>2. PICK u \in Threads : Home[u] = p /\ WillStop(u, a)
      BY <3>1 DEF IInv, NoRuntimeOutlivesShutdown
    <3>3. QED
      BY <3>2 DEF BuildSlot, At, VarTypes, WillStop
  <2>3. QED
    BY <2>1, <2>2 DEF BuildSlot, VarTypes
<1>12. QED
  BY <1>1, <1>2, <1>3, <1>4, <1>5, <1>6, <1>7, <1>8, <1>9, <1>10, <1>11 DEF IInv

\* The runtime cannot be built.
LEMMA BuildFailsStep ==
    ASSUME PidsDistinct, IInv, TypeOK', NEW t \in Threads, BuildFails(t)
    PROVE  IInv'
<1>0. VarTypes /\ LocalsInUse /\ VarTypes' /\ LocalsInUse' /\ \A u \in Threads : Home[u] \in Procs
  BY RuntimeAssumption DEF IInv, TypeOK
<1> USE <1>0, RuntimeAssumption
<1>1. NotRunningIsEmpty'
  BY DEF IInv, BuildFails, Return, VarTypes, NotRunningIsEmpty
<1>2. SlotOrigin'
  BY DEF IInv, BuildFails, Return, VarTypes, SlotOrigin
<1>3. FlagSeen'
  BY DEF IInv, BuildFails, Return, VarTypes, FlagSeen
<1>4. SeenIsForeign'
  BY DEF IInv, BuildFails, Return, VarTypes, SeenIsForeign
<1>5. SlotIsOwn'
  BY DEF IInv, BuildFails, Return, VarTypes, SlotIsOwn
<1>6. InstallIsPrivate'
  BY DEF IInv, BuildFails, Return, At, VarTypes, LocalsInUse, InstallIsPrivate
<1>7. NoUseAfterFree'
  BY DEF IInv, BuildFails, Return, VarTypes, NoUseAfterFree
<1>8. OneRuntimeWhileOpen'
  BY DEF IInv, BuildFails, Return, VarTypes, OneRuntimeWhileOpen
<1>9. LiveWhileOpen'
  BY DEF IInv, BuildFails, Return, At, VarTypes, LocalsInUse, LiveWhileOpen, Live
<1>10. TakenIsStopping'
  BY DEF IInv, BuildFails, Return, At, VarTypes, LocalsInUse, TakenIsStopping
<1>11. NoRuntimeOutlivesShutdown'
  BY DEF IInv, BuildFails, Return, At, VarTypes, LocalsInUse, NoRuntimeOutlivesShutdown, Live,
       WillStop
<1>12. QED
  BY <1>1, <1>2, <1>3, <1>4, <1>5, <1>6, <1>7, <1>8, <1>9, <1>10, <1>11 DEF IInv

\* The install replaces a foreign slot or null, so no handle is orphaned.
LEMMA InstallWinsStep ==
    ASSUME PidsDistinct, IInv, TypeOK', NEW t \in Threads, InstallWins(t)
    PROVE  IInv'
<1>0. VarTypes /\ LocalsInUse /\ VarTypes' /\ LocalsInUse' /\ \A u \in Threads : Home[u] \in Procs
  BY RuntimeAssumption DEF IInv, TypeOK
<1> USE <1>0, RuntimeAssumption
<1>1. NotRunningIsEmpty'
  BY DEF IInv, InstallWins, At, VarTypes, LocalsInUse, NotRunningIsEmpty
<1>2. SlotOrigin'
  BY DEF IInv, InstallWins, VarTypes, SlotOrigin
<1>3. FlagSeen'
  BY DEF IInv, InstallWins, VarTypes, FlagSeen
<1>4. SeenIsForeign'
  BY DEF IInv, InstallWins, VarTypes, SeenIsForeign
<1>5. SlotIsOwn'
  BY DEF IInv, InstallWins, VarTypes, SlotIsOwn
<1>6. InstallIsPrivate'
  BY DEF IInv, InstallWins, At, VarTypes, LocalsInUse, InstallIsPrivate
<1>7. NoUseAfterFree'
  BY DEF IInv, InstallWins, VarTypes, NoUseAfterFree
<1>8. OneRuntimeWhileOpen'
  <2> SUFFICES ASSUME NEW u \in Threads, ~closed[Home[u]]
               PROVE  /\ pc'[u] \in {"ready", "recheck"} => slot[u] = current'[Home[u]]
                      /\ task[u] # Null => task[u] = current'[Home[u]]
    BY DEF InstallWins, OneRuntimeWhileOpen
  <2>1. CASE Home[u] # Home[t]
    BY <2>1 DEF IInv, InstallWins, VarTypes, OneRuntimeWhileOpen
  <2>2. CASE Home[u] = Home[t]
    <3>1. /\ pc[u] \in {"ready", "recheck"} => slot[u] = seen[t]
          /\ task[u] # Null => task[u] = seen[t]
      BY <2>2 DEF IInv, InstallWins, OneRuntimeWhileOpen
    <3>2. pc[u] \notin {"ready", "recheck"}
      BY <2>2, <3>1 DEF IInv, LocalsInUse, SeenIsForeign, SlotIsOwn
    <3>3. task[u] = Null
      BY <2>2, <3>1 DEF IInv, SeenIsForeign, SlotIsOwn
    <3>4. QED
      BY <2>2, <3>2, <3>3 DEF InstallWins, At, VarTypes
  <2>3. QED
    BY <2>1, <2>2
<1>9. LiveWhileOpen'
  BY DEF IInv, InstallWins, At, Running, VarTypes, LocalsInUse, LiveWhileOpen, SeenIsForeign,
       FlagSeen, SlotIsOwn, Live
<1>10. TakenIsStopping'
  BY DEF IInv, InstallWins, At, VarTypes, LocalsInUse, TakenIsStopping
<1>11. NoRuntimeOutlivesShutdown'
  BY DEF IInv, InstallWins, At, Running, VarTypes, LocalsInUse, NoRuntimeOutlivesShutdown,
       SeenIsForeign, SlotOrigin, SlotIsOwn, FlagSeen, TakenIsStopping, LiveWhileOpen,
       NoUseAfterFree, Live, WillStop
<1>12. QED
  BY <1>1, <1>2, <1>3, <1>4, <1>5, <1>6, <1>7, <1>8, <1>9, <1>10, <1>11 DEF IInv

\* The slot that is freed is known to its thread alone.
LEMMA InstallLosesStep ==
    ASSUME PidsDistinct, IInv, TypeOK', NEW t \in Threads, InstallLoses(t)
    PROVE  IInv'
<1>0. VarTypes /\ LocalsInUse /\ VarTypes' /\ LocalsInUse' /\ \A u \in Threads : Home[u] \in Procs
  BY RuntimeAssumption DEF IInv, TypeOK
<1> USE <1>0, RuntimeAssumption
<1>a. current[Home[t]] # Null =>
        (SlotFor(Home[t], current[Home[t]]) <=> heap[Home[t]][current[Home[t]]].home = Home[t])
  <2>1. current[Home[t]] # Null =>
            current[Home[t]] \in Addrs /\ heap[Home[t]][current[Home[t]]].runtime # "free"
    BY DEF IInv, VarTypes, NoUseAfterFree
  <2>2. SlotOrigin
    BY DEF IInv
  <2>3. QED
    BY <2>1, <2>2, SlotForIsOwn
<1>b. /\ pc[t] = "install" /\ slot[t] \in Addrs /\ slot[t] # Null
      /\ \A p \in Procs, a \in Addrs :
            ~(p = Home[t] /\ a = slot[t]) => heap'[p][a] = heap[p][a]
  BY DEF InstallLoses, At, VarTypes, LocalsInUse
<1>c. /\ pc'[t] # "install"
      /\ seen'[t] \in {Null, current[Home[t]]}
      /\ slot'[t] \in {Null, current[Home[t]]}
      /\ \A u \in Threads \ {t} : pc'[u] = pc[u] /\ seen'[u] = seen[u] /\ slot'[u] = slot[u]
      /\ current' = current /\ task' = task
  BY DEF InstallLoses, VarTypes
<1>1. NotRunningIsEmpty'
  BY DEF IInv, InstallLoses, SlotFor, FreeCell, At, VarTypes, LocalsInUse, NotRunningIsEmpty
<1>2. SlotOrigin'
  BY DEF IInv, InstallLoses, SlotFor, FreeCell, VarTypes, SlotOrigin
<1>3. FlagSeen'
  BY DEF IInv, InstallLoses, SlotFor, FreeCell, VarTypes, FlagSeen
<1>4. SeenIsForeign'
  BY DEF IInv, InstallLoses, At, Running, SlotFor, FreeCell, VarTypes, LocalsInUse, SeenIsForeign,
       SlotOrigin, NoUseAfterFree, InstallIsPrivate
<1>5. SlotIsOwn'
  <2>1. \A u \in Threads : u # t =>
            /\ slot[u] # Null => heap'[Home[u]][slot[u]].home = Home[u]
            /\ task[u] # Null => heap'[Home[u]][task[u]].home = Home[u]
    BY DEF IInv, InstallLoses, At, VarTypes, SlotIsOwn, InstallIsPrivate
  <2>2. task[t] # Null => heap'[Home[t]][task[t]].home = Home[t]
    BY DEF IInv, InstallLoses, At, VarTypes, SlotIsOwn, InstallIsPrivate
  <2>3. slot'[t] # Null => heap'[Home[t]][slot'[t]].home = Home[t]
    <3>1. SUFFICES ASSUME slot'[t] # Null PROVE heap'[Home[t]][slot'[t]].home = Home[t]
      OBVIOUS
    <3>2. slot'[t] = current[Home[t]] /\ SlotFor(Home[t], current[Home[t]])
      BY <3>1 DEF InstallLoses, VarTypes
    <3>3. current[Home[t]] # slot[t]
      BY <1>b DEF IInv, InstallIsPrivate
    <3>4. current[Home[t]] # Null /\ current[Home[t]] \in Addrs
      BY <3>1, <3>2 DEF VarTypes
    <3>5. QED
      BY <1>a, <1>b, <3>2, <3>3, <3>4
  <2>4. QED
    BY <1>c, <2>1, <2>2, <2>3 DEF SlotIsOwn
<1>6. InstallIsPrivate'
  <2> SUFFICES ASSUME NEW u \in Threads, pc'[u] = "install"
               PROVE  /\ current[Home[u]] # slot'[u]
                      /\ \A v \in Threads : Home[v] = Home[u] =>
                            /\ seen'[v] # slot'[u]
                            /\ task[v] # slot'[u]
                            /\ v # u => slot'[v] # slot'[u]
    BY <1>c DEF InstallIsPrivate
  <2>3. u # t /\ pc[u] = "install" /\ slot'[u] = slot[u] /\ slot[u] # Null
    BY <1>c DEF LocalsInUse
  <2>4. /\ current[Home[u]] # slot[u]
        /\ \A v \in Threads : Home[v] = Home[u] =>
              seen[v] # slot[u] /\ task[v] # slot[u] /\ (v # u => slot[v] # slot[u])
    BY <2>3 DEF IInv, InstallIsPrivate
  <2>5. QED
    BY <1>c, <2>3, <2>4
<1>7. NoUseAfterFree'
  <2>1. \A p \in Procs : current[p] # Null =>
            current[p] \in Addrs /\ heap'[p][current[p]].runtime # "free"
    <3> SUFFICES ASSUME NEW p \in Procs, current[p] # Null
                 PROVE  current[p] \in Addrs /\ heap'[p][current[p]].runtime # "free"
      OBVIOUS
    <3>1. current[p] \in Addrs /\ heap[p][current[p]].runtime # "free"
      BY DEF IInv, VarTypes, NoUseAfterFree
    <3>2. ~(p = Home[t] /\ current[p] = slot[t])
      BY <1>b DEF IInv, InstallIsPrivate
    <3>3. QED
      BY <1>b, <3>1, <3>2
  <2>2. \A u \in Threads :
            /\ seen[u] # Null => heap'[Home[u]][seen[u]].runtime # "free"
            /\ task[u] # Null => heap'[Home[u]][task[u]].runtime # "free"
            /\ u # t /\ slot[u] # Null => heap'[Home[u]][slot[u]].runtime # "free"
    <3> SUFFICES ASSUME NEW u \in Threads, NEW a \in Addrs,
                        a = seen[u] \/ a = task[u] \/ (u # t /\ a = slot[u])
                 PROVE  heap'[Home[u]][a].runtime # "free"
      BY DEF VarTypes
    <3>1. heap[Home[u]][a].runtime # "free"
      BY DEF IInv, NoUseAfterFree
    <3>2. ~(Home[u] = Home[t] /\ a = slot[t])
      BY <1>b DEF IInv, InstallIsPrivate
    <3>3. QED
      BY <1>b, <3>1, <3>2
  <2>3. QED
    BY <1>c, <2>1, <2>2 DEF NoUseAfterFree
<1>8. OneRuntimeWhileOpen'
  BY DEF IInv, InstallLoses, SlotFor, FreeCell, VarTypes, OneRuntimeWhileOpen
<1>9. LiveWhileOpen'
  <2> SUFFICES ASSUME NEW p \in Procs, ~closed[p], NEW a \in Addrs, Live(p, a)'
               PROVE  \/ current[p] = a
                      \/ \E u \in Threads : Home[u] = p /\ pc'[u] = "install" /\ slot'[u] = a
    BY DEF InstallLoses, LiveWhileOpen
  <2>1. Live(p, a) /\ ~(p = Home[t] /\ a = slot[t])
    BY DEF InstallLoses, At, VarTypes, LocalsInUse, FreeCell, Live
  <2>2. CASE current[p] = a
    BY <2>2
  <2>3. CASE current[p] # a
    <3>1. PICK u \in Threads : Home[u] = p /\ pc[u] = "install" /\ slot[u] = a
      BY <2>1, <2>3 DEF IInv, LiveWhileOpen
    <3>2. QED
      BY <2>1, <3>1 DEF InstallLoses, VarTypes
  <2>4. QED
    BY <2>2, <2>3
<1>10. TakenIsStopping'
  <2> SUFFICES ASSUME NEW p \in Procs, NEW a \in Addrs,
                      heap'[p][a].home = p, heap'[p][a].runtime = "taken"
               PROVE  \E u \in Threads : Home[u] = p /\ pc'[u] = "stop" /\ slot'[u] = a
    BY DEF TakenIsStopping
  <2>1. heap[p][a].home = p /\ heap[p][a].runtime = "taken"
    BY DEF InstallLoses, At, VarTypes, LocalsInUse, FreeCell
  <2>2. PICK u \in Threads : Home[u] = p /\ pc[u] = "stop" /\ slot[u] = a
    BY <2>1 DEF IInv, TakenIsStopping
  <2>3. QED
    BY <2>2 DEF InstallLoses, At, VarTypes
<1>11. NoRuntimeOutlivesShutdown'
  <2> SUFFICES ASSUME NEW p \in Procs, closed[p], NEW a \in Addrs, Live(p, a)'
               PROVE  \E u \in Threads : Home[u] = p /\ WillStop(u, a)'
    BY DEF InstallLoses, NoRuntimeOutlivesShutdown
  <2>1. Live(p, a) /\ ~(p = Home[t] /\ a = slot[t])
    BY DEF InstallLoses, At, VarTypes, LocalsInUse, FreeCell, Live
  <2>2. PICK u \in Threads : Home[u] = p /\ WillStop(u, a)
    BY <2>1 DEF IInv, NoRuntimeOutlivesShutdown
  <2>3. u # t
    BY <1>b, <2>1, <2>2 DEF WillStop
  <2>4. WillStop(u, a)'
    BY <1>c, <2>2, <2>3 DEF WillStop
  <2>5. QED
    BY <2>2, <2>4
<1>12. QED
  BY <1>1, <1>2, <1>3, <1>4, <1>5, <1>6, <1>7, <1>8, <1>9, <1>10, <1>11 DEF IInv

\* The second look at the flag.
LEMMA BuildRecheckStep ==
    ASSUME PidsDistinct, IInv, TypeOK', NEW t \in Threads, BuildRecheck(t)
    PROVE  IInv'
<1>0. VarTypes /\ LocalsInUse /\ VarTypes' /\ LocalsInUse' /\ \A u \in Threads : Home[u] \in Procs
  BY RuntimeAssumption DEF IInv, TypeOK
<1> USE <1>0, RuntimeAssumption
<1>1. NotRunningIsEmpty'
  BY DEF IInv, BuildRecheck, At, VarTypes, LocalsInUse, NotRunningIsEmpty
<1>2. SlotOrigin'
  BY DEF IInv, BuildRecheck, VarTypes, SlotOrigin
<1>3. FlagSeen'
  BY DEF IInv, BuildRecheck, VarTypes, FlagSeen
<1>4. SeenIsForeign'
  BY DEF IInv, BuildRecheck, VarTypes, SeenIsForeign
<1>5. SlotIsOwn'
  BY DEF IInv, BuildRecheck, VarTypes, SlotIsOwn
<1>6. InstallIsPrivate'
  BY DEF IInv, BuildRecheck, VarTypes, InstallIsPrivate
<1>7. NoUseAfterFree'
  BY DEF IInv, BuildRecheck, VarTypes, NoUseAfterFree
<1>8. OneRuntimeWhileOpen'
  BY DEF IInv, BuildRecheck, At, VarTypes, LocalsInUse, OneRuntimeWhileOpen
<1>9. LiveWhileOpen'
  BY DEF IInv, BuildRecheck, At, VarTypes, LocalsInUse, LiveWhileOpen, Live
<1>10. TakenIsStopping'
  BY DEF IInv, BuildRecheck, At, VarTypes, LocalsInUse, TakenIsStopping
<1>11. NoRuntimeOutlivesShutdown'
  <2> SUFFICES ASSUME NEW p \in Procs, closed'[p], NEW a \in Addrs, Live(p, a)'
               PROVE  \E u \in Threads : Home[u] = p /\ WillStop(u, a)'
    BY DEF NoRuntimeOutlivesShutdown
  <2>1. PICK u \in Threads : Home[u] = p /\ WillStop(u, a)
    BY DEF IInv, BuildRecheck, Live, NoRuntimeOutlivesShutdown
  <2>2. QED
    BY <2>1 DEF IInv, BuildRecheck, At, VarTypes, WillStop
<1>12. QED
  BY <1>1, <1>2, <1>3, <1>4, <1>5, <1>6, <1>7, <1>8, <1>9, <1>10, <1>11 DEF IInv

\* retract() takes its slot out of current.
LEMMA RetractUnpublishStep ==
    ASSUME PidsDistinct, IInv, TypeOK', NEW t \in Threads, RetractUnpublish(t)
    PROVE  IInv'
<1>0. VarTypes /\ LocalsInUse /\ VarTypes' /\ LocalsInUse' /\ \A u \in Threads : Home[u] \in Procs
  BY RuntimeAssumption DEF IInv, TypeOK
<1> USE <1>0, RuntimeAssumption
<1>1. NotRunningIsEmpty'
  BY DEF IInv, RetractUnpublish, At, VarTypes, LocalsInUse, NotRunningIsEmpty
<1>2. SlotOrigin'
  BY DEF IInv, RetractUnpublish, VarTypes, SlotOrigin
<1>3. FlagSeen'
  BY DEF IInv, RetractUnpublish, At, VarTypes, LocalsInUse, FlagSeen
<1>4. SeenIsForeign'
  BY DEF IInv, RetractUnpublish, VarTypes, SeenIsForeign
<1>5. SlotIsOwn'
  BY DEF IInv, RetractUnpublish, VarTypes, SlotIsOwn
<1>6. InstallIsPrivate'
  BY DEF IInv, RetractUnpublish, At, VarTypes, LocalsInUse, InstallIsPrivate
<1>7. NoUseAfterFree'
  BY DEF IInv, RetractUnpublish, VarTypes, NoUseAfterFree
<1>8. OneRuntimeWhileOpen'
  BY DEF IInv, RetractUnpublish, At, Running, VarTypes, LocalsInUse, OneRuntimeWhileOpen,
       SeenIsForeign, SlotIsOwn, FlagSeen
<1>9. LiveWhileOpen'
  BY DEF IInv, RetractUnpublish, At, Running, VarTypes, LocalsInUse, LiveWhileOpen, SeenIsForeign,
       FlagSeen, SlotIsOwn, Live
<1>10. TakenIsStopping'
  BY DEF IInv, RetractUnpublish, At, VarTypes, LocalsInUse, TakenIsStopping
<1>11. NoRuntimeOutlivesShutdown'
  <2> SUFFICES ASSUME NEW p \in Procs, closed'[p], NEW a \in Addrs, Live(p, a)'
               PROVE  \E u \in Threads : Home[u] = p /\ WillStop(u, a)'
    BY DEF NoRuntimeOutlivesShutdown
  <2>1. PICK u \in Threads : Home[u] = p /\ WillStop(u, a)
    BY DEF IInv, RetractUnpublish, Live, NoRuntimeOutlivesShutdown
  <2>2. CASE Home[t] = p /\ slot[t] = a
    BY <2>2 DEF RetractUnpublish, VarTypes, WillStop
  <2>3. CASE ~(Home[t] = p /\ slot[t] = a)
    BY <2>1, <2>3 DEF RetractUnpublish, At, VarTypes, WillStop
  <2>4. QED
    BY <2>2, <2>3
<1>12. QED
  BY <1>1, <1>2, <1>3, <1>4, <1>5, <1>6, <1>7, <1>8, <1>9, <1>10, <1>11 DEF IInv

\* retract() stops its runtime unless shutdown is stopping it.
LEMMA RetractTakeStep ==
    ASSUME PidsDistinct, IInv, TypeOK', NEW t \in Threads, RetractTake(t)
    PROVE  IInv'
<1>0. VarTypes /\ LocalsInUse /\ VarTypes' /\ LocalsInUse' /\ \A u \in Threads : Home[u] \in Procs
  BY RuntimeAssumption DEF IInv, TypeOK
<1> USE <1>0, RuntimeAssumption
<1>a. slot[t] \in Addrs /\ pc[t] = "retake"
  BY DEF RetractTake, At, VarTypes, LocalsInUse
<1>b. \A p \in Procs, a \in Addrs :
        /\ heap'[p][a].pid = heap[p][a].pid
        /\ heap'[p][a].home = heap[p][a].home
        /\ \/ heap'[p][a].runtime = heap[p][a].runtime
           \/ p = Home[t] /\ a = slot[t] /\ heap[p][a].runtime # "free" /\ heap'[p][a].runtime = "stopped"
  <2>1. CASE heap' = heap
    BY <2>1
  <2>2. CASE heap' = [heap EXCEPT ![Home[t]][slot[t]].runtime = "stopped"]
    BY <1>a, <2>2, RuntimeStored DEF IInv, NoUseAfterFree
  <2>3. QED
    BY <2>1, <2>2 DEF RetractTake
<1>c. \A u \in Threads :
        /\ task'[u] # Null => task'[u] = task[u]
        /\ seen'[u] # Null => seen'[u] = seen[u]
        /\ slot'[u] # Null => slot'[u] = slot[u]
        /\ pc'[u] = pc[u] \/ u = t
  BY DEF RetractTake, Return, CancelTasks, VarTypes
<1>d. \A u \in Threads :
        /\ seen[u] # Null => seen[u] \in Addrs
        /\ slot[u] # Null => slot[u] \in Addrs
        /\ task[u] # Null => task[u] \in Addrs
  BY DEF VarTypes
<1>1. NotRunningIsEmpty'
  BY <1>b, <1>c DEF IInv, RetractTake, At, Running, VarTypes, NotRunningIsEmpty
<1>2. SlotOrigin'
  <2>1. UNCHANGED life
    BY DEF RetractTake
  <2>2. QED
    BY <1>b, <2>1 DEF IInv, SlotOrigin
<1>3. FlagSeen'
  BY DEF IInv, RetractTake, Return, CancelTasks, VarTypes, FlagSeen
<1>4. SeenIsForeign'
  BY <1>b, <1>c, <1>d DEF IInv, SeenIsForeign
<1>5. SlotIsOwn'
  BY <1>b, <1>c, <1>d DEF IInv, SlotIsOwn
<1>6. InstallIsPrivate'
  BY DEF IInv, RetractTake, Return, CancelTasks, At, VarTypes, LocalsInUse, InstallIsPrivate
<1>7. NoUseAfterFree'
  <2>1. UNCHANGED current /\ \A p \in Procs : current[p] # Null => current[p] \in Addrs
    BY DEF RetractTake, VarTypes
  <2>2. \A p \in Procs, a \in Addrs :
            heap[p][a].runtime # "free" => heap'[p][a].runtime # "free"
    BY <1>b
  <2>3. QED
    BY <1>c, <1>d, <2>1, <2>2 DEF IInv, NoUseAfterFree
<1>8. OneRuntimeWhileOpen'
  BY DEF IInv, RetractTake, Return, CancelTasks, VarTypes, OneRuntimeWhileOpen
<1>9. LiveWhileOpen'
  BY DEF IInv, RetractTake, At, Running, Return, CancelTasks, VarTypes, LocalsInUse,
       LiveWhileOpen, SeenIsForeign, FlagSeen, SlotIsOwn, Live
<1>10. TakenIsStopping'
  <2> SUFFICES ASSUME NEW p \in Procs, NEW a \in Addrs,
                      heap'[p][a].home = p, heap'[p][a].runtime = "taken"
               PROVE  \E u \in Threads : Home[u] = p /\ pc'[u] = "stop" /\ slot'[u] = a
    BY DEF TakenIsStopping
  <2>1. PICK u \in Threads : Home[u] = p /\ pc[u] = "stop" /\ slot[u] = a
    BY <1>b DEF IInv, TakenIsStopping
  <2>2. QED
    BY <1>a, <2>1 DEF RetractTake, Return, VarTypes
<1>11. NoRuntimeOutlivesShutdown'
  <2> SUFFICES ASSUME NEW p \in Procs, closed'[p], NEW a \in Addrs, Live(p, a)'
               PROVE  \E u \in Threads : Home[u] = p /\ WillStop(u, a)'
    BY DEF NoRuntimeOutlivesShutdown
  <2>1. Live(p, a) /\ closed[p]
    BY <1>b DEF RetractTake, Live
  <2>2. PICK u \in Threads : Home[u] = p /\ WillStop(u, a)
    BY <2>1 DEF IInv, NoRuntimeOutlivesShutdown
  <2>3. CASE u # t
    BY <2>2, <2>3 DEF RetractTake, Return, VarTypes, WillStop
  <2>4. CASE u = t
    <3>1. p = Home[t] /\ a = slot[t]
      BY <1>a, <2>2, <2>4 DEF WillStop
    <3>2. heap[p][a].runtime # "held"
      <4> SUFFICES ASSUME heap[p][a].runtime = "held" PROVE FALSE
        OBVIOUS
      <4>1. heap' = [heap EXCEPT ![p][a].runtime = "stopped"]
        BY <3>1 DEF RetractTake
      <4>2. heap'[p][a].runtime = "stopped"
        BY <4>1 DEF VarTypes, Slot
      <4>3. QED
        BY <4>2 DEF Live
    <3>3. PICK w \in Threads : Home[w] = p /\ pc[w] = "stop" /\ slot[w] = a
      BY <2>1, <3>2 DEF IInv, TakenIsStopping, Live
    <3>4. QED
      BY <1>a, <3>3 DEF RetractTake, Return, VarTypes, WillStop
  <2>5. QED
    BY <2>3, <2>4
<1>12. QED
  BY <1>1, <1>2, <1>3, <1>4, <1>5, <1>6, <1>7, <1>8, <1>9, <1>10, <1>11 DEF IInv

\* A future is handed to the runtime.
LEMMA SpawnStep ==
    ASSUME PidsDistinct, IInv, TypeOK', NEW t \in Threads, Spawn(t)
    PROVE  IInv'
<1>0. VarTypes /\ LocalsInUse /\ VarTypes' /\ LocalsInUse' /\ \A u \in Threads : Home[u] \in Procs
  BY RuntimeAssumption DEF IInv, TypeOK
<1> USE <1>0, RuntimeAssumption
<1>1. NotRunningIsEmpty'
  BY DEF IInv, Spawn, Return, At, VarTypes, LocalsInUse, NotRunningIsEmpty
<1>2. SlotOrigin'
  BY DEF IInv, Spawn, Return, VarTypes, SlotOrigin
<1>3. FlagSeen'
  BY DEF IInv, Spawn, Return, VarTypes, FlagSeen
<1>4. SeenIsForeign'
  BY DEF IInv, Spawn, Return, VarTypes, SeenIsForeign
<1>5. SlotIsOwn'
  BY DEF IInv, Spawn, Return, VarTypes, SlotIsOwn
<1>6. InstallIsPrivate'
  BY DEF IInv, Spawn, Return, At, VarTypes, LocalsInUse, InstallIsPrivate
<1>7. NoUseAfterFree'
  BY DEF IInv, Spawn, Return, VarTypes, NoUseAfterFree
<1>8. OneRuntimeWhileOpen'
  BY DEF IInv, Spawn, Return, At, VarTypes, LocalsInUse, OneRuntimeWhileOpen
<1>9. LiveWhileOpen'
  BY DEF IInv, Spawn, Return, At, VarTypes, LocalsInUse, LiveWhileOpen, Live
<1>10. TakenIsStopping'
  BY DEF IInv, Spawn, Return, At, VarTypes, LocalsInUse, TakenIsStopping
<1>11. NoRuntimeOutlivesShutdown'
  <2> SUFFICES ASSUME NEW p \in Procs, closed'[p], NEW a \in Addrs, Live(p, a)'
               PROVE  \E u \in Threads : Home[u] = p /\ WillStop(u, a)'
    BY DEF NoRuntimeOutlivesShutdown
  <2>1. PICK u \in Threads : Home[u] = p /\ WillStop(u, a)
    BY DEF IInv, Spawn, Live, NoRuntimeOutlivesShutdown
  <2>2. QED
    BY <2>1 DEF IInv, Spawn, Return, At, VarTypes, WillStop
<1>12. QED
  BY <1>1, <1>2, <1>3, <1>4, <1>5, <1>6, <1>7, <1>8, <1>9, <1>10, <1>11 DEF IInv

\* A future completes.
LEMMA TaskDoneStep ==
    ASSUME PidsDistinct, IInv, TypeOK', NEW t \in Threads, TaskDone(t)
    PROVE  IInv'
<1>0. VarTypes /\ LocalsInUse /\ VarTypes' /\ LocalsInUse' /\ \A u \in Threads : Home[u] \in Procs
  BY RuntimeAssumption DEF IInv, TypeOK
<1> USE <1>0, RuntimeAssumption
<1>1. NotRunningIsEmpty'
  BY DEF IInv, TaskDone, VarTypes, NotRunningIsEmpty
<1>2. SlotOrigin'
  BY DEF IInv, TaskDone, VarTypes, SlotOrigin
<1>3. FlagSeen'
  BY DEF IInv, TaskDone, VarTypes, FlagSeen
<1>4. SeenIsForeign'
  BY DEF IInv, TaskDone, VarTypes, SeenIsForeign
<1>5. SlotIsOwn'
  BY DEF IInv, TaskDone, VarTypes, SlotIsOwn
<1>6. InstallIsPrivate'
  BY DEF IInv, TaskDone, At, VarTypes, LocalsInUse, InstallIsPrivate
<1>7. NoUseAfterFree'
  BY DEF IInv, TaskDone, VarTypes, NoUseAfterFree
<1>8. OneRuntimeWhileOpen'
  BY DEF IInv, TaskDone, VarTypes, OneRuntimeWhileOpen
<1>9. LiveWhileOpen'
  BY DEF IInv, TaskDone, At, VarTypes, LocalsInUse, LiveWhileOpen, Live
<1>10. TakenIsStopping'
  BY DEF IInv, TaskDone, VarTypes, TakenIsStopping
<1>11. NoRuntimeOutlivesShutdown'
  BY DEF IInv, TaskDone, At, VarTypes, LocalsInUse, NoRuntimeOutlivesShutdown, Live, WillStop
<1>12. QED
  BY <1>1, <1>2, <1>3, <1>4, <1>5, <1>6, <1>7, <1>8, <1>9, <1>10, <1>11 DEF IInv

\* The flag is set: what is up is current or about to be rechecked.
LEMMA ShutdownCloseStep ==
    ASSUME PidsDistinct, IInv, TypeOK', NEW t \in Threads, ShutdownClose(t)
    PROVE  IInv'
<1>0. VarTypes /\ LocalsInUse /\ VarTypes' /\ LocalsInUse' /\ \A u \in Threads : Home[u] \in Procs
  BY RuntimeAssumption DEF IInv, TypeOK
<1> USE <1>0, RuntimeAssumption
<1>1. NotRunningIsEmpty'
  BY DEF IInv, ShutdownClose, At, Running, VarTypes, LocalsInUse, NotRunningIsEmpty
<1>2. SlotOrigin'
  BY DEF IInv, ShutdownClose, VarTypes, SlotOrigin
<1>3. FlagSeen'
  BY DEF IInv, ShutdownClose, VarTypes, FlagSeen
<1>4. SeenIsForeign'
  BY DEF IInv, ShutdownClose, VarTypes, SeenIsForeign
<1>5. SlotIsOwn'
  BY DEF IInv, ShutdownClose, VarTypes, SlotIsOwn
<1>6. InstallIsPrivate'
  BY DEF IInv, ShutdownClose, VarTypes, InstallIsPrivate
<1>7. NoUseAfterFree'
  BY DEF IInv, ShutdownClose, VarTypes, NoUseAfterFree
<1>8. OneRuntimeWhileOpen'
  BY DEF IInv, ShutdownClose, VarTypes, OneRuntimeWhileOpen
<1>9. LiveWhileOpen'
  BY DEF IInv, ShutdownClose, At, VarTypes, LocalsInUse, LiveWhileOpen, Live
<1>10. TakenIsStopping'
  BY DEF IInv, ShutdownClose, At, VarTypes, LocalsInUse, TakenIsStopping
<1>11. NoRuntimeOutlivesShutdown'
  BY DEF IInv, ShutdownClose, At, Running, VarTypes, LocalsInUse, NoRuntimeOutlivesShutdown,
       SeenIsForeign, SlotOrigin, SlotIsOwn, FlagSeen, TakenIsStopping, LiveWhileOpen,
       NoUseAfterFree, Live, WillStop
<1>12. QED
  BY <1>1, <1>2, <1>3, <1>4, <1>5, <1>6, <1>7, <1>8, <1>9, <1>10, <1>11 DEF IInv

\* shutdown() takes over the slot that was current.
LEMMA ShutdownSwapStep ==
    ASSUME PidsDistinct, IInv, TypeOK', NEW t \in Threads, ShutdownSwap(t)
    PROVE  IInv'
<1>0. VarTypes /\ LocalsInUse /\ VarTypes' /\ LocalsInUse' /\ \A u \in Threads : Home[u] \in Procs
  BY RuntimeAssumption DEF IInv, TypeOK
<1> USE <1>0, RuntimeAssumption
<1>a. current[Home[t]] # Null =>
        (SlotFor(Home[t], current[Home[t]]) <=> heap[Home[t]][current[Home[t]]].home = Home[t])
  <2>1. current[Home[t]] # Null =>
            current[Home[t]] \in Addrs /\ heap[Home[t]][current[Home[t]]].runtime # "free"
    BY DEF IInv, VarTypes, NoUseAfterFree
  <2>2. SlotOrigin
    BY DEF IInv
  <2>3. QED
    BY <2>1, <2>2, SlotForIsOwn
<1>1. NotRunningIsEmpty'
  BY DEF IInv, ShutdownSwap, SlotFor, Return, VarTypes, NotRunningIsEmpty
<1>2. SlotOrigin'
  BY DEF IInv, ShutdownSwap, SlotFor, Return, VarTypes, SlotOrigin
<1>3. FlagSeen'
  BY DEF IInv, ShutdownSwap, SlotFor, Return, At, VarTypes, LocalsInUse, FlagSeen
<1>4. SeenIsForeign'
  BY DEF IInv, ShutdownSwap, SlotFor, Return, VarTypes, SeenIsForeign
<1>5. SlotIsOwn'
  BY <1>a DEF IInv, ShutdownSwap, Return, VarTypes, SlotIsOwn, SlotFor
<1>6. InstallIsPrivate'
  BY DEF IInv, ShutdownSwap, SlotFor, Return, At, VarTypes, LocalsInUse, InstallIsPrivate
<1>7. NoUseAfterFree'
  BY DEF IInv, ShutdownSwap, SlotFor, Return, VarTypes, NoUseAfterFree
<1>8. OneRuntimeWhileOpen'
  BY DEF IInv, ShutdownSwap, At, Running, SlotFor, Return, VarTypes, LocalsInUse,
       OneRuntimeWhileOpen, SeenIsForeign, SlotIsOwn, FlagSeen
<1>9. LiveWhileOpen'
  <2> SUFFICES ASSUME NEW p \in Procs, ~closed[p], NEW a \in Addrs, Live(p, a)
               PROVE  \/ current'[p] = a
                      \/ \E u \in Threads : Home[u] = p /\ pc'[u] = "install" /\ slot'[u] = a
    BY DEF ShutdownSwap, LiveWhileOpen, Live
  <2>1. p # Home[t]
    BY DEF IInv, ShutdownSwap, At, FlagSeen
  <2>2. CASE current[p] = a
    BY <2>1, <2>2 DEF ShutdownSwap, VarTypes
  <2>3. CASE current[p] # a
    <3>1. PICK u \in Threads : Home[u] = p /\ pc[u] = "install" /\ slot[u] = a
      BY <2>3 DEF IInv, LiveWhileOpen
    <3>2. QED
      BY <2>1, <3>1 DEF ShutdownSwap, Return, VarTypes
  <2>4. QED
    BY <2>2, <2>3
<1>10. TakenIsStopping'
  <2> SUFFICES ASSUME NEW p \in Procs, NEW a \in Addrs,
                      heap[p][a].home = p, heap[p][a].runtime = "taken"
               PROVE  \E u \in Threads : Home[u] = p /\ pc'[u] = "stop" /\ slot'[u] = a
    BY DEF ShutdownSwap, TakenIsStopping
  <2>1. PICK u \in Threads : Home[u] = p /\ pc[u] = "stop" /\ slot[u] = a
    BY DEF IInv, TakenIsStopping
  <2>2. QED
    BY <2>1 DEF ShutdownSwap, Return, At, VarTypes
<1>11. NoRuntimeOutlivesShutdown'
  <2> SUFFICES ASSUME NEW p \in Procs, closed'[p], NEW a \in Addrs, Live(p, a)'
               PROVE  \E u \in Threads : Home[u] = p /\ WillStop(u, a)'
    BY DEF NoRuntimeOutlivesShutdown
  <2>1. PICK u \in Threads : Home[u] = p /\ WillStop(u, a)
    BY DEF IInv, ShutdownSwap, Live, NoRuntimeOutlivesShutdown
  <2>2. heap[p][a].home = p
    BY DEF ShutdownSwap, Live
  <2>3. CASE Home[t] = p /\ current[p] = a
    <3>1. SlotFor(p, current[p])
      BY <1>a, <2>2, <2>3
    <3>2. slot'[t] = a /\ pc'[t] = "take"
      BY <2>3, <3>1 DEF ShutdownSwap, VarTypes
    <3>3. QED
      BY <2>3, <3>2 DEF WillStop
  <2>4. CASE ~(Home[t] = p /\ current[p] = a)
    <3>1. u # t
      BY <2>1, <2>4 DEF ShutdownSwap, At, WillStop
    <3>2. pc'[u] = pc[u] /\ slot'[u] = slot[u] /\ (current[p] = a => current'[p] = a)
      BY <2>4, <3>1 DEF ShutdownSwap, Return, VarTypes
    <3>3. QED
      BY <2>1, <3>2 DEF WillStop
  <2>5. QED
    BY <2>3, <2>4
<1>12. QED
  BY <1>1, <1>2, <1>3, <1>4, <1>5, <1>6, <1>7, <1>8, <1>9, <1>10, <1>11 DEF IInv

\* shutdown() takes the runtime unless retract has it.
LEMMA ShutdownTakeStep ==
    ASSUME PidsDistinct, IInv, TypeOK', NEW t \in Threads, ShutdownTake(t)
    PROVE  IInv'
<1>0. VarTypes /\ LocalsInUse /\ VarTypes' /\ LocalsInUse' /\ \A u \in Threads : Home[u] \in Procs
  BY RuntimeAssumption DEF IInv, TypeOK
<1> USE <1>0, RuntimeAssumption
<1>a. slot[t] \in Addrs /\ pc[t] = "take"
  BY DEF ShutdownTake, At, VarTypes, LocalsInUse
<1>b. \A p \in Procs, a \in Addrs :
        /\ heap'[p][a].pid = heap[p][a].pid
        /\ heap'[p][a].home = heap[p][a].home
        /\ \/ heap'[p][a].runtime = heap[p][a].runtime
           \/ p = Home[t] /\ a = slot[t] /\ heap[p][a].runtime # "free" /\ heap'[p][a].runtime = "taken"
  <2>1. CASE heap' = heap
    BY <2>1
  <2>2. CASE heap' = [heap EXCEPT ![Home[t]][slot[t]].runtime = "taken"]
    BY <1>a, <2>2, RuntimeStored DEF IInv, NoUseAfterFree
  <2>3. QED
    BY <2>1, <2>2 DEF ShutdownTake
<1>c. \A u \in Threads :
        /\ task'[u] # Null => task'[u] = task[u]
        /\ seen'[u] # Null => seen'[u] = seen[u]
        /\ slot'[u] # Null => slot'[u] = slot[u]
        /\ pc'[u] = pc[u] \/ u = t
  BY DEF ShutdownTake, Return, VarTypes
<1>d. \A u \in Threads :
        /\ seen[u] # Null => seen[u] \in Addrs
        /\ slot[u] # Null => slot[u] \in Addrs
        /\ task[u] # Null => task[u] \in Addrs
  BY DEF VarTypes
<1>1. NotRunningIsEmpty'
  BY <1>b, <1>c DEF IInv, ShutdownTake, At, Running, VarTypes, NotRunningIsEmpty
<1>2. SlotOrigin'
  <2>1. UNCHANGED life
    BY DEF ShutdownTake
  <2>2. QED
    BY <1>b, <2>1 DEF IInv, SlotOrigin
<1>3. FlagSeen'
  BY DEF IInv, ShutdownTake, Return, At, VarTypes, LocalsInUse, FlagSeen
<1>4. SeenIsForeign'
  BY <1>b, <1>c, <1>d DEF IInv, SeenIsForeign
<1>5. SlotIsOwn'
  BY <1>b, <1>c, <1>d DEF IInv, SlotIsOwn
<1>6. InstallIsPrivate'
  BY DEF IInv, ShutdownTake, Return, At, VarTypes, LocalsInUse, InstallIsPrivate
<1>7. NoUseAfterFree'
  <2>1. UNCHANGED current /\ \A p \in Procs : current[p] # Null => current[p] \in Addrs
    BY DEF ShutdownTake, VarTypes
  <2>2. \A p \in Procs, a \in Addrs :
            heap[p][a].runtime # "free" => heap'[p][a].runtime # "free"
    BY <1>b
  <2>3. QED
    BY <1>c, <1>d, <2>1, <2>2 DEF IInv, NoUseAfterFree
<1>8. OneRuntimeWhileOpen'
  BY DEF IInv, ShutdownTake, Return, VarTypes, OneRuntimeWhileOpen
<1>9. LiveWhileOpen'
  BY DEF IInv, ShutdownTake, At, Running, Return, VarTypes, LocalsInUse, LiveWhileOpen,
       SeenIsForeign, FlagSeen, SlotIsOwn, Live
<1>10. TakenIsStopping'
  <2> SUFFICES ASSUME NEW p \in Procs, NEW a \in Addrs,
                      heap'[p][a].home = p, heap'[p][a].runtime = "taken"
               PROVE  \E u \in Threads : Home[u] = p /\ pc'[u] = "stop" /\ slot'[u] = a
    BY DEF TakenIsStopping
  <2>1. CASE heap[p][a].runtime = "taken"
    <3>1. PICK u \in Threads : Home[u] = p /\ pc[u] = "stop" /\ slot[u] = a
      BY <1>b, <2>1 DEF IInv, TakenIsStopping
    <3>2. QED
      BY <1>a, <3>1 DEF ShutdownTake, Return, VarTypes
  <2>2. CASE heap[p][a].runtime # "taken"
    <3>1. p = Home[t] /\ a = slot[t] /\ heap' # heap
      BY <1>b, <2>2
    <3>2. QED
      BY <3>1 DEF ShutdownTake, VarTypes
  <2>3. QED
    BY <2>1, <2>2
<1>11. NoRuntimeOutlivesShutdown'
  <2> SUFFICES ASSUME NEW p \in Procs, closed'[p], NEW a \in Addrs, Live(p, a)'
               PROVE  \E u \in Threads : Home[u] = p /\ WillStop(u, a)'
    BY DEF NoRuntimeOutlivesShutdown
  <2>1. Live(p, a) /\ closed[p]
    BY <1>b, <1>a DEF IInv, ShutdownTake, Live
  <2>2. PICK u \in Threads : Home[u] = p /\ WillStop(u, a)
    BY <2>1 DEF IInv, NoRuntimeOutlivesShutdown
  <2>3. CASE u # t
    BY <2>2, <2>3 DEF ShutdownTake, Return, VarTypes, WillStop
  <2>4. CASE u = t
    <3>1. p = Home[t] /\ a = slot[t]
      BY <1>a, <2>2, <2>4 DEF WillStop
    <3>2. CASE heap[p][a].runtime = "held"
      BY <3>1, <3>2 DEF ShutdownTake, VarTypes, WillStop
    <3>3. CASE heap[p][a].runtime # "held"
      <4>1. PICK w \in Threads : Home[w] = p /\ pc[w] = "stop" /\ slot[w] = a
        BY <2>1, <3>3 DEF IInv, TakenIsStopping, Live
      <4>2. QED
        BY <1>a, <4>1 DEF ShutdownTake, Return, VarTypes, WillStop
    <3>4. QED
      BY <3>2, <3>3
  <2>5. QED
    BY <2>3, <2>4
<1>12. QED
  BY <1>1, <1>2, <1>3, <1>4, <1>5, <1>6, <1>7, <1>8, <1>9, <1>10, <1>11 DEF IInv

\* The runtime is down.
LEMMA ShutdownStopStep ==
    ASSUME PidsDistinct, IInv, TypeOK', NEW t \in Threads, ShutdownStop(t)
    PROVE  IInv'
<1>0. VarTypes /\ LocalsInUse /\ VarTypes' /\ LocalsInUse' /\ \A u \in Threads : Home[u] \in Procs
  BY RuntimeAssumption DEF IInv, TypeOK
<1> USE <1>0, RuntimeAssumption
<1>a. slot[t] \in Addrs /\ pc[t] = "stop"
  BY DEF ShutdownStop, At, VarTypes, LocalsInUse
<1>b. \A p \in Procs, a \in Addrs :
        /\ heap'[p][a].pid = heap[p][a].pid
        /\ heap'[p][a].home = heap[p][a].home
        /\ \/ heap'[p][a].runtime = heap[p][a].runtime
           \/ p = Home[t] /\ a = slot[t] /\ heap[p][a].runtime # "free" /\ heap'[p][a].runtime = "stopped"
  <2>1. CASE heap' = heap
    BY <2>1
  <2>2. CASE heap' = [heap EXCEPT ![Home[t]][slot[t]].runtime = "stopped"]
    BY <1>a, <2>2, RuntimeStored DEF IInv, NoUseAfterFree
  <2>3. QED
    BY <2>1, <2>2 DEF ShutdownStop
<1>c. \A u \in Threads :
        /\ task'[u] # Null => task'[u] = task[u]
        /\ seen'[u] # Null => seen'[u] = seen[u]
        /\ slot'[u] # Null => slot'[u] = slot[u]
        /\ pc'[u] = pc[u] \/ u = t
  BY DEF ShutdownStop, Return, CancelTasks, VarTypes
<1>d. \A u \in Threads :
        /\ seen[u] # Null => seen[u] \in Addrs
        /\ slot[u] # Null => slot[u] \in Addrs
        /\ task[u] # Null => task[u] \in Addrs
  BY DEF VarTypes
<1>1. NotRunningIsEmpty'
  BY <1>b, <1>c DEF IInv, ShutdownStop, At, Running, VarTypes, NotRunningIsEmpty
<1>2. SlotOrigin'
  <2>1. UNCHANGED life
    BY DEF ShutdownStop
  <2>2. QED
    BY <1>b, <2>1 DEF IInv, SlotOrigin
<1>3. FlagSeen'
  BY DEF IInv, ShutdownStop, Return, CancelTasks, VarTypes, FlagSeen
<1>4. SeenIsForeign'
  BY <1>b, <1>c, <1>d DEF IInv, SeenIsForeign
<1>5. SlotIsOwn'
  BY <1>b, <1>c, <1>d DEF IInv, SlotIsOwn
<1>6. InstallIsPrivate'
  BY DEF IInv, ShutdownStop, Return, CancelTasks, At, VarTypes, LocalsInUse, InstallIsPrivate
<1>7. NoUseAfterFree'
  <2>1. UNCHANGED current /\ \A p \in Procs : current[p] # Null => current[p] \in Addrs
    BY DEF ShutdownStop, VarTypes
  <2>2. \A p \in Procs, a \in Addrs :
            heap[p][a].runtime # "free" => heap'[p][a].runtime # "free"
    BY <1>b
  <2>3. QED
    BY <1>c, <1>d, <2>1, <2>2 DEF IInv, NoUseAfterFree
<1>8. OneRuntimeWhileOpen'
  BY DEF IInv, ShutdownStop, Return, CancelTasks, VarTypes, OneRuntimeWhileOpen
<1>9. LiveWhileOpen'
  BY DEF IInv, ShutdownStop, Return, CancelTasks, At, VarTypes, LocalsInUse, LiveWhileOpen, Live
<1>10. TakenIsStopping'
  BY DEF IInv, ShutdownStop, Return, CancelTasks, VarTypes, TakenIsStopping
<1>11. NoRuntimeOutlivesShutdown'
  BY DEF IInv, ShutdownStop, Return, CancelTasks, At, VarTypes, LocalsInUse,
       NoRuntimeOutlivesShutdown, Live, WillStop
<1>12. QED
  BY <1>1, <1>2, <1>3, <1>4, <1>5, <1>6, <1>7, <1>8, <1>9, <1>10, <1>11 DEF IInv

\* fork(): the child has no thread in a call and no slot of its own.
LEMMA ForkStep ==
    ASSUME IInv, TypeOK', NEW t \in Threads, NEW q \in Procs, Fork(t, q)
    PROVE  IInv'
<1>0. VarTypes /\ LocalsInUse /\ VarTypes' /\ LocalsInUse' /\ \A u \in Threads : Home[u] \in Procs
  BY RuntimeAssumption DEF IInv, TypeOK
<1> USE <1>0, RuntimeAssumption
<1>a. \A u \in Threads : Home[u] = q =>
        pc[u] = "idle" /\ seen[u] = Null /\ slot[u] = Null /\ task[u] = Null
  BY DEF IInv, Fork, NotRunningIsEmpty, LocalsInUse
<1>b. /\ heap'[q] = heap[Home[t]] /\ current'[q] = current[Home[t]] /\ closed'[q] = closed[Home[t]]
      /\ \A p \in Procs : p # q => heap'[p] = heap[p] /\ current'[p] = current[p] /\ closed'[p] = closed[p]
      /\ UNCHANGED <<pc, seen, slot, task>>
  BY DEF Fork, VarTypes
<1>c. \A a \in Addrs : heap'[q][a].runtime # "free" => heap'[q][a].home # q
  BY <1>b DEF IInv, Fork, SlotOrigin
<1>1. NotRunningIsEmpty'
  BY <1>b DEF IInv, Fork, VarTypes, NotRunningIsEmpty
<1>2. SlotOrigin'
  <2>1. \A p \in Procs : life[p] # "unborn" => life'[p] # "unborn"
    BY DEF Fork, VarTypes
  <2>2. \A p \in Procs, a \in Addrs : heap[p][a].home \in Procs
    BY DEF VarTypes, Slot
  <2>3. QED
    BY <1>b, <2>1, <2>2 DEF IInv, SlotOrigin
<1>3. FlagSeen'
  BY <1>a, <1>b DEF IInv, FlagSeen
<1>4. SeenIsForeign'
  BY <1>a, <1>b DEF IInv, SeenIsForeign
<1>5. SlotIsOwn'
  BY <1>a, <1>b DEF IInv, SlotIsOwn
<1>6. InstallIsPrivate'
  BY <1>a, <1>b DEF IInv, InstallIsPrivate
<1>7. NoUseAfterFree'
  BY <1>a, <1>b DEF IInv, NoUseAfterFree
<1>8. OneRuntimeWhileOpen'
  BY <1>a, <1>b DEF IInv, OneRuntimeWhileOpen
<1>9. LiveWhileOpen'
  BY <1>a, <1>b, <1>c DEF IInv, LiveWhileOpen, Live
<1>10. TakenIsStopping'
  BY <1>a, <1>b, <1>c DEF IInv, TakenIsStopping
<1>11. NoRuntimeOutlivesShutdown'
  BY <1>a, <1>b, <1>c DEF IInv, NoRuntimeOutlivesShutdown, Live, WillStop
<1>12. QED
  BY <1>1, <1>2, <1>3, <1>4, <1>5, <1>6, <1>7, <1>8, <1>9, <1>10, <1>11 DEF IInv

\* exit: the process leaves nothing behind.
LEMMA ExitStep ==
    ASSUME IInv, TypeOK', NEW p \in Procs, Exit(p)
    PROVE  IInv'
<1>0. VarTypes /\ LocalsInUse /\ VarTypes' /\ LocalsInUse' /\ \A u \in Threads : Home[u] \in Procs
  BY RuntimeAssumption DEF IInv, TypeOK
<1> USE <1>0, RuntimeAssumption
<1>a. /\ current'[p] = Null /\ ~closed'[p]
      /\ \A a \in Addrs : heap'[p][a].runtime = "free"
      /\ \A r \in Procs : r # p => heap'[r] = heap[r] /\ current'[r] = current[r] /\ closed'[r] = closed[r]
  BY DEF Exit, VarTypes, FreeCell
<1>b. \A u \in Threads :
        /\ Home[u] = p => pc'[u] = "idle" /\ seen'[u] = Null /\ slot'[u] = Null /\ task'[u] = Null
        /\ Home[u] # p => pc'[u] = pc[u] /\ seen'[u] = seen[u] /\ slot'[u] = slot[u] /\ task'[u] = task[u]
  BY DEF Exit
<1>1. NotRunningIsEmpty'
  BY <1>a, <1>b DEF IInv, Exit, VarTypes, NotRunningIsEmpty
<1>2. SlotOrigin'
  <2>1. \A r \in Procs : life[r] # "unborn" => life'[r] # "unborn"
    BY DEF Exit, VarTypes
  <2>2. \A r \in Procs, a \in Addrs : heap[r][a].home \in Procs
    BY DEF VarTypes, Slot
  <2>3. QED
    BY <1>a, <2>1, <2>2 DEF IInv, SlotOrigin
<1>3. FlagSeen'
  BY <1>a, <1>b DEF IInv, FlagSeen
<1>4. SeenIsForeign'
  BY <1>a, <1>b DEF IInv, SeenIsForeign
<1>5. SlotIsOwn'
  BY <1>a, <1>b DEF IInv, SlotIsOwn
<1>6. InstallIsPrivate'
  BY <1>a, <1>b DEF IInv, InstallIsPrivate
<1>7. NoUseAfterFree'
  BY <1>a, <1>b DEF IInv, NoUseAfterFree
<1>8. OneRuntimeWhileOpen'
  BY <1>a, <1>b DEF IInv, OneRuntimeWhileOpen
<1>9. LiveWhileOpen'
  BY <1>a, <1>b DEF IInv, LiveWhileOpen, Live
<1>10. TakenIsStopping'
  BY <1>a, <1>b DEF IInv, TakenIsStopping
<1>11. NoRuntimeOutlivesShutdown'
  BY <1>a, <1>b DEF IInv, NoRuntimeOutlivesShutdown, Live, WillStop
<1>12. QED
  BY <1>1, <1>2, <1>3, <1>4, <1>5, <1>6, <1>7, <1>8, <1>9, <1>10, <1>11 DEF IInv

\* Nothing changes.
LEMMA StutterStep == ASSUME IInv, UNCHANGED vars PROVE IInv'
  BY DEF vars, IInv, TypeOK, VarTypes, LocalsInUse, NotRunningIsEmpty, SlotOrigin, FlagSeen,
         SeenIsForeign, SlotIsOwn, InstallIsPrivate, NoUseAfterFree, OneRuntimeWhileOpen,
         LiveWhileOpen, TakenIsStopping, NoRuntimeOutlivesShutdown, Live, WillStop

\* The first process starts with nothing built.
LEMMA InitIInv == Init => IInv
<1> SUFFICES ASSUME Init PROVE IInv
  OBVIOUS
<1>1. TypeOK
  BY RuntimeAssumption, CellTypes DEF Init, TypeOK, VarTypes, LocalsInUse
<1>2. \A p \in Procs, a \in Addrs : heap[p][a].runtime = "free"
  BY DEF Init, FreeCell
<1>3. QED
  BY <1>1, <1>2, RuntimeAssumption
     DEF Init, IInv, NotRunningIsEmpty, SlotOrigin, FlagSeen, SeenIsForeign, SlotIsOwn,
         InstallIsPrivate, NoUseAfterFree, OneRuntimeWhileOpen, LiveWhileOpen,
         TakenIsStopping, NoRuntimeOutlivesShutdown, Live

\* One case per action of Next.
LEMMA NextIInv == ASSUME PidsDistinct, IInv, [Next]_vars PROVE IInv'
<1>1. TypeOK'
  BY TypeStep DEF IInv
<1>2. CASE UNCHANGED vars
  BY <1>2, StutterStep
<1>3. ASSUME NEW t \in Threads, HandleStep(t) PROVE IInv'
  BY <1>1, <1>3, HandleCheckStep, HandleLoadStep, BuildSlotStep, BuildFailsStep,
     InstallWinsStep, InstallLosesStep, BuildRecheckStep, RetractUnpublishStep, RetractTakeStep
     DEF HandleStep
<1>4. ASSUME NEW t \in Threads, ShutdownStep(t) PROVE IInv'
  BY <1>1, <1>4, ShutdownSwapStep, ShutdownTakeStep, ShutdownStopStep DEF ShutdownStep
<1>5. ASSUME NEW t \in Threads, Call(t) \/ Spawn(t) \/ TaskDone(t) \/ ShutdownClose(t) PROVE IInv'
  BY <1>1, <1>5, CallStep, SpawnStep, TaskDoneStep, ShutdownCloseStep
<1>6. ASSUME NEW t \in Threads, NEW q \in Procs, Fork(t, q) PROVE IInv'
  BY <1>1, <1>6, ForkStep
<1>7. ASSUME NEW p \in Procs, Exit(p) PROVE IInv'
  BY <1>1, <1>7, ExitStep
<1>8. QED
  BY <1>2, <1>3, <1>4, <1>5, <1>6, <1>7 DEF Next

-----------------------------------------------------------------------------
(* What holds of every behaviour                                           *)

\* The inductive invariant holds in every reachable state.
THEOREM Inductive == ASSUME PidsDistinct PROVE Spec => []IInv
<1>1. IInv /\ [Next]_vars => IInv'
  BY NextIInv
<1>2. QED
  BY <1>1, InitIInv, PTL DEF Spec

\* While PIDs are not reused, no thread of any process ever gets a handle to,
\* retracts or shuts down a runtime that it inherited through fork().
THEOREM HandlesAreOwn == ASSUME PidsDistinct PROVE Spec => []OwnRuntimeOnly
<1>1. IInv => OwnRuntimeOnly
  BY DEF IInv, TypeOK, LocalsInUse, SlotIsOwn, OwnRuntimeOnly, PublishedSteps
<1>2. QED
  BY <1>1, Inductive, PTL

\* Freeing the slot of a losing builder never frees one that anybody can reach.
THEOREM MemorySafe == ASSUME PidsDistinct PROVE Spec => []NoUseAfterFree
<1>1. IInv => NoUseAfterFree
  BY DEF IInv
<1>2. QED
  BY <1>1, Inductive, PTL

\* However many threads race in build(), they agree on one runtime.
THEOREM Agreement == ASSUME PidsDistinct PROVE Spec => []OneRuntimeWhileOpen
<1>1. IInv => OneRuntimeWhileOpen
  BY DEF IInv
<1>2. QED
  BY <1>1, Inductive, PTL

\* Once shutdown has begun, every runtime that is still up has a thread that
\* will stop it.
THEOREM ShutdownIsComplete == ASSUME PidsDistinct PROVE Spec => []NoRuntimeOutlivesShutdown
<1>1. IInv => NoRuntimeOutlivesShutdown
  BY DEF IInv
<1>2. QED
  BY <1>1, Inductive, PTL

=============================================================================
