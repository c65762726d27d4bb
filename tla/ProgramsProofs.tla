--------------------------- MODULE ProgramsProofs ---------------------------
(***************************************************************************)
(* Theorems about the example programs, however often SIGINT comes.        *)
(***************************************************************************)
EXTENDS Programs, TLAPS

(* The places of the two scripts.                                          *)
LEMMA ScriptC ==
    ASSUME NEW p, ~Cpp(p)
    PROVE  /\ Len(Script(p)) = 9 /\ DOMAIN Script(p) = 1 .. 9
           /\ Script(p)[1] = "init" /\ Script(p)[2] = "register" /\ Script(p)[3] = "set"
           /\ Script(p)[4] = "install" /\ Script(p)[5] = "run" /\ Script(p)[6] = "restore"
           /\ Script(p)[7] = "clear" /\ Script(p)[8] = "fini" /\ Script(p)[9] = "exit"
BY DEF Script

(* The steps of the C++ programs, by their numbers.                        *)
LEMMA ScriptCpp ==
    ASSUME NEW p, Cpp(p)
    PROVE  /\ Len(Script(p)) = 9 /\ DOMAIN Script(p) = 1 .. 9
           /\ Script(p)[1] = "install" /\ Script(p)[2] = "init" /\ Script(p)[3] = "register"
           /\ Script(p)[4] = "set" /\ Script(p)[5] = "run" /\ Script(p)[6] = "clear"
           /\ Script(p)[7] = "fini" /\ Script(p)[8] = "restore" /\ Script(p)[9] = "exit"
BY DEF Script

(* Every script has nine steps.                                            *)
LEMMA ScriptLength ==
    /\ \A p : Len(Script(p)) = 9
    /\ Killed = 10
    /\ Running <=> step < 9
<1>1. ASSUME NEW p PROVE Len(Script(p)) = 9
  <2>1. CASE Cpp(p)
    BY <2>1, ScriptCpp
  <2>2. CASE ~Cpp(p)
    BY <2>2, ScriptC
  <2> QED
    BY <2>1, <2>2
<1> DEFINE L == Len(Script(program))
<1>2. L = 9
  BY <1>1, Zenon
<1>3. Killed = L + 1 /\ (Running <=> step < L)
  BY Zenon DEF Killed, Running
<1> HIDE DEF L
<1>4. Killed = 10 /\ (Running <=> step < 9)
  BY <1>2, <1>3
<1> QED
  BY <1>1, <1>4, Zenon

(* Where a program is, by the number of its step.                          *)
LEMMA Places ==
    ASSUME step \in 1 .. 10
    PROVE  /\ Killed = 10
           /\ Running <=> step < 9
           /\ At("run") <=> step = 5
           /\ At("exit") <=> step = 9
           /\ ~Cpp(program) =>
                /\ At("init") <=> step = 1
                /\ At("register") <=> step = 2
                /\ At("set") <=> step = 3
                /\ At("install") <=> step = 4
                /\ At("restore") <=> step = 6
                /\ At("clear") <=> step = 7
                /\ At("fini") <=> step = 8
           /\ Cpp(program) =>
                /\ At("install") <=> step = 1
                /\ At("init") <=> step = 2
                /\ At("register") <=> step = 3
                /\ At("set") <=> step = 4
                /\ At("clear") <=> step = 6
                /\ At("fini") <=> step = 7
                /\ At("restore") <=> step = 8
<1>1. step \in {1, 2, 3, 4, 5, 6, 7, 8, 9, 10}
  OBVIOUS
<1>2. CASE ~Cpp(program)
  <2>1. Killed = 10 /\ (Running <=> step < 9) /\ Len(Script(program)) = 9
    BY ScriptLength, Zenon
  <2>2. CASE step = 1
    BY <1>2, <2>1, <2>2, ScriptC DEF At
  <2>3. CASE step = 2
    BY <1>2, <2>1, <2>3, ScriptC DEF At
  <2>4. CASE step = 3
    BY <1>2, <2>1, <2>4, ScriptC DEF At
  <2>5. CASE step = 4
    BY <1>2, <2>1, <2>5, ScriptC DEF At
  <2>6. CASE step = 5
    BY <1>2, <2>1, <2>6, ScriptC DEF At
  <2>7. CASE step = 6
    BY <1>2, <2>1, <2>7, ScriptC DEF At
  <2>8. CASE step = 7
    BY <1>2, <2>1, <2>8, ScriptC DEF At
  <2>9. CASE step = 8
    BY <1>2, <2>1, <2>9, ScriptC DEF At
  <2>10. CASE step = 9
    BY <1>2, <2>1, <2>10, ScriptC DEF At
  <2>11. CASE step = 10
    BY <1>2, <2>1, <2>11 DEF At
  <2> QED
    BY <1>1, <2>2, <2>3, <2>4, <2>5, <2>6, <2>7, <2>8, <2>9, <2>10, <2>11
<1>3. CASE Cpp(program)
  <2>1. Killed = 10 /\ (Running <=> step < 9) /\ Len(Script(program)) = 9
    BY ScriptLength, Zenon
  <2>2. CASE step = 1
    BY <1>3, <2>1, <2>2, ScriptCpp DEF At
  <2>3. CASE step = 2
    BY <1>3, <2>1, <2>3, ScriptCpp DEF At
  <2>4. CASE step = 3
    BY <1>3, <2>1, <2>4, ScriptCpp DEF At
  <2>5. CASE step = 4
    BY <1>3, <2>1, <2>5, ScriptCpp DEF At
  <2>6. CASE step = 5
    BY <1>3, <2>1, <2>6, ScriptCpp DEF At
  <2>7. CASE step = 6
    BY <1>3, <2>1, <2>7, ScriptCpp DEF At
  <2>8. CASE step = 7
    BY <1>3, <2>1, <2>8, ScriptCpp DEF At
  <2>9. CASE step = 8
    BY <1>3, <2>1, <2>9, ScriptCpp DEF At
  <2>10. CASE step = 9
    BY <1>3, <2>1, <2>10, ScriptCpp DEF At
  <2>11. CASE step = 10
    BY <1>3, <2>1, <2>11 DEF At
  <2> QED
    BY <1>1, <2>2, <2>3, <2>4, <2>5, <2>6, <2>7, <2>8, <2>9, <2>10, <2>11
<1> QED
  BY <1>2, <1>3

(* Where a program goes on whose uccn_node_init has failed.                *)
LEMMA FailedJump ==
    ASSUME JumpTo(IF Cpp(program) THEN "restore" ELSE "exit")
    PROVE  step' = (IF Cpp(program) THEN 8 ELSE 9) /\ run' = run
<1>1. CASE ~Cpp(program)
  <2>1. step' = CHOOSE k \in 1 .. 9 : Script(program)[k] = "exit"
    BY <1>1, ScriptC DEF JumpTo
  <2>2. ASSUME NEW k \in 1 .. 9, Script(program)[k] = "exit" PROVE k = 9
    <3>1. k \in {1, 2, 3, 4, 5, 6, 7, 8, 9}
      OBVIOUS
    <3> QED
      BY <1>1, <2>2, <3>1, ScriptC
  <2>3. Script(program)[9] = "exit" /\ 9 \in 1 .. 9
    BY <1>1, ScriptC
  <2> QED
    BY <1>1, <2>1, <2>2, <2>3 DEF JumpTo
<1>2. CASE Cpp(program)
  <2>1. step' = CHOOSE k \in 1 .. 9 : Script(program)[k] = "restore"
    BY <1>2, ScriptCpp DEF JumpTo
  <2>2. ASSUME NEW k \in 1 .. 9, Script(program)[k] = "restore" PROVE k = 8
    <3>1. k \in {1, 2, 3, 4, 5, 6, 7, 8, 9}
      OBVIOUS
    <3> QED
      BY <1>2, <2>2, <3>1, ScriptCpp
  <2>3. Script(program)[8] = "restore" /\ 8 \in 1 .. 9
    BY <1>2, ScriptCpp
  <2> QED
    BY <1>2, <2>1, <2>2, <2>3 DEF JumpTo
<1> QED
  BY <1>1, <1>2

-----------------------------------------------------------------------------
(* The steps between which the node is there, the handler's pointer is     *)
(* set, the handler is installed, and the node is gone.                    *)
NodeThere == step \in (IF Cpp(program) THEN 3 .. 7 ELSE 2 .. 8)

PointerSet == step \in (IF Cpp(program) THEN 5 .. 6 ELSE 4 .. 7)

HandlerSet == step \in (IF Cpp(program) THEN 2 .. 8 ELSE 5 .. 6)

NodeGone == step \in (IF Cpp(program) THEN 8 .. 9 ELSE {9})

Whole == IF multithreaded THEN Owned ELSE Owned \ {"mutex"}

(* The parts of the inductive invariant: what is open where, when the      *)
(* handler acts, and why the mutex is locked.                              *)
OpenInPlace ==
    /\ NodeThere => open = Whole
    /\ NodeGone => {"socket", "broadcast_socket"} \cap open = {}
    /\ NodeGone /\ ~failed => open = IF locked THEN {"mutex"} ELSE {}
    /\ failed => NodeGone \/ step = 10

HandlerInPlace ==
    step # 10 => (g_node <=> PointerSet) /\ (handler <=> HandlerSet)

LockedByStop ==
    /\ locked => multithreaded /\ step >= 5
    /\ locked /\ step = 5 => Provides(program) /\ run = "test" /\ g_stopped
    /\ pipe > 0 /\ Provides(program) => g_stopped
    /\ pipe <= signals

ProgramInv ==
    /\ ProgramTypeOK
    /\ OpenInPlace
    /\ HandlerInPlace
    /\ LockedByStop
    /\ ~misused

(* The types of the variables, one by one.                                 *)
LEMMA ProgramTypes ==
    ASSUME ProgramTypeOK
    PROVE  /\ step \in 1 .. 10
           /\ open \subseteq Owned
           /\ multithreaded \in BOOLEAN /\ linked \in BOOLEAN /\ locked \in BOOLEAN
           /\ handler \in BOOLEAN /\ g_node \in BOOLEAN /\ g_stopped \in BOOLEAN
           /\ failed \in BOOLEAN /\ interrupted \in BOOLEAN /\ misused \in BOOLEAN
           /\ pipe \in Nat /\ signals \in Nat
<1>1. Killed = 10
  BY ScriptLength, Zenon
<1>2. step \in 1 .. 10 /\ open \subseteq Owned /\ multithreaded \in BOOLEAN
  BY <1>1 DEF ProgramTypeOK
<1>3. pipe \in Nat /\ signals \in Nat
  BY ProgramAssumption DEF ProgramTypeOK
<1>4. {linked, locked, handler, g_node, g_stopped,
       failed, interrupted, misused} \subseteq BOOLEAN
  BY DEF ProgramTypeOK
<1>5. /\ linked \in BOOLEAN /\ locked \in BOOLEAN
      /\ handler \in BOOLEAN /\ g_node \in BOOLEAN /\ g_stopped \in BOOLEAN
      /\ failed \in BOOLEAN /\ interrupted \in BOOLEAN /\ misused \in BOOLEAN
  BY <1>4, Zenon
<1> QED
  BY <1>2, <1>3, <1>5

(* The same for the next state.                                            *)
LEMMA TypesAfter ==
    ASSUME program' \in Program, multithreaded' \in BOOLEAN,
           step' \in 1 .. 10, run' \in {"test", "post", "spin", "wait"},
           open' \subseteq Owned, linked' \in BOOLEAN, locked' \in BOOLEAN,
           handler' \in BOOLEAN, g_node' \in BOOLEAN, g_stopped' \in BOOLEAN,
           failed' \in BOOLEAN, interrupted' \in BOOLEAN, misused' \in BOOLEAN,
           pipe' \in 0 .. MaxSignals, signals' \in 0 .. MaxSignals
    PROVE  ProgramTypeOK'
<1> DEFINE L == Len(Script(program'))
<1>1. L = 9
  BY ScriptLength, Zenon
<1>2. Killed' = L + 1
  BY Zenon DEF Killed
<1> HIDE DEF L
<1>3. Killed' = 10
  BY <1>1, <1>2
<1>4. {linked', locked', handler', g_node', g_stopped',
       failed', interrupted', misused'} \subseteq BOOLEAN
  BY Zenon
<1> QED
  BY <1>3, <1>4, Zenon DEF ProgramTypeOK

(* uccn_node_init succeeds: the node owns what it opened.                  *)
LEMMA NodeInitStep == ASSUME ProgramInv, NodeInit PROVE ProgramInv'
<1>1. /\ step' = step + 1 /\ UNCHANGED run /\ open' = Whole
      /\ UNCHANGED <<program, multithreaded, linked, locked, pipe, handler, g_node, g_stopped,
                     signals, failed, interrupted, misused>>
  BY DEF NodeInit, GoOn, Whole, signal, history
<1>2. step \in 1 .. 10 /\ step = IF Cpp(program) THEN 2 ELSE 1
  BY ProgramTypes, Places DEF ProgramInv, NodeInit
<1>3. ProgramTypeOK'
  <2>1. open' \subseteq Owned
    BY <1>1 DEF Whole
  <2>2. step' \in 1 .. 10
    BY <1>1, <1>2
  <2> QED
    BY <1>1, <2>1, <2>2, ProgramTypes, TypesAfter DEF ProgramInv, ProgramTypeOK
<1>4. OpenInPlace'
  BY <1>1, <1>2 DEF ProgramInv, OpenInPlace, NodeThere, NodeGone, Whole
<1>5. HandlerInPlace'
  BY <1>1, <1>2 DEF ProgramInv, HandlerInPlace, PointerSet, HandlerSet
<1>6. LockedByStop'
  BY <1>1, <1>2 DEF ProgramInv, LockedByStop
<1> QED
  BY <1>1, <1>3, <1>4, <1>5, <1>6 DEF ProgramInv

(* uccn_node_init fails at any of its calls.                               *)
LEMMA NodeInitFailsStep ==
    ASSUME ProgramInv, NEW what \in {"socket", "pipe", "fcntl"}, NodeInitFails(what)
    PROVE  ProgramInv'
<1>1. /\ step' = (IF Cpp(program) THEN 8 ELSE 9) /\ UNCHANGED run
      /\ open' = LeftBy(what) /\ failed' = TRUE
      /\ UNCHANGED <<program, multithreaded, linked, locked, pipe, handler, g_node, g_stopped,
                     signals, interrupted, misused>>
  BY FailedJump DEF NodeInitFails, signal
<1>2. step \in 1 .. 10 /\ step = IF Cpp(program) THEN 2 ELSE 1
  BY ProgramTypes, Places DEF ProgramInv, NodeInitFails
<1>3. open' \subseteq Owned /\ {"socket", "broadcast_socket"} \cap open' = {}
  BY <1>1 DEF LeftBy, Owned
<1>4. ProgramTypeOK'
  BY <1>1, <1>3, ProgramTypes, TypesAfter DEF ProgramInv, ProgramTypeOK
<1>5. OpenInPlace'
  BY <1>1, <1>2, <1>3 DEF ProgramInv, OpenInPlace, NodeThere, NodeGone
<1>6. HandlerInPlace'
  BY <1>1, <1>2 DEF ProgramInv, HandlerInPlace, PointerSet, HandlerSet
<1>7. LockedByStop'
  BY <1>1, <1>2 DEF ProgramInv, LockedByStop
<1> QED
  BY <1>1, <1>4, <1>5, <1>6, <1>7 DEF ProgramInv

(* uccn_track or uccn_advertise.                                           *)
LEMMA RegisterStep == ASSUME ProgramInv, Register PROVE ProgramInv'
<1>1. /\ step' = step + 1 /\ UNCHANGED run
      /\ UNCHANGED <<program, multithreaded, open, linked, locked, pipe,
                     handler, g_node, g_stopped, signals, failed, interrupted, misused>>
  BY DEF Register, GoOn, node, signal, history
<1>2. step \in 1 .. 10 /\ step = IF Cpp(program) THEN 3 ELSE 2
  BY ProgramTypes, Places DEF ProgramInv, Register
<1>3. ProgramTypeOK'
  <2>1. step' \in 1 .. 10
    BY <1>1, <1>2
  <2> QED
    BY <1>1, <2>1, ProgramTypes, TypesAfter DEF ProgramInv, ProgramTypeOK
<1>4. OpenInPlace'
  BY <1>1, <1>2 DEF ProgramInv, OpenInPlace, NodeThere, NodeGone, Whole
<1>5. HandlerInPlace'
  BY <1>1, <1>2 DEF ProgramInv, HandlerInPlace, PointerSet, HandlerSet
<1>6. LockedByStop'
  BY <1>1, <1>2 DEF ProgramInv, LockedByStop
<1> QED
  BY <1>1, <1>3, <1>4, <1>5, <1>6 DEF ProgramInv

(* g_node is set for the run, and cleared before the node is finalized.    *)
LEMMA SetPointerStep ==
    ASSUME ProgramInv, SetPointer("set", TRUE) \/ SetPointer("clear", FALSE)
    PROVE  ProgramInv'
<1>1. /\ step' = step + 1 /\ UNCHANGED run
      /\ UNCHANGED <<program, multithreaded, open, linked, locked, pipe,
                     handler, g_stopped, signals, failed, interrupted, misused>>
  BY DEF SetPointer, GoOn, node, history
<1>2. /\ step \in 1 .. 10
      /\ \/ g_node' = TRUE /\ step = IF Cpp(program) THEN 4 ELSE 3
         \/ g_node' = FALSE /\ step = IF Cpp(program) THEN 6 ELSE 7
  BY ProgramTypes, Places DEF ProgramInv, SetPointer
<1>3. ProgramTypeOK'
  <2>1. step' \in 1 .. 10
    BY <1>1, <1>2
  <2>2. g_node' \in BOOLEAN
    BY <1>2, Zenon
  <2> QED
    BY <1>1, <2>1, <2>2, ProgramTypes, TypesAfter DEF ProgramInv, ProgramTypeOK
<1>4. OpenInPlace'
  BY <1>1, <1>2 DEF ProgramInv, OpenInPlace, NodeThere, NodeGone, Whole
<1>5. HandlerInPlace'
  BY <1>1, <1>2 DEF ProgramInv, HandlerInPlace, PointerSet, HandlerSet
<1>6. LockedByStop'
  BY <1>1, <1>2 DEF ProgramInv, LockedByStop
<1> QED
  BY <1>1, <1>3, <1>4, <1>5, <1>6 DEF ProgramInv

(* The handler is installed, or the default one restored.                  *)
LEMMA SetHandlerStep ==
    ASSUME ProgramInv, SetHandler("install", TRUE) \/ SetHandler("restore", FALSE)
    PROVE  ProgramInv'
<1>1. /\ step' = step + 1 /\ UNCHANGED run
      /\ UNCHANGED <<program, multithreaded, open, linked, locked, pipe,
                     g_node, g_stopped, signals, failed, interrupted, misused>>
  BY DEF SetHandler, GoOn, node, history
<1>2. /\ step \in 1 .. 10
      /\ \/ handler' = TRUE /\ step = IF Cpp(program) THEN 1 ELSE 4
         \/ handler' = FALSE /\ step = IF Cpp(program) THEN 8 ELSE 6
  BY ProgramTypes, Places DEF ProgramInv, SetHandler
<1>3. ProgramTypeOK'
  <2>1. step' \in 1 .. 10
    BY <1>1, <1>2
  <2>2. handler' \in BOOLEAN
    BY <1>2, Zenon
  <2> QED
    BY <1>1, <2>1, <2>2, ProgramTypes, TypesAfter DEF ProgramInv, ProgramTypeOK
<1>4. OpenInPlace'
  BY <1>1, <1>2 DEF ProgramInv, OpenInPlace, NodeThere, NodeGone, Whole
<1>5. HandlerInPlace'
  BY <1>1, <1>2 DEF ProgramInv, HandlerInPlace, PointerSet, HandlerSet
<1>6. LockedByStop'
  BY <1>1, <1>2 DEF ProgramInv, LockedByStop
<1> QED
  BY <1>1, <1>3, <1>4, <1>5, <1>6 DEF ProgramInv

(* The loop: a step of it stays at "run" or goes on behind it, and leaves  *)
(* the mutex unlocked but at Stopped.                                      *)
LEMMA LoopStep ==
    ASSUME ProgramInv, Test \/ Post \/ Iterate \/ WaitEnds
    PROVE  ProgramInv'
<1>1. UNCHANGED <<program, multithreaded, open, locked, pipe, handler, g_node, g_stopped,
                  signals, failed, interrupted, misused>>
  BY DEF Test, Post, Iterate, WaitEnds, node, signal, history
<1>2. step = 5 /\ step \in 1 .. 10
  BY ProgramTypes, Places DEF ProgramInv, Test, Post, Iterate, WaitEnds
<1>3. linked' \in BOOLEAN
  BY ProgramTypes DEF ProgramInv, Test, Post, Iterate, WaitEnds, node
<1>4. \/ step' = 6 /\ run' = run
      \/ step' = 5 /\ ~locked /\ run' \in {"test", "post", "spin", "wait"}
  <2>1. locked => Provides(program) /\ run = "test" /\ g_stopped
    BY <1>2 DEF ProgramInv, LockedByStop
  <2>2. CASE Test
    BY <1>2, <2>1, <2>2 DEF Test, GoOn, RunTo
  <2>3. CASE Post
    BY <1>2, <2>1, <2>3 DEF Post, GoOn, RunTo
  <2>4. CASE Iterate
    BY <1>2, <2>1, <2>4 DEF Iterate, GoOn, RunTo
  <2>5. CASE WaitEnds
    BY <1>2, <2>1, <2>5 DEF WaitEnds, RunTo
  <2> QED
    BY <2>2, <2>3, <2>4, <2>5
<1>5. ProgramTypeOK'
  <2>1. step' \in 1 .. 10 /\ run' \in {"test", "post", "spin", "wait"}
    BY <1>2, <1>4 DEF ProgramInv, ProgramTypeOK
  <2> QED
    BY <1>1, <1>3, <2>1, ProgramTypes, TypesAfter DEF ProgramInv, ProgramTypeOK
<1>6. OpenInPlace'
  BY <1>1, <1>2, <1>4 DEF ProgramInv, OpenInPlace, NodeThere, NodeGone, Whole
<1>7. HandlerInPlace'
  BY <1>1, <1>2, <1>4 DEF ProgramInv, HandlerInPlace, PointerSet, HandlerSet
<1>8. LockedByStop'
  BY <1>1, <1>2, <1>4 DEF ProgramInv, LockedByStop
<1> QED
  BY <1>1, <1>5, <1>6, <1>7, <1>8 DEF ProgramInv

(* A stop: a provider's handler has set g_stopped with it.                 *)
LEMMA StoppedStep == ASSUME ProgramInv, Stopped PROVE ProgramInv'
<1>1. /\ pipe > 0 /\ pipe' = pipe - 1 /\ locked' = multithreaded
      /\ UNCHANGED <<program, multithreaded, open, linked, handler, g_node, g_stopped,
                     signals, failed, interrupted, misused>>
  BY DEF Stopped, signal, history
<1>2. step = 5 /\ step \in 1 .. 10
  BY ProgramTypes, Places DEF ProgramInv, Stopped
<1>3. \/ ~Provides(program) /\ step' = 6 /\ run' = run
      \/ Provides(program) /\ step' = 5 /\ run' = "test"
  BY <1>2 DEF Stopped, GoOn, RunTo
<1>4. pipe \in Nat /\ signals \in Nat /\ pipe <= signals /\ pipe <= MaxSignals
  BY ProgramTypes, ProgramAssumption DEF ProgramInv, ProgramTypeOK, LockedByStop
<1>5. ProgramTypeOK'
  <2>1. step' \in 1 .. 10 /\ run' \in {"test", "post", "spin", "wait"}
    BY <1>2, <1>3 DEF ProgramInv, ProgramTypeOK
  <2>2. pipe' \in 0 .. MaxSignals
    BY <1>1, <1>4, ProgramAssumption
  <2>3. locked' \in BOOLEAN
    BY <1>1, ProgramTypes DEF ProgramInv
  <2> QED
    BY <1>1, <2>1, <2>2, <2>3, ProgramTypes, TypesAfter DEF ProgramInv, ProgramTypeOK
<1>6. OpenInPlace'
  BY <1>1, <1>2, <1>3 DEF ProgramInv, OpenInPlace, NodeThere, NodeGone, Whole
<1>7. HandlerInPlace'
  BY <1>1, <1>2, <1>3 DEF ProgramInv, HandlerInPlace, PointerSet, HandlerSet
<1>8. LockedByStop'
  BY <1>1, <1>2, <1>3, <1>4 DEF ProgramInv, LockedByStop
<1> QED
  BY <1>1, <1>5, <1>6, <1>7, <1>8 DEF ProgramInv

(* uccn_node_fini: all it closes is open.                                  *)
LEMMA NodeFiniStep == ASSUME ProgramInv, NodeFini PROVE ProgramInv'
<1> DEFINE closed == Whole \ (IF locked THEN {"mutex"} ELSE {})
<1>1. /\ step' = step + 1 /\ UNCHANGED run
      /\ open' = open \ closed /\ misused' = (misused \/ ~(closed \subseteq open))
      /\ UNCHANGED <<program, multithreaded, linked, locked, pipe, handler, g_node, g_stopped,
                     signals, failed, interrupted>>
  BY DEF NodeFini, Close, GoOn, Whole, signal
<1>2. step \in 1 .. 10 /\ step = IF Cpp(program) THEN 7 ELSE 8
  BY ProgramTypes, Places DEF ProgramInv, NodeFini
<1>3. open = Whole /\ ~failed /\ (locked => "mutex" \in Whole) /\ Whole \subseteq Owned
  BY <1>2 DEF ProgramInv, OpenInPlace, NodeThere, NodeGone, LockedByStop, Whole, Owned
<1>4. open' = (IF locked THEN {"mutex"} ELSE {}) /\ closed \subseteq open
  <2>1. CASE locked
    BY <1>1, <1>3, <2>1
  <2>2. CASE ~locked
    BY <1>1, <1>3, <2>2
  <2> QED
    BY <2>1, <2>2
<1> HIDE DEF closed
<1>5. ~misused' /\ misused' \in BOOLEAN
  BY <1>1, <1>4 DEF ProgramInv
<1>6. ProgramTypeOK'
  <2>1. step' \in 1 .. 10 /\ open' \subseteq Owned
    BY <1>1, <1>2, <1>4 DEF Owned
  <2> QED
    BY <1>1, <1>5, <2>1, ProgramTypes, TypesAfter DEF ProgramInv, ProgramTypeOK
<1>7. OpenInPlace'
  <2>1. ~NodeThere' /\ NodeGone'
    BY <1>1, <1>2 DEF NodeThere, NodeGone
  <2>2. open' = IF locked' THEN {"mutex"} ELSE {}
    BY <1>1, <1>4
  <2>3. {"socket", "broadcast_socket"} \cap open' = {}
    BY <1>4
  <2> QED
    BY <2>1, <2>2, <2>3 DEF OpenInPlace
<1>8. HandlerInPlace'
  BY <1>1, <1>2 DEF ProgramInv, HandlerInPlace, PointerSet, HandlerSet
<1>9. LockedByStop'
  BY <1>1, <1>2 DEF ProgramInv, LockedByStop
<1> QED
  BY <1>5, <1>6, <1>7, <1>8, <1>9 DEF ProgramInv

(* The handler acts only where its pointer is set and the node is there.   *)
LEMMA InterruptStep == ASSUME ProgramInv, Interrupt PROVE ProgramInv'
<1> DEFINE acts == g_node \/ program = "c_tracker"
<1>1. /\ handler /\ step < 9 /\ signals < MaxSignals /\ signals' = signals + 1
      /\ pipe' = (IF acts THEN pipe + 1 ELSE pipe)
      /\ misused' = (misused \/ (acts /\ ~(g_node /\ "pipe_out" \in open)))
      /\ g_stopped' = (g_stopped \/ Provides(program))
      /\ interrupted' = (interrupted \/ acts \/ Provides(program))
      /\ UNCHANGED <<program, multithreaded, step, run, open, linked, locked,
                     handler, g_node, failed>>
  BY ScriptLength DEF Interrupt, HandlerSets, place
<1>2. step \in 1 .. 10
  BY ProgramTypes DEF ProgramInv
<1>3. acts => g_node /\ "pipe_out" \in open
  <2> SUFFICES ASSUME acts PROVE g_node /\ "pipe_out" \in open
    OBVIOUS
  <2>1. HandlerSet /\ (g_node <=> PointerSet)
    BY <1>1 DEF ProgramInv, HandlerInPlace
  <2>2. PointerSet
    <3>1. program = "c_tracker" => ~Cpp(program)
      BY DEF Cpp
    <3> QED
      BY <2>1, <3>1 DEF HandlerSet, PointerSet
  <2>3. NodeThere
    BY <1>2, <2>2 DEF PointerSet, NodeThere
  <2>4. open = Whole
    BY <2>3 DEF ProgramInv, OpenInPlace
  <2> QED
    BY <2>1, <2>2, <2>4 DEF Whole, Owned
<1>4. pipe \in Nat /\ signals \in Nat /\ pipe <= signals
  BY ProgramTypes DEF ProgramInv, LockedByStop
<1>5. ~misused' /\ misused' \in BOOLEAN /\ g_stopped' \in BOOLEAN /\ interrupted' \in BOOLEAN
  <2>1. misused' = (misused \/ FALSE)
    BY <1>1, <1>3, Zenon
  <2>2. ~misused
    BY DEF ProgramInv
  <2>3. g_stopped' \in BOOLEAN /\ interrupted' \in BOOLEAN
    BY <1>1, Zenon
  <2> QED
    BY <2>1, <2>2, <2>3, Zenon
<1> HIDE DEF acts
<1>6. pipe' \in 0 .. MaxSignals /\ signals' \in 0 .. MaxSignals /\ pipe' <= signals'
  BY <1>1, <1>4, ProgramAssumption
<1>7. ProgramTypeOK'
  BY <1>1, <1>2, <1>5, <1>6, ProgramTypes, TypesAfter DEF ProgramInv, ProgramTypeOK
<1>8. OpenInPlace'
  BY <1>1 DEF ProgramInv, OpenInPlace, NodeThere, NodeGone, Whole
<1>9. HandlerInPlace'
  BY <1>1 DEF ProgramInv, HandlerInPlace, PointerSet, HandlerSet
<1>10. LockedByStop'
  BY <1>1, <1>6 DEF ProgramInv, LockedByStop
<1> QED
  BY <1>5, <1>7, <1>8, <1>9, <1>10 DEF ProgramInv

(* A signal without a handler ends the process.                            *)
LEMMA KillStep == ASSUME ProgramInv, Kill PROVE ProgramInv'
<1>1. /\ step < 9 /\ signals < MaxSignals /\ signals' = signals + 1 /\ step' = 10
      /\ UNCHANGED <<program, multithreaded, run, open, linked, locked, pipe,
                     handler, g_node, g_stopped, failed, interrupted, misused>>
  BY ScriptLength DEF Kill, node, signal
<1>2. step \in 1 .. 10
  BY ProgramTypes DEF ProgramInv
<1>3. ProgramTypeOK'
  <2>1. signals' \in 0 .. MaxSignals /\ step' \in 1 .. 10
    BY <1>1, ProgramTypes, ProgramAssumption DEF ProgramInv
  <2> QED
    BY <1>1, <2>1, ProgramTypes, TypesAfter DEF ProgramInv, ProgramTypeOK
<1>4. OpenInPlace'
  BY <1>1 DEF ProgramInv, OpenInPlace, NodeThere, NodeGone
<1>5. HandlerInPlace'
  BY <1>1 DEF HandlerInPlace
<1>6. LockedByStop'
  BY <1>1, ProgramTypes DEF ProgramInv, LockedByStop
<1> QED
  BY <1>1, <1>3, <1>4, <1>5, <1>6 DEF ProgramInv

-----------------------------------------------------------------------------
(* The invariant holds when a program starts.                              *)
LEMMA ProgramInitInv == ProgramInit => ProgramInv
<1> SUFFICES ASSUME ProgramInit PROVE ProgramInv
  OBVIOUS
<1>1. Killed = 10
  BY ScriptLength, Zenon
<1>2. ProgramTypeOK
  <2>1. {linked, locked, handler, g_node, g_stopped,
         failed, interrupted, misused} \subseteq BOOLEAN
    BY DEF ProgramInit
  <2>2. step \in 1 .. Killed /\ pipe \in 0 .. MaxSignals /\ signals \in 0 .. MaxSignals
    BY <1>1, ProgramAssumption DEF ProgramInit
  <2> QED
    BY <2>1, <2>2 DEF ProgramInit, ProgramTypeOK
<1>3. OpenInPlace
  BY DEF ProgramInit, OpenInPlace, NodeThere, NodeGone
<1>4. HandlerInPlace
  BY DEF ProgramInit, HandlerInPlace, PointerSet, HandlerSet
<1>5. LockedByStop
  BY DEF ProgramInit, LockedByStop
<1> QED
  BY <1>2, <1>3, <1>4, <1>5 DEF ProgramInit, ProgramInv

(* The programs keep their invariant, wherever SIGINT comes.               *)
THEOREM ProgramInvariance == ProgramSpec => []ProgramInv
<1>1. ProgramInv /\ [ProgramNext]_programVars => ProgramInv'
  <2> SUFFICES ASSUME ProgramInv, [ProgramNext]_programVars PROVE ProgramInv'
    OBVIOUS
  <2>1. CASE NodeInit
    BY <2>1, NodeInitStep
  <2>2. ASSUME NEW what \in {"socket", "pipe", "fcntl"}, NodeInitFails(what)
        PROVE  ProgramInv'
    BY <2>2, NodeInitFailsStep
  <2>3. CASE Register
    BY <2>3, RegisterStep
  <2>4. CASE SetPointer("set", TRUE) \/ SetPointer("clear", FALSE)
    BY <2>4, SetPointerStep
  <2>5. CASE SetHandler("install", TRUE) \/ SetHandler("restore", FALSE)
    BY <2>5, SetHandlerStep
  <2>6. CASE Test \/ Post \/ Iterate \/ WaitEnds
    BY <2>6, LoopStep
  <2>7. CASE Stopped
    BY <2>7, StoppedStep
  <2>8. CASE NodeFini
    BY <2>8, NodeFiniStep
  <2>9. CASE Interrupt
    BY <2>9, InterruptStep
  <2>10. CASE Kill
    BY <2>10, KillStep
  <2>11. CASE UNCHANGED programVars
    <3>1. UNCHANGED <<program, multithreaded, step, run, open, linked, locked, pipe,
                      handler, g_node, g_stopped, signals, failed, interrupted, misused>>
      BY <2>11 DEF programVars, place, node, signal, history
    <3> QED
      BY <3>1 DEF ProgramInv, ProgramTypeOK, Killed, OpenInPlace, HandlerInPlace,
             LockedByStop, NodeThere, NodeGone, PointerSet, HandlerSet, Whole
  <2> QED
    BY <2>1, <2>2, <2>3, <2>4, <2>5, <2>6, <2>7, <2>8, <2>9, <2>10, <2>11
       DEF ProgramNext, Main
<1> QED
  BY <1>1, ProgramInitInv, PTL DEF ProgramSpec

(* The programs are type correct.                                          *)
THEOREM ProgramTypeCorrect == ProgramSpec => []ProgramTypeOK
<1>1. ProgramInv => ProgramTypeOK
  BY DEF ProgramInv
<1> QED
  BY <1>1, ProgramInvariance, PTL

(* The handler of none of the programs calls uccn_stop on a node that is   *)
(* not there, and uccn_node_fini closes nothing that is not open.          *)
THEOREM UsedWhileOpen == ProgramSpec => []NodeUsedWhileOpen
<1>1. ProgramInv => NodeUsedWhileOpen
  BY DEF ProgramInv, NodeUsedWhileOpen
<1> QED
  BY <1>1, ProgramInvariance, PTL

(* A program that ends leaves nothing open but the mutex a stop has locked,*)
(* or the mutex and the pipe of a node whose initialization has failed.    *)
THEOREM NothingEverLeft == ProgramSpec => []NothingLeft
<1>1. ProgramInv => NothingLeft
  <2> SUFFICES ASSUME ProgramInv, At("exit")
               PROVE  /\ {"socket", "broadcast_socket"} \cap open = {}
                      /\ ~g_node /\ ~handler
                      /\ ~failed => open = IF locked THEN {"mutex"} ELSE {}
    BY DEF NothingLeft
  <2>1. step = 9
    BY ProgramTypes, Places DEF ProgramInv
  <2>2. NodeGone /\ ~PointerSet /\ ~HandlerSet
    BY <2>1 DEF NodeGone, PointerSet, HandlerSet
  <2> QED
    BY <2>1, <2>2 DEF ProgramInv, OpenInPlace, HandlerInPlace
<1> QED
  BY <1>1, ProgramInvariance, PTL

(* No program locks the mutex that a stop has left locked: a provider's    *)
(* handler has set g_stopped before it stopped the node.                   *)
THEOREM NeverSelfDeadlocked == ProgramSpec => []NoSelfDeadlock
<1>1. ProgramInv => NoSelfDeadlock
  <2> SUFFICES ASSUME ProgramInv, locked, At("run") PROVE run \notin {"post", "spin"}
    BY DEF NoSelfDeadlock
  <2>1. step = 5
    BY ProgramTypes, Places DEF ProgramInv
  <2> QED
    BY <2>1 DEF ProgramInv, LockedByStop
<1> QED
  BY <1>1, ProgramInvariance, PTL

=============================================================================
