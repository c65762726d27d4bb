------------------------------ MODULE Programs ------------------------------
(***************************************************************************)
(* The example programs: a node's life from uccn_node_init to              *)
(* uccn_node_fini in a process of one thread, whose SIGINT handler stops   *)
(* the node.  The signal comes between any two steps.                      *)
(*                                                                         *)
(* What a node owns is its socket, its broadcast socket, its mutex and the *)
(* two ends of the stop event's pipe.                                      *)
(***************************************************************************)
EXTENDS Integers, Sequences, FiniteSets

CONSTANTS
    Program,     \* the programs that are run
    MaxSignals   \* how often SIGINT comes

ASSUME ProgramAssumption ==
    /\ Program \subseteq {"c_provider", "c_tracker", "cpp_provider", "cpp_tracker"}
    /\ MaxSignals \in Nat

VARIABLES
    program,        \* which of them this is
    multithreaded,  \* CONFIG_UCCN_MULTITHREADED
    step,           \* the place in the program's script
    run,            \* the place in its loop: "test", "post", "spin", "wait"
    open,           \* what the node owns
    linked,         \* whether the provider has peers
    locked,         \* whether the mutex is held
    pipe,           \* bytes in the pipe
    handler,        \* whether sigint_handler is installed
    g_node,         \* whether the handler's pointer is set
    g_stopped,
    signals,        \* how often SIGINT has come
    failed,         \* history: whether uccn_node_init has failed
    interrupted,    \* history: whether SIGINT came when the handler could act
    misused         \* history: whether something not open was used or closed

place == <<step, run>>
node == <<open, linked, locked, pipe>>
signal == <<handler, g_node, g_stopped>>
history == <<signals, failed, interrupted, misused>>
programVars == <<program, multithreaded, place, node, signal, history>>

Owned == {"socket", "broadcast_socket", "mutex", "pipe_in", "pipe_out"}

Provides(p) == p \in {"c_provider", "cpp_provider"}

Cpp(p) == p \in {"cpp_provider", "cpp_tracker"}

(* Fault: the handler outlives the pointer and the node.                   *)
ScriptHandlerLast(p) ==
    IF Cpp(p)
    THEN <<"install", "init", "register", "set", "run", "fini", "clear", "restore", "exit">>
    ELSE <<"init", "register", "set", "install", "run", "fini", "clear", "restore", "exit">>

(* What main does, in C, and in C++ with the destructors of the guard and  *)
(* of the node at the end of the block.                                    *)
Script(p) ==
    IF Cpp(p)
    THEN <<"install", "init", "register", "set", "run", "clear", "fini", "restore", "exit">>
    ELSE <<"init", "register", "set", "install", "run", "restore", "clear", "fini", "exit">>

At(name) == step <= Len(Script(program)) /\ Script(program)[step] = name

(* Beyond the script: SIGINT without a handler has killed the process.     *)
Killed == Len(Script(program)) + 1

Running == step < Len(Script(program))

ProgramTypeOK ==
    /\ program \in Program
    /\ multithreaded \in BOOLEAN
    /\ step \in 1 .. Killed
    /\ run \in {"test", "post", "spin", "wait"}
    /\ open \subseteq Owned
    /\ {linked, locked, handler, g_node, g_stopped,
        failed, interrupted, misused} \subseteq BOOLEAN
    /\ pipe \in 0 .. MaxSignals
    /\ signals \in 0 .. MaxSignals

ProgramInit ==
    /\ program \in Program
    /\ multithreaded \in BOOLEAN
    /\ step = 1
    /\ run = "test"
    /\ open = {}
    /\ linked = FALSE /\ locked = FALSE
    /\ pipe = 0
    /\ handler = FALSE /\ g_node = FALSE /\ g_stopped = FALSE
    /\ signals = 0 /\ failed = FALSE /\ interrupted = FALSE /\ misused = FALSE

-----------------------------------------------------------------------------
GoOn == step' = step + 1 /\ UNCHANGED run

JumpTo(name) ==
    /\ step' = CHOOSE k \in DOMAIN Script(program) : Script(program)[k] = name
    /\ UNCHANGED run

(* Closes what is open, and notes a close of what is not.                  *)
Close(S) ==
    /\ open' = open \ S
    /\ misused' = (misused \/ ~(S \subseteq open))

(* uccn_node_init *)
NodeInit ==
    /\ At("init")
    /\ open' = IF multithreaded THEN Owned ELSE Owned \ {"mutex"}
    /\ GoOn
    /\ UNCHANGED <<program, multithreaded, linked, locked, pipe, signal, history>>

(* Fault: the exit of uccn_node_init leaves the sockets open.              *)
LeftWithSockets(what) ==
    {"socket", "broadcast_socket"} \cup (IF multithreaded THEN {"mutex"} ELSE {})

(* What is open when uccn_node_init has failed at a socket call, or at one *)
(* of eventfd_init: its exit closes both sockets and nothing else.         *)
LeftBy(what) ==
    LET mutex == IF multithreaded THEN {"mutex"} ELSE {}
    IN  CASE what = "socket" -> {}
          [] what = "pipe"   -> mutex
          [] what = "fcntl"  -> mutex \cup {"pipe_in", "pipe_out"}

(* The program ends: in C at once, in C++ by an exception thrown from the  *)
(* constructor, for which no destructor runs.                              *)
NodeInitFails(what) ==
    /\ At("init")
    /\ open' = LeftBy(what)
    /\ failed' = TRUE
    /\ JumpTo(IF Cpp(program) THEN "restore" ELSE "exit")
    /\ UNCHANGED <<program, multithreaded, linked, locked, pipe, signal,
                   signals, interrupted, misused>>

(* uccn_advertise or uccn_track, which lock and unlock, on a node without  *)
(* other endpoints, which does not fail; the pointer and the handler.      *)
Register ==
    /\ At("register")
    /\ ~locked
    /\ GoOn
    /\ UNCHANGED <<program, multithreaded, node, signal, history>>

SetPointer(name, value) ==
    /\ At(name)
    /\ g_node' = value
    /\ GoOn
    /\ UNCHANGED <<program, multithreaded, node, handler, g_stopped, history>>

SetHandler(name, value) ==
    /\ At(name)
    /\ handler' = value
    /\ GoOn
    /\ UNCHANGED <<program, multithreaded, node, g_node, g_stopped, history>>

-----------------------------------------------------------------------------
(* The programs' loops *)

RunTo(place_) == run' = place_ /\ UNCHANGED step

(* while (!g_stopped); a tracker spins once.                               *)
Test ==
    /\ At("run") /\ run = "test"
    /\ IF Provides(program) /\ g_stopped THEN GoOn
       ELSE RunTo(IF Provides(program) THEN "post" ELSE "spin")
    /\ UNCHANGED <<program, multithreaded, node, signal, history>>

(* uccn_post locks only if there are peers.  A post that fails ends the    *)
(* loop, in C++ by an exception.                                           *)
Post ==
    /\ At("run") /\ run = "post"
    /\ linked => ~locked
    /\ RunTo("spin") \/ (linked /\ GoOn)
    /\ UNCHANGED <<program, multithreaded, node, signal, history>>

(* An iteration of uccn_spin_until: peers are linked and unlinked.         *)
Iterate ==
    /\ At("run") /\ run = "spin"
    /\ ~locked
    /\ linked' \in (IF Provides(program) THEN BOOLEAN ELSE {FALSE})
    /\ RunTo("wait") \/ GoOn
    /\ UNCHANGED <<program, multithreaded, open, locked, pipe, signal, history>>

(* Fault: the stop event is read, and the loop goes on.                    *)
StoppedGoesOn ==
    /\ At("run") /\ run = "wait"
    /\ pipe > 0
    /\ pipe' = pipe - 1
    /\ RunTo("spin")
    /\ UNCHANGED <<program, multithreaded, open, linked, locked, signal, history>>

(* Fault: the stop event is read whether it is set or not.                 *)
StoppedUnset ==
    /\ At("run") /\ run = "wait"
    /\ pipe' = pipe - 1
    /\ locked' = multithreaded
    /\ IF Provides(program) THEN RunTo("test") ELSE GoOn
    /\ UNCHANGED <<program, multithreaded, open, linked, signal, history>>

(* The loop waits in pselect and finds the stop event ready: the spin ends *)
(* with the mutex held.                                                    *)
Stopped ==
    /\ At("run") /\ run = "wait"
    /\ pipe > 0
    /\ pipe' = pipe - 1
    /\ locked' = multithreaded
    /\ IF Provides(program) THEN RunTo("test") ELSE GoOn
    /\ UNCHANGED <<program, multithreaded, open, linked, signal, history>>

(* Something else ends the wait: another iteration, or a provider's        *)
(* timeout of one second.                                                  *)
WaitEnds ==
    /\ At("run") /\ run = "wait"
    /\ \/ pipe = 0 /\ RunTo("spin")
       \/ Provides(program) /\ RunTo("test")
    /\ UNCHANGED <<program, multithreaded, node, signal, history>>

-----------------------------------------------------------------------------
(* uccn_node_fini closes everything, one after the other; a mutex that is  *)
(* still held is not destroyed, which goes unnoticed.                      *)
NodeFini ==
    /\ At("fini")
    /\ Close((IF multithreaded THEN Owned ELSE Owned \ {"mutex"})
             \ (IF locked THEN {"mutex"} ELSE {}))
    /\ GoOn
    /\ UNCHANGED <<program, multithreaded, linked, locked, pipe, signal,
                   signals, failed, interrupted>>

(* Fault: the provider's handler only stops the node.                      *)
HandlerStops(p) == FALSE

(* Whether the handler of a program sets g_stopped.                        *)
HandlerSets(p) == Provides(p)

(* sigint_handler: in simple_record_tracker.c without a test of g_node.    *)
Interrupt ==
    LET acts == g_node \/ program = "c_tracker"
    IN  /\ Running /\ signals < MaxSignals
        /\ handler
        /\ signals' = signals + 1
        /\ pipe' = IF acts THEN pipe + 1 ELSE pipe
        /\ misused' = (misused \/ (acts /\ ~(g_node /\ "pipe_out" \in open)))
        /\ g_stopped' = (g_stopped \/ HandlerSets(program))
        /\ interrupted' = (interrupted \/ acts \/ Provides(program))
        /\ UNCHANGED <<program, multithreaded, place, open, linked, locked,
                       handler, g_node, failed>>

(* Without the handler SIGINT ends the process.                            *)
Kill ==
    /\ Running /\ signals < MaxSignals
    /\ ~handler
    /\ signals' = signals + 1
    /\ step' = Killed
    /\ UNCHANGED <<program, multithreaded, run, node, signal, failed, interrupted, misused>>

Main ==
    \/ NodeInit
    \/ \E what \in {"socket", "pipe", "fcntl"} : NodeInitFails(what)
    \/ Register
    \/ SetPointer("set", TRUE) \/ SetPointer("clear", FALSE)
    \/ SetHandler("install", TRUE) \/ SetHandler("restore", FALSE)
    \/ Test \/ Post \/ Iterate \/ Stopped \/ WaitEnds
    \/ NodeFini

ProgramNext == Main \/ Interrupt \/ Kill

(* The process runs whenever it can, and pselect returns when the stop     *)
(* event is ready, also if datagrams are.                                  *)
ProgramSpec == ProgramInit /\ [][ProgramNext]_programVars /\ WF_programVars(Main)

-----------------------------------------------------------------------------
(* Properties *)

(* The handler never stops a node that is not there any more, or not yet,  *)
(* and nothing is closed that is not open.                                 *)
NodeUsedWhileOpen == ~misused

(* A program that comes to its end has closed all that its node owned, but *)
(* for the mutex if a stop has left it locked (uccn.c line 758), and for   *)
(* the mutex and the pipe if uccn_node_init has failed at the stop event   *)
(* (line 137).                                                             *)
NothingLeft ==
    At("exit") =>
        /\ {"socket", "broadcast_socket"} \cap open = {}
        /\ ~g_node /\ ~handler
        /\ ~failed => open = IF locked THEN {"mutex"} ELSE {}

(* Nobody but a stop leaves the mutex locked, and the program that finds   *)
(* it so never locks it again: the handler has set g_stopped by then.      *)
NoSelfDeadlock ==
    locked => ~(At("run") /\ run \in {"post", "spin"})

(* After a SIGINT that the handler can act on, the program ends.  (In      *)
(* simple_record_tracker.cpp one that comes before g_node is set is lost.) *)
InterruptEnds == interrupted ~> ~Running

=============================================================================
