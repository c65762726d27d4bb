---------------------------- MODULE MCSequential ----------------------------
(***************************************************************************)
(* The parts that run in one thread and share no state: a behaviour runs   *)
(* one of them, the variables of the others keep their initial values.     *)
(***************************************************************************)
EXTENDS Programs, SpinTimeout, Upoll, Crc32

CONSTANTS p1, p2, p3

VARIABLE part

(* Timeouts from below minus a second to above two.                        *)
MCDuration == -6 .. 9

(* A period within a second, one above, and an infinite one.               *)
MCPeriod == [p \in Poller |-> IF p = p1 THEN 3 ELSE IF p = p2 THEN 5 ELSE -1]

(* Every byte, and every word of four bytes with one or two one bits.      *)
MCInput ==
    {<<b>> : b \in SUBSET (0 .. 7)}
    \cup {[k \in 1 .. 4 |-> {b % 8 : b \in {c \in w : c \div 8 = k - 1}}] :
             w \in {{b, c} : b, c \in 0 .. 31}}

Init ==
    /\ part \in {"program", "spin", "upoll", "crc32"}
    /\ ProgramInit
    /\ part # "program" =>
           program = (CHOOSE p \in Program : TRUE) /\ multithreaded = TRUE
    /\ SpinTimeoutInit
    /\ UpollInit
    /\ IF part = "crc32" THEN CrcInit
       ELSE src = <<>> /\ i = 0 /\ checksum = {} /\ register = {}

Next ==
    /\ UNCHANGED part
    /\ \/ part = "program" /\ ProgramNext /\ UNCHANGED <<spinVars, upollVars, crcVars>>
       \/ part = "spin" /\ SpinTimeoutNext /\ UNCHANGED <<programVars, upollVars, crcVars>>
       \/ part = "upoll" /\ UpollNext /\ UNCHANGED <<programVars, spinVars, crcVars>>
       \/ part = "crc32" /\ CrcNext /\ UNCHANGED <<programVars, spinVars, upollVars>>

Spec ==
    /\ Init
    /\ [][Next]_<<part, programVars, spinVars, upollVars, crcVars>>
    /\ part = "program" => WF_programVars(Main /\ UNCHANGED <<spinVars, upollVars, crcVars>>)

=============================================================================
