---------------------------- MODULE ReadWriteLock ----------------------------
(***************************************************************************)
(* What a readers-writer lock promises: any number of threads may read     *)
(* together, and a thread that writes is alone.                            *)
(***************************************************************************)
CONSTANT Threads

VARIABLES reading, writing

vars == <<reading, writing>>

Init == reading = {} /\ writing = {}

StartReading(t) ==
    /\ writing = {}
    /\ t \notin reading
    /\ reading' = reading \cup {t}
    /\ UNCHANGED writing

StopReading(t) ==
    /\ t \in reading
    /\ reading' = reading \ {t}
    /\ UNCHANGED writing

StartWriting(t) ==
    /\ reading = {}
    /\ writing = {}
    /\ writing' = {t}
    /\ UNCHANGED reading

StopWriting(t) ==
    /\ t \in writing
    /\ writing' = writing \ {t}
    /\ UNCHANGED reading

Next ==
    \E t \in Threads :
        StartReading(t) \/ StopReading(t) \/ StartWriting(t) \/ StopWriting(t)

Spec == Init /\ [][Next]_vars
==============================================================================
