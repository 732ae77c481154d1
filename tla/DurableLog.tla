----------------------------- MODULE DurableLog -----------------------------
(***************************************************************************)
(* What the map database promises its users: writes take effect in the     *)
(* order they are made, a crash loses only a suffix of them, and that      *)
(* suffix is never longer than Window.                                     *)
(***************************************************************************)
EXTENDS Integers, Sequences

CONSTANTS Writes,   \* the writes a user can make
          Window    \* the most writes a crash may lose

VARIABLES log,      \* every write made and not lost, in order
          durable   \* how many of them a crash cannot undo

logVars == <<log, durable>>

Init == log = << >> /\ durable = 0

\* A write is made; it may not outgrow the window.
Write(w) ==
    /\ Len(log) + 1 - durable <= Window
    /\ log' = Append(log, w)
    /\ UNCHANGED durable

\* Everything written so far becomes durable.
Commit ==
    /\ durable' = Len(log)
    /\ UNCHANGED log

\* The process dies: what was not durable is gone.
Crash ==
    /\ log' = SubSeq(log, 1, durable)
    /\ UNCHANGED durable

Next == (\E w \in Writes : Write(w)) \/ Commit \/ Crash

Spec == Init /\ [][Next]_logVars
=============================================================================
