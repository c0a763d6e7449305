----------------------------- MODULE AdmissionLine -----------------------------
(***************************************************************************)
(* What admission control promises, without its counter: a fixed number of *)
(* slots, and one line in front of them.  Whoever comes while a slot is    *)
(* free goes through; whoever comes later waits its turn; a slot that is   *)
(* given back goes to the head of the line; whoever gives up waiting       *)
(* leaves the line and changes nothing else.                               *)
(***************************************************************************)
EXTENDS Integers, Sequences, SequencesExt

CONSTANTS
    Places,    \* who can stand in line: records with a field resolve
    Slots      \* how many may be through at a time

VARIABLES
    open,      \* FALSE from shutdown on: the line no longer moves
    inUse,     \* slots taken
    line,      \* those waiting, oldest first
    through    \* those who were let through

vars == <<open, inUse, line, through>>

Init ==
    /\ open \in BOOLEAN
    /\ inUse = 0
    /\ line = <<>>
    /\ through = {}

GoThrough(place) ==
    /\ open
    /\ inUse < Slots
    /\ inUse' = inUse + 1
    /\ through' = through \cup {place.resolve}
    /\ UNCHANGED <<open, line>>

Wait(place) ==
    /\ open
    /\ inUse = Slots
    /\ line' = Append(line, place)
    /\ through' = through \ {place.resolve}
    /\ UNCHANGED <<open, inUse>>

\* Not subject to the limit, or past it because the line is closed.
PassBy(place) ==
    /\ through' = through \cup {place.resolve}
    /\ UNCHANGED <<open, inUse, line>>

Leave ==
    /\ open
    /\ inUse > 0
    /\ line = <<>>
    /\ inUse' = inUse - 1
    /\ UNCHANGED <<open, line, through>>

HandOver ==
    /\ open
    /\ inUse > 0
    /\ line # <<>>
    /\ line' = Tail(line)
    /\ through' = through \cup {Head(line).resolve}
    /\ UNCHANGED <<open, inUse>>

GiveUp(i) ==
    /\ open
    /\ line' = RemoveAt(line, i)
    /\ UNCHANGED <<open, inUse, through>>

Close ==
    /\ open' = FALSE
    /\ UNCHANGED <<inUse, line, through>>

Next ==
    \/ \E place \in Places : GoThrough(place) \/ Wait(place) \/ PassBy(place)
    \/ Leave
    \/ HandOver
    \/ \E i \in DOMAIN line : GiveUp(i)
    \/ Close

Spec == Init /\ [][Next]_vars
===============================================================================
