----------------------------- MODULE LeaderDuties -----------------------------
(***************************************************************************)
(* What a main does because it leads: it tracks waiting executions         *)
(* (wait-tracker.ts), prunes executions (services/pruning.service.ts) and  *)
(* recovers executions from the queue (scaling/scaling.service.ts).  Each  *)
(* service starts on `leader-takeover` and stops on `leader-stepdown`, two *)
(* events of MultiMainSetup, in its own way.                               *)
(*                                                                         *)
(* Only what keeps a service going is modelled, its timers and what is     *)
(* under way.  What it does to rows is in WaitingExecutions and Scaling.   *)
(***************************************************************************)
EXTENDS MultiMainSetup

CONSTANT Executions   \* executions that may pause for a time

VARIABLES
    polls,     \* [Mains -> WaitTracker.mainTimer runs]
    query,     \* [Mains -> a query of the wait tracker is under way]
    tracked,   \* [Mains -> keys of WaitTracker.waitingExecutions]
    armed,     \* [Mains -> those whose timer is set]
    due,       \* rows whose waitTill is near
    pruning,   \* [Mains -> timers of PruningService run]
    recovery   \* [Mains -> the timer of queue recovery is armed; a cycle is under way]

dutyVars == <<polls, query, tracked, armed, due, pruning, recovery>>
dvars == <<vars, dutyVars>>

NoRecovery == [armed |-> FALSE, cycle |-> FALSE]

DInit ==
    /\ Init
    /\ polls = [m \in Mains |-> FALSE]
    /\ query = [m \in Mains |-> FALSE]
    /\ tracked = [m \in Mains |-> {}]
    /\ armed = [m \in Mains |-> {}]
    /\ due = {}
    /\ pruning = [m \in Mains |-> FALSE]
    /\ recovery = [m \in Mains |-> NoRecovery]

-------------------------------------------------------------------------------
(***************************************************************************)
(* The services start and stop.                                            *)
(***************************************************************************)
\* isPruningEnabled: also stopPruning asks it first.  A step sets isLeader before
\* it emits an event.
IsPruningEnabled(m) == isLeader'[m]

StartPruning(m) ==
    pruning' = [pruning EXCEPT ![m] = @ \/ (IsPruningEnabled(m) /\ process[m] # "stopping")]
StopPruning(m) == pruning' = [pruning EXCEPT ![m] = @ /\ ~IsPruningEnabled(m)]

\* startTracking polls at once.
StartTracking(m) ==
    /\ polls' = [polls EXCEPT ![m] = TRUE]
    /\ query' = [query EXCEPT ![m] = TRUE]
    /\ UNCHANGED <<tracked, armed>>

\* Mutant of StopTracking: a follower does not stop tracking.
StopTrackingAsLeader(m) ==
    /\ polls' = [polls EXCEPT ![m] = @ /\ ~isLeader'[m]]
    /\ armed' = [armed EXCEPT ![m] = IF isLeader'[m] THEN {} ELSE @]
    /\ UNCHANGED <<tracked, query>>

\* The timers are cleared; the entries, and a query under way, are left.
StopTracking(m) ==
    /\ polls' = [polls EXCEPT ![m] = FALSE]
    /\ armed' = [armed EXCEPT ![m] = {}]
    /\ UNCHANGED <<tracked, query>>

ScheduleQueueRecovery(m) == recovery' = [recovery EXCEPT ![m].armed = TRUE]
StopQueueRecovery(m) == recovery' = [recovery EXCEPT ![m].armed = FALSE]

\* leader-takeover, or the start of a process that leads.
StartDuties(m) ==
    StartTracking(m) /\ StartPruning(m) /\ ScheduleQueueRecovery(m) /\ UNCHANGED due

\* leader-stepdown, or the shutdown of the process.
StopDuties(m) ==
    StopTracking(m) /\ StopPruning(m) /\ StopQueueRecovery(m) /\ UNCHANGED due

-------------------------------------------------------------------------------
(***************************************************************************)
(* The services at work.                                                   *)
(***************************************************************************)
\* A wait comes near its end.
ComesDue(e) ==
    /\ e \notin due
    /\ due' = due \cup {e}
    /\ UNCHANGED <<vars, polls, query, tracked, armed, pruning, recovery>>

Poll(m) ==
    /\ polls[m] /\ ~query[m]
    /\ query' = [query EXCEPT ![m] = TRUE]
    /\ UNCHANGED <<vars, polls, tracked, armed, due, pruning, recovery>>

\* The query has returned: what has no entry gets one, with a timer.
SetTimers(m) ==
    /\ query[m]
    /\ query' = [query EXCEPT ![m] = FALSE]
    /\ tracked' = [tracked EXCEPT ![m] = @ \cup due]
    /\ armed' = [armed EXCEPT ![m] = @ \cup (due \ tracked[m])]
    /\ UNCHANGED <<vars, polls, due, pruning, recovery>>

\* startExecution; an execution that has been resumed already is refused.
FireTimer(m, e) ==
    /\ e \in armed[m]
    /\ armed' = [armed EXCEPT ![m] = @ \ {e}]
    /\ tracked' = [tracked EXCEPT ![m] = @ \ {e}]
    /\ due' = due \ {e}
    /\ UNCHANGED <<vars, polls, query, pruning, recovery>>

RecoveryFires(m) ==
    /\ recovery[m].armed
    /\ recovery' = [recovery EXCEPT ![m] = [armed |-> FALSE, cycle |-> TRUE]]
    /\ UNCHANGED <<vars, polls, query, tracked, armed, due, pruning>>

\* Mutant of RecoveryEnds: a cycle that failed does not schedule the next one.
RecoveryGivesUp(m) ==
    /\ recovery[m].cycle
    /\ \E failed \in BOOLEAN :
          recovery' = [recovery EXCEPT ![m] = [armed |-> @.armed \/ ~failed, cycle |-> FALSE]]
    /\ UNCHANGED <<vars, polls, query, tracked, armed, due, pruning>>

\* A cycle that ends, or fails, schedules the next one.
RecoveryEnds(m) ==
    /\ recovery[m].cycle
    /\ recovery' = [recovery EXCEPT ![m] = [armed |-> TRUE, cycle |-> FALSE]]
    /\ UNCHANGED <<vars, polls, query, tracked, armed, due, pruning>>

ServiceStep(m) ==
    \/ Poll(m) \/ SetTimers(m)
    \/ \E e \in Executions : FireTimer(m, e)
    \/ RecoveryFires(m) \/ RecoveryEnds(m)

-------------------------------------------------------------------------------
(***************************************************************************)
(* Leader election, with the events it emits.                              *)
(***************************************************************************)
Election(m) ==
    \/ /\ \/ LeaderIsSelf(m) \/ BecomeLeader(m) \/ StayFollower(m) \/ NothingMore(m)
       /\ UNCHANGED dutyVars
    \/ LeaderIsOther(m) /\ isLeader[m] /\ StopDuties(m)
    \/ LeaderIsOther(m) /\ ~isLeader[m] /\ UNCHANGED dutyVars
    \/ LeadershipVacant(m) /\ StopDuties(m)
    \/ TakeOver(m) /\ StartDuties(m)

\* A process that ends takes its timers and queries with it.
EndDuties(m) ==
    /\ polls' = [polls EXCEPT ![m] = FALSE]
    /\ query' = [query EXCEPT ![m] = FALSE]
    /\ tracked' = [tracked EXCEPT ![m] = {}]
    /\ armed' = [armed EXCEPT ![m] = {}]
    /\ pruning' = [pruning EXCEPT ![m] = FALSE]
    /\ recovery' = [recovery EXCEPT ![m] = NoRecovery]
    /\ UNCHANGED due

Ends(m) == (Exit(m) \/ Crash(m)) /\ EndDuties(m)

DNext ==
    \/ \E m \in Mains :
          \/ (RedisStep(m) \/ Start(m) \/ CheckLeader(m)) /\ UNCHANGED dutyVars
          \/ Election(m) \/ ServiceStep(m)
          \/ Shutdown(m) /\ StopDuties(m)
          \/ Ends(m)
    \/ \E e \in Executions : ComesDue(e)
    \/ Expire /\ UNCHANGED dutyVars

DSpec == DInit /\ [][DNext]_dvars

\* As in MultiMainSetup; queries return, and timers fire.
DFairness ==
    /\ \A m \in Mains :
          /\ WF_dvars(RedisStep(m) /\ UNCHANGED dutyVars)
          /\ WF_dvars(CheckLeader(m) /\ UNCHANGED dutyVars)
          /\ WF_dvars(Election(m))
          /\ WF_dvars(Exit(m) /\ EndDuties(m))
          /\ WF_dvars(Poll(m) \/ SetTimers(m))
          /\ \A e \in Executions : WF_dvars(FireTimer(m, e))
    /\ WF_dvars(Unrenewed /\ Expire /\ UNCHANGED dutyVars)

DFairSpec == DSpec /\ DFairness

-------------------------------------------------------------------------------
(***************************************************************************)
(* Properties.                                                             *)
(***************************************************************************)
\* The main that does the work of the leader does all of it: its wait tracker
\* polls, its pruning timers run, and queue recovery is scheduled or under way,
\* after any number of stepdowns, takeovers and cycles that overlap with them.
DutiesDone ==
    \A m \in Mains :
        working[m] /\ process[m] = "up" =>
            polls[m] /\ pruning[m] /\ (recovery[m].armed \/ recovery[m].cycle)

\* Two mains poll for waiting executions, and would resume them twice, only
\* while one of them has lost the key and has not noticed yet.
TrackersApart ==
    \A m, n \in Mains :
        m # n /\ polls[m] /\ polls[n] =>
            \E o \in {m, n} : lapsed[o] /\ isLeader[o]

\* A main that stepped down does none of the work of the leader
\* (multi-main-setup.ee.ts:77).
FollowersIdle ==
    \A m \in Mains :
        process[m] = "up" /\ ~isLeader[m] /\ UnderWay(m) = 0 =>
            ~polls[m] /\ armed[m] = {} /\ ~pruning[m] /\ recovery[m] = NoRecovery

\* An execution whose wait ends is resumed, as long as a main is up.
DueResumed ==
    \A e \in Executions :
        (e \in due) ~> (e \notin due \/ \A m \in Mains : process[m] # "up")
===============================================================================
