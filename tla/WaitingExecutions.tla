--------------------------- MODULE WaitingExecutions ---------------------------
(***************************************************************************)
(* Executions that pause, and what resumes them: the WaitTracker           *)
(* (wait-tracker.ts), which polls the database every 60 seconds and sets a *)
(* timer for each execution that is due, and the waiting webhook           *)
(* (webhooks/waiting-webhooks.ts).  Both read the execution and call       *)
(* WorkflowRunner.run() for its id; everything else is ExecutionLifecycle. *)
(***************************************************************************)
EXTENDS ExecutionLifecycle

CONSTANTS
    TimedWaits,      \* executions that pause until a time
    WebhookWaits,    \* executions that pause until their webhook is called
    ResumesOverlap   \* an execution may be polled or called while it is being
                     \* resumed.  A resume takes milliseconds, unless it waits
                     \* for a slot.

ASSUME WaitsAssumption ==
    /\ TimedWaits \subseteq Executions
    /\ WebhookWaits \subseteq Executions
    /\ ResumesOverlap \in BOOLEAN

VARIABLES
    tracking,   \* mainTimer is set
    tracked,    \* WaitTracker.waitingExecutions
    armed,      \* those of them whose timer will fire
    polled,     \* what a query under way has found
    loaded      \* resumes that have read the execution and not called run() yet

trackerVars == <<tracking, tracked, armed, polled, loaded>>
wvars == <<vars, trackerVars>>

WInit ==
    /\ Init
    /\ tracking = TRUE
    /\ tracked = {}
    /\ armed = {}
    /\ polled = {}
    /\ loaded = {}

\* A resume of the execution is under way, and its row is still as it was.
Resuming(e) ==
    \/ \E l \in loaded : l.id = e
    \/ \E c \in Calls : call[c].id = e /\ call[c].resumed /\ call[c].pc \in {"throttled", "updating"}

\* The engine has saved that it pauses, and its promise has not resolved.  The
\* two are some microtasks apart; whoever resumes has to ask the database first.
Pausing(e) == \E c \in Calls : call[c].id = e /\ call[c].pc = "resolving"

Found(e) == ~Pausing(e) /\ (ResumesOverlap \/ ~Resuming(e))

Loadable(e) == Store!Exists(row[e]) /\ row[e].data # "missing"

-------------------------------------------------------------------------------
\* ExecutionRepository.getWaitingExecutions.
Due(e) ==
    /\ e \in TimedWaits
    /\ row[e].waitTill
    /\ row[e].status # "crashed"
    /\ Found(e)

\* getWaitingExecutions asks the database, and sets the timers that are missing
\* when the answer is there.
Poll ==
    /\ tracking
    /\ polled = {}
    /\ \E e \in Executions : Due(e) /\ e \notin tracked
    /\ polled' = { e \in Executions : Due(e) }
    /\ UNCHANGED <<vars, tracking, tracked, armed, loaded>>

SetTimers ==
    /\ polled # {}
    /\ tracked' = tracked \cup polled
    /\ armed' = armed \cup (polled \ tracked)
    /\ polled' = {}
    /\ UNCHANGED <<vars, tracking, loaded>>

\* Mutant of FireTimer: the entry is kept.
FireKeepingEntry(e) ==
    /\ e \in armed
    /\ ResumesOverlap \/ e \notin polled
    /\ armed' = armed \ {e}
    /\ loaded' = loaded \cup { [id |-> f, mode |-> row[f].mode] :
                                 f \in { f \in {e} : Loadable(f) /\ ~Store!Finished(row[f]) } }
    /\ UNCHANGED <<vars, tracking, tracked, polled>>

\* startExecution: only an execution that is finished is not started again.
FireTimer(e) ==
    /\ e \in armed
    /\ ResumesOverlap \/ e \notin polled
    /\ tracked' = tracked \ {e}
    /\ armed' = armed \ {e}
    /\ loaded' = loaded \cup { [id |-> f, mode |-> row[f].mode] :
                                 f \in { f \in {e} : Loadable(f) /\ ~Store!Finished(row[f]) } }
    /\ UNCHANGED <<vars, tracking, polled>>

\* executeWebhook: the execution must be paused; it goes on in mode `webhook`,
\* whatever its own mode is.
WebhookResume(e) ==
    /\ Alive /\ Quiet
    /\ phase \in {"listening", "recovered"} => RequestsDuringBoot
    /\ e \in WebhookWaits
    /\ Loadable(e)
    /\ row[e].status # "running"
    /\ row[e].data = "paused"
    /\ Found(e)
    /\ loaded' = loaded \cup {[id |-> e, mode |-> "webhook"]}
    /\ UNCHANGED <<vars, tracking, tracked, armed, polled>>

Resume(c, l) ==
    /\ Idle(c)
    /\ loaded' = loaded \ {l}
    /\ ThrottleKnown(c, l.id, l.mode)
    /\ LogThrottled(l.id)
    /\ UNCHANGED <<row, phase, restarts, boot, active, cancelled, writes, stop, begun>>
    /\ UNCHANGED <<tracking, tracked, armed, polled>>

-------------------------------------------------------------------------------
\* Mutant of StopTimer: the entry is kept.
StopKeepingEntry(e) ==
    /\ armed' = armed \ {e}
    /\ UNCHANGED <<tracking, tracked, polled, loaded>>

\* A stop request that does not end in the queue removes the timer.
StopTimer(e) ==
    /\ tracked' = tracked \ {e}
    /\ armed' = armed \ {e}
    /\ UNCHANGED <<tracking, polled, loaded>>

WStopStep(e) ==
    \/ (StopEnqueued(e) \/ StopFails(e) \/ StopStored(e)) /\ UNCHANGED trackerVars
    \/ (StopActive(e) \/ StopUnknown(e)) /\ StopTimer(e)

\* stopProcess stops tracking before it waits for the active executions.  The
\* entries stay.
StopTracking ==
    /\ phase = "up"
    /\ tracking
    /\ restarts < MaxRestarts
    /\ tracking' = FALSE
    /\ armed' = {}
    /\ UNCHANGED <<vars, tracked, polled, loaded>>

WBeginShutdown ==
    /\ ~tracking
    /\ BeginShutdown
    /\ UNCHANGED trackerVars

LoseTracker ==
    /\ tracking' = FALSE
    /\ tracked' = {}
    /\ armed' = {}
    /\ polled' = {}
    /\ loaded' = {}

\* Start.init starts tracking before the server listens.
WListen ==
    /\ Listen
    /\ tracking' = TRUE
    /\ UNCHANGED <<tracked, armed, polled, loaded>>

-------------------------------------------------------------------------------
WNext ==
    \/ /\ \/ \E c \in Calls, e \in Executions : Create(c, e)
          \/ \E c \in Calls : CallStep(c) \/ TimeoutFires(c) \/ RunEnqueued(c)
          \/ \E w \in writes : HookSaves(w)
          \/ \E e \in Executions : StopRequested(e)
          \/ Recover \/ ReadEnqueued
       /\ UNCHANGED trackerVars
    \/ Poll \/ SetTimers
    \/ \E e \in Executions : FireTimer(e) \/ WebhookResume(e) \/ WStopStep(e)
    \/ \E c \in Calls : \E l \in loaded : Resume(c, l)
    \/ StopTracking \/ WBeginShutdown \/ WListen
    \/ (Exit \/ Crash) /\ LoseTracker

WSpec == WInit /\ [][WNext]_wvars

(***************************************************************************)
(* As in ExecutionLifecycle; besides, the poll recurs, queries return, and *)
(* timers fire.  No webhook need ever be called, but one may be called for *)
(* ever: Quiet then comes and goes, and strong fairness says that what is  *)
(* ready at quiet moments again and again gets its turn.                   *)
(***************************************************************************)
WFairness ==
    /\ \A c \in Calls : SF_wvars(CallStep(c) /\ UNCHANGED trackerVars)
    /\ WF_wvars(Poll) /\ WF_wvars(SetTimers)
    /\ WF_wvars(\E e \in Executions : FireTimer(e))
    /\ \A e \in TimedWaits :
          WF_wvars(\E c \in Calls : \E l \in loaded : l.id = e /\ Resume(c, l))
    /\ SF_wvars(WBeginShutdown \/ (Exit /\ LoseTracker))
    /\ WF_wvars(WListen)
    /\ WF_wvars((Recover \/ ReadEnqueued) /\ UNCHANGED trackerVars)

WFairSpec == WSpec /\ WFairness

-------------------------------------------------------------------------------
(***************************************************************************)
(* Properties.                                                             *)
(***************************************************************************)

\* An execution that paused is run on by one engine only until it pauses again,
\* however many polls, timers and webhooks find it.
ResumedOncePerPause == [][\A e \in begun : ~Starts(e)]_wvars

\* While the instance tracks, every entry of waitingExecutions has a timer that
\* will fire: an entry without one would keep the poll from setting it.
NoDeadTimers == tracking => tracked \subseteq armed

\* An execution that paused until a time goes on, across crashes and restarts.
WaitsEnd ==
    \A e \in TimedWaits : (row[e].status = "waiting") ~> (row[e].status # "waiting")
===============================================================================
