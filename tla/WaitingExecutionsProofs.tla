------------------------ MODULE WaitingExecutionsProofs ------------------------
(***************************************************************************)
(* Theorems about WaitingExecutions, for every number of executions,       *)
(* pauses, polls, calls of webhooks, stops, crashes and restarts: no entry *)
(* is without a timer, and when resumes do not overlap what paused is      *)
(* resumed once, by one engine.                                            *)
(***************************************************************************)
EXTENDS WaitingExecutions, ExecutionLifecycleProofs

-------------------------------------------------------------------------------
(***************************************************************************)
(* The entries of the tracker.                                             *)
(***************************************************************************)

\* A process that is down tracks nothing.
Tracks ==
    /\ NoDeadTimers
    /\ phase = "down" => ~tracking /\ tracked = {} /\ polled = {}

\* What the process does besides tracking neither ends it nor changes entries.
LEMMA LifeTracks ==
    ASSUME Tracks, UNCHANGED trackerVars, phase' = "down" => phase = "down"
    PROVE  Tracks'
BY DEF Tracks, NoDeadTimers, trackerVars

LEMMA StepsTrack ==
    ASSUME Tracks, [WNext]_wvars
    PROVE  Tracks'
<1>1. ASSUME NEW c \in Calls, CallStep(c)
      PROVE  phase' = phase
  BY <1>1 DEF CallStep, InsertData, ThrottleNew, Register, BeginUpdate, UpdateExisting,
     PermissionDenied, RunMainProcess, NodeLogged, EngineEnds, EngineSaves, EngineResolves,
     processVars
<1>2. ASSUME NEW c \in Calls, NEW e \in Executions, Create(c, e)
      PROVE  phase' = phase
  BY <1>2 DEF Create, processVars
<1>3. ASSUME NEW c \in Calls, TimeoutFires(c) \/ RunEnqueued(c)
      PROVE  phase' = phase
  BY <1>3 DEF TimeoutFires, RunEnqueued, processVars
<1>4. ASSUME NEW w \in writes, HookSaves(w)
      PROVE  phase' = phase
  BY <1>4 DEF HookSaves, processVars
<1>5. ASSUME NEW e \in Executions, StopRequested(e) \/ StopStep(e)
      PROVE  phase' = phase
  BY <1>5 DEF StopRequested, StopStep, StopEnqueued, StopActive, StopFails, StopUnknown,
     StopStored, processVars
<1>6. ASSUME Recover \/ ReadEnqueued, UNCHANGED trackerVars
      PROVE  Tracks'
  BY <1>6, LifeTracks DEF Recover, ReadEnqueued
<1>7. CASE Poll \/ SetTimers
  BY <1>7 DEF Poll, SetTimers, Tracks, NoDeadTimers, vars
<1>8. ASSUME NEW e \in Executions, FireTimer(e) \/ WebhookResume(e)
      PROVE  Tracks'
  BY <1>8 DEF FireTimer, WebhookResume, Tracks, NoDeadTimers, vars
<1>9. ASSUME NEW e \in Executions, WStopStep(e)
      PROVE  Tracks'
  BY <1>5, <1>9 DEF WStopStep, StopTimer, StopStep, Tracks, NoDeadTimers, trackerVars
<1>10. ASSUME NEW c \in Calls, NEW l \in loaded, Resume(c, l)
       PROVE  Tracks'
  BY <1>10 DEF Resume, Tracks, NoDeadTimers
<1>11. CASE StopTracking \/ WBeginShutdown \/ WListen
  BY <1>11 DEF StopTracking, WBeginShutdown, BeginShutdown, WListen, Listen, Tracks,
     NoDeadTimers, trackerVars, vars
<1>12. CASE (Exit \/ Crash) /\ LoseTracker
  BY <1>12 DEF LoseTracker, Tracks, NoDeadTimers
<1>13. CASE UNCHANGED wvars
  BY <1>13, LifeTracks DEF wvars, vars
<1> QED
  BY <1>1, <1>2, <1>3, <1>4, <1>5, <1>6, <1>7, <1>8, <1>9, <1>10, <1>11, <1>12, <1>13,
     LifeTracks DEF WNext

\* While the instance tracks, every entry of waitingExecutions has a timer that will
\* fire: whatever is polled, fired, stopped and restarted in between.
THEOREM EntriesHaveTimers == WSpec => []NoDeadTimers
<1>1. WInit => Tracks
  BY DEF WInit, Init, Tracks, NoDeadTimers
<1>2. Tracks => NoDeadTimers
  BY DEF Tracks
<1> QED BY <1>1, <1>2, StepsTrack, PTL DEF WSpec

-------------------------------------------------------------------------------
(***************************************************************************)
(* One engine at a time.  The assumptions: requests wait for the end of    *)
(* startup, nothing is resumed again while it is being resumed, and an     *)
(* execution pauses in one way.  A row may not go on saying that it is     *)
(* paused when it is over, or its webhook would resume it: simple recovery *)
(* marks it as crashed and leaves its data, and so does a stop that means  *)
(* to take an execution out of the queue and, because the mode of the row  *)
(* has no limit, leaves it there.                                          *)
(***************************************************************************)
Queueable(e) == ModeOf[e] \in CC!ProductionModes

ResumesApart ==
    /\ OrderlyBoot /\ ~ResumesOverlap
    /\ TimedWaits \cap WebhookWaits = {}
    /\ WebhookWaits # {} => RecoveryMode = "extensive"
    /\ CC!Limit = -1 \/ \A e \in WebhookWaits \cap Stoppables : Queueable(e)

\* What those who resume look for in a row.
Rests(e, r) ==
    \/ r.waitTill
    \/ e \in WebhookWaits /\ r.data = "paused" /\ r.status # "running"
Paused(e) == Rests(e, row[e])

\* It is about to be resumed: a poll has found it, or its timer is set, or it was read.
Token(e) == e \in armed \cup polled \/ \E l \in loaded : l.id = e

Waking(c) == call[c].pc \in {"throttled", "updating"} /\ call[c].resumed
BeforeStart == {"inserting", "stored", "throttled", "updating"}

Halted(e) ==
    /\ row[e].status \notin {"new", "running"} /\ row[e] # Store!NotInserted
    /\ e \notin begun /\ e \notin boot

Asleep(e) ==
    Paused(e) =>
       /\ Halted(e)
       /\ \A c \in Calls : Busy(c) /\ Of(c) = e => Waking(c) \/ call[c].pc = "resolving"

Free(e) == Token(e) => Halted(e) /\ \A c \in Calls : Busy(c) => Of(c) # e

Unrun(e) ==
    (e \in boot \/ \E c \in Calls : Busy(c) /\ Of(c) = e /\ call[c].pc \in BeforeStart)
        => row[e].status # "running"

\* The modes of an execution that is subject to the limit.
Moded(e) ==
    /\ stop[e].pc # "idle" => e \in Stoppables
    /\ Queueable(e) =>
          /\ Store!Exists(row[e]) => row[e].mode \in CC!ProductionModes
          /\ stop[e].pc # "idle" => stop[e].mode \in CC!ProductionModes
          /\ \A c \in Calls : Busy(c) /\ Of(c) = e => call[c].mode \in CC!ProductionModes
          /\ \A w \in writes : w.id = e => w.mode \in CC!ProductionModes
          /\ \A l \in loaded : l.id = e => l.mode \in CC!ProductionModes

\* An execution that was stopped in the queue stays out of it, and is not let through.
Barred(e) ==
    e \in WebhookWaits /\ stop[e].pc = "before"
        => \E c \in Calls : Busy(c) /\ Of(c) = e /\ Withheld(c)

OneToken ==
    /\ armed \cup polled \subseteq TimedWaits
    /\ loaded \subseteq [id : Executions, mode : CC!Modes]
    /\ \A l \in loaded : l.id \notin armed \cup polled
    /\ \A l, k \in loaded : l.id = k.id => l = k

PInv ==
    /\ OneToken
    /\ \A e \in Executions : Asleep(e) /\ Free(e) /\ Unrun(e) /\ Moded(e) /\ Barred(e)

-------------------------------------------------------------------------------
(***************************************************************************)
(* What a step of ExecutionLifecycle does to one execution.                *)
(***************************************************************************)
RowPasses(e) ==
    /\ row'[e].status = "new" => row[e].status = "new" \/ row[e] = Store!NotInserted
    /\ row'[e] = Store!NotInserted => row[e] = Store!NotInserted
    /\ row'[e].status = "running"
          => \/ row[e].status = "running"
             \/ \E c \in Calls : /\ Busy(c) /\ Of(c) = e /\ Of(c)' = e
                                 /\ call'[c].pc \in {"starting", "executing"}
    /\ Paused(e)'
          => \/ Paused(e)
             \/ \E c \in Calls : /\ Busy(c) /\ Of(c) = e /\ call[c].pc = "saving"
                                 /\ call'[c].pc = "resolving"
                                 /\ row'[e].status = "waiting" /\ e \notin begun'
    /\ Store!Exists(row'[e])
          => \/ Store!Exists(row[e]) /\ row'[e].mode = row[e].mode
             \/ row'[e].mode = ModeOf[e]
             \/ \E c \in Calls : Busy(c) /\ Of(c) = e /\ row'[e].mode = call[c].mode
             \/ \E w \in writes : w.id = e /\ row'[e].mode = w.mode

CallPasses(d, e) ==
    \/ /\ row[e] = Store!NotInserted /\ row'[e].status = "new"
       /\ call'[d].mode = ModeOf[e]
    \/ /\ e \in boot /\ Store!Exists(row[e]) /\ row'[e] = row[e]
       /\ call'[d].mode = row[e].mode
    \/ /\ Busy(d) /\ Of(d) = e /\ call'[d].mode = call[d].mode
       /\ Waking(d) => Waking(d)' \/ ~Paused(e)'
       /\ call[d].pc = "resolving" => call'[d].pc = "resolving"
       /\ call'[d].pc \in BeforeStart => call[d].pc \in BeforeStart

RestPasses(e) ==
    /\ e \in begun' => \/ e \in begun
                       \/ \E c \in Calls : Busy(c) /\ Of(c) = e /\ call[c].pc = "starting"
    /\ e \in boot' => e \in boot \/ (row[e].status = "new" /\ row'[e] = row[e])
    /\ \A w \in writes' :
          w.id = e => w \in writes \/ \E c \in Calls : Busy(c) /\ Of(c) = e /\ w.mode = call[c].mode
    /\ stop'[e].pc # "idle"
          => \/ stop[e].pc # "idle" /\ stop'[e].mode = stop[e].mode
             \/ e \in Stoppables /\ Store!Exists(row[e]) /\ stop'[e].mode = row[e].mode

Passes(e) ==
    /\ RowPasses(e) /\ RestPasses(e)
    /\ \A d \in Calls : Busy(d)' /\ Of(d)' = e => CallPasses(d, e)

\* Such steps keep what is said of a pause.
LEMMA AsleepPasses ==
    ASSUME IInv, NEW e \in Executions, Asleep(e), Passes(e)
    PROVE  Asleep(e)'
<1> SUFFICES ASSUME Paused(e)'
             PROVE  /\ Halted(e)'
                    /\ \A c \in Calls : Busy(c)' /\ Of(c)' = e
                          => Waking(c)' \/ call'[c].pc = "resolving"
  BY DEF Asleep
<1>1. CASE Paused(e)
  <2>1. Halted(e)
        /\ \A c \in Calls : Busy(c) /\ Of(c) = e => Waking(c) \/ call[c].pc = "resolving"
    BY <1>1 DEF Asleep
  <2>2. ASSUME NEW c \in Calls, Busy(c)', Of(c)' = e
        PROVE  Waking(c)' \/ call'[c].pc = "resolving"
    BY <2>1, <2>2 DEF Passes, CallPasses, Halted
  <2>3. ASSUME NEW c \in Calls, Of(c)' = e
        PROVE  call'[c].pc \notin {"starting", "executing"}
    BY <2>2, <2>3 DEF Busy, Waking
  <2>4. Halted(e)'
    BY <2>1, <2>3 DEF Passes, RowPasses, RestPasses, Halted, Waking
  <2> QED BY <2>2, <2>4
<1>2. CASE ~Paused(e)
  <2>1. PICK c \in Calls : /\ Busy(c) /\ Of(c) = e /\ call[c].pc = "saving"
                          /\ call'[c].pc = "resolving"
                          /\ row'[e].status = "waiting" /\ e \notin begun'
    BY <1>2 DEF Passes, RowPasses
  <2>2. e \notin boot /\ row[e] # Store!NotInserted
    BY <2>1 DEF IInv, Proper
  <2>3. Halted(e)'
    BY <2>1, <2>2, NotInsertedRow DEF Passes, RestPasses, Halted
  <2>4. ASSUME NEW d \in Calls, Busy(d)', Of(d)' = e
        PROVE  d = c
    BY <2>1, <2>2, <2>4 DEF Passes, CallPasses, IInv, Alone
  <2> QED BY <2>1, <2>3, <2>4
<1> QED BY <1>1, <1>2

LEMMA FreePasses ==
    ASSUME NEW e \in Executions, Free(e), Passes(e), Token(e)' => Token(e)
    PROVE  Free(e)'
<1> SUFFICES ASSUME Token(e)'
             PROVE  Halted(e)' /\ \A c \in Calls : Busy(c)' => Of(c)' # e
  BY DEF Free
<1>1. Halted(e) /\ \A c \in Calls : Busy(c) => Of(c) # e
  BY DEF Free
<1>2. Halted(e)'
  BY <1>1 DEF Passes, RowPasses, RestPasses, Halted
<1>3. \A c \in Calls : Busy(c)' => Of(c)' # e
  BY <1>1 DEF Passes, CallPasses, Halted
<1> QED BY <1>2, <1>3

LEMMA UnrunPasses ==
    ASSUME IInv, NEW e \in Executions, Unrun(e), Passes(e)
    PROVE  Unrun(e)'
<1> SUFFICES ASSUME row'[e].status = "running"
             PROVE  /\ e \notin boot'
                    /\ \A c \in Calls : Busy(c)' /\ Of(c)' = e => call'[c].pc \notin BeforeStart
  BY DEF Unrun
<1>1. CASE row[e].status = "running"
  <2>1. e \notin boot /\ \A c \in Calls : Busy(c) /\ Of(c) = e => call[c].pc \notin BeforeStart
    BY <1>1 DEF Unrun
  <2> QED BY <1>1, <2>1 DEF Passes, CallPasses, RestPasses
<1>2. CASE row[e].status # "running"
  <2>1. PICK c \in Calls : /\ Busy(c) /\ Of(c) = e /\ Of(c)' = e
                          /\ call'[c].pc \in {"starting", "executing"}
    BY <1>2 DEF Passes, RowPasses
  <2>2. e \notin boot /\ row[e] # Store!NotInserted
    BY <2>1 DEF IInv, Proper
  <2>3. e \notin boot'
    BY <1>2, <2>2 DEF Passes, RestPasses
  <2>4. ASSUME NEW d \in Calls, Busy(d)', Of(d)' = e
        PROVE  d = c
    BY <2>1, <2>2, <2>4 DEF Passes, CallPasses, IInv, Alone
  <2> QED BY <2>1, <2>3, <2>4 DEF BeforeStart
<1> QED BY <1>1, <1>2

LEMMA ModedPasses ==
    ASSUME NEW e \in Executions, Moded(e), Passes(e),
           \A l \in loaded' : l.id = e =>
               l \in loaded \/ l.mode \in CC!ProductionModes
                           \/ (Store!Exists(row[e]) /\ l.mode = row[e].mode)
    PROVE  Moded(e)'
<1>1. stop'[e].pc # "idle" => e \in Stoppables
  BY DEF Moded, Passes, RestPasses
<1> SUFFICES ASSUME Queueable(e)
             PROVE  /\ Store!Exists(row'[e]) => row'[e].mode \in CC!ProductionModes
                    /\ stop'[e].pc # "idle" => stop'[e].mode \in CC!ProductionModes
                    /\ \A c \in Calls : Busy(c)' /\ Of(c)' = e
                                          => call'[c].mode \in CC!ProductionModes
                    /\ \A w \in writes' : w.id = e => w.mode \in CC!ProductionModes
                    /\ \A l \in loaded' : l.id = e => l.mode \in CC!ProductionModes
  BY <1>1 DEF Moded
<1>2. ModeOf[e] \in CC!ProductionModes
  BY DEF Queueable
<1>3. Store!Exists(row'[e]) => row'[e].mode \in CC!ProductionModes
  BY <1>2 DEF Moded, Passes, RowPasses
<1>4. stop'[e].pc # "idle" => stop'[e].mode \in CC!ProductionModes
  BY DEF Moded, Passes, RestPasses
<1>5. \A c \in Calls : Busy(c)' /\ Of(c)' = e => call'[c].mode \in CC!ProductionModes
  BY <1>2 DEF Moded, Passes, CallPasses
<1>6. \A w \in writes' : w.id = e => w.mode \in CC!ProductionModes
  BY DEF Moded, Passes, RestPasses
<1>7. \A l \in loaded' : l.id = e => l.mode \in CC!ProductionModes
  BY DEF Moded
<1> QED BY <1>3, <1>4, <1>5, <1>6, <1>7

-------------------------------------------------------------------------------
(***************************************************************************)
(* Rows: every writer but one leaves a row paused only if it was.          *)
(***************************************************************************)
Lasts(e, r, s, mode) ==
    /\ Rewrites(r, s)
    /\ Rests(e, s) => Rests(e, r)
    /\ Store!Exists(s) => Store!Exists(r) /\ s.mode \in {r.mode, mode}

LEMMA SameLasts ==
    ASSUME NEW e, NEW r \in AllRows, NEW mode
    PROVE  Lasts(e, r, r, mode)
BY DEF Lasts, Rewrites

LEMMA VanishedRests ==
    ASSUME NEW e, NEW r \in AllRows, ~Store!Exists(r)
    PROVE  ~Rests(e, r)
BY RowKinds DEF Vanished, Store!NotInserted, Store!Deleted, Store!Absent, Rests

LEMMA WriterLasts ==
    ASSUME NEW e, NEW r \in AllRows, NEW mode
    PROVE  /\ Lasts(e, r, Store!WithInsertedData(r), mode)
           /\ Lasts(e, r, Store!Resumed(r), mode) /\ ~Rests(e, Store!Resumed(r))
           /\ Lasts(e, r, Store!WithStatus(r, "running"), mode)
           /\ Lasts(e, r, Store!StoppedDuringRun(r), mode)
           /\ r.status # "running" \/ e \notin WebhookWaits
                 => Lasts(e, r, Store!WithStatus(r, "canceled"), mode)
           /\ e \notin WebhookWaits => Lasts(e, r, Store!WithStatus(r, "crashed"), mode)
<1>1. CASE ~Store!Exists(r)
  BY <1>1, SameLasts, VanishedRests
     DEF Store!WithInsertedData, Store!Resumed, Store!WithStatus, Store!StoppedDuringRun
<1>2. CASE Store!Exists(r)
  <2>1. r \in Stored
    BY <1>2, RowKinds
  <2>2. {"running", "canceled", "crashed"} \subseteq Store!Statuses \ {"new"}
    BY DEF Store!Statuses
  <2>3. Lasts(e, r, Store!WithInsertedData(r), mode)
    <3>1. Store!WithInsertedData(r) = [r EXCEPT !.data = "initial"]
      BY <1>2 DEF Store!WithInsertedData
    <3>2. /\ Store!WithInsertedData(r).mode = r.mode
          /\ Store!WithInsertedData(r).waitTill = r.waitTill
          /\ Store!WithInsertedData(r).data = "initial"
      BY <2>1, <3>1 DEF Stored
    <3> QED BY <1>2, <3>2, DataRow DEF Lasts, Rests
  <2>4. Lasts(e, r, Store!Resumed(r), mode) /\ ~Rests(e, Store!Resumed(r))
    <3>1. Store!Resumed(r) = [r EXCEPT !.status = "running", !.waitTill = FALSE]
      BY <1>2 DEF Store!Resumed
    <3>2. /\ Store!Resumed(r).mode = r.mode
          /\ ~Store!Resumed(r).waitTill /\ Store!Resumed(r).status = "running"
      BY <2>1, <3>1 DEF Stored
    <3> QED BY <1>2, <3>2, ResumedRow DEF Lasts, Rests
  <2>5. Lasts(e, r, Store!StoppedDuringRun(r), mode)
    <3>1. Store!StoppedDuringRun(r)
             = [r EXCEPT !.status = "canceled", !.waitTill = FALSE, !.data = "failed"]
      BY <1>2 DEF Store!StoppedDuringRun
    <3>2. /\ Store!StoppedDuringRun(r).mode = r.mode
          /\ ~Store!StoppedDuringRun(r).waitTill /\ Store!StoppedDuringRun(r).data = "failed"
      BY <2>1, <3>1 DEF Stored
    <3> QED BY <1>2, <3>2, StoppedRow DEF Lasts, Rests
  <2>6. ASSUME NEW status \in Store!Statuses \ {"new"}
        PROVE  /\ Rewrites(r, Store!WithStatus(r, status))
               /\ Store!WithStatus(r, status).status = status
               /\ Store!WithStatus(r, status).mode = r.mode
               /\ Store!WithStatus(r, status).waitTill = r.waitTill
               /\ Store!WithStatus(r, status).data = r.data
    <3>1. Store!WithStatus(r, status) = [r EXCEPT !.status = status]
      BY <1>2 DEF Store!WithStatus
    <3>2. Rewrites(r, Store!WithStatus(r, status))
      BY StatusRow
    <3> QED BY <2>1, <3>1, <3>2 DEF Stored
  <2>7. Lasts(e, r, Store!WithStatus(r, "running"), mode)
    BY <1>2, <2>2, <2>6 DEF Lasts, Rests
  <2>8. r.status # "running" \/ e \notin WebhookWaits
           => Lasts(e, r, Store!WithStatus(r, "canceled"), mode)
    BY <1>2, <2>2, <2>6 DEF Lasts, Rests
  <2>9. e \notin WebhookWaits => Lasts(e, r, Store!WithStatus(r, "crashed"), mode)
    BY <1>2, <2>2, <2>6 DEF Lasts, Rests
  <2> QED BY <2>3, <2>4, <2>5, <2>7, <2>8, <2>9
<1> QED BY <1>1, <1>2

\* The save hook leaves a row paused that was, or that pauses.
LEMMA HookLasts ==
    ASSUME NEW e, NEW r \in AllRows, NEW mode \in CC!Modes,
           NEW status \in Store!Statuses \ {"new", "running"},
           NEW s, s = Store!Saved(r, status, mode)
    PROVE  /\ Rewrites(r, s)
           /\ Store!Exists(s) => Store!Exists(r) /\ s.mode \in {r.mode, mode}
           /\ status # "waiting" => Lasts(e, r, s, mode)
           /\ status = "waiting" /\ Store!Exists(r) => s.status = "waiting"
<1>1. Rewrites(r, s)
  BY SavedRow
<1>2. CASE ~Store!Exists(r)
  BY <1>2, SameLasts DEF Store!Saved, Lasts
<1>3. CASE Store!Exists(r) /\ Store!ShouldNotSave(status)
  <2>1. s = Store!Deleted /\ status # "waiting"
    BY <1>3 DEF Store!Saved, Store!ShouldNotSave
  <2>2. ~Store!Exists(s) /\ ~Rests(e, s)
    BY <2>1 DEF Store!Deleted, Store!Absent, Store!Exists, Store!Statuses, Rests
  <2> QED BY <1>1, <1>3, <2>1, <2>2 DEF Lasts
<1>4. CASE Store!Exists(r) /\ ~Store!ShouldNotSave(status)
  <2>1. /\ s.status = status /\ s.mode = mode /\ s.data = Store!DataAfter(status)
        /\ status # "waiting" => s.waitTill = r.waitTill
    <3>1. r.waitTill \in BOOLEAN
      BY <1>4, RowKinds DEF Stored
    <3> QED BY <1>4, <3>1 DEF Store!Saved
  <2>2. status # "waiting" => s.data # "paused"
    BY <2>1 DEF Store!DataAfter
  <2> QED BY <1>1, <1>4, <2>1, <2>2 DEF Lasts, Rests
<1> QED BY <1>2, <1>3, <1>4

-------------------------------------------------------------------------------
(***************************************************************************)
(* The steps of ExecutionLifecycle, seen from one execution.               *)
(***************************************************************************)
Onward == \A e \in Executions : Passes(e) /\ Barred(e)'

\* An invocation goes on or ends, and leaves every other execution alone.
LEMMA CallOnward ==
    ASSUME IInv, PInv, NEW c \in Calls, Busy(c), ~Withheld(c), NEW x, x = Of(c),
           \A d \in Calls : d # c => call'[d] = call[d],
           \A e \in Executions :
              e # x => row'[e] = row[e] /\ (e \in begun' => e \in begun),
           boot' = boot, stop' = stop,
           \A w \in writes' : w \in writes \/ (w.id = x /\ w.mode = call[c].mode),
           \A d \in Calls : d # c /\ Outside(d) => Outside(d)',
           \/ Lasts(x, row[x], row'[x], call[c].mode)
           \/ /\ Rewrites(row[x], row'[x])
              /\ Store!Exists(row'[x])
                    => Store!Exists(row[x]) /\ row'[x].mode \in {row[x].mode, call[c].mode}
              /\ call[c].pc = "saving" /\ call'[c].pc = "resolving"
              /\ Rests(x, row'[x]) => row'[x].status = "waiting" /\ x \notin begun',
           row'[x].status = "running"
              => \/ row[x].status = "running"
                 \/ Of(c)' = x /\ call'[c].pc \in {"starting", "executing"},
           x \in begun' => x \in begun \/ call[c].pc = "starting",
           \/ ~Busy(c)'
           \/ /\ Of(c)' = x /\ call'[c].mode = call[c].mode
              /\ Waking(c) => Waking(c)' \/ ~Rests(x, row'[x])
              /\ call[c].pc = "resolving" => call'[c].pc = "resolving"
              /\ call'[c].pc \in BeforeStart => call[c].pc \in BeforeStart
    PROVE  Onward
<1>1. x \in Executions /\ row[x] # Store!NotInserted
  BY CallFacts
<1>2. ASSUME NEW e \in Executions
      PROVE  Passes(e)
  <2>1. RowPasses(e)
    <3>1. CASE e = x
      <4>1. Rewrites(row[x], row'[x])
            /\ (Store!Exists(row'[x])
                  => Store!Exists(row[x]) /\ row'[x].mode \in {row[x].mode, call[c].mode})
        BY DEF Lasts
      <4>2. \/ Paused(x)' => Paused(x)
            \/ /\ call[c].pc = "saving" /\ call'[c].pc = "resolving"
               /\ Paused(x)' => row'[x].status = "waiting" /\ x \notin begun'
        BY DEF Lasts, Paused, Rests
      <4> QED BY <1>1, <3>1, <4>1, <4>2 DEF RowPasses, Rewrites
    <3>2. CASE e # x
      BY <3>2 DEF RowPasses, Paused, Rests
    <3> QED BY <3>1, <3>2
  <2>2. RestPasses(e)
    BY DEF RestPasses
  <2>3. ASSUME NEW d \in Calls, Busy(d)', Of(d)' = e
        PROVE  CallPasses(d, e)
    <3>1. CASE d = c
      BY <1>1, <2>3, <3>1 DEF CallPasses, Paused, Rests
    <3>2. CASE d # c
      BY <2>3, <3>2 DEF CallPasses, Busy, Of, Waking
    <3> QED BY <3>1, <3>2
  <2> QED BY <2>1, <2>2, <2>3 DEF Passes
<1>3. ASSUME NEW e \in Executions
      PROVE  Barred(e)'
  <2>1. ASSUME e \in WebhookWaits, stop[e].pc = "before"
        PROVE  \E d \in Calls : Busy(d)' /\ Of(d)' = e /\ Withheld(d)'
    <3>1. PICK d \in Calls : Busy(d) /\ Of(d) = e /\ Withheld(d)
      BY <2>1 DEF PInv, Barred
    <3> QED BY <3>1 DEF Busy, Of, Withheld
  <2> QED BY <2>1 DEF Barred
<1> QED BY <1>2, <1>3 DEF Onward

\* An invocation on its way to its entry.
LEMMA EnteringOnward ==
    ASSUME IInv, SInv, PInv, NEW c \in Calls,
           \/ InsertData(c) \/ ThrottleNew(c) \/ Register(c) \/ BeginUpdate(c)
           \/ UpdateExisting(c)
    PROVE  Onward
<1>1. Busy(c) /\ ~Withheld(c)
  BY DEF InsertData, ThrottleNew, Register, BeginUpdate, UpdateExisting, LetThrough, Busy,
         Withheld, Outside
<1>2. PICK x \in Executions : x = Of(c)
  BY <1>1, CallFacts
<1>3. row \in [Executions -> AllRows] /\ row[x] \in AllRows /\ TypeOK
      /\ call \in [Calls -> CallRecords]
  BY DEF IInv, TypeOK, AllRows, CallRecords
<1>4. PICK pc \in {"stored", "throttled", "starting", "updating"} :
         /\ call' = Goto(c, pc)
         /\ pc \in BeforeStart => call[c].pc \in BeforeStart
         /\ Waking(c) => pc = "updating" \/ UpdateExisting(c)
         /\ call[c].pc # "resolving"
  BY DEF InsertData, ThrottleNew, Register, BeginUpdate, UpdateExisting, LetThrough,
         BeforeStart, Waking
<1>5. /\ Of(c)' = x /\ call'[c].mode = call[c].mode /\ call'[c].pc = pc
      /\ call'[c].resumed = call[c].resumed
      /\ \A d \in Calls : d # c => call'[d] = call[d]
  BY <1>2, <1>3, <1>4 DEF Goto, CallRecords, Of
<1>6. UNCHANGED <<boot, writes, stop, begun>>
  BY DEF InsertData, ThrottleNew, Register, BeginUpdate, UpdateExisting, processVars
<1>7. \A d \in Calls : d # c /\ Outside(d) => Outside(d)'
  <2>1. CASE UNCHANGED ccVars
    BY <2>1, SameOutside
  <2>2. CASE ThrottleNew(c)
    BY <2>2, OutsideAfterThrottle DEF ThrottleNew
  <2> QED BY <2>1, <2>2 DEF InsertData, Register, BeginUpdate, UpdateExisting
<1>8. CASE UpdateExisting(c)
  <2>1. row' = [row EXCEPT ![x] = Store!Resumed(@)] /\ pc = "starting"
    BY <1>2, <1>3, <1>4, <1>5, <1>8, Moved DEF UpdateExisting, Of, CallPcs
  <2>2. /\ row'[x] = Store!Resumed(row[x])
        /\ \A e \in Executions : e # x => row'[e] = row[e]
    BY <1>3, <2>1
  <2>3. Lasts(x, row[x], row'[x], call[c].mode) /\ ~Rests(x, row'[x])
    BY <1>3, <2>2, WriterLasts
  <2> QED
    BY <1>1, <1>2, <1>4, <1>5, <1>6, <1>7, <2>1, <2>2, <2>3, CallOnward
<1>9. CASE ~UpdateExisting(c)
  <2>1. row' = row \/ row' = [row EXCEPT ![x] = Store!WithInsertedData(@)]
    BY <1>2, <1>9 DEF InsertData, ThrottleNew, Register, BeginUpdate, Of
  <2>2. /\ row'[x].status = row[x].status
        /\ Lasts(x, row[x], row'[x], call[c].mode)
        /\ \A e \in Executions : e # x => row'[e] = row[e]
    <3>1. CASE row' = row
      BY <1>3, <3>1, SameLasts
    <3>2. CASE row' = [row EXCEPT ![x] = Store!WithInsertedData(@)]
      <4>1. /\ row'[x] = Store!WithInsertedData(row[x])
            /\ \A e \in Executions : e # x => row'[e] = row[e]
        BY <1>3, <3>2
      <4> QED BY <1>3, <4>1, DataRow, WriterLasts
    <3> QED BY <2>1, <3>1, <3>2
  <2>3. Waking(c) => Waking(c)'
    BY <1>4, <1>5, <1>9 DEF Waking
  <2> QED
    BY <1>1, <1>2, <1>4, <1>5, <1>6, <1>7, <2>2, <2>3, CallOnward
<1> QED BY <1>8, <1>9

\* An invocation that ends.
LEMMA LeavingOnward ==
    ASSUME IInv, SInv, PInv, NEW c \in Calls, PermissionDenied(c) \/ EngineResolves(c)
    PROVE  Onward
<1>1. /\ Busy(c) /\ ~Withheld(c) /\ call' = [call EXCEPT ![c] = IdleCall]
      /\ RemoveActive(Of(c)) /\ UNCHANGED <<boot, stop, begun>>
  BY DEF PermissionDenied, EngineResolves, Busy, Withheld, Of, processVars
<1>2. PICK x \in Executions : x = Of(c)
  BY <1>1, CallFacts
<1>3. row \in [Executions -> AllRows] /\ row[x] \in AllRows /\ call[c].mode \in CC!Modes
  BY <1>1, CallFacts DEF IInv, TypeOK, AllRows
<1>4. ~Busy(c)' /\ \A d \in Calls : d # c => call'[d] = call[d]
  BY <1>1, IdleRecord DEF IInv, TypeOK, Busy
<1>5. /\ row' = row \/ row' = [row EXCEPT ![x] = Store!Saved(@, "error", call[c].mode)]
      /\ \A w \in writes' : w \in writes \/ (w.id = x /\ w.mode = call[c].mode)
  BY <1>2 DEF PermissionDenied, EngineResolves, Of, HookWrite
<1>6. /\ Lasts(x, row[x], row'[x], call[c].mode)
      /\ row'[x].status = "running" => row[x].status = "running"
      /\ \A e \in Executions : e # x => row'[e] = row[e]
  <2>1. "error" \in Store!Statuses \ {"new", "running"}
    BY DEF Store!Statuses
  <2>2. CASE row' = row
    BY <1>3, <2>2, SameLasts
  <2>3. CASE row' = [row EXCEPT ![x] = Store!Saved(@, "error", call[c].mode)]
    <3>1. /\ row'[x] = Store!Saved(row[x], "error", call[c].mode)
          /\ \A e \in Executions : e # x => row'[e] = row[e]
      BY <1>3, <2>3
    <3>2. Lasts(x, row[x], row'[x], call[c].mode)
      BY <1>3, <2>1, <3>1, HookLasts
    <3>3. row'[x].status # "running"
      BY <1>3, <2>1, <3>1, SavedRow
    <3> QED BY <3>1, <3>2, <3>3
  <2> QED BY <1>5, <2>2, <2>3
<1>7. \A d \in Calls : d # c /\ Outside(d) => Outside(d)'
  BY <1>1, OutsideAfterRemoval
<1> QED
  BY <1>1, <1>2, <1>4, <1>5, <1>6, <1>7, CallOnward

\* An engine that starts, runs, and saves.
LEMMA RunningOnward ==
    ASSUME IInv, SInv, PInv, NEW c \in Calls,
           RunMainProcess(c) \/ NodeLogged(c) \/ EngineEnds(c) \/ EngineSaves(c)
    PROVE  Onward
<1>1. /\ Busy(c) /\ ~Withheld(c) /\ ~Waking(c) /\ call[c].pc # "resolving"
  BY DEF RunMainProcess, NodeLogged, EngineEnds, EngineSaves, Busy, Withheld, Waking
<1>2. PICK x \in Executions : x = Of(c)
  BY <1>1, CallFacts
<1>3. /\ row \in [Executions -> AllRows] /\ row[x] \in AllRows /\ call[c].mode \in CC!Modes
      /\ call \in [Calls -> CallRecords] /\ Placed(c) /\ Proper(c) /\ TypeOK /\ Tidy
  BY <1>1, CallFacts DEF IInv, TypeOK, AllRows, CallRecords
<1>4. CASE RunMainProcess(c)
  <2>1. call[c].pc = "starting" /\ active[x] # NoEntry
    BY <1>1, <1>2, <1>3, <1>4, EntryRecord DEF RunMainProcess, Placed
  <2>2. /\ call' = [call EXCEPT ![c].pc = "executing", ![c].timer = Timeouts]
        /\ row' = [row EXCEPT ![x] = Store!WithStatus(@, "running")]
        /\ begun' = begun \cup {x}
        /\ UNCHANGED <<boot, writes, stop, ccVars>>
    BY <1>2, <1>4, <2>1 DEF RunMainProcess, Of
  <2>3. /\ Of(c)' = x /\ call'[c].mode = call[c].mode /\ call'[c].pc = "executing"
        /\ \A d \in Calls : d # c => call'[d] = call[d]
    BY <1>2, <1>3, <2>2 DEF CallRecords, Of
  <2>4. /\ Lasts(x, row[x], row'[x], call[c].mode)
        /\ \A e \in Executions : e # x => row'[e] = row[e]
    BY <1>3, <2>2, WriterLasts
  <2> QED
    BY <1>1, <1>2, <2>1, <2>2, <2>3, <2>4, CallOnward, SameOutside DEF BeforeStart
<1>5. CASE NodeLogged(c)
  <2>1. UNCHANGED <<row, boot, call, writes, stop, begun, ccVars>>
    BY <1>5 DEF NodeLogged
  <2>2. Lasts(x, row[x], row'[x], call[c].mode)
    BY <1>3, <2>1, SameLasts
  <2> QED
    BY <1>1, <1>2, <2>1, <2>2, CallOnward, SameOutside DEF Of
<1>6. CASE EngineEnds(c)
  <2>1. UNCHANGED <<row, boot, writes, stop, begun, ccVars>> /\ call[c].pc = "executing"
    BY <1>3, <1>6 DEF EngineEnds, Placed, processVars
  <2>2. PICK o : call' = [call EXCEPT ![c].outcome = o, ![c].pc = "saving"]
    BY <1>6, <2>1 DEF EngineEnds
  <2>3. /\ Of(c)' = x /\ call'[c].mode = call[c].mode /\ call'[c].pc = "saving"
        /\ \A d \in Calls : d # c => call'[d] = call[d]
    BY <1>2, <1>3, <2>2 DEF CallRecords, Of
  <2>4. Lasts(x, row[x], row'[x], call[c].mode)
    BY <1>3, <2>1, SameLasts
  <2> QED
    BY <1>1, <1>2, <2>1, <2>3, <2>4, CallOnward, SameOutside DEF BeforeStart
<1>7. CASE EngineSaves(c)
  <2>1. /\ call[c].pc = "saving" /\ call' = Goto(c, "resolving")
        /\ UNCHANGED <<boot, writes, stop, ccVars>>
    BY <1>3, <1>7 DEF EngineSaves, Placed, processVars
  <2>2. /\ Of(c)' = x /\ call'[c].mode = call[c].mode /\ call'[c].pc = "resolving"
        /\ \A d \in Calls : d # c => call'[d] = call[d]
    BY <1>2, <1>3, <2>1, Moved DEF CallPcs, Of
  <2>3. /\ begun' = IF call[c].outcome = "waiting" THEN begun \ {x} ELSE begun
        /\ row' = IF call[c].outcome = "aborted" THEN row
                  ELSE [row EXCEPT ![x] = Store!Saved(@, call[c].outcome, call[c].mode)]
    BY <1>2, <1>7 DEF EngineSaves, Of
  <2>4. CASE call[c].outcome = "aborted"
    <3>1. row' = row /\ Lasts(x, row[x], row'[x], call[c].mode)
      BY <1>3, <2>3, <2>4, SameLasts
    <3> QED
      BY <1>1, <1>2, <2>1, <2>2, <2>3, <3>1, CallOnward, SameOutside DEF BeforeStart
  <2>5. CASE call[c].outcome # "aborted"
    <3>1. call[c].outcome \in Store!Statuses \ {"new", "running"}
      BY <1>1, <1>3, <2>1, <2>5, OutcomesAssumption DEF Proper, CallRecords, Store!Statuses
    <3>2. /\ row'[x] = Store!Saved(row[x], call[c].outcome, call[c].mode)
          /\ \A e \in Executions : e # x => row'[e] = row[e]
      BY <1>3, <2>3, <2>5
    <3>3. row'[x].status # "running" /\ Rewrites(row[x], row'[x])
      BY <1>3, <3>1, <3>2, SavedRow
    <3>4. CASE call[c].outcome # "waiting"
      <4>1. Lasts(x, row[x], row'[x], call[c].mode)
        BY <1>3, <3>1, <3>2, <3>4, HookLasts
      <4> QED
        BY <1>1, <1>2, <2>1, <2>2, <2>3, <3>2, <3>3, <4>1, CallOnward, SameOutside
           DEF BeforeStart
    <3>5. CASE call[c].outcome = "waiting"
      <4>1. Store!Exists(row'[x])
              => Store!Exists(row[x]) /\ row'[x].mode \in {row[x].mode, call[c].mode}
        BY <1>3, <3>1, <3>2, HookLasts
      <4>2. Rests(x, row'[x]) => row'[x].status = "waiting"
        <5>1. CASE Store!Exists(row[x])
          BY <1>3, <3>1, <3>2, <3>5, <5>1, HookLasts
        <5>2. CASE ~Store!Exists(row[x])
          BY <1>3, <3>2, <5>2, VanishedRests DEF Store!Saved
        <5> QED BY <5>1, <5>2
      <4>3. x \notin begun' /\ \A e \in Executions : e \in begun' => e \in begun
        BY <2>3, <3>5
      <4> QED
        BY <1>1, <1>2, <2>1, <2>2, <3>2, <3>3, <4>1, <4>2, <4>3, CallOnward, SameOutside
           DEF BeforeStart
    <3> QED BY <3>4, <3>5
  <2> QED BY <2>4, <2>5
<1> QED BY <1>4, <1>5, <1>6, <1>7

\* An invocation of an execution that had none.
LEMMA NewcomerOnward ==
    ASSUME IInv, SInv, PInv, NEW c \in Calls,
           RunEnqueued(c) \/ \E e \in Executions : Create(c, e)
    PROVE  Onward
<1>1. ~Busy(c) /\ row \in [Executions -> AllRows] /\ TypeOK
  BY DEF RunEnqueued, Create, Idle, Busy, IInv, TypeOK, AllRows
<1>2. ASSUME \A d \in Calls : d # c => call'[d] = call[d],
             \A d \in Calls : d # c /\ Outside(d) => Outside(d)',
             stop' = stop
      PROVE  \A e \in Executions : Barred(e)'
  <2> SUFFICES ASSUME NEW e \in Executions, e \in WebhookWaits, stop[e].pc = "before"
               PROVE  \E d \in Calls : Busy(d)' /\ Of(d)' = e /\ Withheld(d)'
    BY <1>2 DEF Barred
  <2>1. PICK d \in Calls : Busy(d) /\ Of(d) = e /\ Withheld(d)
    BY DEF PInv, Barred
  <2> QED BY <1>1, <1>2, <2>1 DEF Busy, Of, Withheld
<1>3. ASSUME NEW x \in Executions, Create(c, x)
      PROVE  Onward
  <2>1. row[x] = Store!NotInserted
    BY <1>3 DEF Create
  <2>2. /\ Of(c)' = x /\ call'[c].mode = ModeOf[x]
        /\ \A d \in Calls : d # c => call'[d] = call[d]
    BY <1>1, <1>3 DEF Create, IdleCall, TypeOK, Of
  <2>3. /\ row'[x] = Store!InsertedEntity(ModeOf[x])
        /\ \A e \in Executions : e # x => row'[e] = row[e]
        /\ UNCHANGED <<boot, writes, stop, begun, ccVars>>
    BY <1>1, <1>3 DEF Create, processVars
  <2>4. /\ row'[x].status = "new" /\ row'[x].mode = ModeOf[x]
        /\ ~Rests(x, row'[x]) /\ row'[x] # Store!NotInserted
    BY <2>3, NotInsertedRow DEF Store!InsertedEntity, Rests
  <2>5. ASSUME NEW e \in Executions
        PROVE  Passes(e)
    <3>1. RowPasses(e)
      BY <2>1, <2>3, <2>4 DEF RowPasses, Paused, Rests
    <3>2. RestPasses(e)
      BY <2>3 DEF RestPasses
    <3>3. ASSUME NEW d \in Calls, Busy(d)', Of(d)' = e
          PROVE  CallPasses(d, e)
      <4>1. CASE d = c
        BY <2>1, <2>2, <2>4, <3>3, <4>1 DEF CallPasses
      <4>2. CASE d # c
        BY <2>2, <3>3, <4>2 DEF CallPasses, Busy, Of, Waking
      <4> QED BY <4>1, <4>2
    <3> QED BY <3>1, <3>2, <3>3 DEF Passes
  <2> QED BY <1>2, <2>2, <2>3, <2>5, SameOutside DEF Onward
<1>4. CASE RunEnqueued(c)
  <2>1. PICK x \in boot : boot' = boot \ {x} /\ ThrottleKnown(c, x, row[x].mode)
    BY <1>4 DEF RunEnqueued
  <2>2. x \in Executions /\ Store!Exists(row[x])
    BY <1>1, <2>1 DEF TypeOK, IInv, Known
  <2>3. /\ Of(c)' = x /\ call'[c].mode = row[x].mode
        /\ \A d \in Calls : d # c => call'[d] = call[d]
        /\ UNCHANGED <<row, writes, stop, begun>>
    BY <1>1, <1>4, <2>1 DEF RunEnqueued, ThrottleKnown, IdleCall, TypeOK, Of
  <2>4. \A d \in Calls : d # c /\ Outside(d) => Outside(d)'
    BY <2>1, OutsideAfterThrottle DEF ThrottleKnown
  <2>5. ASSUME NEW e \in Executions
        PROVE  Passes(e)
    <3>1. RowPasses(e) /\ RestPasses(e)
      BY <2>1, <2>3 DEF RowPasses, RestPasses, Paused
    <3>2. ASSUME NEW d \in Calls, Busy(d)', Of(d)' = e
          PROVE  CallPasses(d, e)
      <4>1. CASE d = c
        BY <2>1, <2>2, <2>3, <3>2, <4>1 DEF CallPasses
      <4>2. CASE d # c
        BY <2>3, <3>2, <4>2 DEF CallPasses, Busy, Of, Waking
      <4> QED BY <4>1, <4>2
    <3> QED BY <3>1, <3>2 DEF Passes
  <2> QED BY <1>2, <2>3, <2>4, <2>5 DEF Onward
<1> QED BY <1>3, <1>4

\* A step that moves no invocation, and writes one row at most.
LEMMA WriteOnward ==
    ASSUME IInv, PInv, NEW x \in Executions, call' = call, boot' = boot, begun' = begun,
           \A e \in Executions : e # x => row'[e] = row[e] /\ stop'[e] = stop[e],
           Rewrites(row[x], row'[x]),
           Rests(x, row'[x]) => Rests(x, row[x]),
           row'[x].status = "running" => row[x].status = "running",
           Store!Exists(row'[x])
              => /\ Store!Exists(row[x])
                 /\ \/ row'[x].mode = row[x].mode
                    \/ \E w \in writes : w.id = x /\ row'[x].mode = w.mode,
           \A w \in writes' :
              \/ w \in writes
              \/ w.id = x /\ \E c \in Calls : Busy(c) /\ Of(c) = x /\ w.mode = call[c].mode,
           stop'[x].pc # "idle"
              => \/ stop[x].pc # "idle" /\ stop'[x].mode = stop[x].mode
                 \/ x \in Stoppables /\ Store!Exists(row[x]) /\ stop'[x].mode = row[x].mode,
           \A d \in Calls : Outside(d) => Outside(d)',
           stop'[x].pc = "before" => stop[x].pc = "before" \/ Barred(x)'
    PROVE  Onward
<1>1. ASSUME NEW e \in Executions
      PROVE  Passes(e)
  <2>1. RowPasses(e)
    BY DEF RowPasses, Rewrites, Paused, Rests
  <2>2. RestPasses(e)
    BY DEF RestPasses
  <2>3. \A d \in Calls : Busy(d)' /\ Of(d)' = e => CallPasses(d, e)
    BY DEF CallPasses, Busy, Of, Waking
  <2> QED BY <2>1, <2>2, <2>3 DEF Passes
<1>2. ASSUME NEW e \in Executions
      PROVE  Barred(e)'
  <2> SUFFICES ASSUME e \in WebhookWaits, stop'[e].pc = "before",
                      stop[e].pc = "before"
               PROVE  \E d \in Calls : Busy(d)' /\ Of(d)' = e /\ Withheld(d)'
    BY DEF Barred
  <2>1. PICK d \in Calls : Busy(d) /\ Of(d) = e /\ Withheld(d)
    BY DEF PInv, Barred
  <2> QED BY <2>1 DEF Busy, Of, Withheld
<1> QED BY <1>1, <1>2 DEF Onward

LEMMA HookOnward ==
    ASSUME IInv, PInv, NEW w \in writes, HookSaves(w)
    PROVE  Onward
<1>1. PICK x \in Executions : x = w.id
  BY DEF IInv, TypeOK
<1>2. /\ UNCHANGED <<call, boot, stop, begun, ccVars>> /\ writes' = writes \ {w}
      /\ row' = [row EXCEPT ![x] = Store!Saved(@, w.status, w.mode)]
  BY <1>1 DEF HookSaves, processVars
<1>3. /\ row \in [Executions -> AllRows] /\ w.mode \in CC!Modes
      /\ w.status \in Store!Statuses \ {"new", "running"} /\ w.status # "waiting"
  BY DEF IInv, TypeOK, AllRows, Store!Statuses
<1>4. /\ row'[x] = Store!Saved(row[x], w.status, w.mode) /\ row[x] \in AllRows
      /\ \A e \in Executions : e # x => row'[e] = row[e]
  BY <1>2, <1>3
<1>5. Lasts(x, row[x], row'[x], w.mode)
  BY <1>3, <1>4, HookLasts
<1>6. row'[x].status # "running"
  BY <1>3, <1>4, SavedRow
<1>7. \A d \in Calls : Outside(d) => Outside(d)'
  BY <1>2, SameOutside
<1> QED BY <1>1, <1>2, <1>4, <1>5, <1>6, <1>7, WriteOnward DEF Lasts

LEMMA TimeoutOnward ==
    ASSUME IInv, SInv, PInv, NEW c \in Calls, TimeoutFires(c)
    PROVE  Onward
<1>1. Busy(c) /\ call[c].timer
  BY IdleRecord DEF TimeoutFires, IInv, Tidy
<1>2. PICK x \in Executions : x = Of(c)
  BY <1>1, CallFacts
<1>3. Attached(Of(c)) /\ StopExecution(x) /\ UNCHANGED <<row, boot, stop, begun>>
      /\ call' = [call EXCEPT ![c].timer = FALSE]
  BY <1>2 DEF TimeoutFires, Of, processVars
<1>4. Engine(x) = c /\ call[c].pc \in {"executing", "saving", "resolving"}
  BY <1>1, <1>2, <1>3, EngineIs
<1>5. /\ Of(c)' = x /\ call'[c].mode = call[c].mode /\ call'[c].pc = call[c].pc
      /\ \A d \in Calls : d # c => call'[d] = call[d]
  <2>1. call \in [Calls -> CallRecords]
    BY DEF IInv, TypeOK, CallRecords
  <2> QED BY <1>2, <1>3, <2>1 DEF CallRecords, Of
<1>6. \A w \in writes' : w \in writes \/ (w.id = x /\ w.mode = call[c].mode)
  BY <1>3, <1>4 DEF StopExecution, HookWrite
<1>7. \A d \in Calls : d # c /\ Outside(d) => Outside(d)'
  BY <1>3, OutsideAfterRemoval DEF StopExecution
<1>8. ~Withheld(c) /\ ~Waking(c)
  BY <1>4 DEF Withheld, Waking
<1>9. Lasts(x, row[x], row'[x], call[c].mode)
  BY <1>3, SameLasts DEF IInv, TypeOK, AllRows
<1> QED
  BY <1>1, <1>2, <1>3, <1>5, <1>6, <1>7, <1>8, <1>9, CallOnward

\* A request that does not touch the row, and finds nothing in the queue.
LEMMA StopRequestOnward ==
    ASSUME IInv, SInv, PInv, NEW x \in Executions,
           StopRequested(x) \/ StopFails(x) \/ StopUnknown(x) \/ StopActive(x)
    PROVE  Onward
<1>1. /\ UNCHANGED <<row, call, boot, begun>>
      /\ \A e \in Executions : e # x => stop'[e] = stop[e]
      /\ row[x] \in AllRows
  BY DEF StopRequested, StopFails, StopUnknown, StopActive, IInv, TypeOK, AllRows, processVars
<1>2. /\ stop'[x].pc # "before"
      /\ \/ stop[x].pc # "idle" /\ stop'[x].mode = stop[x].mode
         \/ x \in Stoppables /\ Store!Exists(row[x]) /\ stop'[x].mode = row[x].mode
  BY DEF StopRequested, StopFails, StopUnknown, StopActive, IInv, TypeOK,
         Store!Stoppable, Store!Exists, Store!Statuses
<1>3. ASSUME NEW w \in writes', w \notin writes
      PROVE  w.id = x /\ \E c \in Calls : Busy(c) /\ Of(c) = x /\ w.mode = call[c].mode
  <2>1. Attached(x) /\ StopExecution(x)
    BY <1>3 DEF StopRequested, StopFails, StopUnknown, StopActive
  <2>2. PICK c \in Calls :
           /\ Busy(c) /\ Of(c) = x
           /\ writes' = writes \cup {HookWrite(x, "canceled", call[c].mode)}
    BY <2>1, EngineStopped
  <2>3. w = HookWrite(x, "canceled", call[c].mode)
    BY <1>3, <2>2
  <2> QED BY <2>2, <2>3 DEF HookWrite
<1>4. \A d \in Calls : Outside(d) => Outside(d)'
  <2>1. CASE UNCHANGED ccVars
    BY <2>1, SameOutside
  <2>2. CASE RemoveActive(x)
    BY <2>2, OutsideAfterRemoval
  <2> QED
    BY <2>1, <2>2 DEF StopRequested, StopFails, StopUnknown, StopActive, StopExecution
<1>5. Rewrites(row[x], row'[x])
  BY <1>1 DEF Rewrites
<1> QED BY <1>1, <1>2, <1>3, <1>4, <1>5, WriteOnward

\* What is stopped in the queue leaves it: the mode that its row has is subject to the
\* limit, as is the one in which its webhook resumed it.
LEMMA StopEnqueuedOnward ==
    ASSUME ResumesApart, IInv, SInv, PInv, NEW x \in Executions, StopEnqueued(x)
    PROVE  Onward
<1>1. /\ UNCHANGED <<row, call, boot, writes, begun>>
      /\ \A e \in Executions : e # x => stop'[e] = stop[e]
      /\ stop[x].pc = "read" /\ stop'[x].pc = "before" /\ stop'[x].mode = stop[x].mode
      /\ CC!Has(x) /\ CC!RemoveExecution(x, stop[x].mode)
      /\ row[x] \in AllRows
  BY DEF StopEnqueued, IInv, TypeOK, AllRows, processVars
<1>2. PICK c \in Calls : Waiting([executionId |-> x, resolve |-> c])
  <2>1. PICK i \in DOMAIN queue : queue[i].executionId = x
    BY <1>1 DEF CC!Has, CC!Enqueued
  <2>2. i \in 1..Len(queue)
    BY <2>1, LenProperties DEF SInv, Line
  <2> QED BY <2>1, <2>2, LineItems DEF SInv, Waiting
<1>3. Busy(c) /\ Of(c) = x /\ Limited(call[c].mode)
  BY <1>2 DEF Waiting, Busy
<1>4. Barred(x)'
  <2> SUFFICES ASSUME x \in WebhookWaits
               PROVE  Barred(x)'
    BY DEF Barred
  <2>1. CC!Limit # -1
    BY <1>3, CallFacts DEF Limited, CC!IsUnlimited, CC!Modes
  <2>2. Moded(x)
    BY DEF PInv
  <2>3. Queueable(x)
    BY <1>1, <2>1, <2>2 DEF ResumesApart, Moded
  <2>4. stop[x].mode \in CC!ProductionModes
    BY <1>1, <2>2, <2>3 DEF Moded
  <2>5. Limited(stop[x].mode)
    BY <2>1, <2>4 DEF Limited, CC!IsUnlimited, CC!ProductionModes, CC!UnlimitedModes
  <2>6. call[c].pc = "throttled" /\ Outside(c)'
    BY <1>1, <1>3, <2>5, StoppedIsOutside DEF IInv
  <2> QED BY <1>1, <1>3, <2>6 DEF Barred, Busy, Of, Withheld
<1>5. \A d \in Calls : Outside(d) => Outside(d)'
  BY <1>1, OutsideAfterStop
<1>6. Rewrites(row[x], row'[x])
  BY <1>1 DEF Rewrites
<1> QED BY <1>1, <1>4, <1>5, <1>6, WriteOnward

\* An execution that was stopped before it ran is not paused: it was taken out of the
\* queue, and is not running.
LEMMA StopStoredOnward ==
    ASSUME IInv, PInv, NEW x \in Executions, StopStored(x)
    PROVE  Onward
<1>1. /\ UNCHANGED <<call, boot, writes, begun, ccVars>>
      /\ \A e \in Executions : e # x => row'[e] = row[e] /\ stop'[e] = stop[e]
      /\ row[x] \in AllRows
  BY DEF StopStored, IInv, TypeOK, AllRows, processVars
<1>2. /\ Lasts(x, row[x], row'[x], row[x].mode) /\ row'[x].status # "running"
      /\ stop[x].pc # "idle" /\ stop'[x].mode = stop[x].mode /\ stop'[x].pc # "before"
  <2>1. CASE stop[x].pc = "before"
    <3>1. row'[x] = Store!WithStatus(row[x], "canceled") /\ "canceled" \in Store!Statuses \ {"new"}
          /\ stop'[x].pc = "stoppedBefore" /\ stop'[x].mode = stop[x].mode
      BY <2>1 DEF StopStored, Store!StoppedBeforeRun, Store!Statuses, IInv, TypeOK
    <3>2. row[x].status # "running" \/ x \notin WebhookWaits
      BY <2>1 DEF PInv, Barred, Withheld, Unrun, BeforeStart
    <3> QED BY <1>1, <2>1, <3>1, <3>2, WriterLasts, StatusRow
  <2>2. CASE stop[x].pc = "during"
    <3>1. row'[x] = Store!StoppedDuringRun(row[x])
          /\ stop'[x].pc = "stoppedDuring" /\ stop'[x].mode = stop[x].mode
      BY <2>2 DEF StopStored, IInv, TypeOK
    <3> QED BY <1>1, <2>2, <3>1, WriterLasts, StoppedRow
  <2> QED BY <2>1, <2>2 DEF StopStored
<1>3. \A d \in Calls : Outside(d) => Outside(d)'
  BY <1>1, SameOutside
<1> QED BY <1>1, <1>2, <1>3, WriteOnward DEF Lasts

\* The process goes down, comes up, and recovers.
LEMMA ProcessOnward ==
    ASSUME IInv, PInv, BeginShutdown \/ Exit \/ Crash \/ Listen \/ ReadEnqueued
    PROVE  Onward
<1>1. UNCHANGED <<row, begun>>
  BY DEF BeginShutdown, Exit, Crash, GoDown, Listen, ReadEnqueued
<1>2. ASSUME NEW e \in Executions
      PROVE  RowPasses(e)
  BY <1>1 DEF RowPasses, Paused
<1>3. CASE Exit \/ Crash
  <2>1. \A c \in Calls : ~Busy(c)'
    BY <1>3, IdleRecord DEF Exit, Crash, GoDown, Busy
  <2>2. /\ boot' = {} /\ writes' = {}
        /\ \A e \in Executions :
              \/ stop'[e].pc = "idle"
              \/ stop'[e] = stop[e] /\ stop[e].pc \notin {"idle", "before"}
    BY <1>3 DEF Exit, Crash, GoDown, IdleStop
  <2>3. ASSUME NEW e \in Executions
        PROVE  Passes(e) /\ Barred(e)'
    <3>1. RestPasses(e)
      BY <1>1, <2>2 DEF RestPasses
    <3>2. stop'[e].pc # "before"
      BY <2>2
    <3> QED BY <1>2, <2>1, <3>1, <3>2 DEF Passes, Barred
  <2> QED BY <2>3 DEF Onward
<1>4. CASE BeginShutdown \/ Listen \/ ReadEnqueued
  <2>1. UNCHANGED <<call, writes, stop, queue, settled>>
    BY <1>4 DEF BeginShutdown, Listen, ReadEnqueued, CC!Disable, ccVars
  <2>2. \A e \in Executions : e \in boot' => e \in boot \/ row[e].status = "new"
    BY <1>4 DEF BeginShutdown, Listen, ReadEnqueued
  <2>3. ASSUME NEW e \in Executions
        PROVE  Passes(e) /\ Barred(e)'
    <3>1. RestPasses(e)
      BY <1>1, <2>1, <2>2 DEF RestPasses
    <3>2. \A d \in Calls : Busy(d)' /\ Of(d)' = e => CallPasses(d, e)
      BY <2>1 DEF CallPasses, Busy, Of, Waking
    <3>3. Barred(e)'
      BY <2>1 DEF PInv, Barred, Busy, Of, Withheld, Outside
    <3> QED BY <1>2, <3>1, <3>2, <3>3 DEF Passes
  <2> QED BY <2>3 DEF Onward
<1> QED BY <1>3, <1>4

LEMMA RecoveredRests ==
    ASSUME ResumesApart, TypeOK, NEW e \in Executions
    PROVE  /\ Rests(e, Recovered(e)) => Paused(e)
           /\ Store!Exists(Recovered(e))
                 => Store!Exists(row[e]) /\ Recovered(e).mode = row[e].mode
<1>1. /\ row[e] \in AllRows /\ eventLog[e].events \in {"none", "started", "nodes"}
      /\ \A mode : Lasts(e, row[e], row[e], mode)
  BY SameLasts DEF TypeOK, AllRows
<1>2. CASE RecoveryMode = "simple"
  <2>1. Recovered(e) = Store!WithStatus(row[e], "crashed") /\ e \notin WebhookWaits
    BY <1>2 DEF Recovered, ResumesApart
  <2>2. Lasts(e, row[e], Recovered(e), row[e].mode)
    BY <1>1, <2>1, WriterLasts
  <2> QED BY <2>2 DEF Lasts, Paused
<1>3. CASE RecoveryMode # "simple"
  <2>1. ASSUME NEW status \in {"crashed", "waiting", "error"},
               NEW s, s = Store!Saved(row[e], status, row[e].mode)
        PROVE  /\ Store!Exists(s) => Store!Exists(row[e]) /\ s.mode = row[e].mode
               /\ status # "waiting" => (Rests(e, s) => Paused(e))
    <3>1. CASE Store!Exists(row[e])
      <4>1. row[e].mode \in CC!Modes
        BY <1>1, <3>1, RowKinds DEF Stored
      <4>2. status \in Store!Statuses \ {"new", "running"}
        BY DEF Store!Statuses
      <4> QED BY <1>1, <2>1, <4>1, <4>2, HookLasts DEF Lasts, Paused
    <3>2. CASE ~Store!Exists(row[e])
      BY <2>1, <3>2 DEF Store!Saved, Paused
    <3> QED BY <3>1, <3>2
  <2>2. /\ Rests(e, Amended(row[e])) => Paused(e)
        /\ Store!Exists(Amended(row[e]))
              => Store!Exists(row[e]) /\ Amended(row[e]).mode = row[e].mode
    <3>1. CASE row[e].waitTill
      <4>1. Paused(e)
        BY <3>1 DEF Paused, Rests
      <4> QED BY <2>1, <3>1, <4>1 DEF Amended
    <3>2. CASE ~row[e].waitTill
      <4>1. \/ Amended(row[e]) = row[e]
            \/ Amended(row[e]) = Store!Saved(row[e], "error", row[e].mode)
            \/ Amended(row[e]) = Store!Saved(row[e], "crashed", row[e].mode)
        BY <3>2 DEF Amended
      <4> QED BY <2>1, <4>1 DEF Paused
    <3> QED BY <3>1, <3>2
  <2>3. \/ Recovered(e) = row[e]
        \/ Recovered(e) = Amended(row[e])
        \/ Recovered(e) = Store!Saved(row[e], "crashed", row[e].mode)
    BY <1>1, <1>3 DEF Recovered
  <2> QED BY <2>1, <2>2, <2>3 DEF Paused
<1> QED BY <1>2, <1>3

LEMMA RecoverOnward ==
    ASSUME ResumesApart, IInv, PInv, Recover
    PROVE  Onward
<1>1. UNCHANGED <<boot, call, writes, stop, begun, ccVars>>
  BY DEF Recover
<1>2. ASSUME NEW e \in Executions
      PROVE  /\ Rewrites(row[e], row'[e])
             /\ row'[e].status = "running" => row[e].status = "running"
             /\ Rests(e, row'[e]) => Paused(e)
             /\ Store!Exists(row'[e]) => Store!Exists(row[e]) /\ row'[e].mode = row[e].mode
  <2>1. row'[e] = IF Unfinished(e) THEN Recovered(e) ELSE row[e]
    BY DEF Recover
  <2>2. Rewrites(row[e], row[e]) /\ TypeOK
    BY DEF Rewrites, IInv, TypeOK, AllRows
  <2> QED BY <2>1, <2>2, RecoveredRow, RecoveredRests DEF Paused
<1>3. ASSUME NEW e \in Executions
      PROVE  Passes(e) /\ Barred(e)'
  <2>1. RowPasses(e)
    BY <1>2 DEF RowPasses, Rewrites, Paused, Rests
  <2>2. RestPasses(e)
    BY <1>1 DEF RestPasses
  <2>3. \A d \in Calls : Busy(d)' /\ Of(d)' = e => CallPasses(d, e)
    BY <1>1 DEF CallPasses, Busy, Of, Waking
  <2>4. Barred(e)'
    BY <1>1 DEF PInv, Barred, Busy, Of, Withheld, Outside, ccVars
  <2> QED BY <2>1, <2>2, <2>3, <2>4 DEF Passes
<1> QED BY <1>3 DEF Onward

\* Every step of ExecutionLifecycle.
LEMMA NextOnward ==
    ASSUME ResumesApart, IInv, SInv, PInv, [Next]_vars
    PROVE  Onward
<1>1. ASSUME NEW c \in Calls,
             CallStep(c) \/ TimeoutFires(c) \/ RunEnqueued(c) \/ \E e \in Executions : Create(c, e)
      PROVE  Onward
  BY <1>1, EnteringOnward, LeavingOnward, RunningOnward, TimeoutOnward, NewcomerOnward
     DEF CallStep
<1>2. ASSUME NEW e \in Executions, StopRequested(e) \/ StopStep(e)
      PROVE  Onward
  BY <1>2, StopRequestOnward, StopEnqueuedOnward, StopStoredOnward DEF StopStep
<1>3. CASE UNCHANGED vars
  <2>1. ASSUME NEW e \in Executions
        PROVE  Passes(e) /\ Barred(e)'
    <3>1. RowPasses(e) /\ RestPasses(e)
      BY <1>3 DEF vars, RowPasses, RestPasses, Paused
    <3>2. \A d \in Calls : Busy(d)' /\ Of(d)' = e => CallPasses(d, e)
      BY <1>3 DEF vars, CallPasses, Busy, Of, Waking
    <3>3. Barred(e)'
      BY <1>3 DEF vars, PInv, Barred, Busy, Of, Withheld, Outside
    <3> QED BY <3>1, <3>2, <3>3 DEF Passes
  <2> QED BY <2>1 DEF Onward
<1> QED
  BY <1>1, <1>2, <1>3, HookOnward, ProcessOnward, RecoverOnward DEF Next

-------------------------------------------------------------------------------
(***************************************************************************)
(* The tracker and the webhook.                                            *)
(***************************************************************************)

\* The tracker forgets at most.
LEMMA OnwardKeeps ==
    ASSUME IInv, PInv, Onward,
           armed' \subseteq armed, polled' \subseteq polled, loaded' \subseteq loaded
    PROVE  PInv'
<1>1. OneToken'
  BY DEF PInv, OneToken
<1>2. \A e \in Executions : Token(e)' => Token(e)
  BY DEF Token
<1>3. ASSUME NEW e \in Executions
      PROVE  (Asleep(e) /\ Free(e) /\ Unrun(e) /\ Moded(e) /\ Barred(e))'
  BY <1>2, AsleepPasses, FreePasses, UnrunPasses, ModedPasses DEF PInv, Onward
<1> QED BY <1>1, <1>3 DEF PInv

\* A token is handed on, or one is given to who is found.
LEMMA TokensKeep ==
    ASSUME PInv, UNCHANGED vars, OneToken',
           \A e \in Executions : Token(e)' =>
               \/ Token(e)
               \/ /\ Paused(e)
                  /\ \A c \in Calls : Busy(c) /\ Of(c) = e
                                        => ~Waking(c) /\ call[c].pc # "resolving",
           \A l \in loaded' :
               \/ l \in loaded
               \/ l.mode \in CC!ProductionModes
               \/ Store!Exists(row[l.id]) /\ l.mode = row[l.id].mode
    PROVE  PInv'
<1>1. ASSUME NEW e \in Executions
      PROVE  Asleep(e)' /\ Unrun(e)' /\ Barred(e)'
  BY DEF PInv, Asleep, Unrun, Barred, Paused, Halted, Waking, Busy, Of, Withheld, Outside, vars
<1>2. ASSUME NEW e \in Executions
      PROVE  Free(e)'
  <2>1. ASSUME Token(e)'
        PROVE  Halted(e) /\ \A c \in Calls : Busy(c) => Of(c) # e
    <3>1. CASE Token(e)
      BY <3>1 DEF PInv, Free
    <3>2. CASE ~Token(e)
      BY <2>1, <3>2 DEF PInv, Asleep
    <3> QED BY <3>1, <3>2
  <2> QED BY <2>1 DEF Free, Halted, Busy, Of, vars
<1>3. ASSUME NEW e \in Executions
      PROVE  Moded(e)'
  BY DEF PInv, Moded, Busy, Of, vars
<1> QED BY <1>1, <1>2, <1>3 DEF PInv

LEMMA FoundKeeps ==
    ASSUME ResumesApart, PInv, Poll \/ SetTimers
    PROVE  PInv'
<1>1. UNCHANGED <<vars, loaded>>
  BY DEF Poll, SetTimers
<1>2. CASE SetTimers
  <2>1. armed' \cup polled' \subseteq armed \cup polled
    BY <1>2 DEF SetTimers
  <2>2. OneToken'
    BY <1>1, <2>1 DEF PInv, OneToken
  <2>3. \A e \in Executions : Token(e)' => Token(e)
    BY <1>1, <2>1 DEF Token
  <2> QED BY <1>1, <2>2, <2>3, TokensKeep
<1>3. CASE Poll
  <2>1. /\ polled = {} /\ polled' = { e \in Executions : Due(e) } /\ armed' = armed
    BY <1>3 DEF Poll
  <2>2. ASSUME NEW e \in Executions, Due(e)
        PROVE  /\ e \in TimedWaits /\ Paused(e) /\ \A l \in loaded : l.id # e
               /\ \A c \in Calls : Busy(c) /\ Of(c) = e
                                     => ~Waking(c) /\ call[c].pc # "resolving"
    BY <2>2 DEF Due, Found, Pausing, Resuming, ResumesApart, Paused, Rests, Waking, Of
  <2>3. OneToken'
    BY <1>1, <2>1, <2>2 DEF PInv, OneToken
  <2>4. ASSUME NEW e \in Executions, Token(e)', ~Token(e)
        PROVE  Due(e)
    BY <1>1, <2>1, <2>4 DEF Token
  <2> QED BY <1>1, <2>2, <2>3, <2>4, TokensKeep
<1> QED BY <1>2, <1>3

\* Whoever resumes has read the row: of what was paused, nobody else has.
LEMMA ReadKeeps ==
    ASSUME ResumesApart, PInv, TypeOK, NEW e \in Executions, FireTimer(e) \/ WebhookResume(e)
    PROVE  PInv'
<1>1. UNCHANGED <<vars, polled>>
  BY DEF FireTimer, WebhookResume
<1>2. CASE FireTimer(e)
  <2>1. /\ e \in armed /\ e \notin polled /\ armed' = armed \ {e}
        /\ \/ loaded' = loaded
           \/ /\ Loadable(e) /\ loaded' = loaded \cup {[id |-> e, mode |-> row[e].mode]}
    BY <1>2 DEF FireTimer, ResumesApart
  <2>2. CASE loaded' = loaded
    <3>1. OneToken'
      BY <1>1, <2>1, <2>2 DEF PInv, OneToken
    <3>2. \A f \in Executions : Token(f)' => Token(f)
      BY <1>1, <2>1, <2>2 DEF Token
    <3> QED BY <1>1, <2>2, <3>1, <3>2, TokensKeep
  <2>3. ASSUME Loadable(e), NEW l, l = [id |-> e, mode |-> row[e].mode],
               loaded' = loaded \cup {l}
        PROVE  PInv'
    <3>1. Store!Exists(row[e]) /\ row[e].mode \in CC!Modes
      BY <2>3, RowKinds DEF Loadable, TypeOK, AllRows, Stored
    <3>2. /\ l.id = e /\ l.mode = row[e].mode /\ l \in [id : Executions, mode : CC!Modes]
      BY <2>3, <3>1
    <3>3. OneToken'
      BY <1>1, <2>1, <2>3, <3>2 DEF PInv, OneToken
    <3>4. \A f \in Executions : Token(f)' => Token(f)
      BY <1>1, <2>1, <2>3, <3>2 DEF Token
    <3>5. ASSUME NEW k \in loaded'
          PROVE  k \in loaded \/ (Store!Exists(row[k.id]) /\ k.mode = row[k.id].mode)
      BY <2>3, <3>1, <3>2
    <3> QED BY <1>1, <3>3, <3>4, <3>5, TokensKeep
  <2> QED BY <2>1, <2>2, <2>3
<1>3. CASE WebhookResume(e)
  <2> DEFINE l == [id |-> e, mode |-> "webhook"]
  <2>1. /\ armed' = armed /\ loaded' = loaded \cup {l}
        /\ e \in WebhookWaits /\ row[e].status # "running" /\ row[e].data = "paused" /\ Found(e)
    BY <1>3 DEF WebhookResume
  <2>2. /\ e \notin TimedWaits /\ Paused(e) /\ \A k \in loaded : k.id # e
        /\ \A c \in Calls : Busy(c) /\ Of(c) = e => ~Waking(c) /\ call[c].pc # "resolving"
    BY <2>1 DEF Found, Pausing, Resuming, ResumesApart, Paused, Rests, Waking, Of
  <2>3. /\ l.id = e /\ l.mode \in CC!ProductionModes
        /\ l \in [id : Executions, mode : CC!Modes]
    BY DEF CC!Modes, CC!ProductionModes
  <2> HIDE DEF l
  <2>4. OneToken'
    BY <1>1, <2>1, <2>2, <2>3 DEF PInv, OneToken
  <2>5. ASSUME NEW f \in Executions, Token(f)', ~Token(f)
        PROVE  f = e
    BY <1>1, <2>1, <2>3, <2>5 DEF Token
  <2>6. ASSUME NEW k \in loaded'
        PROVE  k \in loaded \/ k.mode \in CC!ProductionModes
    BY <2>1, <2>3
  <2> QED BY <1>1, <2>2, <2>4, <2>5, <2>6, TokensKeep
<1> QED BY <1>2, <1>3

\* What was read is run: its row is not new, so that startup does not run it too.
LEMMA ResumeKeeps ==
    ASSUME IInv, SInv, PInv, NEW c \in Calls, NEW l \in loaded, Resume(c, l)
    PROVE  IInv' /\ SInv' /\ PInv'
<1>1. PICK x \in Executions, mode \in CC!Modes : l.id = x /\ l.mode = mode
  BY DEF PInv, OneToken
<1> DEFINE k == [IdleCall EXCEPT !.pc = "throttled", !.id = x, !.mode = mode,
                                 !.resumed = TRUE]
<1>2. /\ k \in CallRecords /\ k.pc = "throttled" /\ k.id = x /\ k.mode = mode /\ k.resumed
  BY DEF IdleCall, CallRecords, CallPcs
<1>3. call' = [call EXCEPT ![c] = k] /\ CC!Throttle(c, x, mode) /\ Idle(c) /\ LogThrottled(x)
  BY <1>1 DEF Resume, ThrottleKnown
<1> HIDE DEF k
<1>4. /\ UNCHANGED <<row, phase, restarts, boot, active, cancelled, writes, stop, begun>>
      /\ UNCHANGED <<tracking, tracked, armed, polled>> /\ loaded' = loaded \ {l}
  BY DEF Resume
<1>5. TypeOK /\ call \in [Calls -> CallRecords] /\ ~Busy(c) /\ call[c].pc = "idle"
  BY <1>3 DEF IInv, TypeOK, CallRecords, Idle, Busy
<1>6. /\ call' \in [Calls -> CallRecords] /\ call'[c].pc = "throttled" /\ Of(c)' = x
      /\ call'[c].mode = mode /\ call'[c].resumed /\ Busy(c)'
      /\ \A d \in Calls : d # c => call'[d] = call[d]
  BY <1>2, <1>3, <1>5 DEF Busy, Of
<1>7. Halted(x) /\ \A d \in Calls : Busy(d) => Of(d) # x
  BY <1>1 DEF PInv, Free, Token
<1>8. IInv'
  <2>1. eventLog' \in [Executions -> [events : {"none", "started", "nodes"}, old : BOOLEAN]]
    BY <1>3, <1>5, LogTypes DEF LogThrottled, TypeOK
  <2>2. TypeOK'
    BY <1>4, <1>5, <1>6, <2>1 DEF TypeOK, CallRecords
  <2> QED BY <1>3, <1>4, <1>6, <1>7, <2>2, CallArrives DEF Halted
<1>9. SInv'
  BY <1>3, <1>4, <1>5, <1>6, SlotThrottled
<1>10. OneToken' /\ ~Token(x)'
  <2>1. OneToken'
    BY <1>4 DEF PInv, OneToken
  <2>2. ~Token(x)'
    BY <1>1, <1>4 DEF PInv, OneToken, Token
  <2> QED BY <2>1, <2>2
<1>11. ASSUME NEW e \in Executions
       PROVE  (Asleep(e) /\ Free(e) /\ Unrun(e) /\ Moded(e) /\ Barred(e))'
  <2>1. ASSUME NEW d \in Calls, Busy(d)', Of(d)' = e
        PROVE  \/ d = c /\ e = x
               \/ d # c /\ call'[d] = call[d] /\ Busy(d) /\ Of(d) = e
    BY <1>6, <2>1 DEF Busy, Of
  <2>2. Asleep(e) /\ Free(e) /\ Unrun(e) /\ Moded(e) /\ Barred(e)
    BY DEF PInv
  <2>3. Halted(e)' <=> Halted(e)
    BY <1>4 DEF Halted
  <2>4. Asleep(e)'
    <3> SUFFICES ASSUME Paused(e)'
                 PROVE  /\ Halted(e)'
                        /\ \A d \in Calls : Busy(d)' /\ Of(d)' = e
                              => Waking(d)' \/ call'[d].pc = "resolving"
      BY DEF Asleep
    <3>1. Paused(e)
      BY <1>4 DEF Paused
    <3>2. /\ Halted(e)
          /\ \A d \in Calls : Busy(d) /\ Of(d) = e => Waking(d) \/ call[d].pc = "resolving"
      BY <2>2, <3>1 DEF Asleep
    <3>3. Waking(c)'
      BY <1>6 DEF Waking
    <3>4. ASSUME NEW d \in Calls, Busy(d)', Of(d)' = e
          PROVE  Waking(d)' \/ call'[d].pc = "resolving"
      <4>1. CASE d = c
        BY <3>3, <4>1
      <4>2. CASE d # c
        BY <2>1, <3>2, <3>4, <4>2 DEF Waking
      <4> QED BY <4>1, <4>2
    <3> QED BY <2>3, <3>2, <3>4
  <2>5. Free(e)'
    <3>1. Token(e)' => Token(e) /\ e # x
      BY <1>4, <1>10 DEF Token
    <3> QED BY <2>1, <2>2, <2>3, <3>1 DEF Free
  <2>6. Unrun(e)'
    BY <1>4, <1>7, <2>1, <2>2 DEF Unrun, Halted
  <2>7. Moded(e)'
    <3>1. e = x /\ Queueable(e) => mode \in CC!ProductionModes
      BY <1>1, <2>2 DEF Moded
    <3> QED BY <1>4, <1>6, <2>1, <2>2, <3>1 DEF Moded
  <2>8. Barred(e)'
    <3> SUFFICES ASSUME e \in WebhookWaits, stop[e].pc = "before"
                 PROVE  \E d \in Calls : Busy(d)' /\ Of(d)' = e /\ Withheld(d)'
      BY <1>4 DEF Barred
    <3>1. PICK d \in Calls : Busy(d) /\ Of(d) = e /\ Withheld(d)
      BY <2>2 DEF Barred
    <3>2. d # c /\ call'[d] = call[d]
      BY <1>5, <1>6, <3>1
    <3>3. Outside(d)'
      BY <1>3, <3>1, <3>2, OutsideAfterThrottle DEF Withheld
    <3> QED BY <3>1, <3>2, <3>3 DEF Busy, Of, Withheld
  <2> QED BY <2>4, <2>5, <2>6, <2>7, <2>8
<1> QED BY <1>8, <1>9, <1>10, <1>11 DEF PInv

-------------------------------------------------------------------------------
(***************************************************************************)
(* The theorems.                                                           *)
(***************************************************************************)

\* Steps of ExecutionLifecycle, in which the tracker forgets at most.
LEMMA LifeKeeps ==
    ASSUME ResumesApart, IInv, SInv, PInv, [Next]_vars,
           armed' \subseteq armed, polled' \subseteq polled, loaded' \subseteq loaded
    PROVE  IInv' /\ SInv' /\ PInv'
BY NextIInv, NextSInv, NextOnward, OnwardKeeps DEF ResumesApart

LEMMA WNextKeeps ==
    ASSUME ResumesApart, IInv, SInv, PInv, [WNext]_wvars
    PROVE  IInv' /\ SInv' /\ PInv'
<1> DEFINE Forgets == armed' \subseteq armed /\ polled' \subseteq polled /\ loaded' \subseteq loaded
<1>1. CASE /\ \/ \E c \in Calls, e \in Executions : Create(c, e)
              \/ \E c \in Calls : CallStep(c) \/ TimeoutFires(c) \/ RunEnqueued(c)
              \/ \E w \in writes : HookSaves(w)
              \/ \E e \in Executions : StopRequested(e)
              \/ Recover \/ ReadEnqueued
           /\ UNCHANGED trackerVars
  <2>1. Next /\ Forgets
    BY <1>1 DEF Next, trackerVars
  <2> QED BY <2>1, LifeKeeps
<1>2. CASE Poll \/ SetTimers
  <2>1. UNCHANGED vars
    BY <1>2 DEF Poll, SetTimers
  <2>2. IInv' /\ SInv'
    BY <2>1, NextIInv, NextSInv DEF ResumesApart
  <2> QED BY <1>2, <2>2, FoundKeeps
<1>3. ASSUME NEW e \in Executions, FireTimer(e) \/ WebhookResume(e)
      PROVE  IInv' /\ SInv' /\ PInv'
  <2>1. UNCHANGED vars /\ TypeOK
    BY <1>3 DEF FireTimer, WebhookResume, IInv
  <2>2. IInv' /\ SInv'
    BY <2>1, NextIInv, NextSInv DEF ResumesApart
  <2> QED BY <1>3, <2>1, <2>2, ReadKeeps
<1>4. ASSUME NEW e \in Executions, WStopStep(e)
      PROVE  IInv' /\ SInv' /\ PInv'
  <2>1. StopStep(e) /\ Forgets
    BY <1>4 DEF WStopStep, StopStep, StopTimer, trackerVars
  <2> QED BY <2>1, LifeKeeps DEF Next
<1>5. CASE StopTracking
  <2>1. UNCHANGED vars /\ Forgets
    BY <1>5 DEF StopTracking
  <2> QED BY <2>1, LifeKeeps
<1>6. CASE WBeginShutdown \/ WListen \/ ((Exit \/ Crash) /\ LoseTracker)
  <2>1. Next /\ Forgets
    BY <1>6 DEF WBeginShutdown, WListen, LoseTracker, Next, trackerVars
  <2> QED BY <2>1, LifeKeeps
<1>7. CASE UNCHANGED wvars
  <2>1. UNCHANGED vars /\ Forgets
    BY <1>7 DEF wvars, trackerVars
  <2> QED BY <2>1, LifeKeeps
<1>8. ASSUME NEW c \in Calls, NEW l \in loaded, Resume(c, l)
      PROVE  IInv' /\ SInv' /\ PInv'
  BY <1>8, ResumeKeeps
<1> HIDE DEF Forgets
<1> QED
  BY <1>1, <1>2, <1>3, <1>4, <1>5, <1>6, <1>7, <1>8 DEF WNext

LEMMA WInitKeeps == WInit => IInv /\ SInv /\ PInv
<1> SUFFICES ASSUME WInit
             PROVE  IInv /\ SInv /\ PInv
  OBVIOUS
<1>1. IInv /\ SInv
  BY InitIInv, InitSInv DEF WInit
<1>2. /\ armed = {} /\ polled = {} /\ loaded = {} /\ boot = {} /\ writes = {}
      /\ \A c \in Calls : ~Busy(c)
      /\ \A e \in Executions : row[e] = Store!NotInserted /\ stop[e].pc = "idle"
  BY IdleRecord DEF WInit, Init, Busy, IdleStop
<1>3. OneToken
  BY <1>2 DEF OneToken
<1>4. ASSUME NEW e \in Executions
      PROVE  Asleep(e) /\ Free(e) /\ Unrun(e) /\ Moded(e) /\ Barred(e)
  <2>1. Asleep(e) /\ Free(e)
    BY <1>2 DEF Asleep, Free, Token, Paused, Rests, Store!NotInserted, Store!Absent
  <2>2. Unrun(e) /\ Moded(e) /\ Barred(e)
    BY <1>2, NotInsertedRow DEF Unrun, Moded, Barred
  <2> QED BY <2>1, <2>2
<1> QED BY <1>1, <1>3, <1>4 DEF PInv

LEMMA AlwaysPInv ==
    ASSUME ResumesApart
    PROVE  WSpec => [](IInv /\ SInv /\ PInv)
BY WInitKeeps, WNextKeeps, PTL DEF WSpec

\* No execution is run by two engines at a time, however many timers, polls and
\* webhooks find it paused, and whatever stops, crashes and restarts come between.
THEOREM PausedEnginesApart ==
    ASSUME ResumesApart
    PROVE  WSpec => []OneEngine
<1>1. IInv => OneEngine
  BY DEF IInv, Alone, OneEngine, LiveEngine, Busy, Of
<1> QED BY <1>1, AlwaysPInv, PTL

\* An execution that was resumed starts an engine once only, until it pauses again.
THEOREM PausesResumedOnce ==
    ASSUME ResumesApart
    PROVE  WSpec => ResumedOncePerPause
<1>1. IInv /\ [WNext]_wvars => [\A e \in begun : ~Starts(e)]_wvars
  <2> SUFFICES ASSUME IInv, NEW e \in begun, Starts(e)
               PROVE  FALSE
    OBVIOUS
  <2>1. PICK c \in Calls : call[c].id = e /\ call[c].pc = "starting"
    BY DEF Starts
  <2>2. Busy(c) /\ ~LiveEngine(c) /\ Of(c) = e
    BY <2>1 DEF Busy, LiveEngine, Of
  <2> QED BY <2>2, CallFacts DEF Proper
<1> QED BY <1>1, AlwaysPInv, PTL DEF WSpec, ResumedOncePerPause

\* Every slot is held by one execution that will give it back, the executions that
\* wait for one to be resumed included.
THEOREM PausedSlotsHeld ==
    ASSUME ResumesApart
    PROVE  WSpec => []SlotsMatchHolders
<1>1. SInv => SlotsMatchHolders
  BY DEF SInv
<1> QED BY <1>1, AlwaysPInv, PTL
===============================================================================
