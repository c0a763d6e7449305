---------------------------- MODULE MultiMainSetup ----------------------------
(***************************************************************************)
(* Leader election among the mains of a multi-main setup                   *)
(* (services/orchestration/main/multi-main-setup.ee.ts): a key in Redis    *)
(* that expires.  Every main reads it at an interval; the one whose id it  *)
(* holds renews it, and when it is gone whoever sets it first leads.       *)
(*                                                                         *)
(* A check is asynchronous, and nothing keeps the next one from starting   *)
(* before it has ended.  The commands of a main travel over one            *)
(* connection: Redis executes them in the order they are sent, and their   *)
(* replies are processed in that order.  What a check does next depends on *)
(* the command and its reply alone, so that checks need no identity.       *)
(*                                                                         *)
(* Time is left out: the key may expire whenever it has an expiry, for a   *)
(* main may be busy for longer than the key lives.                         *)
(***************************************************************************)
EXTENDS Integers, Sequences

CONSTANTS
    Mains,                \* the mains, by redis.queueModeId; a restart has a new id
    NoMain,
    MaxOverlap,           \* bound: commands of one main under way at a time
    CrashesBeforeExpiry,  \* a main may end between SETNX and EXPIRE
    MaxEnds               \* bound: crashes and shutdowns

ASSUME NoMainAssumption == NoMain \notin Mains
ASSUME MaxOverlapAssumption == MaxOverlap \in Nat \ {0}
ASSUME MaxEndsAssumption == MaxEnds \in Nat

VARIABLES
    process,   \* [Mains -> off, booting, up, stopping]
    leaderKey, \* the main whose id the key holds, or NoMain
    expires,   \* the key has an expiry
    sent,      \* [Mains -> commands sent and not executed]
    replies,   \* [Mains -> replies not processed]
    isLeader,  \* [Mains -> InstanceSettings.isLeader]
    working,   \* [Mains -> triggers, pollers, wait tracking, ... are started]
    lapsed,    \* [Mains -> the key it set last was taken from it] (not in the code)
    ends       \* crashes and shutdowns so far (not in the code)

redisVars == <<leaderKey, expires, lapsed>>
vars == <<process, redisVars, sent, replies, isLeader, working, ends>>

Init ==
    /\ process = [m \in Mains |-> "off"]
    /\ leaderKey = NoMain
    /\ expires = FALSE
    /\ sent = [m \in Mains |-> <<>>]
    /\ replies = [m \in Mains |-> <<>>]
    /\ isLeader = [m \in Mains |-> FALSE]
    /\ working = [m \in Mains |-> FALSE]
    /\ lapsed = [m \in Mains |-> FALSE]
    /\ ends = 0

UnderWay(m) == Len(sent[m]) + Len(replies[m])
Running(m) == process[m] # "off"

-------------------------------------------------------------------------------
(***************************************************************************)
(* Redis.                                                                  *)
(***************************************************************************)
Command(m, op) == sent[m] # <<>> /\ Head(sent[m]) = op

Executed(m, reply) ==
    /\ sent' = [sent EXCEPT ![m] = Tail(@)]
    /\ replies' = [replies EXCEPT ![m] = Append(@, reply)]

Answer(op, holder) == [op |-> op, holder |-> holder]

\* The key goes away; the main that set it does not know.
KeyLost ==
    /\ leaderKey' = NoMain
    /\ expires' = FALSE
    /\ lapsed' = [m \in Mains |-> lapsed[m] \/ m = leaderKey]

Get(m) ==
    /\ Command(m, "get")
    /\ Executed(m, Answer("get", leaderKey))
    /\ UNCHANGED redisVars

KeySet(m) ==
    /\ leaderKey' = m
    /\ expires' = FALSE
    /\ lapsed' = [lapsed EXCEPT ![m] = FALSE]
    /\ Executed(m, Answer("won", m))

\* Mutant of SetNx: the key is set whether it exists or not.
SetAlways(m) == Command(m, "setnx") /\ KeySet(m)

\* SETNX says whether it set the key, not who holds it otherwise.
SetNx(m) ==
    /\ Command(m, "setnx")
    /\ \/ leaderKey = NoMain /\ KeySet(m)
       \/ leaderKey # NoMain /\ Executed(m, Answer("lost", NoMain)) /\ UNCHANGED redisVars

\* EXPIRE and DEL act on the key whoever holds it.
SetExpiry(m) ==
    /\ \E op \in {"renew", "expire"} : Command(m, op) /\ Executed(m, Answer(op, NoMain))
    /\ expires' = (leaderKey # NoMain)
    /\ UNCHANGED <<leaderKey, lapsed>>

Del(m) ==
    /\ Command(m, "clear")
    /\ Executed(m, Answer("clear", NoMain))
    /\ KeyLost

RedisStep(m) ==
    /\ Get(m) \/ SetNx(m) \/ SetExpiry(m) \/ Del(m)
    /\ UNCHANGED <<process, isLeader, working, ends>>

Expire ==
    /\ expires
    /\ KeyLost
    /\ UNCHANGED <<process, sent, replies, isLeader, working, ends>>

-------------------------------------------------------------------------------
(***************************************************************************)
(* A main.                                                                 *)
(***************************************************************************)
Send(m, op) == sent' = [sent EXCEPT ![m] = Append(@, op)]

Reply(m, op) == Running(m) /\ replies[m] # <<>> /\ Head(replies[m]).op = op
Holder(m) == Head(replies[m]).holder
Processed(m) == replies' = [replies EXCEPT ![m] = Tail(@)]

\* init() tries to lead at once.
Start(m) ==
    /\ process[m] = "off"
    /\ leaderKey # m
    /\ process' = [process EXCEPT ![m] = "booting"]
    /\ lapsed' = [lapsed EXCEPT ![m] = FALSE]
    /\ Send(m, "setnx")
    /\ UNCHANGED <<leaderKey, expires, replies, isLeader, working, ends>>

\* The interval starts a check.
CheckLeader(m) ==
    /\ process[m] = "up"
    /\ UnderWay(m) < MaxOverlap
    /\ Send(m, "get")
    /\ UNCHANGED <<process, redisVars, replies, isLeader, working, ends>>

\* The key is this main's: it is renewed.
LeaderIsSelf(m) ==
    /\ Reply(m, "get") /\ Holder(m) = m
    /\ Processed(m)
    /\ Send(m, "renew")
    /\ UNCHANGED <<process, redisVars, isLeader, working, ends>>

\* Mutant of LeaderIsOther: a leader that finds another one stays.
LeaderIgnoresOther(m) ==
    /\ Reply(m, "get") /\ Holder(m) \notin {m, NoMain}
    /\ Processed(m)
    /\ UNCHANGED <<process, redisVars, sent, isLeader, working, ends>>

\* The key is another main's: a leader steps down.
LeaderIsOther(m) ==
    /\ Reply(m, "get") /\ Holder(m) \notin {m, NoMain}
    /\ Processed(m)
    /\ isLeader' = [isLeader EXCEPT ![m] = FALSE]
    /\ working' = [working EXCEPT ![m] = @ /\ ~isLeader[m]]
    /\ UNCHANGED <<process, redisVars, sent, ends>>

\* Mutant of LeadershipVacant: it waits for its next turn.
VacancyIgnored(m) ==
    /\ Reply(m, "get") /\ Holder(m) = NoMain
    /\ Processed(m)
    /\ isLeader' = [isLeader EXCEPT ![m] = FALSE]
    /\ working' = [working EXCEPT ![m] = FALSE]
    /\ UNCHANGED <<process, redisVars, sent, ends>>

\* There is no key: step down in any case, and try to set it.
LeadershipVacant(m) ==
    /\ Reply(m, "get") /\ Holder(m) = NoMain
    /\ Processed(m)
    /\ isLeader' = [isLeader EXCEPT ![m] = FALSE]
    /\ working' = [working EXCEPT ![m] = FALSE]
    /\ Send(m, "setnx")
    /\ UNCHANGED <<process, redisVars, ends>>

\* SETNX succeeded: this main leads, and has to give the key its expiry.
BecomeLeader(m) ==
    /\ Reply(m, "won")
    /\ Processed(m)
    /\ isLeader' = [isLeader EXCEPT ![m] = TRUE]
    /\ Send(m, "expire")
    /\ UNCHANGED <<process, redisVars, working, ends>>

\* init() has returned: the process goes on to start.
Booted(m) == process' = [process EXCEPT ![m] = IF @ = "booting" THEN "up" ELSE @]

\* Mutant of TakeOver: nothing is emitted.
TakeOverSilently(m) ==
    /\ Reply(m, "expire")
    /\ Processed(m)
    /\ Booted(m)
    /\ UNCHANGED <<redisVars, sent, isLeader, working, ends>>

\* The key has its expiry: this main takes over.
TakeOver(m) ==
    /\ Reply(m, "expire")
    /\ Processed(m)
    /\ working' = [working EXCEPT ![m] = TRUE]
    /\ Booted(m)
    /\ UNCHANGED <<redisVars, sent, isLeader, ends>>

\* Somebody else was faster, perhaps an earlier check of this main.  No
\* stepdown is emitted here.
StayFollower(m) ==
    /\ Reply(m, "lost")
    /\ Processed(m)
    /\ isLeader' = [isLeader EXCEPT ![m] = FALSE]
    /\ Booted(m)
    /\ UNCHANGED <<redisVars, sent, working, ends>>

NothingMore(m) ==
    /\ Reply(m, "renew") \/ Reply(m, "clear")
    /\ Processed(m)
    /\ UNCHANGED <<process, redisVars, sent, isLeader, working, ends>>

MainStep(m) ==
    \/ LeaderIsSelf(m) \/ LeaderIsOther(m) \/ LeadershipVacant(m)
    \/ BecomeLeader(m) \/ TakeOver(m) \/ StayFollower(m) \/ NothingMore(m)

\* stopProcess stops the work, then shutdown clears the key if this main believes
\* that it leads.
Shutdown(m) ==
    /\ process[m] = "up"
    /\ ends < MaxEnds
    /\ ends' = ends + 1
    /\ process' = [process EXCEPT ![m] = "stopping"]
    /\ working' = [working EXCEPT ![m] = FALSE]
    /\ sent' = IF isLeader[m] THEN [sent EXCEPT ![m] = Append(@, "clear")] ELSE sent
    /\ UNCHANGED <<redisVars, replies, isLeader>>

\* What a process that ends takes with it.
End(m) ==
    /\ CrashesBeforeExpiry \/ leaderKey # m \/ expires
    /\ process' = [process EXCEPT ![m] = "off"]
    /\ sent' = [sent EXCEPT ![m] = <<>>]
    /\ replies' = [replies EXCEPT ![m] = <<>>]
    /\ isLeader' = [isLeader EXCEPT ![m] = FALSE]
    /\ working' = [working EXCEPT ![m] = FALSE]
    /\ UNCHANGED redisVars

Exit(m) ==
    /\ process[m] = "stopping"
    /\ \A i \in DOMAIN sent[m] : sent[m][i] # "clear"
    /\ End(m)
    /\ UNCHANGED ends

Crash(m) ==
    /\ Running(m)
    /\ ends < MaxEnds
    /\ End(m)
    /\ ends' = ends + 1

-------------------------------------------------------------------------------
Next ==
    \/ \E m \in Mains :
          \/ RedisStep(m) \/ MainStep(m)
          \/ Start(m) \/ CheckLeader(m) \/ Shutdown(m) \/ Exit(m) \/ Crash(m)
    \/ Expire

Spec == Init /\ [][Next]_vars

(***************************************************************************)
(* Redis answers, the intervals recur, a process that shuts down ends, and *)
(* a key that nobody renews expires.  No main need ever start, end, or be  *)
(* too slow to renew its key.                                              *)
(***************************************************************************)
Unrenewed == \A m \in Mains : leaderKey = m => process[m] \in {"off", "stopping"}

Fairness ==
    /\ \A m \in Mains :
          /\ WF_vars(RedisStep(m)) /\ WF_vars(MainStep(m))
          /\ WF_vars(CheckLeader(m)) /\ WF_vars(Exit(m))
    /\ WF_vars(Unrenewed /\ Expire)

FairSpec == Spec /\ Fairness

-------------------------------------------------------------------------------
(***************************************************************************)
(* Properties.                                                             *)
(***************************************************************************)
Operations == {"get", "setnx", "renew", "expire", "clear"}
Answers == [op : (Operations \ {"setnx"}) \cup {"won", "lost"}, holder : Mains \cup {NoMain}]

\* Every variable has its type.
TypeOK ==
    /\ process \in [Mains -> {"off", "booting", "up", "stopping"}]
    /\ leaderKey \in Mains \cup {NoMain}
    /\ expires \in BOOLEAN
    /\ sent \in [Mains -> Seq(Operations)]
    /\ replies \in [Mains -> Seq(Answers)]
    /\ isLeader \in [Mains -> BOOLEAN]
    /\ working \in [Mains -> BOOLEAN]
    /\ lapsed \in [Mains -> BOOLEAN]
    /\ ends \in 0..MaxEnds

\* Two mains both believe that they lead only after the key was taken from one
\* of them, and until its next check: no order of checks, starts and shutdowns
\* makes two leaders out of one key.
OneLeaderPerKey ==
    \A m, n \in Mains :
        m # n /\ isLeader[m] /\ isLeader[n] => lapsed[m] \/ lapsed[n]

\* The main whose id the key holds leads and does the work of the leader,
\* whenever none of its commands is under way (multi-main-setup.ee.ts:64).
\* Otherwise it would renew the key for ever and nobody would do that work.
HolderLeads ==
    \A m \in Mains :
        leaderKey = m /\ process[m] = "up" /\ UnderWay(m) = 0
            => isLeader[m] /\ working[m]

\* A leader that lost its key does not lead for ever: it steps down, ends, or
\* gets the key again.
StaleLeaderStepsDown ==
    \A m \in Mains :
        (isLeader[m] /\ leaderKey # m) ~> (~isLeader[m] \/ leaderKey = m)

\* While a main is up, the key does not stay away, or with a main that ended:
\* a main that can do the work gets it, however the one before ended.
LeadershipTaken ==
    (\E m \in Mains : process[m] = "up")
        ~> \/ \E m \in Mains : leaderKey = m /\ process[m] \in {"booting", "up"}
           \/ \A m \in Mains : process[m] # "up"
===============================================================================
