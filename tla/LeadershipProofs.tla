--------------------------- MODULE LeadershipProofs ---------------------------
(***************************************************************************)
(* Theorems about leader election (MultiMainSetup), for every number of    *)
(* mains, of crashes and shutdowns, and of checks that overlap; and about  *)
(* the services of the leader (LeaderDuties), whose steps are those of the *)
(* election: when checks do not overlap the leader does all of its work,   *)
(* and two mains poll for waiting executions only while one of them has    *)
(* lost the key and not noticed.                                           *)
(***************************************************************************)
EXTENDS LeaderDuties, SequenceTheorems, TLAPS


-------------------------------------------------------------------------------
(***************************************************************************)
(* Types.                                                                  *)
(***************************************************************************)

\* A command that is executed leaves one command less and one answer more.
LEMMA ExecutedType ==
    ASSUME TypeOK, NEW m \in Mains, NEW reply \in Answers,
           sent[m] # <<>>, Executed(m, reply)
    PROVE  /\ sent' \in [Mains -> Seq(Operations)]
           /\ replies' \in [Mains -> Seq(Answers)]
<1>1. sent[m] \in Seq(Operations) /\ replies[m] \in Seq(Answers)
  BY DEF TypeOK
<1>2. Tail(sent[m]) \in Seq(Operations) /\ Append(replies[m], reply) \in Seq(Answers)
  BY <1>1, HeadTailProperties, AppendProperties
<1> QED
  BY <1>2 DEF Executed, TypeOK

\* What Redis does keeps the types.
LEMMA RedisType ==
    ASSUME TypeOK, NEW m \in Mains, RedisStep(m)
    PROVE  TypeOK'
<1>1. UNCHANGED <<process, isLeader, working, ends>>
  BY DEF RedisStep
<1>2. /\ leaderKey' \in Mains \cup {NoMain}
      /\ expires' \in BOOLEAN
      /\ lapsed' \in [Mains -> BOOLEAN]
  BY DEF RedisStep, Get, SetNx, SetExpiry, Del, KeySet, KeyLost, redisVars, TypeOK
<1>3. PICK reply \in Answers : sent[m] # <<>> /\ Executed(m, reply)
  <2>1. \A op \in (Operations \ {"setnx"}) \cup {"won", "lost"}, h \in Mains \cup {NoMain} :
           Answer(op, h) \in Answers
    BY DEF Answer, Answers
  <2>2. leaderKey \in Mains \cup {NoMain}
    BY DEF TypeOK
  <2>3. CASE Get(m)
    BY <2>1, <2>2, <2>3 DEF Get, Command, Operations
  <2>4. CASE SetNx(m)
    BY <2>1, <2>4 DEF SetNx, KeySet, Command, Operations
  <2>5. CASE SetExpiry(m)
    BY <2>1, <2>5 DEF SetExpiry, Command, Operations
  <2>6. CASE Del(m)
    BY <2>1, <2>6 DEF Del, Command, Operations
  <2> QED
    BY <2>3, <2>4, <2>5, <2>6 DEF RedisStep
<1>4. sent' \in [Mains -> Seq(Operations)] /\ replies' \in [Mains -> Seq(Answers)]
  BY <1>3, ExecutedType
<1> QED
  BY <1>1, <1>2, <1>4 DEF TypeOK

\* Sending keeps the types.
LEMMA SendType ==
    ASSUME TypeOK, NEW m \in Mains, NEW op \in Operations, Send(m, op)
    PROVE  sent' \in [Mains -> Seq(Operations)]
<1>1. Append(sent[m], op) \in Seq(Operations)
  BY AppendProperties DEF TypeOK
<1> QED
  BY <1>1 DEF Send, TypeOK

\* So does processing an answer.
LEMMA ProcessedType ==
    ASSUME TypeOK, NEW m \in Mains, replies[m] # <<>>, Processed(m)
    PROVE  replies' \in [Mains -> Seq(Answers)]
<1>1. Tail(replies[m]) \in Seq(Answers)
  BY HeadTailProperties DEF TypeOK
<1> QED
  BY <1>1 DEF Processed, TypeOK

\* What a main does with an answer keeps the types.
LEMMA MainType ==
    ASSUME TypeOK, NEW m \in Mains, MainStep(m)
    PROVE  TypeOK'
<1>1. replies' \in [Mains -> Seq(Answers)]
  BY ProcessedType
     DEF MainStep, LeaderIsSelf, LeaderIsOther, LeadershipVacant, BecomeLeader, TakeOver,
         StayFollower, NothingMore, Reply
<1>2. sent' \in [Mains -> Seq(Operations)]
  BY SendType
     DEF MainStep, LeaderIsSelf, LeaderIsOther, LeadershipVacant, BecomeLeader, TakeOver,
         StayFollower, NothingMore, Operations, TypeOK
<1>3. /\ process' \in [Mains -> {"off", "booting", "up", "stopping"}]
      /\ isLeader' \in [Mains -> BOOLEAN]
      /\ working' \in [Mains -> BOOLEAN]
  BY DEF MainStep, LeaderIsSelf, LeaderIsOther, LeadershipVacant, BecomeLeader, TakeOver,
         StayFollower, NothingMore, Booted, TypeOK
<1>4. UNCHANGED <<redisVars, ends>>
  BY DEF MainStep, LeaderIsSelf, LeaderIsOther, LeadershipVacant, BecomeLeader, TakeOver,
         StayFollower, NothingMore
<1> QED
  BY <1>1, <1>2, <1>3, <1>4 DEF TypeOK, redisVars

\* Starts, checks and ends of mains keep the types.
LEMMA ProcessType ==
    ASSUME TypeOK, NEW m \in Mains,
           Start(m) \/ CheckLeader(m) \/ Shutdown(m) \/ Exit(m) \/ Crash(m)
    PROVE  TypeOK'
<1> USE DEF redisVars
<1>1. CASE Start(m)
  BY <1>1, SendType DEF Start, TypeOK, Operations
<1>2. CASE CheckLeader(m)
  BY <1>2, SendType DEF CheckLeader, TypeOK, Operations
<1>3. CASE Shutdown(m)
  <2>1. Append(sent[m], "clear") \in Seq(Operations)
    BY AppendProperties DEF TypeOK, Operations
  <2> QED
    BY <1>3, <2>1, MaxEndsAssumption DEF Shutdown, TypeOK
<1>4. CASE Exit(m)
  BY <1>4, EmptySeq DEF Exit, End, TypeOK
<1>5. CASE Crash(m)
  BY <1>5, EmptySeq, MaxEndsAssumption DEF Crash, End, TypeOK
<1> QED
  BY <1>1, <1>2, <1>3, <1>4, <1>5

\* Every variable keeps its type.
THEOREM TypeCorrect == Spec => []TypeOK
<1>1. Init => TypeOK
  <2>1. <<>> \in Seq(Operations) /\ <<>> \in Seq(Answers)
    BY EmptySeq
  <2>2. 0 \in 0..MaxEnds
    BY MaxEndsAssumption
  <2> QED
    BY <2>1, <2>2 DEF Init, TypeOK
<1>2. TypeOK /\ [Next]_vars => TypeOK'
  <2> SUFFICES ASSUME TypeOK, [Next]_vars
               PROVE  TypeOK'
    OBVIOUS
  <2>1. CASE Expire
    BY <2>1 DEF Expire, KeyLost, TypeOK
  <2>2. CASE UNCHANGED vars
    BY <2>2 DEF vars, redisVars, TypeOK
  <2> QED
    BY <2>1, <2>2, RedisType, MainType, ProcessType DEF Next
<1> QED
  BY <1>1, <1>2, PTL DEF Spec
-------------------------------------------------------------------------------
(***************************************************************************)
(* One leader per key.  A main claims the leadership when it leads, or     *)
(* when the answer that makes it lead is on its way; who claims it holds   *)
(* the key or was deprived of it, and a process that is off is silent.     *)
(***************************************************************************)
HasWon(answers) == \E i \in 1..Len(answers) : answers[i].op = "won"
Claims(m) == isLeader[m] \/ HasWon(replies[m])
ClaimsJustified == \A m \in Mains : Claims(m) => leaderKey = m \/ lapsed[m]
OffIsSilent ==
    \A m \in Mains :
        process[m] = "off" => ~isLeader[m] /\ sent[m] = <<>> /\ replies[m] = <<>>

IInv == TypeOK /\ ClaimsJustified /\ OffIsSilent

\* A claim in the answers that are left was one before.
LEMMA TailWon ==
    ASSUME NEW answers \in Seq(Answers), answers # <<>>
    PROVE  /\ HasWon(Tail(answers)) => HasWon(answers)
           /\ Head(answers).op = "won" => HasWon(answers)
<1>1. /\ Len(answers) \in Nat /\ Len(answers) >= 1
      /\ Len(Tail(answers)) = Len(answers) - 1
      /\ \A i \in 1..Len(Tail(answers)) : Tail(answers)[i] = answers[i + 1]
  BY HeadTailProperties, LenProperties, EmptySeq
<1>2. Head(answers) = answers[1] /\ 1 \in 1..Len(answers)
  BY <1>1
<1>3. \A i \in 1..Len(Tail(answers)) : i + 1 \in 1..Len(answers)
  BY <1>1
<1> QED
  BY <1>1, <1>2, <1>3 DEF HasWon

\* A claim in the answers with a new one is in one or the other.
LEMMA AppendWon ==
    ASSUME NEW answers \in Seq(Answers), NEW answer \in Answers,
           HasWon(Append(answers, answer))
    PROVE  HasWon(answers) \/ answer.op = "won"
<1>1. /\ Len(answers) \in Nat
      /\ Len(Append(answers, answer)) = Len(answers) + 1
      /\ \A i \in 1..Len(answers) : Append(answers, answer)[i] = answers[i]
      /\ Append(answers, answer)[Len(answers) + 1] = answer
  BY AppendProperties, LenProperties
<1>2. PICK i \in 1..Len(Append(answers, answer)) : Append(answers, answer)[i].op = "won"
  BY DEF HasWon
<1>3. i \in 1..Len(answers) \/ i = Len(answers) + 1
  BY <1>1
<1> QED
  BY <1>1, <1>2, <1>3 DEF HasWon

\* No answer, no claim.
LEMMA NothingWon == ~HasWon(<<>>)
BY EmptySeq DEF HasWon
\* Redis: only a SETNX that sets the key makes a new claim, and then the key was
\* nobody's.
LEMMA RedisClaims ==
    ASSUME IInv, NEW m \in Mains, RedisStep(m)
    PROVE  ClaimsJustified' /\ OffIsSilent'
<1> USE DEF IInv
<1>1. PICK reply \in Answers :
         /\ sent[m] # <<>> /\ Executed(m, reply)
         /\ \/ reply.op # "won" /\ (UNCHANGED <<leaderKey, lapsed>> \/ KeyLost)
            \/ leaderKey = NoMain /\ leaderKey' = m /\ lapsed' = [lapsed EXCEPT ![m] = FALSE]
  <2>1. \A op \in (Operations \ {"setnx"}) \cup {"won", "lost"}, h \in Mains \cup {NoMain} :
           Answer(op, h) \in Answers /\ Answer(op, h).op = op
    BY DEF Answer, Answers
  <2>2. leaderKey \in Mains \cup {NoMain}
    BY DEF TypeOK
  <2>3. CASE Get(m)
    BY <2>1, <2>2, <2>3 DEF Get, Command, Operations, redisVars
  <2>4. CASE SetNx(m)
    BY <2>1, <2>4 DEF SetNx, KeySet, Command, Operations, redisVars
  <2>5. CASE SetExpiry(m)
    BY <2>1, <2>5 DEF SetExpiry, Command, Operations
  <2>6. CASE Del(m)
    BY <2>1, <2>6 DEF Del, Command, Operations
  <2> QED
    BY <2>3, <2>4, <2>5, <2>6 DEF RedisStep
<1>2. ASSUME NEW n \in Mains, Claims(n)'
      PROVE  Claims(n) \/ (n = m /\ reply.op = "won")
  <2>1. replies[m] \in Seq(Answers) /\ replies \in [Mains -> Seq(Answers)]
    BY DEF TypeOK
  <2>2. isLeader' = isLeader
    BY DEF RedisStep
  <2>3. CASE n # m
    BY <1>1, <1>2, <2>1, <2>2, <2>3 DEF Executed, Claims
  <2>4. CASE n = m
    <3>1. replies'[m] = Append(replies[m], reply)
      BY <1>1, <2>1 DEF Executed
    <3> QED
      BY <1>2, <2>1, <2>2, <2>4, <3>1, AppendWon DEF Claims
  <2> QED
    BY <2>3, <2>4
<1>3. ClaimsJustified'
  <2> SUFFICES ASSUME NEW n \in Mains, Claims(n)'
               PROVE  leaderKey' = n \/ lapsed'[n]
    BY DEF ClaimsJustified, Claims
  <2>1. CASE reply.op # "won" /\ (UNCHANGED <<leaderKey, lapsed>> \/ KeyLost)
    <3>1. leaderKey = n \/ lapsed[n]
      BY <1>2, <2>1 DEF ClaimsJustified
    <3> QED
      BY <2>1, <3>1 DEF KeyLost
  <2>2. CASE leaderKey = NoMain /\ leaderKey' = m /\ lapsed' = [lapsed EXCEPT ![m] = FALSE]
    <3>1. n # m => lapsed[n]
      BY <1>2, <2>2, NoMainAssumption DEF ClaimsJustified
    <3> QED
      BY <2>2, <3>1 DEF TypeOK
  <2> QED
    BY <1>1, <2>1, <2>2
<1>4. OffIsSilent'
  <2>1. process[m] # "off"
    BY <1>1 DEF OffIsSilent
  <2>2. UNCHANGED <<process, isLeader>>
    BY DEF RedisStep
  <2> QED
    BY <1>1, <2>1, <2>2 DEF OffIsSilent, Executed, TypeOK
<1> QED
  BY <1>3, <1>4

\* A main: processing an answer makes no claim that the answer was not already.
LEMMA MainClaims ==
    ASSUME IInv, NEW m \in Mains, MainStep(m)
    PROVE  ClaimsJustified' /\ OffIsSilent'
<1> USE DEF IInv
<1>1. /\ Running(m) /\ replies[m] # <<>> /\ Processed(m)
      /\ UNCHANGED <<leaderKey, lapsed>>
      /\ \A n \in Mains : n # m => /\ isLeader'[n] = isLeader[n]
                                  /\ sent'[n] = sent[n]
                                  /\ process'[n] = process[n]
      /\ process'[m] # "off"
      /\ isLeader'[m] => isLeader[m] \/ Head(replies[m]).op = "won"
  BY DEF MainStep, LeaderIsSelf, LeaderIsOther, LeadershipVacant, BecomeLeader, TakeOver,
         StayFollower, NothingMore, Reply, Running, Booted, Send, redisVars, TypeOK
<1>2. /\ replies[m] \in Seq(Answers)
      /\ replies'[m] = Tail(replies[m])
      /\ \A n \in Mains : n # m => replies'[n] = replies[n]
  BY <1>1 DEF Processed, TypeOK
<1>3. \A n \in Mains : Claims(n)' => Claims(n)
  <2>1. ASSUME NEW n \in Mains, Claims(n)'
        PROVE  Claims(n)
    <3>1. CASE n # m
      BY <1>1, <1>2, <2>1, <3>1 DEF Claims
    <3>2. CASE n = m
      BY <1>1, <1>2, <2>1, <3>2, TailWon DEF Claims
    <3> QED
      BY <3>1, <3>2
  <2> QED
    BY <2>1
<1>4. ClaimsJustified'
  BY <1>1, <1>3 DEF ClaimsJustified, Claims
<1>5. OffIsSilent'
  BY <1>1, <1>2 DEF OffIsSilent
<1> QED
  BY <1>4, <1>5

\* A process that starts or ends makes no claim, and starts without one.
LEMMA ProcessClaims ==
    ASSUME IInv, NEW m \in Mains,
           Start(m) \/ CheckLeader(m) \/ Shutdown(m) \/ Exit(m) \/ Crash(m)
    PROVE  ClaimsJustified' /\ OffIsSilent'
<1> USE DEF IInv, redisVars
<1>1. CASE Start(m)
  <2>1. ~Claims(m) /\ ~Claims(m)'
    BY <1>1, NothingWon DEF OffIsSilent, Claims, Start
  <2>2. \A n \in Mains : n # m => (Claims(n)' <=> Claims(n)) /\ lapsed'[n] = lapsed[n]
    BY <1>1 DEF Start, Claims, TypeOK
  <2>3. ClaimsJustified'
    BY <1>1, <2>1, <2>2 DEF ClaimsJustified, Claims, Start
  <2> QED
    BY <1>1, <2>3 DEF OffIsSilent, Start, Send, TypeOK
<1>2. CASE CheckLeader(m)
  BY <1>2 DEF CheckLeader, Send, ClaimsJustified, Claims, OffIsSilent, TypeOK
<1>3. CASE Shutdown(m)
  BY <1>3 DEF Shutdown, ClaimsJustified, Claims, OffIsSilent, TypeOK
<1>4. CASE End(m)
  <2>1. ~Claims(m)'
    BY <1>4, NothingWon DEF End, Claims, TypeOK
  <2>2. \A n \in Mains : n # m => (Claims(n)' <=> Claims(n))
    BY <1>4 DEF End, Claims, TypeOK
  <2>3. ClaimsJustified'
    BY <1>4, <2>1, <2>2 DEF ClaimsJustified, Claims, End
  <2> QED
    BY <1>4, <2>3 DEF OffIsSilent, End, TypeOK
<1> QED
  BY <1>1, <1>2, <1>3, <1>4 DEF Exit, Crash

\* Claims are justified, and a process that is off is silent.
LEMMA Justified == Spec => [](ClaimsJustified /\ OffIsSilent)
<1>1. Init => ClaimsJustified /\ OffIsSilent
  BY NothingWon DEF Init, ClaimsJustified, Claims, OffIsSilent
<1>2. TypeOK /\ (ClaimsJustified /\ OffIsSilent) /\ [Next]_vars
         => (ClaimsJustified /\ OffIsSilent)'
  <2> SUFFICES ASSUME IInv, [Next]_vars
               PROVE  ClaimsJustified' /\ OffIsSilent'
    BY DEF IInv
  <2>1. CASE Expire
    BY <2>1 DEF Expire, KeyLost, IInv, ClaimsJustified, Claims, OffIsSilent, TypeOK
  <2>2. CASE UNCHANGED vars
    BY <2>2 DEF vars, redisVars, IInv, ClaimsJustified, Claims, OffIsSilent
  <2> QED
    BY <2>1, <2>2, RedisClaims, MainClaims, ProcessClaims DEF Next
<1> QED
  BY <1>1, <1>2, TypeCorrect, PTL DEF Spec

\* However checks overlap and keys expire: of two mains that lead, one has been
\* deprived of the key.
THEOREM OneLeader == Spec => []OneLeaderPerKey
<1>1. ClaimsJustified /\ OffIsSilent => OneLeaderPerKey
  BY DEF ClaimsJustified, Claims, OneLeaderPerKey
<1> QED
  BY <1>1, Justified, PTL

-------------------------------------------------------------------------------
(***************************************************************************)
(* The holder of the key leads, when Redis answers a check before the next *)
(* one starts.  A main that has not been told to stop then has one command *)
(* under way at most, and Flow says where it can be with it.               *)
(***************************************************************************)
OneCheck == MaxOverlap = 1

Sent(m, op) == sent[m] = <<op>> /\ replies[m] = <<>>
Answered(m, answer) == sent[m] = <<>> /\ replies[m] = <<answer>>
Silent(m) == sent[m] = <<>> /\ replies[m] = <<>>

\* It leads when it holds the key: between checks, and while it reads or renews it.
Steady(m) ==
    /\ leaderKey = m => isLeader[m] /\ working[m]
    /\ \/ Silent(m) \/ Sent(m, "get") \/ Sent(m, "renew") \/ Answered(m, Answer("renew", NoMain))
       \/ \E h \in Mains \cup {NoMain} :
             Answered(m, Answer("get", h)) /\ (leaderKey = m => h = m)

\* It tries to set the key, and cannot hold it yet, or any more.
Tries(m) ==
    leaderKey # m /\ (Sent(m, "setnx") \/ Answered(m, Answer("lost", NoMain)))

\* It has set the key, and gives it its expiry.
Wins(m) ==
    \/ Answered(m, Answer("won", m))
    \/ isLeader[m] /\ (Sent(m, "expire") \/ Answered(m, Answer("expire", NoMain)))

Flow(m) ==
    process[m] \in {"booting", "up"} =>
        (process[m] = "up" /\ Steady(m)) \/ Tries(m) \/ Wins(m)

Flows == \A m \in Mains : Flow(m)

\* Sequences of one command or one answer.
LEMMA Single ==
    /\ Len(<<>>) = 0
    /\ \A x : /\ <<x>> # <<>> /\ Len(<<x>>) = 1
              /\ Head(<<x>>) = x /\ Tail(<<x>>) = <<>> /\ Append(<<>>, x) = <<x>>
OBVIOUS

\* A command that was sent or answered is under way.
LEMMA OneUnderWay ==
    ASSUME NEW m \in Mains
    PROVE  /\ \A op : Sent(m, op) => UnderWay(m) = 1
           /\ \A answer : Answered(m, answer) => UnderWay(m) = 1
<1>1. ASSUME NEW op, Sent(m, op)
      PROVE  UnderWay(m) = 1
  <2>1. Len(sent[m]) = 1 /\ Len(replies[m]) = 0
    BY <1>1, Single DEF Sent
  <2> QED BY <2>1 DEF UnderWay
<1>2. ASSUME NEW answer, Answered(m, answer)
      PROVE  UnderWay(m) = 1
  <2>1. Len(sent[m]) = 0 /\ Len(replies[m]) = 1
    BY <1>2, Single DEF Answered
  <2> QED BY <2>1 DEF UnderWay
<1> QED BY <1>1, <1>2

\* Where a main is with its command is not disturbed by what others do, unless they
\* give it the key.
LEMMA FlowFrame ==
    ASSUME NEW n \in Mains, Flow(n),
           process'[n] = process[n], sent'[n] = sent[n], replies'[n] = replies[n],
           isLeader'[n] = isLeader[n], working'[n] = working[n],
           leaderKey' = n => leaderKey = n
    PROVE  Flow(n)'
BY DEF Flow, Steady, Tries, Wins, Sent, Answered, Silent

\* Redis executes the command.
LEMMA RedisFlow ==
    ASSUME TypeOK, Flows, NEW m \in Mains, RedisStep(m)
    PROVE  Flows'
<1> SUFFICES ASSUME NEW n \in Mains
             PROVE  Flow(n)'
  BY DEF Flows
<1>1. UNCHANGED <<process, isLeader, working>> /\ Flow(n)
  BY DEF RedisStep, Flows
<1>2. PICK reply : Executed(m, reply)
  BY DEF RedisStep, Get, SetNx, SetExpiry, Del, KeySet
<1>3. leaderKey' = n => leaderKey = n \/ n = m
  BY NoMainAssumption DEF RedisStep, Get, SetNx, SetExpiry, Del, KeySet, KeyLost, redisVars
<1>4. CASE n # m
  <2>1. sent'[n] = sent[n] /\ replies'[n] = replies[n]
    BY <1>2, <1>4 DEF Executed, TypeOK
  <2> QED BY <1>1, <1>3, <1>4, <2>1, FlowFrame
<1>5. CASE n = m /\ process[m] \notin {"booting", "up"}
  BY <1>1, <1>5 DEF Flow
<1>6. CASE n = m /\ process[m] \in {"booting", "up"}
  <2>1. \A answer : Executed(m, answer) /\ replies[m] = <<>> /\ Tail(sent[m]) = <<>>
                       => Answered(m, answer)'
    BY Single DEF Executed, Answered, TypeOK
  <2>2. sent[m] # <<>>
    BY DEF RedisStep, Get, SetNx, SetExpiry, Del, Command
  <2>3. PICK op : Sent(m, op)
    BY <1>1, <1>6, <2>2 DEF Flow, Steady, Tries, Wins, Sent, Answered, Silent
  <2>4. /\ Head(sent[m]) = op /\ Tail(sent[m]) = <<>> /\ replies[m] = <<>>
    BY <2>3, Single DEF Sent
  <2>5. /\ op \in {"get", "renew"} => process[m] = "up" /\ (leaderKey = m => isLeader[m] /\ working[m])
        /\ op = "setnx" => leaderKey # m
        /\ op = "expire" => isLeader[m]
        /\ op # "clear"
    <3>1. \A x : Sent(m, x) => x = op
      BY <2>3, Single DEF Sent
    <3>2. ~Silent(m) /\ \A x : ~Answered(m, x)
      BY <2>3, Single DEF Sent, Silent, Answered
    <3> QED BY <1>1, <1>6, <3>1, <3>2 DEF Flow, Steady, Tries, Wins
  <2>6. CASE Get(m)
    <3>1. Answered(m, Answer("get", leaderKey))' /\ leaderKey \in Mains \cup {NoMain}
      BY <2>1, <2>4, <2>6 DEF Get, redisVars, TypeOK
    <3>2. op = "get" /\ leaderKey' = leaderKey
      BY <2>4, <2>6 DEF Get, Command, redisVars
    <3> QED BY <1>1, <1>6, <2>5, <3>1, <3>2 DEF Flow, Steady, Answered
  <2>7. CASE SetNx(m)
    <3>1. op = "setnx"
      BY <2>4, <2>7 DEF SetNx, Command
    <3>2. CASE leaderKey = NoMain /\ KeySet(m)
      <4>1. Answered(m, Answer("won", m))'
        BY <2>1, <2>4, <3>2 DEF KeySet
      <4> QED BY <1>6, <4>1 DEF Flow, Wins, Answered
    <3>3. CASE Executed(m, Answer("lost", NoMain)) /\ UNCHANGED redisVars
      <4>1. Answered(m, Answer("lost", NoMain))' /\ leaderKey' # m
        BY <2>1, <2>4, <2>5, <3>1, <3>3 DEF redisVars
      <4> QED BY <1>6, <4>1 DEF Flow, Tries, Answered
    <3> QED BY <2>7, <3>2, <3>3 DEF SetNx
  <2>8. CASE SetExpiry(m)
    <3>1. op \in {"renew", "expire"} /\ Answered(m, Answer(op, NoMain))' /\ leaderKey' = leaderKey
      BY <2>1, <2>4, <2>8 DEF SetExpiry, Command
    <3> QED BY <1>1, <1>6, <2>5, <3>1 DEF Flow, Steady, Wins, Answered
  <2>9. ~Del(m)
    BY <2>4, <2>5 DEF Del, Command
  <2> QED BY <2>6, <2>7, <2>8, <2>9 DEF RedisStep
<1> QED BY <1>4, <1>5, <1>6

\* A main processes the answer.
LEMMA MainFlow ==
    ASSUME TypeOK, Flows, NEW m \in Mains, MainStep(m)
    PROVE  Flows'
<1> SUFFICES ASSUME NEW n \in Mains
             PROVE  Flow(n)'
  BY DEF Flows
<1>1. /\ Running(m) /\ replies[m] # <<>> /\ Processed(m) /\ Flow(n)
      /\ leaderKey' = leaderKey
      /\ \A k \in Mains : k # m => /\ isLeader'[k] = isLeader[k] /\ working'[k] = working[k]
                                  /\ sent'[k] = sent[k] /\ process'[k] = process[k]
  BY DEF Flows, MainStep, LeaderIsSelf, LeaderIsOther, LeadershipVacant, BecomeLeader, TakeOver,
         StayFollower, NothingMore, Reply, Booted, Send, redisVars, TypeOK
<1>2. CASE n # m
  <2>1. replies'[n] = replies[n]
    BY <1>1, <1>2 DEF Processed, TypeOK
  <2> QED BY <1>1, <1>2, <2>1, FlowFrame
<1>3. CASE n = m /\ process[m] \notin {"booting", "up"}
  <2>1. process'[m] = process[m]
    BY <1>3 DEF MainStep, LeaderIsSelf, LeaderIsOther, LeadershipVacant, BecomeLeader, TakeOver,
           StayFollower, NothingMore, Booted, TypeOK
  <2> QED BY <1>3, <2>1 DEF Flow
<1>4. CASE n = m /\ process[m] \in {"booting", "up"}
  <2>1. PICK answer : Answered(m, answer)
    BY <1>1, <1>4 DEF Flow, Steady, Tries, Wins, Sent, Answered, Silent
  <2>2. Head(replies[m]) = answer /\ replies'[m] = <<>> /\ sent[m] = <<>>
    BY <1>1, <2>1, Single DEF Answered, Processed, TypeOK
  <2>3. /\ answer.op \in {"get", "renew"} =>
             /\ process[m] = "up" /\ (leaderKey = m => isLeader[m] /\ working[m])
             /\ answer.op = "get" /\ leaderKey = m => answer.holder = m
        /\ answer.op = "lost" => leaderKey # m
        /\ answer.op = "expire" => isLeader[m]
        /\ answer.op # "clear"
    <3>1. \A x : Answered(m, x) => x = answer
      BY <2>1, Single DEF Answered
    <3>2. ~Silent(m) /\ \A x : ~Sent(m, x)
      BY <2>1, Single DEF Sent, Silent, Answered
    <3>3. \A op, h : Answer(op, h).op = op /\ Answer(op, h).holder = h
      BY DEF Answer
    <3> QED BY <1>1, <1>4, <3>1, <3>2, <3>3 DEF Flow, Steady, Tries, Wins
  <2>4. \A op : Send(m, op) => Sent(m, op)'
    BY <2>2, Single DEF Send, Sent, TypeOK
  <2>5. UNCHANGED sent => Silent(m)'
    BY <2>2 DEF Silent
  <2>6. CASE LeaderIsSelf(m)
    <3>1. answer.op = "get" /\ Sent(m, "renew")'
      BY <2>2, <2>4, <2>6 DEF LeaderIsSelf, Reply
    <3>2. UNCHANGED <<process, isLeader, working>>
      BY <2>6 DEF LeaderIsSelf
    <3> QED BY <1>1, <1>4, <2>3, <3>1, <3>2 DEF Flow, Steady, Sent
  <2>7. CASE LeaderIsOther(m)
    <3>1. answer.op = "get" /\ leaderKey' # m /\ Silent(m)' /\ UNCHANGED process
      BY <1>1, <2>2, <2>3, <2>5, <2>7 DEF LeaderIsOther, Reply, Holder
    <3> QED BY <1>4, <2>3, <3>1 DEF Flow, Steady, Silent
  <2>8. CASE LeadershipVacant(m)
    <3>1. leaderKey' # m /\ Sent(m, "setnx")'
      BY <1>1, <2>2, <2>3, <2>4, <2>8, NoMainAssumption DEF LeadershipVacant, Reply, Holder
    <3> QED BY <1>4, <3>1 DEF Flow, Tries, Sent
  <2>9. CASE BecomeLeader(m)
    <3>1. isLeader'[m] /\ Sent(m, "expire")'
      BY <2>4, <2>9 DEF BecomeLeader, TypeOK
    <3> QED BY <1>4, <3>1 DEF Flow, Wins, Sent
  <2>10. CASE TakeOver(m)
    <3>1. /\ isLeader'[m] /\ working'[m] /\ process'[m] = "up" /\ Silent(m)'
      BY <1>4, <2>2, <2>3, <2>5, <2>10 DEF TakeOver, Booted, Reply, TypeOK
    <3> QED BY <1>4, <3>1 DEF Flow, Steady, Silent
  <2>11. CASE StayFollower(m)
    <3>1. leaderKey' # m /\ process'[m] = "up" /\ Silent(m)'
      BY <1>1, <1>4, <2>2, <2>3, <2>5, <2>11 DEF StayFollower, Booted, Reply, TypeOK
    <3> QED BY <1>4, <3>1 DEF Flow, Steady, Silent
  <2>12. CASE NothingMore(m)
    <3>1. answer.op = "renew" /\ Silent(m)' /\ UNCHANGED <<process, isLeader, working>>
      BY <2>2, <2>3, <2>5, <2>12 DEF NothingMore, Reply
    <3> QED BY <1>1, <1>4, <2>3, <3>1 DEF Flow, Steady, Silent
  <2> QED BY <2>6, <2>7, <2>8, <2>9, <2>10, <2>11, <2>12 DEF MainStep
<1> QED BY <1>2, <1>3, <1>4

\* A process starts, checks, is told to stop, or ends.
LEMMA ProcessFlow ==
    ASSUME TypeOK, OffIsSilent, OneCheck, Flows, NEW m \in Mains,
           Start(m) \/ CheckLeader(m) \/ Shutdown(m) \/ Exit(m) \/ Crash(m)
    PROVE  Flows'
<1> SUFFICES ASSUME NEW n \in Mains
             PROVE  Flow(n)'
  BY DEF Flows
<1>1. Flow(n) /\ leaderKey' = leaderKey
  BY DEF Flows, Start, CheckLeader, Shutdown, Exit, Crash, End, redisVars
<1>2. CASE n # m
  <2>1. /\ process'[n] = process[n] /\ sent'[n] = sent[n] /\ replies'[n] = replies[n]
        /\ isLeader'[n] = isLeader[n] /\ working'[n] = working[n]
    BY <1>2 DEF Start, CheckLeader, Shutdown, Exit, Crash, End, Send, TypeOK
  <2> QED BY <1>1, <2>1, FlowFrame
<1>3. CASE n = m /\ Start(m)
  <2>1. sent[m] = <<>> /\ replies[m] = <<>> /\ leaderKey # m
    BY <1>3 DEF Start, OffIsSilent
  <2>2. Sent(m, "setnx")'
    BY <1>3, <2>1, Single DEF Start, Send, Sent, TypeOK
  <2> QED BY <1>1, <1>3, <2>1, <2>2 DEF Flow, Tries, Sent
<1>4. CASE n = m /\ CheckLeader(m)
  <2>1. UnderWay(m) < 1 /\ process[m] = "up"
    BY <1>4 DEF CheckLeader, OneCheck
  <2>2. Silent(m) /\ Steady(m)
    <3>1. (\E op : Sent(m, op)) \/ (\E answer : Answered(m, answer)) \/ Silent(m)
      BY <1>1, <1>4, <2>1 DEF Flow, Steady, Tries, Wins
    <3>2. Silent(m)
      BY <2>1, <3>1, OneUnderWay
    <3>3. (\A op : ~Sent(m, op)) /\ (\A answer : ~Answered(m, answer))
      BY <3>2, Single DEF Silent, Sent, Answered
    <3> QED BY <1>1, <1>4, <2>1, <3>2, <3>3 DEF Flow, Tries, Wins
  <2>3. Sent(m, "get")' /\ UNCHANGED <<process, isLeader, working>>
    BY <1>4, <2>2, Single DEF CheckLeader, Send, Sent, Silent, TypeOK
  <2> QED BY <1>1, <1>4, <2>1, <2>2, <2>3 DEF Flow, Steady, Sent
<1>5. CASE n = m /\ (Shutdown(m) \/ Exit(m) \/ Crash(m))
  BY <1>5 DEF Shutdown, Exit, Crash, End, Flow, TypeOK
<1> QED BY <1>2, <1>3, <1>4, <1>5

\* A main that was not told to stop is always at one of these places.
LEMMA AlwaysFlows ==
    ASSUME OneCheck
    PROVE  Spec => []Flows
<1>1. Init => Flows
  BY DEF Init, Flows, Flow
<1>2. TypeOK /\ OffIsSilent /\ Flows /\ [Next]_vars => Flows'
  <2> SUFFICES ASSUME TypeOK, OffIsSilent, Flows, [Next]_vars
               PROVE  Flows'
    OBVIOUS
  <2>1. CASE Expire
    <3> SUFFICES ASSUME NEW n \in Mains
                 PROVE  Flow(n)'
      BY DEF Flows
    <3>1. Flow(n) /\ leaderKey' # n
      BY <2>1, NoMainAssumption DEF Flows, Expire, KeyLost
    <3> QED BY <2>1, <3>1, FlowFrame DEF Expire
  <2>2. CASE UNCHANGED vars
    BY <2>2, FlowFrame DEF vars, redisVars, Flows
  <2> QED BY <2>1, <2>2, RedisFlow, MainFlow, ProcessFlow DEF Next
<1> QED
  BY <1>1, <1>2, TypeCorrect, Justified, PTL DEF Spec

\* The main whose id the key holds leads and works, when none of its commands is
\* under way: for any number of mains, and wherever the key expires and processes
\* end, as long as checks do not overlap.
THEOREM HolderWorks ==
    ASSUME OneCheck
    PROVE  Spec => []HolderLeads
<1>1. Flows => HolderLeads
  <2> SUFFICES ASSUME Flows, NEW m \in Mains, leaderKey = m, process[m] = "up",
                      UnderWay(m) = 0
               PROVE  isLeader[m] /\ working[m]
    BY DEF HolderLeads
  <2>1. (\A op : ~Sent(m, op)) /\ (\A answer : ~Answered(m, answer))
    BY OneUnderWay
  <2> QED BY <2>1 DEF Flows, Flow, Steady, Tries, Wins
<1> QED
  BY <1>1, AlwaysFlows, PTL

-------------------------------------------------------------------------------
(***************************************************************************)
(* The services.                                                           *)
(***************************************************************************)
\* Leader election goes on as if there were no services: what they do changes nothing
\* of it, and they follow each of its steps.
THEOREM ElectsAlone == DSpec => Spec
<1>1. DInit => Init
  BY DEF DInit
<1>2. [DNext]_dvars => [Next]_vars
  <2> SUFFICES ASSUME [DNext]_dvars
               PROVE  [Next]_vars
    OBVIOUS
  <2>1. CASE UNCHANGED dvars
    BY <2>1 DEF dvars
  <2>2. CASE Expire
    BY <2>2 DEF Next
  <2>3. CASE \E e \in Executions : ComesDue(e)
    BY <2>3 DEF ComesDue
  <2>4. ASSUME NEW m \in Mains,
               RedisStep(m) \/ Start(m) \/ CheckLeader(m) \/ Shutdown(m) \/ Ends(m)
        PROVE  Next
    BY <2>4 DEF Next, Ends
  <2>5. ASSUME NEW m \in Mains, Election(m)
        PROVE  Next
    BY <2>5 DEF Election, Next, MainStep
  <2>6. ASSUME NEW m \in Mains, ServiceStep(m)
        PROVE  UNCHANGED vars
    BY <2>6 DEF ServiceStep, Poll, SetTimers, FireTimer, RecoveryFires, RecoveryEnds
  <2> QED BY <2>1, <2>2, <2>3, <2>4, <2>5, <2>6 DEF DNext
<1> QED
  BY <1>1, <1>2, PTL DEF DSpec, Spec

-------------------------------------------------------------------------------
(***************************************************************************)
(* The inductive invariant.  A process works only when it is up, and has   *)
(* then started each service and stopped none.                             *)
(***************************************************************************)
DutyTypes ==
    /\ polls \in [Mains -> BOOLEAN]
    /\ pruning \in [Mains -> BOOLEAN]
    /\ recovery \in [Mains -> [armed : BOOLEAN, cycle : BOOLEAN]]

Dutiful(m) ==
    /\ process[m] \in {"off", "booting"} => ~working[m]
    /\ working[m] /\ process[m] = "up" =>
          polls[m] /\ pruning[m] /\ (recovery[m].armed \/ recovery[m].cycle)

DInv == DutyTypes /\ \A m \in Mains : Dutiful(m)

\* What the services of a main do, or what happens to others, does not end its work.
LEMMA DutyFrame ==
    ASSUME NEW n \in Mains, Dutiful(n),
           process'[n] = process[n], working'[n] => working[n],
           polls'[n] = polls[n], pruning'[n] = pruning[n],
           recovery[n].armed \/ recovery[n].cycle => (recovery[n].armed \/ recovery[n].cycle)'
    PROVE  Dutiful(n)'
BY DEF Dutiful

\* The services at work.
LEMMA ServiceDuties ==
    ASSUME DInv, NEW m \in Mains, ServiceStep(m)
    PROVE  DInv'
<1>1. UNCHANGED <<process, working, polls, pruning>>
  BY DEF ServiceStep, Poll, SetTimers, FireTimer, RecoveryFires, RecoveryEnds, vars
<1>2. /\ recovery' \in [Mains -> [armed : BOOLEAN, cycle : BOOLEAN]]
      /\ \A n \in Mains :
            recovery[n].armed \/ recovery[n].cycle => (recovery[n].armed \/ recovery[n].cycle)'
  <2>1. CASE UNCHANGED recovery
    BY <2>1 DEF DInv, DutyTypes
  <2>2. ASSUME NEW r \in [armed : BOOLEAN, cycle : BOOLEAN], r.armed \/ r.cycle,
               recovery' = [recovery EXCEPT ![m] = r]
        PROVE  <1>2!1 /\ <1>2!2
    <3>1. <1>2!1
      BY <2>2 DEF DInv, DutyTypes
    <3>2. ASSUME NEW n \in Mains
          PROVE  recovery'[n] = IF n = m THEN r ELSE recovery[n]
      BY <2>2 DEF DInv, DutyTypes
    <3> QED BY <2>2, <3>1, <3>2
  <2>3. CASE RecoveryFires(m)
    BY <2>3, <2>2 DEF RecoveryFires
  <2>4. CASE RecoveryEnds(m)
    BY <2>4, <2>2 DEF RecoveryEnds
  <2> QED BY <2>1, <2>3, <2>4 DEF ServiceStep, Poll, SetTimers, FireTimer
<1> QED BY <1>1, <1>2, DutyFrame DEF DInv, DutyTypes

\* A takeover starts every service, for the main leads by then.
LEMMA TakeOverDuties ==
    ASSUME TypeOK, Flows, DInv, NEW m \in Mains, TakeOver(m), StartDuties(m)
    PROVE  DInv'
<1>1. isLeader' = isLeader /\ replies[m] # <<>> /\ Head(replies[m]).op = "expire"
  BY DEF TakeOver, Reply
<1>2. process[m] \in {"booting", "up"} => isLeader'[m]
  <2> SUFFICES ASSUME process[m] \in {"booting", "up"}
               PROVE  isLeader[m]
    BY <1>1
  <2>1. PICK answer : Answered(m, answer)
    BY <1>1 DEF Flows, Flow, Steady, Tries, Wins, Sent, Answered, Silent
  <2>2. answer.op = "expire" /\ ~Silent(m) /\ (\A x : ~Sent(m, x))
    BY <1>1, <2>1, Single DEF Answered, Silent, Sent
  <2>3. \A x : Answered(m, x) => x = answer
    BY <2>1, Single DEF Answered
  <2>4. \A op, h : Answer(op, h).op = op
    BY DEF Answer
  <2> QED BY <2>2, <2>3, <2>4 DEF Flows, Flow, Steady, Tries, Wins
<1>3. DutyTypes'
  <2>1. polls' \in [Mains -> BOOLEAN] /\ pruning' \in [Mains -> BOOLEAN]
    BY DEF DInv, DutyTypes, StartDuties, StartTracking, StartPruning, IsPruningEnabled
  <2>2. recovery' \in [Mains -> [armed : BOOLEAN, cycle : BOOLEAN]]
    BY DEF DInv, DutyTypes, StartDuties, ScheduleQueueRecovery
  <2> QED BY <2>1, <2>2 DEF DutyTypes
<1>4. ASSUME NEW n \in Mains
      PROVE  Dutiful(n)'
  <2>1. CASE n # m
    <3>1. process'[n] = process[n] /\ working'[n] = working[n]
      BY <2>1 DEF TakeOver, Booted, TypeOK
    <3>2. polls'[n] = polls[n] /\ pruning'[n] = pruning[n] /\ recovery'[n] = recovery[n]
      BY <2>1 DEF DInv, DutyTypes, StartDuties, StartTracking, StartPruning,
                  ScheduleQueueRecovery
    <3> QED BY <3>1, <3>2, DutyFrame DEF DInv
  <2>2. CASE n = m /\ process[m] \in {"booting", "up"}
    <3>1. process'[m] = "up"
      BY <2>2 DEF TakeOver, Booted, TypeOK
    <3>2. polls'[m] /\ recovery'[m].armed
      BY DEF DInv, DutyTypes, StartDuties, StartTracking, ScheduleQueueRecovery
    <3>3. pruning'[m]
      BY <1>2, <2>2 DEF DInv, DutyTypes, StartDuties, StartPruning, IsPruningEnabled
    <3> QED BY <2>2, <3>1, <3>2, <3>3 DEF Dutiful
  <2>3. CASE n = m /\ process[m] \notin {"booting", "up"}
    <3>1. process'[m] = process[m] /\ process[m] # "off"
      BY <2>3 DEF TakeOver, Booted, Reply, Running, TypeOK
    <3> QED BY <2>3, <3>1 DEF Dutiful, TypeOK
  <2> QED BY <2>1, <2>2, <2>3
<1> QED BY <1>3, <1>4 DEF DInv

\* A main that steps down, or is told to stop, does not work any more.
LEMMA StopKeepsDuties ==
    ASSUME TypeOK, DInv, NEW m \in Mains, StopDuties(m), ~working'[m],
           \A n \in Mains : n # m => process'[n] = process[n] /\ working'[n] = working[n]
    PROVE  DInv'
<1>1. DutyTypes'
  <2>1. polls' \in [Mains -> BOOLEAN]
    BY DEF DInv, DutyTypes, StopDuties, StopTracking
  <2>2. pruning' \in [Mains -> BOOLEAN]
    BY DEF DInv, DutyTypes, StopDuties, StopPruning
  <2>3. recovery' \in [Mains -> [armed : BOOLEAN, cycle : BOOLEAN]]
    BY DEF DInv, DutyTypes, StopDuties, StopQueueRecovery
  <2> QED BY <2>1, <2>2, <2>3 DEF DutyTypes
<1>2. ASSUME NEW n \in Mains, n # m
      PROVE  Dutiful(n)'
  <2>1. polls'[n] = polls[n] /\ pruning'[n] = pruning[n] /\ recovery'[n] = recovery[n]
    BY <1>2 DEF DInv, DutyTypes, StopDuties, StopTracking, StopPruning, StopQueueRecovery
  <2> QED BY <1>2, <2>1, DutyFrame DEF DInv
<1> QED BY <1>1, <1>2 DEF DInv, Dutiful

\* Steps of the election without an event.
LEMMA QuietDuties ==
    ASSUME TypeOK, DInv, UNCHANGED dutyVars, NEW m \in Mains,
           \/ RedisStep(m) \/ Start(m) \/ CheckLeader(m) \/ LeaderIsSelf(m) \/ BecomeLeader(m)
           \/ StayFollower(m) \/ NothingMore(m) \/ (LeaderIsOther(m) /\ ~isLeader[m])
    PROVE  DInv'
<1>1. working' = working
  BY DEF RedisStep, Start, CheckLeader, LeaderIsSelf, BecomeLeader, StayFollower, NothingMore,
         LeaderIsOther, TypeOK
<1>2. \A n \in Mains : process'[n] = process[n] \/ (process[n] \in {"off", "booting"})
  BY DEF RedisStep, Start, CheckLeader, LeaderIsSelf, BecomeLeader, StayFollower, NothingMore,
         LeaderIsOther, Booted, TypeOK
<1> QED BY <1>1, <1>2 DEF DInv, DutyTypes, Dutiful, dutyVars

\* A process that ends takes its services with it.
LEMMA EndsDuties ==
    ASSUME TypeOK, DInv, NEW m \in Mains, Ends(m)
    PROVE  DInv'
<1>1. DutyTypes'
  BY DEF DInv, DutyTypes, Ends, EndDuties, NoRecovery
<1>2. ~working'[m] /\ \A n \in Mains : n # m => process'[n] = process[n] /\ working'[n] = working[n]
  BY DEF Ends, Exit, Crash, End, TypeOK
<1>3. ASSUME NEW n \in Mains, n # m
      PROVE  Dutiful(n)'
  <2>1. polls'[n] = polls[n] /\ pruning'[n] = pruning[n] /\ recovery'[n] = recovery[n]
    BY <1>3 DEF DInv, DutyTypes, Ends, EndDuties
  <2> QED BY <1>2, <1>3, <2>1, DutyFrame DEF DInv
<1> QED BY <1>1, <1>2, <1>3 DEF DInv, Dutiful

\* A step of a check, with the events it emits.
LEMMA ElectionDuties ==
    ASSUME TypeOK, Flows, DInv, NEW m \in Mains, Election(m)
    PROVE  DInv'
<1>1. CASE TakeOver(m) /\ StartDuties(m)
  BY <1>1, TakeOverDuties
<1>2. CASE ((LeaderIsOther(m) /\ isLeader[m]) \/ LeadershipVacant(m)) /\ StopDuties(m)
  <2>1. /\ ~working'[m]
        /\ \A n \in Mains : n # m => process'[n] = process[n] /\ working'[n] = working[n]
    BY <1>2 DEF LeaderIsOther, LeadershipVacant, TypeOK
  <2> QED BY <1>2, <2>1, StopKeepsDuties
<1> QED BY <1>1, <1>2, QuietDuties DEF Election

\* The main that does the work of the leader polls, prunes and recovers, as long as
\* checks do not overlap: for any number of mains, executions, expiries and ends.
THEOREM LeaderWorks ==
    ASSUME OneCheck
    PROVE  DSpec => []DutiesDone
<1>1. DInit => DInv
  BY DEF DInit, Init, DInv, DutyTypes, Dutiful, NoRecovery
<1>2. TypeOK /\ Flows /\ DInv /\ [DNext]_dvars => DInv'
  <2> SUFFICES ASSUME TypeOK, Flows, DInv, [DNext]_dvars
               PROVE  DInv'
    OBVIOUS
  <2>1. CASE UNCHANGED dvars
    BY <2>1 DEF dvars, vars, dutyVars, DInv, DutyTypes, Dutiful
  <2>2. CASE Expire /\ UNCHANGED dutyVars
    BY <2>2 DEF Expire, dutyVars, DInv, DutyTypes, Dutiful
  <2>3. CASE \E e \in Executions : ComesDue(e)
    BY <2>3 DEF ComesDue, vars, DInv, DutyTypes, Dutiful
  <2>4. ASSUME NEW m \in Mains, Shutdown(m) /\ StopDuties(m)
        PROVE  DInv'
    <3>1. /\ ~working'[m]
          /\ \A n \in Mains : n # m => process'[n] = process[n] /\ working'[n] = working[n]
      BY <2>4 DEF Shutdown, TypeOK
    <3> QED BY <2>4, <3>1, StopKeepsDuties
  <2> QED
    BY <2>1, <2>2, <2>3, <2>4, QuietDuties, ElectionDuties, ServiceDuties, EndsDuties DEF DNext
<1>3. DInv => DutiesDone
  BY DEF DInv, Dutiful, DutiesDone
<1> QED
  BY <1>1, <1>2, <1>3, ElectsAlone, TypeCorrect, AlwaysFlows, PTL DEF DSpec
-------------------------------------------------------------------------------
(***************************************************************************)
(* A main that polls leads, whatever became of its process.  Besides the   *)
(* command that clears the key it has one command or answer under way,     *)
(* also after it was told to stop, and that one says whether it may poll.  *)
(***************************************************************************)
Quiet(s, Idle) == \A i \in DOMAIN s : s[i] \in Idle
OneLive(s, Idle) == \A i, j \in DOMAIN s : s[i] \notin Idle /\ s[j] \notin Idle => i = j
Says(s, Some) == \E i \in DOMAIN s : s[i] \in Some

Clear == {"clear"}
Cleared == {Answer("clear", NoMain)}
Trials == {a \in Answers : a.op \in {"won", "lost"}}
Expiries == {a \in Answers : a.op = "expire"}

Polling(m) ==
    /\ polls[m] => isLeader[m]
    /\ OneLive(sent[m], Clear) /\ OneLive(replies[m], Cleared)
    /\ Quiet(sent[m], Clear) \/ Quiet(replies[m], Cleared)
    /\ Says(sent[m], {"setnx"}) \/ Says(replies[m], Trials) => ~polls[m]
    /\ Says(sent[m], {"expire"}) \/ Says(replies[m], Expiries) => isLeader[m]

PollersLead == \A m \in Mains : Polling(m)
PollTypes == polls \in [Mains -> BOOLEAN]

\* What is left of a queue when its head is taken.
LEMMA TailLive ==
    ASSUME NEW S, NEW s \in Seq(S), s # <<>>, NEW Idle, OneLive(s, Idle)
    PROVE  /\ OneLive(Tail(s), Idle)
           /\ Quiet(s, Idle) => Quiet(Tail(s), Idle)
           /\ Head(s) \notin Idle => ~Quiet(s, Idle) /\ Quiet(Tail(s), Idle)
           /\ \A Some : Says(Tail(s), Some) => Says(s, Some)
           /\ \A Some : Head(s) \in Some => Says(s, Some)
<1>1. /\ Len(s) \in Nat /\ Len(s) >= 1
      /\ DOMAIN s = 1..Len(s) /\ DOMAIN Tail(s) = 1..(Len(s) - 1)
      /\ \A i \in 1..(Len(s) - 1) : Tail(s)[i] = s[i + 1]
  BY HeadTailProperties, LenProperties, EmptySeq
<1>2. Head(s) = s[1] /\ 1 \in DOMAIN s
  BY <1>1
<1>3. \A i \in DOMAIN Tail(s) : i + 1 \in DOMAIN s /\ i + 1 # 1 /\ Tail(s)[i] = s[i + 1]
  BY <1>1
<1>4. \A i, j \in DOMAIN Tail(s) : i + 1 = j + 1 => i = j
  BY <1>1
<1>5. OneLive(Tail(s), Idle)
  BY <1>3, <1>4 DEF OneLive
<1>6. Head(s) \notin Idle => Quiet(Tail(s), Idle)
  BY <1>2, <1>3 DEF OneLive, Quiet
<1> QED
  BY <1>2, <1>3, <1>5, <1>6 DEF Quiet, Says

\* What a queue is with a new item.
LEMMA AppendLive ==
    ASSUME NEW S, NEW s \in Seq(S), NEW x \in S, NEW Idle
    PROVE  /\ OneLive(s, Idle) /\ x \in Idle => OneLive(Append(s, x), Idle)
           /\ Quiet(s, Idle) => OneLive(Append(s, x), Idle)
           /\ Quiet(s, Idle) /\ x \in Idle => Quiet(Append(s, x), Idle)
           /\ \A Some : Says(Append(s, x), Some) => Says(s, Some) \/ x \in Some
<1>1. /\ Len(s) \in Nat
      /\ DOMAIN s = 1..Len(s) /\ DOMAIN Append(s, x) = 1..(Len(s) + 1)
      /\ \A i \in 1..Len(s) : Append(s, x)[i] = s[i]
      /\ Append(s, x)[Len(s) + 1] = x
  BY AppendProperties, LenProperties
<1>2. \A i \in DOMAIN Append(s, x) :
         \/ i \in DOMAIN s /\ Append(s, x)[i] = s[i]
         \/ i = Len(s) + 1 /\ Append(s, x)[i] = x
  BY <1>1
<1>3. OneLive(s, Idle) /\ x \in Idle => OneLive(Append(s, x), Idle)
  BY <1>2 DEF OneLive
<1>4. Quiet(s, Idle) => OneLive(Append(s, x), Idle)
  BY <1>2 DEF OneLive, Quiet
<1> QED
  BY <1>2, <1>3, <1>4 DEF Quiet, Says

\* A quiet queue says nothing of importance.
LEMMA QuietSays ==
    /\ \A s : Quiet(s, Clear) => ~Says(s, {"setnx"}) /\ ~Says(s, {"expire"}) /\ OneLive(s, Clear)
    /\ \A s : Quiet(s, Cleared) => ~Says(s, Trials) /\ ~Says(s, Expiries) /\ OneLive(s, Cleared)
<1>1. \A a \in Cleared : a \notin Trials /\ a \notin Expiries
  BY DEF Cleared, Trials, Expiries, Answer
<1>2. \A a \in Clear : a \notin {"setnx"} /\ a \notin {"expire"}
  BY DEF Clear
<1> QED BY <1>1, <1>2 DEF Quiet, Says, OneLive

\* An empty queue is quiet.
LEMMA EmptyQuiet == \A Idle : Quiet(<<>>, Idle)
BY DEF Quiet

\* What does not touch a main does not touch what it may do.
LEMMA PollingFrame ==
    ASSUME NEW n \in Mains, Polling(n),
           sent'[n] = sent[n], replies'[n] = replies[n],
           polls'[n] => polls[n], isLeader'[n] = isLeader[n]
    PROVE  Polling(n)'
BY DEF Polling, Clear, Cleared, Trials, Expiries, Answers, Operations, Answer

\* After the one live answer was processed nothing is live.
LEMMA ProcessedQuiet ==
    ASSUME TypeOK, NEW m \in Mains, Polling(m), replies[m] # <<>>,
           Head(replies[m]).op # "clear", Processed(m)
    PROVE  /\ Quiet(sent[m], Clear) /\ Quiet(replies'[m], Cleared)
           /\ Head(replies[m]).op \in {"won", "lost"} => ~polls[m]
           /\ Head(replies[m]).op = "expire" => isLeader[m]
<1>1. replies[m] \in Seq(Answers) /\ replies'[m] = Tail(replies[m])
  BY DEF Processed, TypeOK
<1>2. Head(replies[m]) \in Answers /\ Head(replies[m]) \notin Cleared
  BY <1>1, HeadTailProperties DEF Cleared, Answer
<1>3. ~Quiet(replies[m], Cleared) /\ Quiet(replies'[m], Cleared)
  BY <1>1, <1>2, TailLive DEF Polling
<1>4. /\ Head(replies[m]).op \in {"won", "lost"} => Says(replies[m], Trials)
      /\ Head(replies[m]).op = "expire" => Says(replies[m], Expiries)
  BY <1>1, <1>2, TailLive DEF Polling, Trials, Expiries
<1> QED BY <1>3, <1>4 DEF Polling

\* A quiet main may do what a leader may, and send one command.
LEMMA QuietPolling ==
    ASSUME TypeOK, NEW m \in Mains, polls'[m] => isLeader'[m],
           Quiet(sent[m], Clear), Quiet(replies'[m], Cleared),
           \/ sent'[m] = sent[m]
           \/ \E op \in Operations :
                 /\ sent'[m] = Append(sent[m], op)
                 /\ op = "setnx" => ~polls'[m]
                 /\ op = "expire" => isLeader'[m]
    PROVE  Polling(m)'
<1>1. sent[m] \in Seq(Operations)
  BY DEF TypeOK
<1>2. /\ OneLive(sent'[m], Clear)
      /\ Says(sent'[m], {"setnx"}) => ~polls'[m]
      /\ Says(sent'[m], {"expire"}) => isLeader'[m]
  <2>1. CASE sent'[m] = sent[m]
    BY <2>1, QuietSays
  <2>2. ASSUME NEW op \in Operations, sent'[m] = Append(sent[m], op),
               op = "setnx" => ~polls'[m], op = "expire" => isLeader'[m]
        PROVE  <1>2!1 /\ <1>2!2 /\ <1>2!3
    BY <1>1, <2>2, QuietSays, AppendLive
  <2> QED BY <2>1, <2>2
<1>3. ~Says(replies'[m], Trials) /\ ~Says(replies'[m], Expiries) /\ OneLive(replies'[m], Cleared)
  BY QuietSays
<1> QED
  BY <1>2, <1>3 DEF Polling, Clear, Cleared, Trials, Expiries, Answers, Operations, Answer

\* Redis executes a command: what was said as a command is said as an answer.
LEMMA RedisPolling ==
    ASSUME TypeOK, PollersLead, NEW m \in Mains, RedisStep(m), UNCHANGED polls
    PROVE  PollersLead'
<1>1. PICK reply \in Answers :
         /\ sent[m] # <<>> /\ Executed(m, reply)
         /\ Head(sent[m]) = "clear" <=> reply \in Cleared
         /\ reply \in Trials => Head(sent[m]) = "setnx"
         /\ reply \in Expiries => Head(sent[m]) = "expire"
  <2>1. \A op \in (Operations \ {"setnx"}) \cup {"won", "lost"}, h \in Mains \cup {NoMain} :
           /\ Answer(op, h) \in Answers
           /\ Answer(op, h) \in Cleared => op = "clear"
           /\ Answer(op, h) \in Trials => op \in {"won", "lost"}
           /\ Answer(op, h) \in Expiries => op = "expire"
    BY DEF Answer, Answers, Cleared, Trials, Expiries
  <2>2. leaderKey \in Mains \cup {NoMain} /\ Answer("clear", NoMain) \in Cleared
    BY DEF TypeOK, Cleared
  <2>3. CASE Get(m)
    BY <2>1, <2>2, <2>3 DEF Get, Command, Operations
  <2>4. CASE SetNx(m)
    BY <2>1, <2>4 DEF SetNx, KeySet, Command, Operations
  <2>5. CASE SetExpiry(m)
    BY <2>1, <2>5 DEF SetExpiry, Command, Operations
  <2>6. CASE Del(m)
    BY <2>1, <2>2, <2>6 DEF Del, Command, Operations
  <2> QED BY <2>3, <2>4, <2>5, <2>6 DEF RedisStep
<1>2. /\ sent[m] \in Seq(Operations) /\ replies[m] \in Seq(Answers)
      /\ sent'[m] = Tail(sent[m]) /\ replies'[m] = Append(replies[m], reply)
      /\ isLeader' = isLeader /\ polls' = polls
      /\ \A n \in Mains : n # m => sent'[n] = sent[n] /\ replies'[n] = replies[n]
  BY <1>1 DEF Executed, TypeOK, RedisStep
<1>3. ASSUME NEW n \in Mains, n # m
      PROVE  Polling(n)'
  BY <1>2, <1>3, PollingFrame DEF PollersLead
<1>4. Polling(m)
  BY DEF PollersLead
<1>5. /\ OneLive(sent'[m], Clear) /\ OneLive(replies'[m], Cleared)
      /\ Quiet(sent'[m], Clear) \/ Quiet(replies'[m], Cleared)
  <2>1. OneLive(sent'[m], Clear)
    BY <1>1, <1>2, <1>4, TailLive DEF Polling
  <2>2. CASE Head(sent[m]) = "clear"
    <3>1. reply \in Cleared
      BY <1>1, <2>2
    <3>2. OneLive(replies'[m], Cleared)
      BY <1>2, <1>4, <3>1, AppendLive DEF Polling
    <3>3. Quiet(sent[m], Clear) => Quiet(sent'[m], Clear)
      BY <1>1, <1>2, <1>4, TailLive DEF Polling
    <3>4. Quiet(replies[m], Cleared) => Quiet(replies'[m], Cleared)
      BY <1>2, <3>1, AppendLive
    <3> QED BY <1>4, <2>1, <3>2, <3>3, <3>4 DEF Polling
  <2>3. CASE Head(sent[m]) # "clear"
    <3>1. ~Quiet(sent[m], Clear) /\ Quiet(sent'[m], Clear)
      BY <1>1, <1>2, <1>4, <2>3, TailLive DEF Polling, Clear
    <3>2. OneLive(replies'[m], Cleared)
      BY <1>2, <1>4, <3>1, AppendLive DEF Polling
    <3> QED BY <2>1, <3>1, <3>2
  <2> QED BY <2>2, <2>3
<1>6. /\ Says(sent'[m], {"setnx"}) \/ Says(replies'[m], Trials) => ~polls[m]
      /\ Says(sent'[m], {"expire"}) \/ Says(replies'[m], Expiries) => isLeader[m]
  <2>1. \A op \in {"setnx", "expire"} :
           Says(sent'[m], {op}) \/ Head(sent[m]) = op => Says(sent[m], {op})
    BY <1>1, <1>2, <1>4, TailLive DEF Polling
  <2>2. /\ Says(replies'[m], Trials) => Says(replies[m], Trials) \/ reply \in Trials
        /\ Says(replies'[m], Expiries) => Says(replies[m], Expiries) \/ reply \in Expiries
    BY <1>2, AppendLive
  <2> QED BY <1>1, <1>4, <2>1, <2>2 DEF Polling
<1>7. Polling(m)'
  BY <1>2, <1>4, <1>5, <1>6 DEF Polling, Clear, Cleared, Trials, Expiries, Answers, Operations,
                                Answer
<1> QED BY <1>3, <1>7 DEF PollersLead

\* A main processes an answer: one that makes a follower of it stops the tracking, and
\* only the one that gave the key its expiry starts it.
LEMMA ElectionPolling ==
    ASSUME TypeOK, PollTypes, PollersLead, NEW m \in Mains, Election(m)
    PROVE  PollersLead'
<1>1. /\ replies[m] # <<>> /\ Processed(m)
      /\ \A n \in Mains : n # m => /\ sent'[n] = sent[n] /\ isLeader'[n] = isLeader[n]
                                  /\ polls'[n] = polls[n]
  <2>1. MainStep(m)
    BY DEF Election, MainStep
  <2>2. replies[m] # <<>> /\ Processed(m)
    BY <2>1 DEF MainStep, LeaderIsSelf, LeaderIsOther, LeadershipVacant, BecomeLeader, TakeOver,
                StayFollower, NothingMore, Reply
  <2>3. \A n \in Mains : n # m => sent'[n] = sent[n] /\ isLeader'[n] = isLeader[n]
    BY <2>1 DEF MainStep, LeaderIsSelf, LeaderIsOther, LeadershipVacant, BecomeLeader, TakeOver,
                StayFollower, NothingMore, Send, TypeOK
  <2>4. \A n \in Mains : n # m => polls'[n] = polls[n]
    BY DEF Election, StartDuties, StopDuties, StartTracking, StopTracking, dutyVars,
           PollTypes
  <2> QED BY <2>2, <2>3, <2>4
<1>2. ASSUME NEW n \in Mains, n # m
      PROVE  Polling(n)'
  <2>1. replies'[n] = replies[n]
    BY <1>1, <1>2 DEF Processed, TypeOK
  <2> QED BY <1>1, <1>2, <2>1, PollingFrame DEF PollersLead
<1>3. Polling(m) /\ (polls[m] => isLeader[m])
  BY DEF PollersLead, Polling
<1>4. Head(replies[m]).op # "clear" =>
         /\ Quiet(sent[m], Clear) /\ Quiet(replies'[m], Cleared)
         /\ Head(replies[m]).op \in {"won", "lost"} => ~polls[m]
         /\ Head(replies[m]).op = "expire" => isLeader[m]
  BY <1>1, <1>3, ProcessedQuiet
<1> SUFFICES Polling(m)'
  BY <1>2 DEF PollersLead
<1>5. \A op \in Operations : Send(m, op) => sent'[m] = Append(sent[m], op)
  BY DEF Send, TypeOK
<1>6. CASE LeaderIsSelf(m) /\ UNCHANGED dutyVars
  <2>1. /\ Head(replies[m]).op # "clear" /\ sent'[m] = Append(sent[m], "renew")
        /\ polls' = polls /\ isLeader' = isLeader
    BY <1>5, <1>6 DEF LeaderIsSelf, Reply, Operations, dutyVars
  <2> QED BY <1>3, <1>4, <2>1, QuietPolling DEF Operations
<1>7. CASE LeaderIsOther(m) /\ isLeader[m] /\ StopDuties(m)
  <2>1. Head(replies[m]).op # "clear" /\ sent' = sent
    BY <1>7 DEF LeaderIsOther, Reply
  <2>2. ~polls'[m]
    BY <1>7 DEF StopDuties, StopTracking, PollTypes
  <2> QED BY <1>4, <2>1, <2>2, QuietPolling
<1>8. CASE LeaderIsOther(m) /\ ~isLeader[m] /\ UNCHANGED dutyVars
  <2>1. Head(replies[m]).op # "clear" /\ sent' = sent
    BY <1>8 DEF LeaderIsOther, Reply
  <2>2. ~polls'[m]
    BY <1>3, <1>8 DEF dutyVars
  <2> QED BY <1>4, <2>1, <2>2, QuietPolling
<1>9. CASE LeadershipVacant(m) /\ StopDuties(m)
  <2>1. Head(replies[m]).op # "clear" /\ sent'[m] = Append(sent[m], "setnx")
    BY <1>5, <1>9 DEF LeadershipVacant, Reply, Operations
  <2>2. ~polls'[m]
    BY <1>9 DEF StopDuties, StopTracking, PollTypes
  <2> QED BY <1>4, <2>1, <2>2, QuietPolling DEF Operations
<1>10. CASE BecomeLeader(m) /\ UNCHANGED dutyVars
  <2>1. /\ Head(replies[m]).op # "clear" /\ sent'[m] = Append(sent[m], "expire")
        /\ isLeader'[m]
    BY <1>5, <1>10 DEF BecomeLeader, Reply, Operations, TypeOK
  <2> QED BY <1>4, <2>1, QuietPolling DEF Operations
<1>11. CASE TakeOver(m) /\ StartDuties(m)
  <2>1. Head(replies[m]).op = "expire" /\ sent' = sent /\ isLeader' = isLeader
    BY <1>11 DEF TakeOver, Reply
  <2> QED BY <1>4, <2>1, QuietPolling
<1>12. CASE StayFollower(m) /\ UNCHANGED dutyVars
  <2>1. Head(replies[m]).op = "lost" /\ sent' = sent /\ polls' = polls
    BY <1>12 DEF StayFollower, Reply, dutyVars
  <2> QED BY <1>4, <2>1, QuietPolling
<1>13. CASE NothingMore(m) /\ UNCHANGED dutyVars
  <2>1. sent' = sent /\ polls' = polls /\ isLeader' = isLeader
    BY <1>13 DEF NothingMore, dutyVars
  <2>2. replies[m] \in Seq(Answers) /\ replies'[m] = Tail(replies[m])
    BY <1>1 DEF Processed, TypeOK
  <2>3. /\ OneLive(replies'[m], Cleared)
        /\ Quiet(replies[m], Cleared) => Quiet(replies'[m], Cleared)
        /\ \A Some : Says(replies'[m], Some) => Says(replies[m], Some)
    BY <1>1, <1>3, <2>2, TailLive DEF Polling
  <2> QED
    BY <1>3, <2>1, <2>3 DEF Polling, Clear, Cleared, Trials, Expiries, Answers, Operations, Answer
<1> QED BY <1>6, <1>7, <1>8, <1>9, <1>10, <1>11, <1>12, <1>13 DEF Election

\* A process starts or checks, is told to stop, or ends.
LEMMA ProcessPolling ==
    ASSUME TypeOK, OffIsSilent, OneCheck, PollTypes, PollersLead, NEW m \in Mains,
           \/ (Start(m) \/ CheckLeader(m)) /\ UNCHANGED dutyVars
           \/ Shutdown(m) /\ StopDuties(m)
           \/ Ends(m)
    PROVE  PollersLead'
<1>1. \A n \in Mains : n # m => /\ sent'[n] = sent[n] /\ replies'[n] = replies[n]
                               /\ isLeader'[n] = isLeader[n] /\ (polls'[n] => polls[n])
  <2>1. \A n \in Mains : n # m => polls'[n] = polls[n]
    BY DEF StopDuties, StopTracking, Ends, EndDuties, dutyVars, PollTypes
  <2>2. \A n \in Mains : n # m => /\ sent'[n] = sent[n] /\ replies'[n] = replies[n]
                                 /\ isLeader'[n] = isLeader[n]
    BY DEF Start, CheckLeader, Shutdown, Ends, Exit, Crash, End, Send, TypeOK
  <2> QED BY <2>1, <2>2
<1>2. ASSUME NEW n \in Mains, n # m
      PROVE  Polling(n)'
  BY <1>1, <1>2, PollingFrame DEF PollersLead
<1>3. Polling(m) /\ (polls[m] => isLeader[m])
  BY DEF PollersLead, Polling
<1>4. CASE (Start(m) \/ CheckLeader(m)) /\ UNCHANGED dutyVars
  <2>1. PICK op \in Operations :
           /\ sent'[m] = Append(sent[m], op) /\ op \in {"setnx", "get"}
           /\ op = "setnx" => ~isLeader[m]
    BY <1>4 DEF Start, CheckLeader, Send, Operations, OffIsSilent, TypeOK
  <2>2. Silent(m) /\ replies' = replies /\ isLeader' = isLeader /\ polls' = polls
    <3>1. CASE Start(m)
      BY <3>1, <1>4 DEF Start, OffIsSilent, Silent, dutyVars
    <3>2. CASE CheckLeader(m)
      <4>1. UnderWay(m) < 1
        BY <3>2 DEF CheckLeader, OneCheck
      <4>2. Len(sent[m]) \in Nat /\ Len(replies[m]) \in Nat
        BY LenProperties DEF TypeOK
      <4>3. Len(sent[m]) + Len(replies[m]) < 1
        BY <4>1 DEF UnderWay
      <4>4. Len(sent[m]) = 0 /\ Len(replies[m]) = 0
        <5>1. \A a, b \in Nat : a + b < 1 => a = 0 /\ b = 0
          OBVIOUS
        <5> QED BY <4>2, <4>3, <5>1
      <4>5. sent[m] = <<>> /\ replies[m] = <<>>
        BY <4>4, EmptySeq DEF TypeOK
      <4> QED BY <1>4, <3>2, <4>5 DEF CheckLeader, Silent, dutyVars
    <3> QED BY <1>4, <3>1, <3>2
  <2>3. Quiet(sent[m], Clear) /\ Quiet(replies'[m], Cleared)
    BY <2>2, EmptyQuiet DEF Silent
  <2> QED BY <1>2, <1>3, <2>1, <2>2, <2>3, QuietPolling DEF PollersLead
<1>5. CASE Shutdown(m) /\ StopDuties(m)
  <2>1. ~polls'[m] /\ isLeader' = isLeader /\ replies' = replies
    BY <1>5 DEF Shutdown, StopDuties, StopTracking, PollTypes
  <2>2. sent'[m] = sent[m] \/ sent'[m] = Append(sent[m], "clear")
    BY <1>5 DEF Shutdown, TypeOK
  <2>3. CASE sent'[m] = sent[m]
    BY <1>2, <1>3, <2>1, <2>3, PollingFrame DEF PollersLead
  <2>4. CASE sent'[m] = Append(sent[m], "clear")
    <3>1. sent[m] \in Seq(Operations) /\ "clear" \in Operations /\ "clear" \in Clear
      BY DEF TypeOK, Operations, Clear
    <3>2. /\ OneLive(sent'[m], Clear)
          /\ Quiet(sent[m], Clear) => Quiet(sent'[m], Clear)
          /\ \A Some : Says(sent'[m], Some) => Says(sent[m], Some) \/ "clear" \in Some
      BY <1>3, <2>4, <3>1, AppendLive DEF Polling
    <3>3. Polling(m)'
      BY <1>3, <2>1, <3>2 DEF Polling, Clear, Cleared, Trials, Expiries, Answers, Operations,
                              Answer
    <3> QED BY <1>2, <3>3 DEF PollersLead
  <2> QED BY <2>2, <2>3, <2>4
<1>6. CASE Ends(m)
  <2>1. sent'[m] = <<>> /\ replies'[m] = <<>> /\ ~polls'[m]
    BY <1>6 DEF Ends, Exit, Crash, End, EndDuties, PollTypes, TypeOK
  <2>2. Quiet(sent'[m], Clear) /\ Quiet(replies'[m], Cleared)
    BY <2>1, EmptyQuiet
  <2>3. Polling(m)'
    BY <2>1, <2>2, QuietSays DEF Polling, Clear, Cleared, Trials, Expiries, Answers, Operations,
                                 Answer
  <2> QED BY <1>2, <2>3 DEF PollersLead
<1> QED BY <1>4, <1>5, <1>6

\* Two mains poll for waiting executions only while one of them leads without the key,
\* as long as checks do not overlap: for any number of mains, executions, expiries and
\* ends.
THEOREM OneTracker ==
    ASSUME OneCheck
    PROVE  DSpec => []TrackersApart
<1>1. DInit => PollTypes /\ PollersLead
  <2>1. DInit => PollTypes
    BY DEF DInit, PollTypes
  <2>2. ASSUME DInit, NEW m \in Mains
        PROVE  Polling(m)
    <3>1. sent[m] = <<>> /\ replies[m] = <<>> /\ ~polls[m]
      BY <2>2 DEF DInit, Init
    <3> QED BY <3>1, EmptyQuiet, QuietSays DEF Polling
  <2> QED BY <2>1, <2>2 DEF PollersLead
<1>2. TypeOK /\ OffIsSilent /\ (PollTypes /\ PollersLead) /\ [DNext]_dvars
         => (PollTypes /\ PollersLead)'
  <2> SUFFICES ASSUME TypeOK, OffIsSilent, PollTypes, PollersLead, [DNext]_dvars
               PROVE  PollTypes' /\ PollersLead'
    OBVIOUS
  <2>1. ASSUME UNCHANGED <<sent, replies, isLeader, polls>>
        PROVE  PollTypes' /\ PollersLead'
    BY <2>1, PollingFrame DEF PollTypes, PollersLead
  <2>2. CASE UNCHANGED dvars
    BY <2>1, <2>2 DEF dvars, vars, dutyVars
  <2>3. CASE Expire /\ UNCHANGED dutyVars
    BY <2>1, <2>3 DEF Expire, dutyVars
  <2>4. CASE \E e \in Executions : ComesDue(e)
    BY <2>1, <2>4 DEF ComesDue, vars
  <2>5. ASSUME NEW m \in Mains, ServiceStep(m)
        PROVE  PollTypes' /\ PollersLead'
    BY <2>1, <2>5 DEF ServiceStep, Poll, SetTimers, FireTimer, RecoveryFires, RecoveryEnds, vars
  <2>6. ASSUME NEW m \in Mains, RedisStep(m) /\ UNCHANGED dutyVars
        PROVE  PollTypes' /\ PollersLead'
    BY <2>6, RedisPolling DEF dutyVars, PollTypes
  <2>7. ASSUME NEW m \in Mains, Election(m)
        PROVE  PollTypes' /\ PollersLead'
    <3>1. PollTypes'
      BY <2>7 DEF Election, StartDuties, StopDuties, StartTracking, StopTracking, dutyVars,
                  PollTypes
    <3> QED BY <2>7, <3>1, ElectionPolling
  <2>8. ASSUME NEW m \in Mains,
               \/ (Start(m) \/ CheckLeader(m)) /\ UNCHANGED dutyVars
               \/ Shutdown(m) /\ StopDuties(m)
               \/ Ends(m)
        PROVE  PollTypes' /\ PollersLead'
    <3>1. PollTypes'
      BY <2>8 DEF StopDuties, StopTracking, Ends, EndDuties, dutyVars, PollTypes
    <3> QED BY <2>8, <3>1, ProcessPolling
  <2> QED BY <2>2, <2>3, <2>4, <2>5, <2>6, <2>7, <2>8 DEF DNext
<1>3. OneLeaderPerKey /\ PollersLead => TrackersApart
  BY DEF OneLeaderPerKey, PollersLead, Polling, TrackersApart
<1>4. Spec => [](TypeOK /\ OffIsSilent /\ OneLeaderPerKey)
  BY TypeCorrect, Justified, OneLeader, PTL
<1> QED
  BY <1>1, <1>2, <1>3, <1>4, ElectsAlone, PTL DEF DSpec
===============================================================================
