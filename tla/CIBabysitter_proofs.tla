------------------------ MODULE CIBabysitter_proofs ------------------------
(***************************************************************************)
(* What the CI Babysitter keeps true for every cap, every number of pause  *)
(* requests at once and every length of the queue, with no bound on runs,  *)
(* conflicts, tasks or restarts that the proofs depend on: TypeOK,         *)
(* OneBabysitter, GuardFollowsWorker and RetriesAreCapped from one         *)
(* inductive invariant, OncePerTrouble and ConflictSurfaces from a second  *)
(* one on top of it, which follows the statuses through the queue, and     *)
(* PauseIsDurable for pause requests that come one at a time.              *)
(***************************************************************************)
EXTENDS CIBabysitter, SequenceTheorems, TLAPS

-----------------------------------------------------------------------------
(* The inductive invariant *)

\* What each thread holds while it is under way.
Held ==
    /\ consumer.at # "idle" => consumer.item \in Status
    /\ consumer.at \in {"gate", "ensure", "deliver"} =>
          mem # NoMemory /\ consumer.todo # <<>>
    /\ consumer.at \in {"ensure", "deliver"} =>
          consumer.agent \in {"chat", "terminal"} /\ mem.retries < RetryCap
    /\ consumer.at = "deliver" => mem.task # NoTask
    /\ \A c \in Client : client[c].at \in {"set", "persist"} => mem # NoMemory
    /\ worker # NoDrive => mem # NoMemory

\* A live babysitter is the one that is remembered, if one is.
Remembered ==
    mem # NoMemory /\ mem.task # NoTask => \A t \in Listed : t = mem.task

UnderWay == IF worker = NoDrive THEN 0 ELSE 1

\* The counter covers the prompts since the last reset.
Counted ==
    /\ mem = NoMemory => sent = <<>> /\ passes = 0
    /\ mem # NoMemory =>
          /\ mem.retries <= RetryCap
          /\ Len(sent) + UnderWay <= RetryCap * passes + mem.retries

IInv ==
    /\ TypeOK
    /\ Held
    /\ OneBabysitter /\ Remembered
    /\ GuardFollowsWorker
    /\ Counted

-----------------------------------------------------------------------------
(* The operators *)

\* The memory of a fresh process is a memory.
LEMMA FreshIsMemory ==
    ASSUME NEW paused \in BOOLEAN
    PROVE  /\ FreshMemory(paused) \in Memory
           /\ FreshMemory(paused).task = NoTask
           /\ FreshMemory(paused).retries = 0
           /\ FreshMemory(paused).driving = FALSE
           /\ FreshMemory(paused).prev = NoStatus
  BY DEF FreshMemory, Memory

\* A status touches neither the task nor the drive; it leaves the counter or
\* sets it to zero.
LEMMA AfterStatusIsMemory ==
    ASSUME NEW m \in Memory, NEW new \in Status
    PROVE  /\ AfterStatus(m, new) \in Memory
           /\ AfterStatus(m, new).task = m.task
           /\ AfterStatus(m, new).driving = m.driving
           /\ AfterStatus(m, new).retries = IF Passed(m.prev, new) THEN 0 ELSE m.retries
<1>1. /\ Passed(m.prev, new) \in BOOLEAN
      /\ Retires(m.prev, new) \in BOOLEAN
      /\ ConflictGone(new) \in BOOLEAN
  BY DEF Passed, Retires, ConflictGone
<1> QED BY <1>1 DEF AfterStatus, Memory

\* The transitions to dispatch are troubles.
LEMMA ToDispatchIsSeq ==
    ASSUME NEW prev, NEW new
    PROVE  ToDispatch(prev, new) \in Seq(Trouble)
<1>1. <<>> \in Seq(Trouble) /\ <<"PIPELINE_FAILED">> \in Seq(Trouble)
      /\ <<"MERGE_CONFLICT">> \in Seq(Trouble)
  BY DEF Trouble
<1> QED BY <1>1, ConcatProperties DEF ToDispatch

\* The bookkeeping counts one attempt.
LEMMA BookedIsMemory ==
    ASSUME mem \in Memory, consumer.item \in Status, NEW t \in Trouble
    PROVE  /\ Booked(t) \in Memory
           /\ Booked(t).retries = mem.retries + 1
           /\ Booked(t).task = mem.task
           /\ Booked(t).driving = mem.driving
           /\ NumberOf(t) \in Nat
<1>1. NumberOf(t) \in Nat
  BY BabysitterAssumption DEF BabysitterAssumption, NumberOf, Status
<1>2. DEFINE failedSent == IF t = "PIPELINE_FAILED" THEN consumer.item.id ELSE mem.failedSent
             conflictSent == mem.conflictSent \/ t = "MERGE_CONFLICT"
<1>3. failedSent \in {NoPipelineId}
  BY DEF Memory, Status
<1>4. conflictSent \in BOOLEAN
  <2>1. mem.conflictSent \in BOOLEAN
    BY DEF Memory
  <2>2. CASE mem.conflictSent = TRUE
    BY <2>2, Zenon
  <2>3. CASE mem.conflictSent = FALSE
    BY <2>3, Zenon
  <2> QED BY <2>1, <2>2, <2>3
<1>5. Booked(t) = [mem EXCEPT !.retries = mem.retries + 1, !.failedSent = failedSent,
                              !.conflictSent = conflictSent]
  BY DEF Booked
<1> HIDE DEF failedSent, conflictSent
<1>6. Booked(t) = [paused |-> mem.paused, retries |-> mem.retries + 1, task |-> mem.task,
                   retired |-> mem.retired, prev |-> mem.prev, failedSent |-> failedSent,
                   conflictSent |-> conflictSent, driving |-> mem.driving]
  BY <1>5 DEF Memory
<1>7. mem.retries + 1 \in Nat
  BY DEF Memory
<1>8. Booked(t) \in Memory
  BY <1>3, <1>4, <1>6, <1>7 DEF Memory
<1> QED BY <1>1, <1>6, <1>8

\* Giving up the first transition leaves the consumer idle or at the next one.
LEMMA ProceedIsTyped ==
    ASSUME TypeOK, consumer.todo # <<>>, consumer.item \in Status, Proceed
    PROVE  /\ consumer' \in [at : {"idle", "insert", "gate", "ensure", "deliver"},
                             item : Status \cup {NoStatus}, read : BOOLEAN,
                             todo : Seq(Trouble), agent : {"none", "chat", "terminal"}]
           /\ consumer'.at \in {"idle", "gate"}
           /\ consumer'.at = "gate" => consumer'.todo # <<>> /\ consumer'.item \in Status
<1>1. CASE Len(consumer.todo) = 1
  BY <1>1 DEF Proceed, IdleConsumer, TypeOK
<1>2. CASE Len(consumer.todo) # 1
  <2>1. consumer.todo \in Seq(Trouble)
    BY DEF TypeOK
  <2>2. /\ Tail(consumer.todo) \in Seq(Trouble)
        /\ Len(Tail(consumer.todo)) = Len(consumer.todo) - 1
    BY <2>1, HeadTailProperties
  <2>3. Len(consumer.todo) \in Nat \ {0}
    BY <2>1, EmptySeq
  <2>4. Tail(consumer.todo) # <<>>
    <3>1. Len(Tail(consumer.todo)) # 0
      BY <1>2, <2>2, <2>3
    <3>2. Len(<<>>) = 0
      OBVIOUS
    <3> QED BY <3>1, <3>2
  <2> QED BY <1>2, <2>2, <2>4 DEF Proceed, TypeOK
<1> QED BY <1>1, <1>2

\* The first transition is a trouble.
LEMMA HeadIsTrouble ==
    ASSUME TypeOK, consumer.todo # <<>>
    PROVE  Head(consumer.todo) \in Trouble
  BY DEF TypeOK

\* What is found is the only listed task.
LEMMA ExistingIsTask ==
    ASSUME TypeOK, OneBabysitter, mem \in Memory
    PROVE  /\ Existing \in Task \cup {NoTask}
           /\ mem.task = NoTask /\ Existing # NoTask => Existing \in Listed
           /\ mem.task = NoTask /\ Existing = NoTask => Listed = {}
           /\ mem.task # NoTask => Existing = mem.task
<1>1. CASE mem.task # NoTask
  BY <1>1 DEF Existing, Memory
<1>2. CASE mem.task = NoTask /\ Listed = {}
  BY <1>2 DEF Existing, FindExisting
<1>3. CASE mem.task = NoTask /\ Listed # {}
  <2>1. PICK t \in Listed : \A u \in Listed : u = t
    BY <1>3 DEF OneBabysitter
  <2>2. t \in Task /\ t <= t /\ t # NoTask
    BY <2>1, BabysitterAssumption DEF BabysitterAssumption, Listed, Task
  <2>3. \E s \in Listed : \A u \in Listed : u <= s
    BY <2>1, <2>2
  <2>4. FindExisting \in Listed
    BY <1>3, <2>3 DEF FindExisting
  <2>5. FindExisting = t
    BY <2>1, <2>4
  <2> QED BY <1>3, <2>4, <2>5, <2>2 DEF Existing, Listed
<1> QED BY <1>1, <1>2, <1>3

-----------------------------------------------------------------------------
(* The invariant holds when the process is started *)

\* The bounds are numbers.
LEMMA BoundsAreNumbers ==
    /\ MaxRuns \in Nat /\ MaxEpisodes \in Nat /\ MaxTasks \in Nat
    /\ MaxQueue \in Nat /\ MaxAsks \in Nat /\ MaxRestarts \in Nat
    /\ RetryCap \in Nat
  BY BabysitterAssumption DEF BabysitterAssumption

\* A thread that holds nothing is typed.
LEMMA IdleIsTyped ==
    /\ IdleConsumer \in [at : {"idle", "insert", "gate", "ensure", "deliver"},
                         item : Status \cup {NoStatus}, read : BOOLEAN,
                         todo : Seq(Trouble), agent : {"none", "chat", "terminal"}]
    /\ IdleConsumer.at = "idle"
    /\ IdleClient \in [at : {"idle", "insert", "set", "persist"},
                       want : {"look", "pause", "resume"}, read : BOOLEAN]
    /\ IdleClient.at = "idle"
  BY DEF IdleConsumer, IdleClient

\* At the first start there is no task.
LEMMA InitIsGood ==
    ASSUME Init
    PROVE  IInv
<1>1. TypeOK
  <2>1. pr \in PullRequest
    <3>1. PICK e \in 0 .. MaxEpisodes :
             pr = [state |-> "none", pipeline |-> "unset", run |-> 0, conflicting |-> FALSE,
                   computed |-> FALSE, episode |-> e]
      BY DEF Init
    <3>3. 0 \in 0 .. MaxRuns
      BY BoundsAreNumbers
    <3> QED BY <3>1, <3>3 DEF PullRequest
  <2>2. queue \in Seq(Status) /\ Len(queue) <= MaxQueue
    BY BoundsAreNumbers DEF Init, FreshProcess
  <2>3. restarts \in 0 .. MaxRestarts
    BY BoundsAreNumbers DEF Init
  <2>4. /\ mem = NoMemory /\ worker = NoDrive /\ consumer = IdleConsumer
        /\ sent = <<>> /\ passes = 0
    BY DEF Init, FreshProcess
  <2>5. client \in [Client -> [at : {"idle", "insert", "set", "persist"},
                               want : {"look", "pause", "resume"}, read : BOOLEAN]]
    BY IdleIsTyped DEF Init, FreshProcess
  <2>6. tasks \in [Task -> [state : {"absent", "live", "deleting", "deleted"},
                            kind : {"chat", "terminal"}]]
    BY DEF Init
  <2>7. dropped \in [Trouble -> {"no", "coalesced", "skipped"}]
    BY DEF Init, FreshProcess
  <2>8. rowPaused \in BOOLEAN /\ asks \in 0 .. MaxAsks
    BY DEF Init
  <2> QED BY <2>1, <2>2, <2>3, <2>4, <2>5, <2>6, <2>7, <2>8, IdleIsTyped DEF TypeOK
<1>2. Held
  BY IdleIsTyped DEF Init, FreshProcess, Held
<1>3. OneBabysitter
  BY DEF Init, OneBabysitter, Listed
<1>4. Remembered /\ GuardFollowsWorker /\ Counted
  BY DEF Init, FreshProcess, Remembered, GuardFollowsWorker, Counted
<1> QED BY <1>1, <1>2, <1>3, <1>4 DEF IInv

\* Every later start keeps the tasks that there are.
LEMMA RestartKeeps ==
    ASSUME IInv, Restart
    PROVE  IInv'
<1>1. TypeOK'
  <2>1. queue' \in Seq(Status) /\ Len(queue') <= MaxQueue
    BY BoundsAreNumbers DEF Restart
  <2>2. restarts' \in 0 .. MaxRestarts
    BY BoundsAreNumbers DEF IInv, TypeOK, Restart
  <2> QED BY <2>1, <2>2, IdleIsTyped DEF IInv, Restart, TypeOK
<1>2. Held'
  BY IdleIsTyped DEF Restart, Held
<1>3. OneBabysitter'
  BY DEF IInv, Restart, OneBabysitter, Listed
<1>4. Remembered' /\ GuardFollowsWorker' /\ Counted'
  BY DEF Restart, Remembered, GuardFollowsWorker, Counted
<1> QED BY <1>1, <1>2, <1>3, <1>4 DEF IInv

-----------------------------------------------------------------------------
(* The pull request and the poller *)

\* Only the pull request changes.
LEMMA GitHubKeeps ==
    ASSUME IInv, GitHubNext
    PROVE  IInv'
<1>1. pr' \in PullRequest
  <2>1. pr \in PullRequest
    BY DEF IInv, TypeOK
  <2>2. CASE Push
    <3>1. PICK c \in BOOLEAN :
             pr' = [pr EXCEPT !.state = "open", !.pipeline = "running", !.run = @ + 1,
                              !.conflicting = c, !.computed = FALSE]
      BY <2>2 DEF Push
    <3>2. pr' = [state |-> "open", pipeline |-> "running", run |-> pr.run + 1,
                 conflicting |-> c, computed |-> FALSE, episode |-> pr.episode]
      BY <2>1, <3>1 DEF PullRequest
    <3>3. pr.run + 1 \in 0 .. MaxRuns
      BY <2>1, <2>2, BoundsAreNumbers DEF Push, PullRequest
    <3> QED BY <2>1, <3>2, <3>3 DEF PullRequest
  <2>3. CASE RunEnds
    BY <2>1, <2>3 DEF RunEnds, PullRequest
  <2>4. CASE BaseMoves
    <3>1. pr' = [state |-> pr.state, pipeline |-> pr.pipeline, run |-> pr.run,
                 conflicting |-> TRUE, computed |-> FALSE, episode |-> pr.episode + 1]
      BY <2>1, <2>4 DEF BaseMoves, PullRequest
    <3>2. pr.episode + 1 \in 0 .. MaxEpisodes
      BY <2>1, <2>4, BoundsAreNumbers DEF BaseMoves, PullRequest
    <3> QED BY <2>1, <3>1, <3>2 DEF PullRequest
  <2>5. CASE ComputeMergeable
    BY <2>1, <2>5 DEF ComputeMergeable, PullRequest
  <2>6. CASE Finish
    BY <2>1, <2>6 DEF Finish, PullRequest
  <2> QED BY <2>2, <2>3, <2>4, <2>5, <2>6 DEF GitHubNext
<1>2. UNCHANGED program
  BY DEF GitHubNext, Push, RunEnds, BaseMoves, ComputeMergeable, Finish
<1>3. TypeOK'
  BY <1>1, <1>2 DEF IInv, TypeOK, program, history, bounds
<1>4. Held'
  BY <1>2 DEF IInv, Held, program
<1>5. OneBabysitter' /\ Remembered' /\ GuardFollowsWorker' /\ Counted'
  BY <1>2 DEF IInv, OneBabysitter, Remembered, Listed, GuardFollowsWorker, Counted, UnderWay,
              program, history
<1> QED BY <1>3, <1>4, <1>5 DEF IInv

\* A status joins the queue.
LEMMA PollKeeps ==
    ASSUME IInv, Poll
    PROVE  IInv'
<1>1. PICK status \in {StatusOf(pr), NoPrStatus} : queue' = Append(queue, status)
  BY DEF Poll
<1>2. NoPrStatus \in Status
  BY BoundsAreNumbers DEF NoPrStatus, Status
<1>3. StatusOf(pr) \in Status
  <2>1. pr \in PullRequest
    BY DEF IInv, TypeOK
  <2>2. ConflictFlag(pr) \in {"unknown", "yes", "no"}
    BY DEF ConflictFlag
  <2>3. CASE pr.state = "none"
    BY <2>3, <1>2 DEF StatusOf
  <2>4. CASE pr.state = "open"
    BY <2>4, <2>1, <2>2 DEF StatusOf, Status, PullRequest
  <2>5. CASE pr.state \notin {"none", "open"}
    BY <2>5, <2>1, <1>2 DEF StatusOf, Status, PullRequest, NoPrStatus
  <2> QED BY <2>3, <2>4, <2>5
<1>4. queue' \in Seq(Status) /\ Len(queue') <= MaxQueue
  <2>1. queue \in Seq(Status)
    BY DEF IInv, TypeOK
  <2>2. /\ queue' \in Seq(Status)
        /\ Len(queue') = Len(queue) + 1
    BY <1>1, <1>2, <1>3, <2>1, AppendProperties
  <2>3. Len(queue) < MaxQueue /\ Len(queue) \in Nat
    BY <2>1 DEF Poll
  <2> QED BY <2>2, <2>3, BoundsAreNumbers
<1>5. UNCHANGED <<pr, mem, consumer, client, worker, rowPaused, tasks, history, bounds>>
  BY DEF Poll
<1>6. TypeOK'
  BY <1>4, <1>5 DEF IInv, TypeOK, history, bounds
<1>7. Held'
  BY <1>5 DEF IInv, Held
<1>8. OneBabysitter' /\ Remembered' /\ GuardFollowsWorker' /\ Counted'
  BY <1>5 DEF IInv, OneBabysitter, Remembered, Listed, GuardFollowsWorker, Counted, UnderWay,
              history
<1> QED BY <1>6, <1>7, <1>8 DEF IInv

-----------------------------------------------------------------------------
(* The consumer takes a status *)

\* A memory and a status are not the marks that stand for none.
LEMMA NoMarks ==
    /\ \A m \in Memory : m # NoMemory
    /\ \A s \in Status : s # NoStatus
    /\ \A d \in Drive : d # NoDrive
  BY MarksAreDistinct

\* Passing more often by one makes room for one more cap.
LEMMA RoomForOneMore ==
    ASSUME NEW n \in Nat, NEW r \in Nat, NEW p \in Nat,
           r <= RetryCap, n <= RetryCap * p + r
    PROVE  n <= RetryCap * (p + 1)
<1>1. RetryCap * (p + 1) = RetryCap * p + RetryCap
  BY BoundsAreNumbers
<1>2. RetryCap * p \in Nat
  BY BoundsAreNumbers
<1>3. ASSUME NEW x \in Nat, NEW y \in Nat, n <= x + r, y = x + RetryCap
      PROVE  n <= y
  BY <1>3, BoundsAreNumbers
<1>4. RetryCap * (p + 1) \in Nat
  BY <1>1, <1>2, BoundsAreNumbers
<1> QED BY <1>1, <1>2, <1>3, <1>4

\* A status handled with the memory that is there, or with a fresh one.
LEMMA HandleKeeps ==
    ASSUME IInv, NEW m \in Memory, NEW new \in Status, Handle(m, new),
           mem # NoMemory => m = mem,
           mem = NoMemory => m.task = NoTask /\ m.retries = 0 /\ m.driving = FALSE,
           queue' \in Seq(Status), Len(queue') <= MaxQueue,
           UNCHANGED <<pr, client, worker, rowPaused, tasks, sent, bounds>>
    PROVE  IInv'
<1>1. /\ mem' \in Memory
      /\ mem'.task = m.task
      /\ mem'.driving = m.driving
      /\ \/ mem'.retries = m.retries /\ passes' = passes
         \/ mem'.retries = 0 /\ passes' = passes + 1
  <2>1. passes + 0 = passes
    BY DEF IInv, TypeOK
  <2>2. CASE LostPr(m.prev, new)
    <3>1. mem' = m /\ passes' = passes
      BY <2>2 DEF Handle
    <3> QED BY <3>1, Zenon
  <2>3. CASE ~LostPr(m.prev, new)
    <3>1. /\ mem' = AfterStatus(m, new)
          /\ passes' = passes + (IF Passed(m.prev, new) THEN 1 ELSE 0)
      BY <2>3 DEF Handle
    <3>2. CASE Passed(m.prev, new)
      BY <3>1, <3>2, AfterStatusIsMemory, Zenon
    <3>3. CASE ~Passed(m.prev, new)
      BY <2>1, <3>1, <3>3, AfterStatusIsMemory, Zenon
    <3> QED BY <3>2, <3>3
  <2> QED BY <2>2, <2>3
<1>2. mem' # NoMemory
  BY <1>1, NoMarks
<1>3. ToDispatch(m.prev, new) \in Seq(Trouble)
  BY ToDispatchIsSeq
<1>4. /\ consumer' \in [at : {"idle", "insert", "gate", "ensure", "deliver"},
                        item : Status \cup {NoStatus}, read : BOOLEAN,
                        todo : Seq(Trouble), agent : {"none", "chat", "terminal"}]
      /\ consumer'.at \in {"idle", "gate"}
      /\ consumer'.at = "gate" => consumer'.todo # <<>> /\ consumer'.item \in Status
  <2>1. CASE consumer' = IdleConsumer
    BY <2>1, IdleIsTyped
  <2>2. CASE /\ ToDispatch(m.prev, new) # <<>>
             /\ consumer' = [IdleConsumer EXCEPT !.at = "gate", !.item = new,
                                                 !.todo = ToDispatch(m.prev, new)]
    BY <2>2, <1>3 DEF IdleConsumer
  <2> QED BY <2>1, <2>2 DEF Handle
<1>5. passes' \in Nat
  BY <1>1 DEF IInv, TypeOK
<1>6. dropped' \in [Trouble -> {"no", "coalesced", "skipped"}]
  BY DEF Handle, IInv, TypeOK
<1>7. TypeOK'
  BY <1>1, <1>4, <1>5, <1>6 DEF IInv, TypeOK, bounds
<1>8. Held'
  BY <1>2, <1>4 DEF IInv, Held
<1>9. OneBabysitter' /\ Remembered'
  BY <1>1 DEF IInv, OneBabysitter, Remembered, Listed
<1>10. GuardFollowsWorker'
  <2>1. worker' = worker
    OBVIOUS
  <2>2. mem = NoMemory => worker = NoDrive
    BY DEF IInv, Held
  <2> QED BY <1>1, <2>1, <2>2 DEF IInv, GuardFollowsWorker
<1>11. Counted'
  <2> DEFINE n == Len(sent) + UnderWay
  <2>1. n \in Nat
    BY DEF UnderWay, IInv, TypeOK
  <2>2. Len(sent') + UnderWay' = n
    BY DEF UnderWay
  <2>3. m.retries \in Nat /\ m.retries <= RetryCap /\ passes \in Nat
    BY BoundsAreNumbers DEF IInv, TypeOK, Counted, Memory
  <2>4. n <= RetryCap * passes + m.retries
    <3>1. CASE mem # NoMemory
      BY <3>1 DEF IInv, Counted
    <3>2. CASE mem = NoMemory
      <4>1. Len(sent) = 0 /\ UnderWay = 0 /\ passes = 0 /\ m.retries = 0
        BY <3>2 DEF IInv, Counted, Held, UnderWay
      <4>2. RetryCap * 0 = 0
        BY BoundsAreNumbers
      <4> QED BY <4>1, <4>2
    <3> QED BY <3>1, <3>2
  <2>5. n <= RetryCap * (passes + 1)
    BY <2>1, <2>3, <2>4, RoomForOneMore
  <2> HIDE DEF n
  <2>7. n <= RetryCap * passes' + mem'.retries
    <3>1. CASE mem'.retries = 0 /\ passes' = passes + 1
      <4>1. n <= RetryCap * passes'
        BY <3>1, <2>5
      <4>2. ASSUME NEW x \in Nat, n <= x
            PROVE  n <= x + 0
        BY <4>2, <2>1
      <4>3. \A p \in Nat : RetryCap * p \in Nat
        BY BoundsAreNumbers
      <4> QED BY <3>1, <4>1, <4>2, <4>3, <1>5
    <3>2. CASE mem'.retries = m.retries /\ passes' = passes
      BY <3>2, <2>4
    <3> QED BY <1>1, <3>1, <3>2
  <2>8. mem'.retries <= RetryCap
    BY <1>1, <2>3, BoundsAreNumbers
  <2> QED BY <1>2, <2>2, <2>7, <2>8 DEF Counted
<1> QED BY <1>7, <1>8, <1>9, <1>10, <1>11 DEF IInv

\* Taking the first status leaves a queue.
LEMMA QueueIsTaken ==
    ASSUME TypeOK, queue # <<>>
    PROVE  /\ Head(queue) \in Status
           /\ Tail(queue) \in Seq(Status)
           /\ Len(Tail(queue)) <= MaxQueue
<1>1. queue \in Seq(Status) /\ Len(queue) <= MaxQueue
  BY DEF TypeOK
<1>2. /\ Head(queue) \in Status
      /\ Tail(queue) \in Seq(Status)
      /\ Len(Tail(queue)) = Len(queue) - 1
  BY <1>1, HeadTailProperties
<1>3. Len(queue) \in Nat
  BY <1>1
<1> QED BY <1>1, <1>2, <1>3, BoundsAreNumbers

LEMMA HandleStatusKeeps ==
    ASSUME IInv, HandleStatus
    PROVE  IInv'
<1>1. /\ mem \in Memory /\ mem # NoMemory
      /\ Handle(mem, Head(queue))
      /\ UNCHANGED <<pr, client, worker, rowPaused, tasks, sent, bounds>>
  BY DEF HandleStatus, IInv, TypeOK
<1>2. Head(queue) \in Status /\ queue' \in Seq(Status) /\ Len(queue') <= MaxQueue
  BY QueueIsTaken DEF HandleStatus, IInv
<1> QED BY <1>1, <1>2, HandleKeeps

LEMMA ReadRowKeeps ==
    ASSUME IInv, ReadRow
    PROVE  IInv'
<1>1. Head(queue) \in Status /\ queue' \in Seq(Status) /\ Len(queue') <= MaxQueue
  BY QueueIsTaken DEF ReadRow, IInv
<1>2. /\ consumer' \in [at : {"idle", "insert", "gate", "ensure", "deliver"},
                        item : Status \cup {NoStatus}, read : BOOLEAN,
                        todo : Seq(Trouble), agent : {"none", "chat", "terminal"}]
      /\ consumer'.at = "insert" /\ consumer'.item \in Status
  BY <1>1 DEF ReadRow, IInv, TypeOK
<1>3. UNCHANGED <<pr, mem, client, worker, rowPaused, tasks, history, bounds>>
  BY DEF ReadRow
<1>4. TypeOK'
  BY <1>1, <1>2, <1>3 DEF IInv, TypeOK, history, bounds
<1>5. Held'
  BY <1>2, <1>3 DEF IInv, Held
<1>6. OneBabysitter' /\ Remembered' /\ GuardFollowsWorker' /\ Counted'
  BY <1>3 DEF IInv, OneBabysitter, Remembered, Listed, GuardFollowsWorker, Counted, UnderWay,
              history
<1> QED BY <1>4, <1>5, <1>6 DEF IInv

\* What goes in when nothing has come in since is a fresh memory.
LEMMA HydratedIsMemory ==
    ASSUME TypeOK, NEW paused \in BOOLEAN
    PROVE  /\ Hydrated(paused) \in Memory
           /\ mem # NoMemory => Hydrated(paused) = mem
           /\ mem = NoMemory => /\ Hydrated(paused).task = NoTask
                                /\ Hydrated(paused).retries = 0
                                /\ Hydrated(paused).driving = FALSE
  BY FreshIsMemory DEF Hydrated, TypeOK

LEMMA InsertAndHandleKeeps ==
    ASSUME IInv, InsertAndHandle
    PROVE  IInv'
<1>1. consumer.item \in Status /\ consumer.read \in BOOLEAN
  BY DEF InsertAndHandle, IInv, Held, TypeOK
<1>2. queue' \in Seq(Status) /\ Len(queue') <= MaxQueue
  BY DEF InsertAndHandle, IInv, TypeOK
<1>3. /\ Handle(Hydrated(consumer.read), consumer.item)
      /\ UNCHANGED <<pr, client, worker, rowPaused, tasks, sent, bounds>>
  BY DEF InsertAndHandle
<1>4. TypeOK
  BY DEF IInv
<1> QED BY <1>1, <1>2, <1>3, <1>4, HydratedIsMemory, HandleKeeps

-----------------------------------------------------------------------------
(* The consumer dispatches *)

\* Giving up the first transition keeps the consumer and the record of what
\* was given up typed.
LEMMA DropIsTyped ==
    ASSUME IInv, consumer.at \in {"gate", "ensure", "deliver"},
           NEW how \in {"no", "coalesced", "skipped"}, Drop(how)
    PROVE  /\ consumer' \in [at : {"idle", "insert", "gate", "ensure", "deliver"},
                             item : Status \cup {NoStatus}, read : BOOLEAN,
                             todo : Seq(Trouble), agent : {"none", "chat", "terminal"}]
           /\ consumer'.at \in {"idle", "gate"}
           /\ consumer'.at = "gate" => consumer'.todo # <<>> /\ consumer'.item \in Status
           /\ dropped' \in [Trouble -> {"no", "coalesced", "skipped"}]
<1>1. TypeOK /\ consumer.todo # <<>> /\ consumer.item \in Status
  BY DEF IInv, Held
<1>2. Proceed
  BY DEF Drop
<1>3. dropped' \in [Trouble -> {"no", "coalesced", "skipped"}]
  <2>1. dropped' = [dropped EXCEPT ![Head(consumer.todo)] = how]
    BY DEF Drop
  <2> QED BY <1>1, <2>1 DEF TypeOK
<1> QED BY <1>1, <1>2, <1>3, ProceedIsTyped

LEMMA DispatchKeeps ==
    ASSUME IInv, Dispatch
    PROVE  IInv'
<1>1. consumer.at = "gate" /\ consumer.item \in Status /\ consumer.todo # <<>>
      /\ mem \in Memory /\ mem # NoMemory
  BY DEF Dispatch, IInv, Held, TypeOK
<1>2. UNCHANGED <<pr, queue, mem, client, worker, rowPaused, tasks, sent, passes, bounds>>
  BY DEF Dispatch
<1>3. OneBabysitter' /\ Remembered' /\ GuardFollowsWorker' /\ Counted'
  BY <1>2 DEF IInv, OneBabysitter, Remembered, Listed, GuardFollowsWorker, Counted, UnderWay
<1>4. CASE Drop("skipped")
  <2>1. /\ consumer' \in [at : {"idle", "insert", "gate", "ensure", "deliver"},
                          item : Status \cup {NoStatus}, read : BOOLEAN,
                          todo : Seq(Trouble), agent : {"none", "chat", "terminal"}]
        /\ consumer'.at \in {"idle", "gate"}
        /\ consumer'.at = "gate" => consumer'.todo # <<>> /\ consumer'.item \in Status
        /\ dropped' \in [Trouble -> {"no", "coalesced", "skipped"}]
    BY <1>1, <1>4, DropIsTyped
  <2>2. TypeOK'
    BY <1>2, <2>1 DEF IInv, TypeOK, bounds
  <2>3. Held'
    BY <1>1, <1>2, <2>1 DEF IInv, Held
  <2> QED BY <1>3, <2>2, <2>3 DEF IInv
<1>5. ASSUME NEW kind \in {"chat", "terminal"}, ~Blocked(Head(consumer.todo)),
             consumer' = [consumer EXCEPT !.at = "ensure", !.agent = kind],
             UNCHANGED dropped
      PROVE  IInv'
  <2>1. consumer' = [at |-> "ensure", item |-> consumer.item, read |-> consumer.read,
                     todo |-> consumer.todo, agent |-> kind]
    BY <1>5 DEF IInv, TypeOK
  <2>2. mem.retries < RetryCap
    BY <1>1, <1>5, BoundsAreNumbers DEF Blocked, AtCap, Memory
  <2>3. TypeOK'
    BY <1>2, <1>5, <2>1 DEF IInv, TypeOK, bounds
  <2>4. Held'
    BY <1>1, <1>2, <2>1, <2>2 DEF IInv, Held
  <2> QED BY <1>3, <2>3, <2>4 DEF IInv
<1> QED BY <1>4, <1>5 DEF Dispatch

\* What a memory is when only its task is another.
LEMMA TaskIsSet ==
    ASSUME mem \in Memory, NEW t \in Task \cup {NoTask},
           mem' = [mem EXCEPT !.task = t]
    PROVE  /\ mem' \in Memory /\ mem' # NoMemory
           /\ mem'.task = t
           /\ mem'.retries = mem.retries
           /\ mem'.driving = mem.driving
  BY NoMarks DEF Memory

\* A step that writes the task leaves the counter and the guard alone.
LEMMA TaskKeepsCounts ==
    ASSUME IInv, mem \in Memory, mem # NoMemory, mem' \in Memory, mem' # NoMemory,
           mem'.retries = mem.retries, mem'.driving = mem.driving,
           UNCHANGED <<worker, sent, passes>>
    PROVE  GuardFollowsWorker' /\ Counted'
  BY DEF IInv, GuardFollowsWorker, Counted, UnderWay

LEMMA AdoptTaskKeeps ==
    ASSUME IInv, AdoptTask
    PROVE  IInv'
<1>1. /\ mem \in Memory /\ mem # NoMemory /\ consumer.item \in Status
      /\ consumer.todo # <<>> /\ mem.retries < RetryCap
      /\ consumer.agent \in {"chat", "terminal"} /\ consumer.at = "ensure"
  BY DEF AdoptTask, IInv, Held, TypeOK
<1>2. /\ Existing \in Task /\ Existing # NoTask
      /\ mem.task = NoTask => Existing \in Listed
      /\ mem.task # NoTask => Existing = mem.task
  BY <1>1, ExistingIsTask DEF AdoptTask, Usable, IInv
<1>3. UNCHANGED <<pr, queue, client, worker, rowPaused, tasks, history, bounds>>
  BY DEF AdoptTask
<1>4. /\ mem' \in Memory /\ mem' # NoMemory
      /\ mem'.task = Existing
      /\ mem'.retries = mem.retries
      /\ mem'.driving = mem.driving
  BY <1>1, <1>2, TaskIsSet DEF AdoptTask
<1>5. consumer' = [at |-> "deliver", item |-> consumer.item, read |-> consumer.read,
                   todo |-> consumer.todo, agent |-> consumer.agent]
  BY DEF AdoptTask, IInv, TypeOK
<1>6. TypeOK'
  BY <1>3, <1>4, <1>5 DEF IInv, TypeOK, history, bounds
<1>7. Held'
  BY <1>1, <1>2, <1>3, <1>4, <1>5 DEF IInv, Held
<1>8. OneBabysitter' /\ Remembered'
  <2>1. Listed' = Listed
    BY <1>3 DEF Listed
  <2>2. \A t \in Listed : t = Existing
    BY <1>1, <1>2 DEF IInv, OneBabysitter, Remembered
  <2> QED BY <1>4, <2>1, <2>2 DEF IInv, OneBabysitter, Remembered
<1>9. GuardFollowsWorker' /\ Counted'
  BY <1>1, <1>3, <1>4, TaskKeepsCounts DEF history
<1> QED BY <1>6, <1>7, <1>8, <1>9 DEF IInv

\* A task is made only when no other is listed.
LEMMA CreateTaskKeeps ==
    ASSUME IInv, CreateTask
    PROVE  IInv'
<1>1. /\ mem \in Memory /\ mem # NoMemory /\ consumer.item \in Status
      /\ consumer.todo # <<>> /\ mem.retries < RetryCap
      /\ consumer.agent \in {"chat", "terminal"} /\ consumer.at = "ensure"
  BY DEF CreateTask, IInv, Held, TypeOK
<1>2. Listed = {}
  <2>1. CASE mem.task = NoTask
    <3>1. Existing = NoTask
      BY <2>1, <1>1, ExistingIsTask DEF CreateTask, Usable, Listed, IInv
    <3> QED BY <2>1, <3>1, <1>1, ExistingIsTask DEF IInv
  <2>2. CASE mem.task # NoTask
    <3>1. Existing = mem.task
      BY <2>2, <1>1, ExistingIsTask DEF IInv
    <3>2. mem.task \notin Listed
      BY <2>2, <3>1 DEF CreateTask, Usable, Listed
    <3> QED BY <2>2, <3>2, <1>1 DEF IInv, Remembered
  <2> QED BY <2>1, <2>2
<1>3. PICK t \in Task :
        /\ tasks' = [tasks EXCEPT ![t] = [state |-> "live", kind |-> consumer.agent]]
        /\ mem' = [mem EXCEPT !.task = t]
  BY DEF CreateTask
<1>4. UNCHANGED <<pr, queue, client, worker, rowPaused, history, bounds>>
  BY DEF CreateTask
<1>5. /\ mem' \in Memory /\ mem' # NoMemory
      /\ mem'.task = t /\ t # NoTask
      /\ mem'.retries = mem.retries
      /\ mem'.driving = mem.driving
  BY <1>1, <1>3, TaskIsSet, BabysitterAssumption DEF BabysitterAssumption, Task
<1>6. consumer' = [at |-> "deliver", item |-> consumer.item, read |-> consumer.read,
                   todo |-> consumer.todo, agent |-> consumer.agent]
  BY DEF CreateTask, IInv, TypeOK
<1>7. tasks' \in [Task -> [state : {"absent", "live", "deleting", "deleted"},
                           kind : {"chat", "terminal"}]]
  BY <1>1, <1>3 DEF IInv, TypeOK
<1>8. TypeOK'
  BY <1>4, <1>5, <1>6, <1>7 DEF IInv, TypeOK, history, bounds
<1>9. Held'
  BY <1>1, <1>4, <1>5, <1>6 DEF IInv, Held
<1>10. OneBabysitter' /\ Remembered'
  <2>1. \A u \in Listed' : u = t
    BY <1>2, <1>3 DEF Listed, IInv, TypeOK
  <2> QED BY <1>5, <2>1 DEF OneBabysitter, Remembered
<1>11. GuardFollowsWorker' /\ Counted'
  BY <1>1, <1>4, <1>5, TaskKeepsCounts DEF history
<1> QED BY <1>8, <1>9, <1>10, <1>11 DEF IInv

LEMMA CannotCreateKeeps ==
    ASSUME IInv, CannotCreate
    PROVE  IInv'
<1>1. mem \in Memory /\ mem # NoMemory /\ consumer.at = "ensure"
  BY DEF CannotCreate, IInv, Held, TypeOK
<1>2. UNCHANGED <<pr, queue, client, worker, rowPaused, tasks, sent, passes, bounds>>
  BY DEF CannotCreate
<1>3. /\ mem' \in Memory /\ mem' # NoMemory
      /\ mem'.task = NoTask
      /\ mem'.retries = mem.retries
      /\ mem'.driving = mem.driving
  BY <1>1, TaskIsSet DEF CannotCreate
<1>4. /\ consumer' \in [at : {"idle", "insert", "gate", "ensure", "deliver"},
                        item : Status \cup {NoStatus}, read : BOOLEAN,
                        todo : Seq(Trouble), agent : {"none", "chat", "terminal"}]
      /\ consumer'.at \in {"idle", "gate"}
      /\ consumer'.at = "gate" => consumer'.todo # <<>> /\ consumer'.item \in Status
      /\ dropped' \in [Trouble -> {"no", "coalesced", "skipped"}]
  BY <1>1, DropIsTyped DEF CannotCreate
<1>5. TypeOK'
  BY <1>2, <1>3, <1>4 DEF IInv, TypeOK, bounds
<1>6. Held'
  BY <1>2, <1>3, <1>4 DEF IInv, Held
<1>7. OneBabysitter' /\ Remembered'
  BY <1>2, <1>3 DEF IInv, OneBabysitter, Remembered, Listed
<1>8. GuardFollowsWorker' /\ Counted'
  BY <1>1, <1>2, <1>3, TaskKeepsCounts
<1> QED BY <1>5, <1>6, <1>7, <1>8 DEF IInv

-----------------------------------------------------------------------------
(* The consumer delivers *)

\* A thread that delivers has a memory with a task, and an attempt left.
LEMMA DeliveryIsGuarded ==
    ASSUME IInv, consumer.at = "deliver"
    PROVE  /\ mem \in Memory /\ mem # NoMemory
           /\ mem.task \in Task
           /\ mem.retries \in Nat /\ mem.retries + 1 <= RetryCap
           /\ consumer.item \in Status
           /\ Head(consumer.todo) \in Trouble
           /\ sent \in Seq([trouble : Trouble, number : Nat])
           /\ Len(sent) \in Nat /\ passes \in Nat
           /\ RetryCap * passes \in Nat
<1>1. /\ mem \in Memory /\ mem # NoMemory /\ mem.task # NoTask
      /\ mem.retries < RetryCap
      /\ consumer.item \in Status /\ consumer.todo # <<>>
  BY DEF IInv, Held, TypeOK
<1>2. mem.task \in Task /\ mem.retries \in Nat /\ mem.retries + 1 <= RetryCap
  BY <1>1, BoundsAreNumbers DEF Memory
<1>3. Head(consumer.todo) \in Trouble
  BY <1>1, HeadIsTrouble DEF IInv
<1>4. /\ sent \in Seq([trouble : Trouble, number : Nat])
      /\ Len(sent) \in Nat /\ passes \in Nat
  BY DEF IInv, TypeOK
<1> QED BY <1>1, <1>2, <1>3, <1>4, BoundsAreNumbers

\* One prompt more is one prompt longer.
LEMMA SentIsLonger ==
    ASSUME TypeOK, NEW prompt \in [trouble : Trouble, number : Nat],
           sent' = Append(sent, prompt)
    PROVE  /\ sent' \in Seq([trouble : Trouble, number : Nat])
           /\ Len(sent') = Len(sent) + 1
  BY AppendProperties DEF TypeOK

LEMMA DeliverChatKeeps ==
    ASSUME IInv, DeliverChat
    PROVE  IInv'
<1> DEFINE t == Head(consumer.todo)
<1>1. consumer.at = "deliver"
  BY DEF DeliverChat
<1>2. UNCHANGED <<pr, queue, client, worker, rowPaused, tasks, passes, bounds>>
  BY DEF DeliverChat
<1>3. /\ consumer' \in [at : {"idle", "insert", "gate", "ensure", "deliver"},
                        item : Status \cup {NoStatus}, read : BOOLEAN,
                        todo : Seq(Trouble), agent : {"none", "chat", "terminal"}]
      /\ consumer'.at \in {"idle", "gate"}
      /\ consumer'.at = "gate" => consumer'.todo # <<>> /\ consumer'.item \in Status
      /\ dropped' \in [Trouble -> {"no", "coalesced", "skipped"}]
  BY <1>1, DropIsTyped DEF DeliverChat
<1>4. CASE mem' = mem /\ sent' = sent
  <2>1. TypeOK'
    BY <1>2, <1>3, <1>4 DEF IInv, TypeOK, bounds
  <2>2. Held'
    BY <1>1, <1>2, <1>3, <1>4 DEF IInv, Held
  <2>3. OneBabysitter' /\ Remembered' /\ GuardFollowsWorker' /\ Counted'
    BY <1>2, <1>4 DEF IInv, OneBabysitter, Remembered, Listed, GuardFollowsWorker, Counted,
                      UnderWay
  <2> QED BY <2>1, <2>2, <2>3 DEF IInv
<1>5. CASE /\ mem' = Booked(t)
           /\ sent' = Append(sent, [trouble |-> t, number |-> NumberOf(t)]) \/ sent' = sent
  <2>1. /\ mem' \in Memory /\ mem' # NoMemory
        /\ mem'.retries = mem.retries + 1
        /\ mem'.task = mem.task
        /\ mem'.driving = mem.driving
        /\ NumberOf(t) \in Nat
    BY <1>1, <1>5, DeliveryIsGuarded, BookedIsMemory, NoMarks
  <2>2. /\ sent' \in Seq([trouble : Trouble, number : Nat])
        /\ Len(sent') = Len(sent) + 1 \/ Len(sent') = Len(sent)
    <3>1. CASE sent' = sent
      BY <3>1 DEF IInv, TypeOK
    <3>2. CASE sent' = Append(sent, [trouble |-> t, number |-> NumberOf(t)])
      <4>1. [trouble |-> t, number |-> NumberOf(t)] \in [trouble : Trouble, number : Nat]
        BY <1>1, <2>1, DeliveryIsGuarded
      <4> QED BY <3>2, <4>1, SentIsLonger DEF IInv
    <3> QED BY <1>5, <3>1, <3>2
  <2>3. TypeOK'
    BY <1>2, <1>3, <2>1, <2>2 DEF IInv, TypeOK, bounds
  <2>4. Held'
    BY <1>2, <1>3, <2>1 DEF IInv, Held
  <2>5. OneBabysitter' /\ Remembered'
    BY <1>1, <1>2, <2>1, DeliveryIsGuarded DEF IInv, OneBabysitter, Remembered, Listed
  <2>6. GuardFollowsWorker'
    BY <1>1, <1>2, <2>1, DeliveryIsGuarded DEF IInv, GuardFollowsWorker
  <2>7. Counted'
    <3>1. Len(sent) + UnderWay <= RetryCap * passes + mem.retries /\ UnderWay \in Nat
      BY <1>1, DeliveryIsGuarded DEF IInv, Counted, UnderWay
    <3>2. UnderWay' = UnderWay /\ passes' = passes
      BY <1>2 DEF UnderWay
    <3> HIDE DEF UnderWay
    <3>3. Len(sent') + UnderWay <= RetryCap * passes + (mem.retries + 1)
      BY <1>1, <2>2, <3>1, DeliveryIsGuarded
    <3> QED BY <1>1, <2>1, <3>2, <3>3, DeliveryIsGuarded DEF Counted
  <2> QED BY <2>3, <2>4, <2>5, <2>6, <2>7 DEF IInv
<1> QED BY <1>4, <1>5 DEF DeliverChat

LEMMA CoalesceKeeps ==
    ASSUME IInv, Coalesce
    PROVE  IInv'
<1>1. consumer.at = "deliver"
  BY DEF Coalesce
<1>2. UNCHANGED <<pr, queue, mem, client, worker, rowPaused, tasks, sent, passes, bounds>>
  BY DEF Coalesce
<1>3. /\ consumer' \in [at : {"idle", "insert", "gate", "ensure", "deliver"},
                        item : Status \cup {NoStatus}, read : BOOLEAN,
                        todo : Seq(Trouble), agent : {"none", "chat", "terminal"}]
      /\ consumer'.at \in {"idle", "gate"}
      /\ consumer'.at = "gate" => consumer'.todo # <<>> /\ consumer'.item \in Status
      /\ dropped' \in [Trouble -> {"no", "coalesced", "skipped"}]
  BY <1>1, DropIsTyped DEF Coalesce
<1>4. TypeOK'
  BY <1>2, <1>3 DEF IInv, TypeOK, bounds
<1>5. Held'
  BY <1>1, <1>2, <1>3 DEF IInv, Held
<1>6. OneBabysitter' /\ Remembered' /\ GuardFollowsWorker' /\ Counted'
  BY <1>2 DEF IInv, OneBabysitter, Remembered, Listed, GuardFollowsWorker, Counted, UnderWay
<1> QED BY <1>4, <1>5, <1>6 DEF IInv

\* The attempt is counted when the worker is started, for the prompt that it
\* may give.
LEMMA StartDriveKeeps ==
    ASSUME IInv, StartDrive
    PROVE  IInv'
<1> DEFINE t == Head(consumer.todo)
<1>1. /\ consumer.at = "deliver" /\ ~mem.driving
      /\ worker' = [task |-> mem.task, trouble |-> t, number |-> NumberOf(t)]
      /\ mem' = [Booked(t) EXCEPT !.driving = TRUE]
  BY DEF StartDrive
<1>2. UNCHANGED <<pr, queue, client, rowPaused, tasks, sent, passes, bounds>>
  BY DEF StartDrive
<1>3. /\ consumer' \in [at : {"idle", "insert", "gate", "ensure", "deliver"},
                        item : Status \cup {NoStatus}, read : BOOLEAN,
                        todo : Seq(Trouble), agent : {"none", "chat", "terminal"}]
      /\ consumer'.at \in {"idle", "gate"}
      /\ consumer'.at = "gate" => consumer'.todo # <<>> /\ consumer'.item \in Status
      /\ dropped' \in [Trouble -> {"no", "coalesced", "skipped"}]
  BY <1>1, DropIsTyped DEF StartDrive
<1>4. /\ Booked(t) \in Memory
      /\ Booked(t).retries = mem.retries + 1
      /\ Booked(t).task = mem.task
      /\ NumberOf(t) \in Nat
  BY <1>1, DeliveryIsGuarded, BookedIsMemory
<1>5. /\ mem' \in Memory
      /\ mem'.retries = mem.retries + 1
      /\ mem'.task = mem.task
      /\ mem'.driving = TRUE
  BY <1>1, <1>4 DEF Memory
<1>6. worker' \in Drive /\ worker' # NoDrive /\ mem' # NoMemory
  BY <1>1, <1>4, <1>5, DeliveryIsGuarded, NoMarks DEF Drive
<1>7. worker = NoDrive
  BY <1>1, DeliveryIsGuarded DEF IInv, GuardFollowsWorker
<1>8. TypeOK'
  BY <1>2, <1>3, <1>5, <1>6 DEF IInv, TypeOK, bounds
<1>9. Held'
  BY <1>2, <1>3, <1>6 DEF IInv, Held
<1>10. OneBabysitter' /\ Remembered'
  BY <1>1, <1>2, <1>5, DeliveryIsGuarded DEF IInv, OneBabysitter, Remembered, Listed
<1>11. GuardFollowsWorker'
  BY <1>5, <1>6 DEF GuardFollowsWorker
<1>12. Counted'
  <2>1. Len(sent) <= RetryCap * passes + mem.retries
    BY <1>1, <1>7, DeliveryIsGuarded DEF IInv, Counted, UnderWay
  <2>2. UnderWay' = 1
    BY <1>6 DEF UnderWay
  <2>3. Len(sent) + 1 <= RetryCap * passes + (mem.retries + 1)
    BY <1>1, <2>1, DeliveryIsGuarded
  <2> QED BY <1>1, <1>2, <1>5, <1>6, <2>2, <2>3, DeliveryIsGuarded DEF Counted
<1> QED BY <1>8, <1>9, <1>10, <1>11, <1>12 DEF IInv

LEMMA CannotStartKeeps ==
    ASSUME IInv, CannotStart
    PROVE  IInv'
<1>1. consumer.at = "deliver" /\ ~mem.driving /\ mem' = [mem EXCEPT !.driving = FALSE]
  BY DEF CannotStart, NotStarted
<1>2. UNCHANGED <<pr, queue, client, worker, rowPaused, tasks, sent, passes, bounds>>
  BY DEF CannotStart
<1>3. /\ consumer' \in [at : {"idle", "insert", "gate", "ensure", "deliver"},
                        item : Status \cup {NoStatus}, read : BOOLEAN,
                        todo : Seq(Trouble), agent : {"none", "chat", "terminal"}]
      /\ consumer'.at \in {"idle", "gate"}
      /\ consumer'.at = "gate" => consumer'.todo # <<>> /\ consumer'.item \in Status
      /\ dropped' \in [Trouble -> {"no", "coalesced", "skipped"}]
  BY <1>1, DropIsTyped DEF CannotStart
<1>4. /\ mem' \in Memory /\ mem' # NoMemory
      /\ mem'.retries = mem.retries
      /\ mem'.task = mem.task
      /\ mem'.driving = FALSE
  BY <1>1, DeliveryIsGuarded, NoMarks DEF Memory
<1>5. TypeOK'
  BY <1>2, <1>3, <1>4 DEF IInv, TypeOK, bounds
<1>6. Held'
  BY <1>2, <1>3, <1>4 DEF IInv, Held
<1>7. OneBabysitter' /\ Remembered' /\ Counted'
  BY <1>1, <1>2, <1>4, DeliveryIsGuarded
     DEF IInv, OneBabysitter, Remembered, Listed, Counted, UnderWay
<1>8. GuardFollowsWorker'
  BY <1>1, <1>2, <1>4, DeliveryIsGuarded DEF IInv, GuardFollowsWorker
<1> QED BY <1>5, <1>6, <1>7, <1>8 DEF IInv

LEMMA HandlingRaisesKeeps ==
    ASSUME IInv, HandlingRaises
    PROVE  IInv'
<1>1. consumer' = IdleConsumer
  BY DEF HandlingRaises
<1>2. UNCHANGED <<pr, queue, mem, client, worker, rowPaused, tasks, sent, passes, bounds>>
  BY DEF HandlingRaises
<1>3. dropped' \in [Trouble -> {"no", "coalesced", "skipped"}]
  BY DEF HandlingRaises, IInv, TypeOK
<1>4. TypeOK'
  BY <1>1, <1>2, <1>3, IdleIsTyped DEF IInv, TypeOK, bounds
<1>5. Held'
  BY <1>1, <1>2, IdleIsTyped DEF IInv, Held
<1>6. OneBabysitter' /\ Remembered' /\ GuardFollowsWorker' /\ Counted'
  BY <1>2 DEF IInv, OneBabysitter, Remembered, Listed, GuardFollowsWorker, Counted, UnderWay
<1> QED BY <1>4, <1>5, <1>6 DEF IInv

-----------------------------------------------------------------------------
(* The worker *)

\* The end of a drive clears the guard; it may have given a prompt, which was
\* counted when the drive began.
LEMMA WorkerKeeps ==
    ASSUME IInv, WorkerNext
    PROVE  IInv'
<1>1. /\ worker # NoDrive /\ worker' = NoDrive
      /\ mem' = [mem EXCEPT !.driving = FALSE]
      /\ UNCHANGED <<pr, queue, consumer, client, rowPaused, tasks, passes, dropped, bounds>>
  BY DEF WorkerNext, DriveDelivers, DriveFails, history
<1>2. worker \in Drive /\ mem \in Memory /\ mem # NoMemory
  BY <1>1 DEF IInv, TypeOK, Held
<1>3. /\ mem' \in Memory /\ mem' # NoMemory
      /\ mem'.retries = mem.retries
      /\ mem'.task = mem.task
      /\ mem'.driving = FALSE
  BY <1>1, <1>2, NoMarks DEF Memory
<1>4. /\ sent' \in Seq([trouble : Trouble, number : Nat])
      /\ Len(sent') = Len(sent) + 1 \/ Len(sent') = Len(sent)
  <2>1. CASE DriveDelivers
    <3>1. [trouble |-> worker.trouble, number |-> worker.number]
             \in [trouble : Trouble, number : Nat]
      BY <1>2 DEF Drive
    <3> QED BY <2>1, <3>1, SentIsLonger DEF DriveDelivers, IInv
  <2>2. CASE DriveFails
    BY <2>2 DEF DriveFails, history, IInv, TypeOK
  <2> QED BY <2>1, <2>2 DEF WorkerNext
<1>5. TypeOK'
  BY <1>1, <1>3, <1>4 DEF IInv, TypeOK, bounds
<1>6. Held'
  BY <1>1, <1>2, <1>3 DEF IInv, Held
<1>7. OneBabysitter' /\ Remembered'
  BY <1>1, <1>2, <1>3 DEF IInv, OneBabysitter, Remembered, Listed
<1>8. GuardFollowsWorker'
  BY <1>1, <1>3 DEF GuardFollowsWorker
<1>9. Counted'
  <2>1. Len(sent) + 1 <= RetryCap * passes + mem.retries /\ mem.retries <= RetryCap
    BY <1>1, <1>2 DEF IInv, Counted, UnderWay
  <2>2. Len(sent) \in Nat /\ mem.retries \in Nat /\ RetryCap * passes \in Nat
    BY <1>2, BoundsAreNumbers DEF IInv, TypeOK, Memory
  <2>3. Len(sent') <= RetryCap * passes + mem.retries
    BY <1>4, <2>1, <2>2
  <2>4. UnderWay' = 0 /\ Len(sent') + 0 = Len(sent')
    BY <1>1, <1>4, <2>2 DEF UnderWay
  <2> QED BY <1>1, <1>3, <2>1, <2>3, <2>4 DEF Counted
<1> QED BY <1>5, <1>6, <1>7, <1>8, <1>9 DEF IInv

-----------------------------------------------------------------------------
(* The pause API, and the user *)

LEMMA AskKeeps ==
    ASSUME IInv, NEW c \in Client, Ask(c)
    PROVE  IInv'
<1>1. UNCHANGED <<pr, queue, mem, consumer, worker, rowPaused, tasks, history, restarts>>
  BY DEF Ask
<1>2. asks' \in 0 .. MaxAsks
  BY BoundsAreNumbers DEF Ask, IInv, TypeOK
<1>3. PICK want \in {"look", "pause", "resume"} :
        \/ /\ mem = NoMemory
           /\ client' = [client EXCEPT ![c] = [at |-> "insert", want |-> want,
                                               read |-> rowPaused]]
        \/ /\ mem # NoMemory
           /\ client' = [client EXCEPT ![c] = [at |-> "set", want |-> want, read |-> FALSE]]
  BY DEF Ask
<1>4. client' \in [Client -> [at : {"idle", "insert", "set", "persist"},
                              want : {"look", "pause", "resume"}, read : BOOLEAN]]
  <2>1. rowPaused \in BOOLEAN
    BY DEF IInv, TypeOK
  <2>2. /\ [at |-> "insert", want |-> want, read |-> rowPaused]
              \in [at : {"idle", "insert", "set", "persist"},
                   want : {"look", "pause", "resume"}, read : BOOLEAN]
        /\ [at |-> "set", want |-> want, read |-> FALSE]
              \in [at : {"idle", "insert", "set", "persist"},
                   want : {"look", "pause", "resume"}, read : BOOLEAN]
    BY <2>1
  <2> QED BY <1>3, <2>2 DEF IInv, TypeOK
<1>5. TypeOK'
  BY <1>1, <1>2, <1>4 DEF IInv, TypeOK, history
<1>6. Held'
  <2>1. \A d \in Client : client'[d].at \in {"set", "persist"} => mem # NoMemory
    BY <1>3 DEF IInv, TypeOK, Held
  <2> QED BY <1>1, <2>1 DEF IInv, Held
<1>7. OneBabysitter' /\ Remembered' /\ GuardFollowsWorker' /\ Counted'
  BY <1>1 DEF IInv, OneBabysitter, Remembered, Listed, GuardFollowsWorker, Counted, UnderWay,
              history
<1> QED BY <1>5, <1>6, <1>7 DEF IInv

LEMMA AskInsertKeeps ==
    ASSUME IInv, NEW c \in Client, AskInsert(c)
    PROVE  IInv'
<1>1. /\ mem' = Hydrated(client[c].read)
      /\ UNCHANGED <<pr, queue, consumer, worker, rowPaused, tasks, history, bounds>>
  BY DEF AskInsert
<1>2. client[c].read \in BOOLEAN
  BY DEF IInv, TypeOK
<1>3. /\ mem' \in Memory /\ mem' # NoMemory
      /\ mem # NoMemory => mem' = mem
      /\ mem = NoMemory => mem'.task = NoTask /\ mem'.retries = 0 /\ mem'.driving = FALSE
  BY <1>1, <1>2, HydratedIsMemory, NoMarks DEF IInv
<1>4. client' \in [Client -> [at : {"idle", "insert", "set", "persist"},
                              want : {"look", "pause", "resume"}, read : BOOLEAN]]
  <2> DEFINE ClientType == [at : {"idle", "insert", "set", "persist"},
                            want : {"look", "pause", "resume"}, read : BOOLEAN]
             next == [at |-> "set", want |-> client[c].want, read |-> FALSE]
  <2>1. client[c] \in ClientType
    BY DEF IInv, TypeOK
  <2>2. next \in ClientType
    BY <2>1
  <2>3. \/ client' = [client EXCEPT ![c] = IdleClient]
        \/ client' = [client EXCEPT ![c] = next]
    BY DEF AskInsert
  <2> HIDE DEF next
  <2> QED BY <2>2, <2>3, IdleIsTyped DEF IInv, TypeOK
<1>5. TypeOK'
  BY <1>1, <1>3, <1>4 DEF IInv, TypeOK, history, bounds
<1>6. Held'
  BY <1>1, <1>3 DEF IInv, Held
<1>7. OneBabysitter' /\ Remembered'
  BY <1>1, <1>3 DEF IInv, OneBabysitter, Remembered, Listed
<1>8. GuardFollowsWorker' /\ Counted'
  <2>1. CASE mem # NoMemory
    BY <1>1, <1>3, <2>1 DEF IInv, GuardFollowsWorker, Counted, UnderWay, history
  <2>2. CASE mem = NoMemory
    <3>1. worker' = NoDrive /\ sent' = <<>> /\ passes' = 0
      BY <1>1, <2>2 DEF IInv, Held, Counted, history
    <3>2. RetryCap * 0 = 0 /\ 0 <= RetryCap /\ Len(sent') = 0
      BY <3>1, BoundsAreNumbers
    <3>3. UnderWay' = 0
      BY <3>1 DEF UnderWay
    <3> QED BY <1>3, <2>2, <3>1, <3>2, <3>3 DEF GuardFollowsWorker, Counted
  <2> QED BY <2>1, <2>2
<1> QED BY <1>5, <1>6, <1>7, <1>8 DEF IInv

LEMMA SetPausedKeeps ==
    ASSUME IInv, NEW c \in Client, SetPaused(c)
    PROVE  IInv'
<1>1. /\ client[c].at = "set"
      /\ mem' = [mem EXCEPT !.paused = (client[c].want = "pause")]
      /\ client' = [client EXCEPT ![c].at = "persist"]
      /\ UNCHANGED <<pr, queue, consumer, worker, rowPaused, tasks, history, bounds>>
  BY DEF SetPaused
<1>2. mem \in Memory /\ mem # NoMemory
  BY <1>1 DEF IInv, TypeOK, Held
<1>3. /\ mem' \in Memory /\ mem' # NoMemory
      /\ mem'.task = mem.task
      /\ mem'.retries = mem.retries
      /\ mem'.driving = mem.driving
  BY <1>1, <1>2, NoMarks DEF Memory
<1>4. client' \in [Client -> [at : {"idle", "insert", "set", "persist"},
                              want : {"look", "pause", "resume"}, read : BOOLEAN]]
  BY <1>1 DEF IInv, TypeOK
<1>5. TypeOK'
  BY <1>1, <1>3, <1>4 DEF IInv, TypeOK, history, bounds
<1>6. Held'
  BY <1>1, <1>3 DEF IInv, Held
<1>7. OneBabysitter' /\ Remembered'
  BY <1>1, <1>2, <1>3 DEF IInv, OneBabysitter, Remembered, Listed
<1>8. GuardFollowsWorker' /\ Counted'
  BY <1>1, <1>2, <1>3, TaskKeepsCounts DEF history
<1> QED BY <1>5, <1>6, <1>7, <1>8 DEF IInv

LEMMA PersistPausedKeeps ==
    ASSUME IInv, NEW c \in Client, PersistPaused(c)
    PROVE  IInv'
<1>1. /\ rowPaused' \in BOOLEAN
      /\ client' = [client EXCEPT ![c] = IdleClient]
      /\ UNCHANGED <<pr, queue, mem, consumer, worker, tasks, history, bounds>>
  BY DEF PersistPaused
<1>2. TypeOK'
  BY <1>1, IdleIsTyped DEF IInv, TypeOK, history, bounds
<1>3. Held'
  BY <1>1, IdleIsTyped DEF IInv, TypeOK, Held
<1>4. OneBabysitter' /\ Remembered' /\ GuardFollowsWorker' /\ Counted'
  BY <1>1 DEF IInv, OneBabysitter, Remembered, Listed, GuardFollowsWorker, Counted, UnderWay,
              history
<1> QED BY <1>2, <1>3, <1>4 DEF IInv

\* A deletion never lists a task.
LEMMA DeleteKeeps ==
    ASSUME IInv, NEW t \in Task, Delete(t)
    PROVE  IInv'
<1>1. PICK state \in {"deleting", "deleted"} : tasks' = [tasks EXCEPT ![t].state = state]
  BY DEF Delete
<1>2. UNCHANGED <<pr, queue, mem, consumer, client, worker, rowPaused, history, bounds>>
  BY DEF Delete
<1>3. tasks' \in [Task -> [state : {"absent", "live", "deleting", "deleted"},
                           kind : {"chat", "terminal"}]]
  BY <1>1 DEF IInv, TypeOK
<1>4. TypeOK'
  BY <1>2, <1>3 DEF IInv, TypeOK, history, bounds
<1>5. Held'
  BY <1>2 DEF IInv, Held
<1>6. Listed' \subseteq Listed
  BY <1>1 DEF IInv, TypeOK, Listed
<1>7. OneBabysitter' /\ Remembered'
  BY <1>2, <1>6 DEF IInv, OneBabysitter, Remembered
<1>8. GuardFollowsWorker' /\ Counted'
  BY <1>2 DEF IInv, GuardFollowsWorker, Counted, UnderWay, history
<1> QED BY <1>4, <1>5, <1>7, <1>8 DEF IInv

-----------------------------------------------------------------------------
(* Every step *)

LEMMA StepKeeps ==
    ASSUME IInv, [Next]_vars
    PROVE  IInv'
<1>1. CASE GitHubNext
  BY <1>1, GitHubKeeps
<1>2. CASE Poll
  BY <1>2, PollKeeps
<1>3. CASE ConsumerNext
  BY <1>3, HandleStatusKeeps, ReadRowKeeps, InsertAndHandleKeeps, DispatchKeeps,
     AdoptTaskKeeps, CreateTaskKeeps, CannotCreateKeeps, DeliverChatKeeps, CoalesceKeeps,
     StartDriveKeeps, CannotStartKeeps, HandlingRaisesKeeps
     DEF ConsumerNext
<1>4. CASE WorkerNext
  BY <1>4, WorkerKeeps
<1>5. CASE \E c \in Client : ClientNext(c)
  BY <1>5, AskKeeps, AskInsertKeeps, SetPausedKeeps, PersistPausedKeeps DEF ClientNext
<1>6. CASE \E t \in Task : Delete(t)
  BY <1>6, DeleteKeeps
<1>7. CASE Restart
  BY <1>7, RestartKeeps
<1>8. CASE UNCHANGED vars
  <2>1. TypeOK'
    BY <1>8 DEF IInv, TypeOK, vars, history, bounds
  <2>2. Held'
    BY <1>8 DEF IInv, Held, vars
  <2>3. OneBabysitter' /\ Remembered' /\ GuardFollowsWorker' /\ Counted'
    BY <1>8 DEF IInv, OneBabysitter, Remembered, Listed, GuardFollowsWorker, Counted,
                UnderWay, vars, history
  <2> QED BY <2>1, <2>2, <2>3 DEF IInv
<1> QED BY <1>1, <1>2, <1>3, <1>4, <1>5, <1>6, <1>7, <1>8 DEF Next

\* The inductive invariant is one.
LEMMA AlwaysIInv == Spec => []IInv
<1>1. Init => IInv
  BY InitIsGood
<1>2. IInv /\ [Next]_vars => IInv'
  BY StepKeeps
<1> QED BY <1>1, <1>2, PTL DEF Spec

-----------------------------------------------------------------------------
(* The theorems *)

\* Every variable of the babysitter keeps its type.
THEOREM BabysitterTypeCorrect == Spec => []TypeOK
<1>1. IInv => TypeOK
  BY DEF IInv
<1> QED BY <1>1, AlwaysIInv, PTL

\* No workspace ever lists two babysitter tasks, however restarts, deletions
\* and creations follow each other: a task is made only when the one that is
\* remembered, or found, is not listed any more, and then none is.
THEOREM NeverTwoBabysitters == Spec => []OneBabysitter
<1>1. IInv => OneBabysitter
  BY DEF IInv
<1> QED BY <1>1, AlwaysIInv, PTL

\* The guard that makes prompts coalesce is set exactly while a drive is under
\* way, so that it can never shut out every later prompt.
THEOREM GuardIsNeverLeftBehind == Spec => []GuardFollowsWorker
<1>1. IInv => GuardFollowsWorker
  BY DEF IInv
<1> QED BY <1>1, AlwaysIInv, PTL

\* The prompts given and the one under way never outnumber the cap times the
\* passing pipelines seen, and one more cap: every prompt was counted before
\* it was given, and the count was below the cap.
THEOREM CapHolds == Spec => []RetriesAreCapped
<1>1. ASSUME IInv
      PROVE  RetriesAreCapped
  <2>1. Len(sent) \in Nat /\ passes \in Nat /\ UnderWay \in Nat
    BY <1>1 DEF IInv, TypeOK, UnderWay
  <2>2. CASE mem # NoMemory
    <3>1. /\ mem.retries \in Nat /\ mem.retries <= RetryCap
          /\ Len(sent) + UnderWay <= RetryCap * passes + mem.retries
      BY <1>1, <2>2 DEF IInv, TypeOK, Counted, Memory
    <3>2. Len(sent) + UnderWay \in Nat
      BY <2>1
    <3>3. Len(sent) + UnderWay <= RetryCap * (passes + 1)
      BY <2>1, <3>1, <3>2, RoomForOneMore
    <3> QED BY <3>3 DEF RetriesAreCapped, UnderWay
  <2>3. CASE mem = NoMemory
    <3>1. Len(sent) = 0 /\ passes = 0 /\ worker = NoDrive
      BY <1>1, <2>3 DEF IInv, Counted, Held
    <3>2. 0 + 0 <= RetryCap * (0 + 1)
      BY BoundsAreNumbers
    <3> QED BY <3>1, <3>2 DEF RetriesAreCapped
  <2> QED BY <2>2, <2>3
<1>2. IInv => RetriesAreCapped
  BY <1>1
<1> QED BY <1>2, AlwaysIInv, PTL

-----------------------------------------------------------------------------
(* The statuses in order, and what was given behind them *)

\* The consumer has transitions of a status to dispatch, and this one is
\* among those that are left.
Dispatching == consumer.at \in {"gate", "ensure", "deliver"}

Left(t) == Dispatching /\ \E i \in 1 .. Len(consumer.todo) : consumer.todo[i] = t

Finished(s) == s.state \in {"merged", "closed"}

\* Details are known of an open pull request only.
Plain(s) == s.state # "open" => s.pipeline = "unset" /\ s.conflicts = "unknown"

\* What a status says of a later one: a pull request that ended stays so, the
\* numbers never go back, a run fails once and for all, and a conflict that
\* was resolved is not there again under its number.
Before(s, t) ==
    /\ Finished(s) => t.state # "open"
    /\ s.state = "open" /\ t.state = "open" =>
          /\ s.run <= t.run /\ s.episode <= t.episode
          /\ s.run = t.run /\ s.pipeline = "failed" => t.pipeline = "failed"
          /\ s.episode = t.episode /\ s.conflicts = "no" => t.conflicts # "yes"

\* The same of the pull request itself.
Behind(s, p) ==
    /\ Finished(s) => p.state \in {"merged", "closed"}
    /\ s.state = "open" =>
          /\ p.state # "none"
          /\ s.run <= p.run /\ s.episode <= p.episode
          /\ s.run = p.run /\ s.pipeline = "failed" /\ p.state = "open"
                => p.pipeline = "failed"
          /\ s.episode = p.episode /\ s.conflicts = "no" => ~p.conflicting

\* The last status that was taken, as far as the coordinator goes by it.
Reached ==
    IF consumer.at = "insert" THEN consumer.item
    ELSE IF mem = NoMemory THEN NoStatus ELSE mem.prev

\* The statuses arrive in the order in which the pull request went through them.
InOrder ==
    /\ pr.state # "open" => pr.pipeline = "unset" /\ ~pr.conflicting
    /\ \A i \in 1 .. Len(queue) : Plain(queue[i]) /\ Behind(queue[i], pr)
    /\ \A i, j \in 1 .. Len(queue) : i < j => Before(queue[i], queue[j])
    /\ Reached # NoStatus =>
          /\ Plain(Reached) /\ Behind(Reached, pr)
          /\ \A i \in 1 .. Len(queue) : Before(Reached, queue[i])

\* What is dispatched is a trouble of the last status.
OfTheLast ==
    /\ consumer.at = "insert" => mem = NoMemory \/ mem.prev = NoStatus
    /\ Dispatching =>
          /\ consumer.item = mem.prev
          /\ consumer.todo \in {<<"PIPELINE_FAILED">>, <<"MERGE_CONFLICT">>,
                                <<"PIPELINE_FAILED", "MERGE_CONFLICT">>}
    /\ Left("PIPELINE_FAILED") => consumer.item.pipeline = "failed"
    /\ Left("MERGE_CONFLICT") => consumer.item.conflicts = "yes"
    /\ consumer.at \in {"ensure", "deliver"} /\ Head(consumer.todo) = "MERGE_CONFLICT"
          => ~mem.conflictSent

\* An agent was given a prompt for this, or the worker is about to give it.
Given(t, n) ==
    \/ \E i \in 1 .. Len(sent) : sent[i] = [trouble |-> t, number |-> n]
    \/ worker # NoDrive /\ worker.trouble = t /\ worker.number = n

\* A failed run that was prompted is behind the coordinator.
FailuresBehind ==
    \A n \in Nat : Given("PIPELINE_FAILED", n) =>
        /\ mem # NoMemory /\ mem.prev # NoStatus
        /\ \/ Finished(mem.prev)
           \/ /\ mem.prev.state = "open"
              /\ mem.prev.run > n \/ (mem.prev.run = n /\ mem.prev.pipeline = "failed")
        /\ Left("PIPELINE_FAILED") => consumer.item.run > n

\* A conflict that was prompted is marked as sent, or any that is still to be
\* seen or dispatched is a later one.
ConflictsBehind ==
    \A n \in Nat : Given("MERGE_CONFLICT", n) =>
        /\ mem # NoMemory /\ mem.prev # NoStatus
        /\ n <= pr.episode
        /\ Finished(mem.prev) \/ (mem.prev.state = "open" /\ n <= mem.prev.episode)
        /\ ~mem.conflictSent =>
              /\ \A i \in 1 .. Len(queue) : queue[i].conflicts = "yes" => queue[i].episode > n
              /\ pr.conflicting => pr.episode > n
              /\ Left("MERGE_CONFLICT") => consumer.item.episode > n

\* The worker's prompt is not among those that were given either.
GivenOnce ==
    /\ OncePerTrouble
    /\ worker # NoDrive => \A i \in 1 .. Len(sent) :
          sent[i] # [trouble |-> worker.trouble, number |-> worker.number]

\* What was given is behind what is still to come.
OInv == InOrder /\ OfTheLast /\ FailuresBehind /\ ConflictsBehind /\ GivenOnce

-----------------------------------------------------------------------------
(* What is left to dispatch *)

\* A thread that holds nothing has nothing left.
LEMMA IdleLeavesNothing ==
    ASSUME NEW t, consumer.at \in {"idle", "insert"}
    PROVE  ~Left(t)
  BY DEF Left, Dispatching

\* The three forms of the list.
LEMMA TodoForms ==
    /\ Len(<<"PIPELINE_FAILED">>) = 1 /\ Head(<<"PIPELINE_FAILED">>) = "PIPELINE_FAILED"
    /\ Len(<<"MERGE_CONFLICT">>) = 1 /\ Head(<<"MERGE_CONFLICT">>) = "MERGE_CONFLICT"
    /\ LET both == <<"PIPELINE_FAILED", "MERGE_CONFLICT">>
       IN  Len(both) = 2 /\ Head(both) = "PIPELINE_FAILED" /\ Tail(both) = <<"MERGE_CONFLICT">>
<1>1. /\ Len(<<"PIPELINE_FAILED">>) = 1 /\ Head(<<"PIPELINE_FAILED">>) = "PIPELINE_FAILED"
      /\ Len(<<"MERGE_CONFLICT">>) = 1 /\ Head(<<"MERGE_CONFLICT">>) = "MERGE_CONFLICT"
  OBVIOUS
<1>2. DEFINE both == <<"PIPELINE_FAILED", "MERGE_CONFLICT">>
<1>3. Len(both) = 2 /\ Head(both) = "PIPELINE_FAILED"
  OBVIOUS
<1>4. both \in Seq({"PIPELINE_FAILED", "MERGE_CONFLICT"})
  OBVIOUS
<1>5. /\ Tail(both) \in Seq({"PIPELINE_FAILED", "MERGE_CONFLICT"})
      /\ Len(Tail(both)) = 1 /\ Tail(both)[1] = "MERGE_CONFLICT"
  BY <1>3, <1>4, HeadTailProperties
<1>6. Tail(both) = <<"MERGE_CONFLICT">>
  BY <1>5
<1> QED BY <1>1, <1>3, <1>6

\* When the first transition is done with, it is not left any more, and the
\* other one is, if there was one.
LEMMA ProceedLeaves ==
    ASSUME OfTheLast, TypeOK, Dispatching, Proceed
    PROVE  /\ consumer'.at \in {"idle", "gate"}
           /\ consumer'.at = "gate" =>
                 /\ consumer'.item = consumer.item
                 /\ consumer'.todo = <<"MERGE_CONFLICT">>
           /\ Left(Head(consumer.todo))
           /\ \A t \in Trouble :
                 /\ Left(t)' => Left(t) /\ t # Head(consumer.todo)
                 /\ Left(t) => Left(t)' \/ t = Head(consumer.todo)
<1> DEFINE both == <<"PIPELINE_FAILED", "MERGE_CONFLICT">>
<1>1. consumer.todo \in {<<"PIPELINE_FAILED">>, <<"MERGE_CONFLICT">>, both}
  BY DEF OfTheLast
<1>2. CASE consumer.todo # both
  <2>1. /\ Len(consumer.todo) = 1 /\ consumer.todo[1] = Head(consumer.todo)
    BY <1>1, <1>2, TodoForms
  <2>2. consumer' = IdleConsumer
    BY <2>1 DEF Proceed
  <2>3. consumer'.at = "idle" /\ \A t : ~Left(t)'
    BY <2>2, IdleIsTyped DEF Left, Dispatching
  <2>4. \A t \in Trouble : Left(t) <=> t = Head(consumer.todo)
    BY <2>1 DEF Left
  <2>5. Head(consumer.todo) \in Trouble
    BY <1>1, <1>2, TodoForms DEF Trouble
  <2> QED BY <2>3, <2>4, <2>5
<1>3. CASE consumer.todo = both
  <2>1. /\ Len(consumer.todo) = 2 /\ Head(consumer.todo) = "PIPELINE_FAILED"
        /\ Tail(consumer.todo) = <<"MERGE_CONFLICT">>
        /\ consumer.todo[1] = "PIPELINE_FAILED" /\ consumer.todo[2] = "MERGE_CONFLICT"
    BY <1>3, TodoForms
  <2>2. consumer' = [consumer EXCEPT !.at = "gate", !.todo = Tail(consumer.todo), !.agent = "none"]
    BY <2>1 DEF Proceed
  <2>3. consumer'.at = "gate" /\ consumer'.todo = <<"MERGE_CONFLICT">>
        /\ consumer'.item = consumer.item
    BY <2>1, <2>2 DEF TypeOK
  <2>4. Len(consumer'.todo) = 1 /\ consumer'.todo[1] = "MERGE_CONFLICT"
    BY <2>3
  <2>5. \A t \in Trouble : Left(t)' <=> t = "MERGE_CONFLICT"
    BY <2>3, <2>4 DEF Left, Dispatching
  <2>6. \A t \in Trouble : Left(t)
    BY <2>1 DEF Left, Trouble
  <2>7. "PIPELINE_FAILED" \in Trouble
    BY DEF Trouble
  <2> QED BY <2>1, <2>3, <2>5, <2>6, <2>7 DEF Trouble
<1> QED BY <1>1, <1>2, <1>3

-----------------------------------------------------------------------------
(* The order of the statuses *)

\* What the poller makes of the pull request is a status.
LEMMA PolledIsStatus ==
    ASSUME pr \in PullRequest
    PROVE  /\ NoPrStatus \in Status
           /\ StatusOf(pr) \in Status
           /\ ConflictFlag(pr) \in {"unknown", "yes", "no"}
<1>1. NoPrStatus \in Status
  BY BoundsAreNumbers DEF NoPrStatus, Status
<1>2. ConflictFlag(pr) \in {"unknown", "yes", "no"}
  BY DEF ConflictFlag
<1>3. CASE pr.state = "none"
  BY <1>1, <1>2, <1>3 DEF StatusOf
<1>4. CASE pr.state = "open"
  BY <1>1, <1>2, <1>4 DEF StatusOf, Status, PullRequest
<1>5. CASE pr.state \notin {"none", "open"}
  BY <1>1, <1>2, <1>5 DEF StatusOf, Status, PullRequest, NoPrStatus
<1> QED BY <1>3, <1>4, <1>5

\* The pull request moves on, and what was seen of it stays behind it.
LEMMA GitHubMovesOn ==
    ASSUME pr \in PullRequest, pr.state # "open" => pr.pipeline = "unset" /\ ~pr.conflicting,
           GitHubNext
    PROVE  /\ pr'.state # "open" => pr'.pipeline = "unset" /\ ~pr'.conflicting
           /\ pr'.episode >= pr.episode
           /\ pr'.conflicting => \/ pr.conflicting /\ pr'.episode = pr.episode
                                 \/ pr'.episode > pr.episode
           /\ \A s \in Status : Behind(s, pr) => Behind(s, pr')
<1>1. pr.run \in Nat /\ pr.episode \in Nat
  BY BoundsAreNumbers DEF PullRequest
<1>2. \A s \in Status : s.run \in Nat /\ s.episode \in Nat
  BY BoundsAreNumbers DEF Status
<1>3. CASE Push
  <2>1. PICK c \in BOOLEAN :
          /\ c => pr.conflicting
          /\ pr' = [pr EXCEPT !.state = "open", !.pipeline = "running", !.run = @ + 1,
                              !.conflicting = c, !.computed = FALSE]
    BY <1>3 DEF Push
  <2>2. /\ pr'.state = "open" /\ pr'.pipeline = "running" /\ pr'.run = pr.run + 1
        /\ pr'.conflicting = c /\ pr'.episode = pr.episode
        /\ pr.state \in {"none", "open"}
    BY <1>3, <2>1 DEF Push, PullRequest
  <2>3. ASSUME NEW s \in Status, Behind(s, pr)
        PROVE  Behind(s, pr')
    BY <1>1, <1>2, <2>1, <2>2, <2>3 DEF Behind, Finished
  <2> QED BY <1>1, <2>1, <2>2, <2>3
<1>4. CASE RunEnds
  <2>1. /\ pr'.state = pr.state /\ pr'.run = pr.run /\ pr.pipeline = "running"
        /\ pr'.conflicting = pr.conflicting /\ pr'.episode = pr.episode
    BY <1>4 DEF RunEnds, PullRequest
  <2>2. ASSUME NEW s \in Status, Behind(s, pr)
        PROVE  Behind(s, pr')
    BY <1>1, <1>2, <2>1, <2>2 DEF Behind, Finished
  <2> QED BY <1>1, <2>1, <2>2
<1>5. CASE BaseMoves
  <2>1. /\ pr'.state = pr.state /\ pr'.run = pr.run /\ pr'.pipeline = pr.pipeline
        /\ pr'.conflicting /\ pr'.episode = pr.episode + 1 /\ pr.state = "open"
    BY <1>5 DEF BaseMoves, PullRequest
  <2>2. ASSUME NEW s \in Status, Behind(s, pr)
        PROVE  Behind(s, pr')
    BY <1>1, <1>2, <2>1, <2>2 DEF Behind, Finished
  <2> QED BY <1>1, <2>1, <2>2
<1>6. CASE ComputeMergeable
  <2>1. /\ pr'.state = pr.state /\ pr'.run = pr.run /\ pr'.pipeline = pr.pipeline
        /\ pr'.conflicting = pr.conflicting /\ pr'.episode = pr.episode
    BY <1>6 DEF ComputeMergeable, PullRequest
  <2>2. ASSUME NEW s \in Status, Behind(s, pr)
        PROVE  Behind(s, pr')
    BY <2>1, <2>2 DEF Behind, Finished
  <2> QED BY <1>1, <2>1, <2>2
<1>7. CASE Finish
  <2>1. /\ pr'.state \in {"merged", "closed"} /\ pr'.run = pr.run /\ pr'.pipeline = "unset"
        /\ ~pr'.conflicting /\ pr'.episode = pr.episode /\ pr.state = "open"
    BY <1>7 DEF Finish, PullRequest
  <2>2. ASSUME NEW s \in Status, Behind(s, pr)
        PROVE  Behind(s, pr')
    BY <1>1, <1>2, <2>1, <2>2 DEF Behind, Finished
  <2> QED BY <1>1, <2>1, <2>2
<1> QED BY <1>3, <1>4, <1>5, <1>6, <1>7 DEF GitHubNext

\* What is polled is the pull request as it is, or that it is not found.
LEMMA PolledInOrder ==
    ASSUME pr \in PullRequest, pr.state # "open" => pr.pipeline = "unset" /\ ~pr.conflicting,
           NEW new \in {StatusOf(pr), NoPrStatus}
    PROVE  /\ Plain(new) /\ Behind(new, pr)
           /\ new.conflicts = "yes" => pr.conflicting /\ new.episode = pr.episode
           /\ \A s \in Status : Behind(s, pr) => Before(s, new)
<1>1. pr.run \in Nat /\ pr.episode \in Nat
  BY BoundsAreNumbers DEF PullRequest
<1>2. \A s \in Status : s.run \in Nat /\ s.episode \in Nat
  BY BoundsAreNumbers DEF Status
<1>3. CASE new = NoPrStatus
  BY <1>3 DEF NoPrStatus, Plain, Behind, Before, Finished
<1>4. CASE new = StatusOf(pr) /\ pr.state = "open"
  <2>1. new = [state |-> "open", pipeline |-> pr.pipeline, id |-> NoPipelineId,
               conflicts |-> ConflictFlag(pr), run |-> pr.run, episode |-> pr.episode]
    BY <1>4 DEF StatusOf
  <2>2. /\ ConflictFlag(pr) = "yes" => pr.conflicting
        /\ ConflictFlag(pr) = "no" => ~pr.conflicting
    BY DEF ConflictFlag
  <2>3. Plain(new) /\ Behind(new, pr)
    BY <1>1, <1>4, <2>1, <2>2 DEF Plain, Behind, Finished
  <2>4. ASSUME NEW s \in Status, Behind(s, pr)
        PROVE  Before(s, new)
    BY <1>1, <1>2, <1>4, <2>1, <2>2, <2>4 DEF Behind, Before, Finished
  <2> QED BY <2>1, <2>2, <2>3, <2>4
<1>5. CASE new = StatusOf(pr) /\ pr.state \notin {"none", "open"}
  <2>1. new = [state |-> pr.state, pipeline |-> "unset", id |-> NoPipelineId,
               conflicts |-> "unknown", run |-> 0, episode |-> 0]
    BY <1>5 DEF StatusOf, NoPrStatus
  <2> QED BY <1>5, <2>1 DEF Plain, Behind, Before, Finished, PullRequest
<1>6. CASE new = StatusOf(pr) /\ pr.state = "none"
  BY <1>3, <1>6 DEF StatusOf
<1> QED BY <1>3, <1>4, <1>5, <1>6

\* The statuses that wait are statuses.
LEMMA WaitingAreStatuses ==
    ASSUME TypeOK
    PROVE  \A i \in 1 .. Len(queue) : queue[i] \in Status
  BY DEF TypeOK

\* What the coordinator goes by is a status, or none.
LEMMA ReachedIsStatus ==
    ASSUME IInv
    PROVE  Reached \in Status \cup {NoStatus}
  BY DEF IInv, TypeOK, Held, Reached, Memory

LEMMA GitHubKeepsOrder ==
    ASSUME IInv, InOrder, GitHubNext
    PROVE  InOrder'
<1>1. pr \in PullRequest /\ TypeOK
  BY DEF IInv, TypeOK
<1>2. UNCHANGED program
  BY DEF GitHubNext, Push, RunEnds, BaseMoves, ComputeMergeable, Finish
<1>3. Reached' = Reached /\ queue' = queue
  BY <1>2 DEF Reached, program
<1>4. \A s \in Status : Behind(s, pr) => Behind(s, pr')
  BY <1>1, GitHubMovesOn DEF InOrder
<1>5. \A i \in 1 .. Len(queue) : Plain(queue[i]) /\ Behind(queue[i], pr')
  BY <1>1, <1>4, WaitingAreStatuses DEF InOrder
<1>6. Reached # NoStatus => Behind(Reached, pr')
  <2>1. CASE Reached # NoStatus
    BY <2>1, <1>4, ReachedIsStatus DEF InOrder
  <2> QED BY <2>1
<1>7. pr'.state # "open" => pr'.pipeline = "unset" /\ ~pr'.conflicting
  BY <1>1, GitHubMovesOn DEF InOrder
<1> QED BY <1>3, <1>5, <1>6, <1>7 DEF InOrder

\* A status joins the others behind them.
LEMMA PollKeepsOrder ==
    ASSUME IInv, InOrder, Poll
    PROVE  /\ InOrder'
           /\ \A i \in 1 .. Len(queue') :
                 \/ i \in 1 .. Len(queue) /\ queue'[i] = queue[i]
                 \/ queue'[i].conflicts = "yes" =>
                       pr.conflicting /\ queue'[i].episode = pr.episode
<1>1. pr \in PullRequest /\ queue \in Seq(Status)
  BY DEF IInv, TypeOK
<1>2. PICK new \in {StatusOf(pr), NoPrStatus} : queue' = Append(queue, new)
  BY DEF Poll
<1>3. new \in Status
  BY <1>1, PolledIsStatus
<1>4. /\ Plain(new) /\ Behind(new, pr)
      /\ new.conflicts = "yes" => pr.conflicting /\ new.episode = pr.episode
      /\ \A s \in Status : Behind(s, pr) => Before(s, new)
  BY <1>1, PolledInOrder DEF InOrder
<1>5. Len(queue) \in Nat /\ Len(queue') = Len(queue) + 1
  BY <1>1, <1>2, <1>3, AppendProperties
<1>6. \A i \in 1 .. Len(queue') :
         \/ i \in 1 .. Len(queue) /\ queue'[i] = queue[i]
         \/ i = Len(queue) + 1 /\ queue'[i] = new
  BY <1>1, <1>2, <1>3, <1>5, AppendProperties
<1>7. UNCHANGED <<pr, mem, consumer>> /\ Reached' = Reached
  BY DEF Poll, Reached
<1>8. \A i \in 1 .. Len(queue) : queue[i] \in Status
  BY WaitingAreStatuses DEF IInv
<1>9. \A i \in 1 .. Len(queue') : Plain(queue'[i]) /\ Behind(queue'[i], pr)
  BY <1>4, <1>6 DEF InOrder
<1>10. ASSUME NEW i \in 1 .. Len(queue'), NEW j \in 1 .. Len(queue'), i < j
       PROVE  Before(queue'[i], queue'[j])
  <2>1. i \in 1 .. Len(queue) /\ queue'[i] = queue[i]
    BY <1>5, <1>6, <1>10
  <2>2. CASE j \in 1 .. Len(queue) /\ queue'[j] = queue[j]
    BY <1>10, <2>1, <2>2 DEF InOrder
  <2>3. CASE queue'[j] = new
    BY <1>4, <1>8, <2>1, <2>3 DEF InOrder
  <2> QED BY <1>6, <2>2, <2>3
<1>11. Reached # NoStatus => \A i \in 1 .. Len(queue') : Before(Reached, queue'[i])
  BY <1>4, <1>6, ReachedIsStatus DEF InOrder
<1>12. InOrder'
  BY <1>7, <1>9, <1>10, <1>11 DEF InOrder
<1> QED BY <1>4, <1>6, <1>12

\* The first status is taken, and the others move up.
LEMMA QueueMovesUp ==
    ASSUME TypeOK, queue # <<>>, queue' = Tail(queue)
    PROVE  /\ 1 \in 1 .. Len(queue) /\ Head(queue) = queue[1]
           /\ \A i \in 1 .. Len(queue') :
                 i + 1 \in 1 .. Len(queue) /\ 1 < i + 1 /\ queue'[i] = queue[i + 1]
<1>1. queue \in Seq(Status)
  BY DEF TypeOK
<1>2. Len(queue) \in Nat \ {0}
  BY <1>1, EmptySeq
<1>3. /\ Len(queue') = Len(queue) - 1
      /\ \A i \in 1 .. Len(queue') : queue'[i] = queue[i + 1]
  BY <1>1, HeadTailProperties
<1>4. Head(queue) = queue[1]
  BY <1>1, HeadTailProperties
<1> QED BY <1>2, <1>3, <1>4

\* A step that leaves the queue and the pull request as they are, and what the
\* coordinator goes by.
LEMMA OrderIsKept ==
    ASSUME InOrder, UNCHANGED <<pr, queue>>, Reached' = Reached
    PROVE  InOrder'
  BY DEF InOrder

\* The first status is taken, and may be what the coordinator now goes by.
LEMMA TakenInOrder ==
    ASSUME IInv, InOrder, UNCHANGED pr, queue # <<>>, queue' = Tail(queue),
           Reached' \in {Reached, Head(queue)}
    PROVE  InOrder'
<1>1. /\ 1 \in 1 .. Len(queue) /\ Head(queue) = queue[1]
      /\ \A i \in 1 .. Len(queue') :
            i + 1 \in 1 .. Len(queue) /\ 1 < i + 1 /\ queue'[i] = queue[i + 1]
  BY QueueMovesUp DEF IInv
<1>2. \A i \in 1 .. Len(queue') : Plain(queue'[i]) /\ Behind(queue'[i], pr)
  BY <1>1 DEF InOrder
<1>3. ASSUME NEW i \in 1 .. Len(queue'), NEW j \in 1 .. Len(queue'), i < j
      PROVE  Before(queue'[i], queue'[j])
  <2>1. i + 1 < j + 1
    BY <1>3
  <2> QED BY <1>1, <2>1 DEF InOrder
<1>4. Plain(Head(queue)) /\ Behind(Head(queue), pr)
  BY <1>1 DEF InOrder
<1>5. \A i \in 1 .. Len(queue') : Before(Head(queue), queue'[i])
  BY <1>1 DEF InOrder
<1>6. Reached # NoStatus => \A i \in 1 .. Len(queue') : Before(Reached, queue'[i])
  BY <1>1 DEF InOrder
<1>7. Reached' # NoStatus =>
         /\ Plain(Reached') /\ Behind(Reached', pr)
         /\ \A i \in 1 .. Len(queue') : Before(Reached', queue'[i])
  BY <1>4, <1>5, <1>6 DEF InOrder
<1> QED BY <1>2, <1>3, <1>7 DEF InOrder

-----------------------------------------------------------------------------
(* What handling a status comes to *)

\* The list is made of two, of which either may be empty.
LEMMA TodoIsJoined ==
    /\ <<"PIPELINE_FAILED">> \o <<"MERGE_CONFLICT">> = <<"PIPELINE_FAILED", "MERGE_CONFLICT">>
    /\ <<"PIPELINE_FAILED">> \o <<>> = <<"PIPELINE_FAILED">>
    /\ <<>> \o <<"MERGE_CONFLICT">> = <<"MERGE_CONFLICT">>
    /\ <<>> \o <<>> = <<>>
<1> DEFINE T == {"PIPELINE_FAILED", "MERGE_CONFLICT"}
<1>1. <<"PIPELINE_FAILED">> \in Seq(T) /\ <<"MERGE_CONFLICT">> \in Seq(T) /\ <<>> \in Seq(T)
  OBVIOUS
<1>2. DEFINE joined == <<"PIPELINE_FAILED">> \o <<"MERGE_CONFLICT">>
<1>3. /\ joined \in Seq(T) /\ Len(joined) = 2
      /\ joined[1] = "PIPELINE_FAILED" /\ joined[2] = "MERGE_CONFLICT"
  BY <1>1, ConcatProperties
<1> HIDE DEF joined
<1>4. joined = <<"PIPELINE_FAILED", "MERGE_CONFLICT">>
  BY <1>3
<1>5. /\ <<"PIPELINE_FAILED">> \o <<>> = <<"PIPELINE_FAILED">>
      /\ <<>> \o <<"MERGE_CONFLICT">> = <<"MERGE_CONFLICT">>
      /\ <<>> \o <<>> = <<>>
  BY <1>1, ConcatEmptySeq
<1> QED BY <1>4, <1>5 DEF joined

\* Nothing but that the pull request is lost, or the status is the last one,
\* and its troubles are left.
LEMMA HandledBecomesLast ==
    ASSUME NEW m \in Memory, NEW new \in Status, Handle(m, new)
    PROVE  \/ /\ LostPr(m.prev, new) /\ mem' = m /\ consumer' = IdleConsumer
              /\ dropped' = dropped
           \/ /\ ~LostPr(m.prev, new)
              /\ mem' = AfterStatus(m, new)
              /\ mem'.prev = new
              /\ mem'.conflictSent <=> m.conflictSent /\ new.conflicts # "no"
              /\ mem'.paused = m.paused
              /\ Left("PIPELINE_FAILED")' <=> Failed(m.prev, new)
              /\ Left("MERGE_CONFLICT")' <=> Conflicted(m.prev, new)
              /\ consumer'.at \in {"idle", "gate"}
              /\ consumer'.at = "gate" =>
                    /\ consumer'.item = new
                    /\ consumer'.todo \in {<<"PIPELINE_FAILED">>, <<"MERGE_CONFLICT">>,
                                           <<"PIPELINE_FAILED", "MERGE_CONFLICT">>}
<1> DEFINE todo == ToDispatch(m.prev, new)
           both == <<"PIPELINE_FAILED", "MERGE_CONFLICT">>
<1>1. CASE LostPr(m.prev, new)
  BY <1>1 DEF Handle
<1>2. CASE ~LostPr(m.prev, new)
  <2>1. /\ mem' = AfterStatus(m, new)
        /\ consumer' = IF todo = <<>> THEN IdleConsumer
                       ELSE [IdleConsumer EXCEPT !.at = "gate", !.item = new, !.todo = todo]
    BY <1>2 DEF Handle
  <2>2. /\ AfterStatus(m, new).prev = new
        /\ AfterStatus(m, new).conflictSent <=> m.conflictSent /\ new.conflicts # "no"
        /\ AfterStatus(m, new).paused = m.paused
    BY DEF AfterStatus, Memory, ConflictGone
  <2>3. /\ Failed(m.prev, new) /\ Conflicted(m.prev, new) => todo = both
        /\ Failed(m.prev, new) /\ ~Conflicted(m.prev, new) => todo = <<"PIPELINE_FAILED">>
        /\ ~Failed(m.prev, new) /\ Conflicted(m.prev, new) => todo = <<"MERGE_CONFLICT">>
        /\ ~Failed(m.prev, new) /\ ~Conflicted(m.prev, new) => todo = <<>>
    BY TodoIsJoined DEF ToDispatch
  <2>4. CASE todo = <<>>
    <3>1. consumer'.at = "idle" /\ \A t : ~Left(t)'
      BY <2>1, <2>4, IdleIsTyped DEF Left, Dispatching
    <3>2. ~Failed(m.prev, new) /\ ~Conflicted(m.prev, new)
      BY <2>3, <2>4
    <3> HIDE DEF todo
    <3> QED BY <1>2, <2>1, <2>2, <3>1, <3>2
  <2>5. CASE todo # <<>>
    <3>1. consumer'.at = "gate" /\ consumer'.item = new /\ consumer'.todo = todo
      BY <2>1, <2>5 DEF IdleConsumer
    <3>2. todo \in {<<"PIPELINE_FAILED">>, <<"MERGE_CONFLICT">>, both}
      BY <2>3, <2>5
    <3>3. \A t : Left(t)' <=> \E i \in 1 .. Len(todo) : todo[i] = t
      BY <3>1 DEF Left, Dispatching
    <3>4. Left("PIPELINE_FAILED")' <=> Failed(m.prev, new)
      BY <2>3, <2>5, <3>3
    <3>5. Left("MERGE_CONFLICT")' <=> Conflicted(m.prev, new)
      BY <2>3, <2>5, <3>3
    <3> HIDE DEF todo
    <3> QED BY <1>2, <2>1, <2>2, <3>1, <3>2, <3>4, <3>5
  <2> QED BY <2>4, <2>5
<1> QED BY <1>1, <1>2

-----------------------------------------------------------------------------
(* Where no prompt is given *)

\* Before there is a memory nothing was given, and before there is a status.
LEMMA NothingGivenYet ==
    ASSUME IInv, FailuresBehind, ConflictsBehind, mem = NoMemory \/ mem.prev = NoStatus
    PROVE  \A t \in Trouble, n \in Nat : ~Given(t, n)
  BY DEF FailuresBehind, ConflictsBehind, Trouble

\* A step of another thread: the consumer, the queue and the pull request stay
\* as they are, and the memory with what the consumer goes by.
LEMMA OthersKeepBehind ==
    ASSUME IInv, OInv, UNCHANGED <<pr, queue, consumer>>,
           \A t \in Trouble, n \in Nat : Given(t, n)' => Given(t, n),
           GivenOnce',
           \/ mem' = mem
           \/ /\ mem # NoMemory /\ mem' # NoMemory
              /\ mem'.prev = mem.prev /\ mem'.conflictSent = mem.conflictSent
           \/ mem = NoMemory /\ mem' # NoMemory /\ mem'.prev = NoStatus
    PROVE  OInv'
<1>1. CASE \/ mem' = mem
           \/ /\ mem # NoMemory /\ mem' # NoMemory
              /\ mem'.prev = mem.prev /\ mem'.conflictSent = mem.conflictSent
  <2>1. Reached' = Reached
    BY <1>1 DEF Reached
  <2>2. InOrder'
    BY <2>1, OrderIsKept DEF OInv
  <2>3. \A t : Left(t)' <=> Left(t)
    BY DEF Left, Dispatching
  <2>4. OfTheLast'
    <3>1. Dispatching => mem # NoMemory
      BY DEF IInv, Held, Dispatching
    <3> QED BY <1>1, <2>3, <3>1 DEF OInv, OfTheLast, Dispatching
  <2>5. FailuresBehind'
    BY <1>1, <2>3 DEF OInv, FailuresBehind, Trouble
  <2>6. ConflictsBehind'
    BY <1>1, <2>3 DEF OInv, ConflictsBehind, Trouble
  <2> QED BY <2>2, <2>4, <2>5, <2>6 DEF OInv
<1>2. CASE mem = NoMemory /\ mem' # NoMemory /\ mem'.prev = NoStatus
  <2>1. consumer.at \in {"idle", "insert"}
    BY <1>2 DEF IInv, Held, TypeOK
  <2>2. Reached' = Reached
    BY <1>2 DEF Reached
  <2>3. InOrder'
    BY <2>2, OrderIsKept DEF OInv
  <2>4. OfTheLast'
    BY <1>2, <2>1 DEF OfTheLast, Dispatching, Left
  <2>5. \A t \in Trouble, n \in Nat : ~Given(t, n)'
    BY <1>2, NothingGivenYet DEF OInv
  <2>6. FailuresBehind' /\ ConflictsBehind'
    BY <2>5 DEF FailuresBehind, ConflictsBehind, Trouble
  <2> QED BY <2>3, <2>4, <2>6 DEF OInv
<1> QED BY <1>1, <1>2

LEMMA GitHubKeepsBehind ==
    ASSUME IInv, OInv, GitHubNext
    PROVE  OInv'
<1>1. InOrder'
  BY GitHubKeepsOrder DEF OInv
<1>2. UNCHANGED <<queue, mem, consumer, worker, sent>>
  BY DEF GitHubNext, Push, RunEnds, BaseMoves, ComputeMergeable, Finish, program, history
<1>3. OfTheLast' /\ GivenOnce' /\ FailuresBehind'
  BY <1>2 DEF OInv, OfTheLast, Left, Dispatching, GivenOnce, OncePerTrouble, FailuresBehind, Given
<1>4. /\ pr.episode \in Nat /\ pr'.episode \in Nat /\ pr'.episode >= pr.episode
      /\ pr'.conflicting => \/ pr.conflicting /\ pr'.episode = pr.episode
                            \/ pr'.episode > pr.episode
  <2>1. IInv'
    BY GitHubKeeps
  <2>2. pr \in PullRequest /\ pr' \in PullRequest
    BY <2>1 DEF IInv, TypeOK
  <2>3. pr.episode \in Nat /\ pr'.episode \in Nat
    BY <2>2, BoundsAreNumbers DEF PullRequest
  <2> QED BY <2>2, <2>3, GitHubMovesOn DEF OInv, InOrder
<1>5. ConflictsBehind'
  <2>1. SUFFICES ASSUME NEW n \in Nat, Given("MERGE_CONFLICT", n)
        PROVE  /\ n <= pr'.episode
               /\ ~mem.conflictSent => (pr'.conflicting => pr'.episode > n)
    BY <1>2 DEF OInv, ConflictsBehind, Given, Left, Dispatching
  <2>2. n <= pr.episode /\ (~mem.conflictSent => (pr.conflicting => pr.episode > n))
    BY <2>1 DEF OInv, ConflictsBehind
  <2> QED BY <1>4, <2>2
<1> QED BY <1>1, <1>3, <1>5 DEF OInv

LEMMA PollKeepsBehind ==
    ASSUME IInv, OInv, Poll
    PROVE  OInv'
<1>1. InOrder'
  BY PollKeepsOrder DEF OInv
<1>2. UNCHANGED <<pr, mem, consumer, worker, sent>>
  BY DEF Poll, history
<1>3. OfTheLast' /\ GivenOnce' /\ FailuresBehind'
  BY <1>2 DEF OInv, OfTheLast, Left, Dispatching, GivenOnce, OncePerTrouble, FailuresBehind, Given
<1>4. ConflictsBehind'
  <2>1. SUFFICES ASSUME NEW n \in Nat, Given("MERGE_CONFLICT", n), ~mem.conflictSent,
                        NEW i \in 1 .. Len(queue'), queue'[i].conflicts = "yes"
        PROVE  queue'[i].episode > n
    BY <1>2 DEF OInv, ConflictsBehind, Given, Left, Dispatching
  <2>2. /\ \A j \in 1 .. Len(queue) : queue[j].conflicts = "yes" => queue[j].episode > n
        /\ pr.conflicting => pr.episode > n
    BY <2>1 DEF OInv, ConflictsBehind
  <2>3. \/ i \in 1 .. Len(queue) /\ queue'[i] = queue[i]
        \/ pr.conflicting /\ queue'[i].episode = pr.episode
    BY <2>1, PollKeepsOrder DEF OInv
  <2> QED BY <2>1, <2>2, <2>3
<1> QED BY <1>1, <1>3, <1>4 DEF OInv

\* A later process starts with nothing.
LEMMA RestartKeepsBehind ==
    ASSUME IInv, OInv, Restart
    PROVE  OInv'
<1>1. /\ queue' = <<>> /\ mem' = NoMemory /\ consumer' = IdleConsumer
      /\ worker' = NoDrive /\ sent' = <<>> /\ pr' = pr
  BY DEF Restart
<1>2. Len(queue') = 0 /\ Len(sent') = 0 /\ consumer'.at = "idle"
  BY <1>1, IdleIsTyped
<1>3. Reached' = NoStatus
  BY <1>1, <1>2 DEF Reached
<1>4. InOrder'
  BY <1>1, <1>2, <1>3 DEF OInv, InOrder
<1>5. OfTheLast'
  BY <1>2 DEF OfTheLast, Dispatching, Left
<1>6. \A t, n : ~Given(t, n)'
  BY <1>1, <1>2 DEF Given
<1>7. FailuresBehind' /\ ConflictsBehind'
  BY <1>6 DEF FailuresBehind, ConflictsBehind
<1>8. GivenOnce'
  BY <1>1, <1>2 DEF GivenOnce, OncePerTrouble
<1> QED BY <1>4, <1>5, <1>7, <1>8 DEF OInv

LEMMA InitIsBehind ==
    ASSUME Init
    PROVE  OInv
<1>1. /\ queue = <<>> /\ mem = NoMemory /\ consumer = IdleConsumer
      /\ worker = NoDrive /\ sent = <<>>
      /\ pr.pipeline = "unset" /\ ~pr.conflicting
  BY DEF Init, FreshProcess
<1>2. Len(queue) = 0 /\ Len(sent) = 0 /\ consumer.at = "idle"
  BY <1>1, IdleIsTyped
<1>3. Reached = NoStatus
  BY <1>1, <1>2 DEF Reached
<1>4. InOrder
  BY <1>1, <1>2, <1>3 DEF InOrder
<1>5. OfTheLast
  BY <1>2 DEF OfTheLast, Dispatching, Left
<1>6. \A t, n : ~Given(t, n)
  BY <1>1, <1>2 DEF Given
<1>7. FailuresBehind /\ ConflictsBehind
  BY <1>6 DEF FailuresBehind, ConflictsBehind
<1>8. GivenOnce
  BY <1>1, <1>2 DEF GivenOnce, OncePerTrouble
<1> QED BY <1>4, <1>5, <1>7, <1>8 DEF OInv

-----------------------------------------------------------------------------
(* The consumer takes a status *)

\* The thread holds a status that is not handled yet.
LEMMA ReadRowKeepsBehind ==
    ASSUME IInv, OInv, ReadRow
    PROVE  OInv'
<1>1. /\ consumer.at = "idle" /\ queue # <<>> /\ mem = NoMemory /\ queue' = Tail(queue)
      /\ UNCHANGED <<pr, mem, worker, sent>>
  BY DEF ReadRow, history
<1>2. consumer'.at = "insert" /\ consumer'.item = Head(queue)
  BY DEF ReadRow, IInv, TypeOK
<1>3. Reached' = Head(queue)
  BY <1>2 DEF Reached
<1>4. InOrder'
  BY <1>1, <1>3, TakenInOrder DEF OInv
<1>5. OfTheLast'
  BY <1>1, <1>2 DEF OfTheLast, Dispatching, Left
<1>6. \A t \in Trouble, n \in Nat : ~Given(t, n)'
  BY <1>1, NothingGivenYet DEF OInv, Given
<1>7. FailuresBehind' /\ ConflictsBehind' /\ GivenOnce'
  BY <1>1, <1>6 DEF FailuresBehind, ConflictsBehind, Trouble, OInv, GivenOnce, OncePerTrouble
<1> QED BY <1>4, <1>5, <1>7 DEF OInv

\* What is left after a status is one of its troubles.
LEMMA HandledIsOfTheLast ==
    ASSUME NEW m \in Memory, NEW new \in Status, Handle(m, new)
    PROVE  OfTheLast'
<1>1. CASE consumer' = IdleConsumer
  BY <1>1, IdleIsTyped DEF OfTheLast, Dispatching, Left
<1>2. CASE ~LostPr(m.prev, new)
  <2>1. /\ mem'.prev = new
        /\ Left("PIPELINE_FAILED")' <=> Failed(m.prev, new)
        /\ Left("MERGE_CONFLICT")' <=> Conflicted(m.prev, new)
        /\ consumer'.at \in {"idle", "gate"}
        /\ consumer'.at = "gate" =>
              /\ consumer'.item = new
              /\ consumer'.todo \in {<<"PIPELINE_FAILED">>, <<"MERGE_CONFLICT">>,
                                     <<"PIPELINE_FAILED", "MERGE_CONFLICT">>}
    BY <1>2, HandledBecomesLast
  <2>2. /\ Failed(m.prev, new) => new.pipeline = "failed"
        /\ Conflicted(m.prev, new) => new.conflicts = "yes"
    BY DEF Failed, Conflicted
  <2>3. \A t : Left(t)' => consumer'.item = new
    BY <2>1 DEF Left, Dispatching
  <2>4. Dispatching' => consumer'.at = "gate"
    BY <2>1 DEF Dispatching
  <2> QED BY <2>1, <2>2, <2>3, <2>4 DEF OfTheLast
<1> QED BY <1>1, <1>2, HandledBecomesLast

LEMMA InsertAndHandleKeepsBehind ==
    ASSUME IInv, OInv, InsertAndHandle
    PROVE  OInv'
<1> DEFINE m == Hydrated(consumer.read)
           new == consumer.item
<1>1. /\ consumer.at = "insert" /\ new \in Status /\ consumer.read \in BOOLEAN
      /\ Handle(m, new)
      /\ UNCHANGED <<pr, queue, worker, sent>>
  BY DEF InsertAndHandle, IInv, Held, TypeOK
<1>2. m \in Memory /\ m.prev = NoStatus
  <2>1. m \in Memory
    BY <1>1, HydratedIsMemory DEF IInv
  <2> QED BY <1>1, <2>1, FreshIsMemory DEF Hydrated, OInv, OfTheLast
<1> HIDE DEF m
<1>3. mem'.prev = new /\ consumer'.at \in {"idle", "gate"} /\ mem' \in Memory
  <2>1. ~LostPr(m.prev, new)
    BY <1>2 DEF LostPr
  <2> QED BY <1>1, <1>2, <2>1, HandledBecomesLast, AfterStatusIsMemory
<1>4. Reached' = Reached
  BY <1>1, <1>3, NoMarks DEF Reached
<1>5. InOrder'
  BY <1>1, <1>4, OrderIsKept DEF OInv
<1>6. OfTheLast'
  BY <1>1, <1>2, HandledIsOfTheLast
<1>7. \A t \in Trouble, n \in Nat : ~Given(t, n)'
  BY <1>1, NothingGivenYet DEF OInv, OfTheLast, Given
<1>8. FailuresBehind' /\ ConflictsBehind' /\ GivenOnce'
  BY <1>1, <1>7 DEF FailuresBehind, ConflictsBehind, Trouble, OInv, GivenOnce, OncePerTrouble
<1> QED BY <1>5, <1>6, <1>8 DEF OInv

\* A failed run that was prompted is behind a status that comes after it, and
\* a failure seen anew is another run's.
LEMMA FailuresStayBehind ==
    ASSUME NEW prev \in Status, NEW new \in Status, NEW n \in Nat,
           Plain(new), Before(prev, new), ~LostPr(prev, new),
           \/ Finished(prev)
           \/ prev.state = "open" /\ (prev.run > n \/ (prev.run = n /\ prev.pipeline = "failed"))
    PROVE  /\ \/ Finished(new)
              \/ new.state = "open" /\ (new.run > n \/ (new.run = n /\ new.pipeline = "failed"))
           /\ Failed(prev, new) => new.run > n
<1>1. prev.run \in Nat /\ new.run \in Nat /\ prev.id = new.id
  BY BoundsAreNumbers DEF Status
<1>2. new.state \in {"open", "merged", "closed"}
  BY NoMarks DEF LostPr, Finished, Status
<1>3. CASE new.state # "open"
  BY <1>2, <1>3 DEF Finished, Plain, Failed
<1>4. CASE new.state = "open"
  <2>1. /\ prev.state = "open" /\ prev.run <= new.run
        /\ prev.run = new.run /\ prev.pipeline = "failed" => new.pipeline = "failed"
    BY <1>4 DEF Before, Finished
  <2>2. prev.run > n \/ (prev.run = n /\ prev.pipeline = "failed")
    BY <2>1 DEF Finished
  <2>3. Failed(prev, new) => prev.pipeline # "failed"
    BY <1>1 DEF Failed
  <2> QED BY <1>1, <1>4, <2>1, <2>2, <2>3
<1> QED BY <1>3, <1>4

\* A resolved conflict that was prompted is behind every status that comes
\* after the one that says so.
LEMMA ResolvedIsBehind ==
    ASSUME NEW new \in Status, new.conflicts = "no", Plain(new),
           NEW n \in Nat, n <= new.episode,
           NEW later \in Status, Plain(later), Before(new, later), later.conflicts = "yes"
    PROVE  later.episode > n
<1>1. new.state = "open" /\ later.state = "open"
  BY DEF Plain
<1>2. new.episode <= later.episode /\ new.episode # later.episode
  BY <1>1 DEF Before
<1> QED BY <1>2, BoundsAreNumbers DEF Status

LEMMA HandleStatusKeepsBehind ==
    ASSUME IInv, OInv, HandleStatus
    PROVE  OInv'
<1> DEFINE new == Head(queue)
<1>1. /\ consumer.at = "idle" /\ mem \in Memory /\ mem # NoMemory /\ queue # <<>>
      /\ queue' = Tail(queue) /\ Handle(mem, new)
      /\ UNCHANGED <<pr, worker, sent>>
  BY DEF HandleStatus, IInv, TypeOK
<1>2. new \in Status /\ TypeOK
  BY <1>1, QueueIsTaken DEF IInv
<1>3. /\ 1 \in 1 .. Len(queue) /\ new = queue[1]
      /\ \A i \in 1 .. Len(queue') :
            i + 1 \in 1 .. Len(queue) /\ 1 < i + 1 /\ queue'[i] = queue[i + 1]
  BY <1>1, <1>2, QueueMovesUp
<1>4. Plain(new) /\ Behind(new, pr)
  BY <1>3 DEF OInv, InOrder
<1>5. /\ \A i \in 1 .. Len(queue') : queue'[i] \in Status
      /\ \A i \in 1 .. Len(queue') : Plain(queue'[i]) /\ Before(new, queue'[i])
  BY <1>2, <1>3, WaitingAreStatuses DEF OInv, InOrder
<1>6. OfTheLast'
  BY <1>1, <1>2, HandledIsOfTheLast
<1>7. Reached = mem.prev
  BY <1>1 DEF Reached
<1>8. GivenOnce' /\ \A t, n : Given(t, n)' <=> Given(t, n)
  BY <1>1 DEF OInv, GivenOnce, OncePerTrouble, Given
<1> HIDE DEF new
<1>9. CASE LostPr(mem.prev, new)
  <2>1. mem' = mem /\ consumer' = IdleConsumer
    BY <1>1, <1>2, <1>9, HandledBecomesLast
  <2>2. Reached' = Reached /\ \A t : ~Left(t)'
    BY <1>1, <2>1, IdleIsTyped DEF Reached, Left, Dispatching
  <2>3. InOrder'
    BY <1>1, <2>2, TakenInOrder DEF OInv
  <2>4. FailuresBehind'
    BY <1>8, <2>1, <2>2 DEF OInv, FailuresBehind
  <2>5. ConflictsBehind'
    BY <1>1, <1>3, <1>8, <2>1, <2>2 DEF OInv, ConflictsBehind
  <2> QED BY <1>6, <1>8, <2>3, <2>4, <2>5 DEF OInv
<1>10. CASE ~LostPr(mem.prev, new)
  <2>1. /\ mem' \in Memory /\ mem' # NoMemory
        /\ mem'.prev = new
        /\ mem'.conflictSent <=> mem.conflictSent /\ new.conflicts # "no"
        /\ Left("PIPELINE_FAILED")' <=> Failed(mem.prev, new)
        /\ Left("MERGE_CONFLICT")' <=> Conflicted(mem.prev, new)
        /\ consumer'.at \in {"idle", "gate"}
        /\ \A t : Left(t)' => consumer'.item = new
    <3>1. \A t : Left(t)' => consumer'.at \notin {"idle", "insert"}
      BY DEF Left, Dispatching
    <3> QED BY <1>1, <1>2, <1>10, <3>1, HandledBecomesLast, AfterStatusIsMemory, NoMarks
  <2>2. Reached' = new
    BY <2>1 DEF Reached
  <2>3. InOrder'
    BY <1>1, <2>2, TakenInOrder DEF OInv, new
  <2>4. mem.prev # NoStatus => mem.prev \in Status /\ Before(mem.prev, new)
    BY <1>1, <1>3, <1>7 DEF Memory, OInv, InOrder
  <2>5. FailuresBehind'
    <3>1. SUFFICES ASSUME NEW n \in Nat, Given("PIPELINE_FAILED", n)
          PROVE  /\ \/ Finished(new)
                    \/ /\ new.state = "open"
                       /\ new.run > n \/ (new.run = n /\ new.pipeline = "failed")
                 /\ Failed(mem.prev, new) => new.run > n
      BY <1>2, <1>8, <2>1, NoMarks DEF FailuresBehind
    <3> QED BY <1>2, <1>4, <1>10, <2>4, <3>1, FailuresStayBehind DEF OInv, FailuresBehind
  <2>6. ConflictsBehind'
    <3>1. SUFFICES ASSUME NEW n \in Nat, Given("MERGE_CONFLICT", n)
          PROVE  /\ n <= pr.episode
                 /\ Finished(new) \/ (new.state = "open" /\ n <= new.episode)
                 /\ ~mem'.conflictSent =>
                       /\ \A i \in 1 .. Len(queue') :
                             queue'[i].conflicts = "yes" => queue'[i].episode > n
                       /\ pr.conflicting => pr.episode > n
                       /\ Conflicted(mem.prev, new) => new.episode > n
      BY <1>1, <1>2, <1>8, <2>1, NoMarks DEF ConflictsBehind
    <3>2. /\ mem.prev \in Status /\ Before(mem.prev, new) /\ n <= pr.episode
          /\ Finished(mem.prev) \/ (mem.prev.state = "open" /\ n <= mem.prev.episode)
      BY <2>4, <3>1 DEF OInv, ConflictsBehind
    <3>3. mem.prev.episode \in Nat /\ new.episode \in Nat /\ pr.episode \in Nat
      BY <1>2, <3>2, BoundsAreNumbers DEF Status, TypeOK, PullRequest
    <3>4. new.state \in {"open", "merged", "closed"}
      BY <1>2, <1>10, <3>2, NoMarks DEF LostPr, Finished, Status
    <3>5. Finished(new) \/ (new.state = "open" /\ n <= new.episode)
      <4>1. CASE new.state = "open"
        BY <3>2, <3>3, <4>1 DEF Before, Finished
      <4> QED BY <3>4, <4>1 DEF Finished
    <3>6. ASSUME ~mem'.conflictSent
          PROVE  /\ \A i \in 1 .. Len(queue') :
                       queue'[i].conflicts = "yes" => queue'[i].episode > n
                 /\ pr.conflicting => pr.episode > n
                 /\ Conflicted(mem.prev, new) => new.episode > n
      <4>1. CASE new.conflicts = "no"
        <5>1. new.state = "open" /\ n <= new.episode
          BY <1>4, <3>5, <4>1 DEF Plain, Finished
        <5>2. pr.conflicting => pr.episode > n
          BY <1>4, <3>3, <4>1, <5>1 DEF Behind
        <5>3. ~Conflicted(mem.prev, new)
          BY <4>1 DEF Conflicted
        <5> QED BY <1>2, <1>4, <1>5, <4>1, <5>1, <5>2, <5>3, ResolvedIsBehind
      <4>2. CASE new.conflicts # "no"
        <5>1. ~mem.conflictSent
          BY <2>1, <3>6, <4>2
        <5>2. /\ \A i \in 1 .. Len(queue) : queue[i].conflicts = "yes" => queue[i].episode > n
              /\ pr.conflicting => pr.episode > n
          BY <3>1, <5>1 DEF OInv, ConflictsBehind
        <5> QED BY <1>3, <5>2 DEF Conflicted
      <4> QED BY <4>1, <4>2
    <3> QED BY <3>2, <3>5, <3>6
  <2> QED BY <1>6, <1>8, <2>3, <2>5, <2>6 DEF OInv
<1> QED BY <1>9, <1>10

-----------------------------------------------------------------------------
(* The consumer dispatches and delivers *)

\* What is dispatched is the trouble of an open pull request, with the number
\* that the last status gave.
LEMMA LeftIsOpen ==
    ASSUME IInv, OInv, Dispatching
    PROVE  /\ mem \in Memory /\ mem # NoMemory /\ mem.prev \in Status
           /\ consumer.item = mem.prev /\ Reached = mem.prev
           /\ Head(consumer.todo) \in Trouble /\ Left(Head(consumer.todo))
           /\ \A t \in Trouble : Left(t) => mem.prev.state = "open"
           /\ mem.prev.episode <= pr.episode \/ mem.prev.state # "open"
<1>1. /\ mem \in Memory /\ mem # NoMemory /\ consumer.item \in Status /\ TypeOK
      /\ consumer.item = mem.prev
      /\ consumer.todo \in {<<"PIPELINE_FAILED">>, <<"MERGE_CONFLICT">>,
                            <<"PIPELINE_FAILED", "MERGE_CONFLICT">>}
  BY DEF IInv, TypeOK, Held, OInv, OfTheLast, Dispatching
<1>2. Reached = mem.prev
  BY <1>1 DEF Reached, Dispatching
<1>3. Plain(mem.prev) /\ Behind(mem.prev, pr)
  BY <1>1, <1>2, NoMarks DEF OInv, InOrder
<1>4. Head(consumer.todo) \in Trouble /\ Left(Head(consumer.todo))
  <2>1. Head(consumer.todo) \in Trouble
    BY <1>1, TodoForms DEF Trouble
  <2>2. consumer.todo \in Seq(Trouble) /\ consumer.todo # <<>>
    BY DEF IInv, TypeOK, Held, Dispatching
  <2>3. 1 \in 1 .. Len(consumer.todo) /\ consumer.todo[1] = Head(consumer.todo)
    BY <2>2, EmptySeq, HeadTailProperties
  <2> QED BY <2>1, <2>3 DEF Left
<1>5. \A t \in Trouble : Left(t) => mem.prev.state = "open"
  BY <1>1, <1>3 DEF Trouble, OInv, OfTheLast, Plain
<1>6. mem.prev.episode <= pr.episode \/ mem.prev.state # "open"
  BY <1>3 DEF Behind
<1> QED BY <1>1, <1>2, <1>4, <1>5, <1>6

\* A step of the dispatch: no more is left than was, and if a prompt is given
\* it is the first of what was left, which is not left any more.
LEMMA DispatchKeepsBehind ==
    ASSUME IInv, OInv, Dispatching, UNCHANGED <<pr, queue>>,
           mem' # NoMemory, mem'.prev = mem.prev,
           mem.conflictSent => mem'.conflictSent,
           consumer'.at # "insert",
           Dispatching' => /\ consumer'.item = consumer.item
                           /\ consumer'.todo \in {<<"PIPELINE_FAILED">>, <<"MERGE_CONFLICT">>,
                                                  <<"PIPELINE_FAILED", "MERGE_CONFLICT">>},
           \A t \in Trouble : Left(t)' => Left(t),
           consumer'.at \in {"ensure", "deliver"} /\ Head(consumer'.todo) = "MERGE_CONFLICT"
              => ~mem'.conflictSent,
           GivenOnce',
           \A t \in Trouble, n \in Nat : Given(t, n)' =>
              \/ Given(t, n)
              \/ /\ t = Head(consumer.todo) /\ n = NumberOf(t) /\ ~Left(t)'
                 /\ t = "MERGE_CONFLICT" => mem'.conflictSent
    PROVE  OInv'
<1>1. /\ mem \in Memory /\ mem # NoMemory /\ mem.prev \in Status
      /\ consumer.item = mem.prev /\ Reached = mem.prev
      /\ Head(consumer.todo) \in Trouble /\ Left(Head(consumer.todo))
      /\ \A t \in Trouble : Left(t) => mem.prev.state = "open"
      /\ mem.prev.episode <= pr.episode \/ mem.prev.state # "open"
  BY LeftIsOpen
<1>2. Reached' = Reached
  BY <1>1 DEF Reached
<1>3. InOrder'
  BY <1>2, OrderIsKept DEF OInv
<1>4. \A t : Left(t)' => consumer'.item = consumer.item
  BY DEF Left
<1>5. OfTheLast'
  <2>1. /\ Left("PIPELINE_FAILED")' => consumer'.item.pipeline = "failed"
        /\ Left("MERGE_CONFLICT")' => consumer'.item.conflicts = "yes"
    BY <1>4 DEF OInv, OfTheLast, Trouble
  <2> QED BY <1>1, <2>1 DEF OfTheLast
<1>6. FailuresBehind'
  <2>1. SUFFICES ASSUME NEW n \in Nat, Given("PIPELINE_FAILED", n)'
        PROVE  /\ \/ Finished(mem.prev)
                  \/ /\ mem.prev.state = "open"
                     /\ mem.prev.run > n \/ (mem.prev.run = n /\ mem.prev.pipeline = "failed")
               /\ Left("PIPELINE_FAILED")' => consumer.item.run > n
    BY <1>1, <1>4, NoMarks DEF FailuresBehind
  <2>2. CASE Given("PIPELINE_FAILED", n)
    BY <2>2 DEF OInv, FailuresBehind, Trouble
  <2>3. CASE /\ Head(consumer.todo) = "PIPELINE_FAILED" /\ n = NumberOf("PIPELINE_FAILED")
             /\ ~Left("PIPELINE_FAILED")'
    <3>1. mem.prev.state = "open" /\ mem.prev.pipeline = "failed" /\ n = mem.prev.run
      BY <1>1, <2>3 DEF OInv, OfTheLast, NumberOf
    <3> QED BY <2>3, <3>1
  <2> QED BY <2>1, <2>2, <2>3 DEF Trouble
<1>7. ConflictsBehind'
  <2>1. SUFFICES ASSUME NEW n \in Nat, Given("MERGE_CONFLICT", n)'
        PROVE  /\ n <= pr.episode
               /\ Finished(mem.prev) \/ (mem.prev.state = "open" /\ n <= mem.prev.episode)
               /\ ~mem'.conflictSent =>
                     /\ \A i \in 1 .. Len(queue) :
                           queue[i].conflicts = "yes" => queue[i].episode > n
                     /\ pr.conflicting => pr.episode > n
                     /\ Left("MERGE_CONFLICT")' => consumer.item.episode > n
    BY <1>1, <1>4, NoMarks DEF ConflictsBehind
  <2>2. CASE Given("MERGE_CONFLICT", n)
    BY <2>2 DEF OInv, ConflictsBehind, Trouble
  <2>3. CASE /\ Head(consumer.todo) = "MERGE_CONFLICT" /\ n = NumberOf("MERGE_CONFLICT")
             /\ mem'.conflictSent
    <3>1. mem.prev.state = "open" /\ n = mem.prev.episode
      BY <1>1, <2>3 DEF NumberOf
    <3> QED BY <1>1, <2>3, <3>1
  <2> QED BY <2>1, <2>2, <2>3 DEF Trouble
<1> QED BY <1>3, <1>5, <1>6, <1>7 DEF OInv

\* What is left is given up, or was just given, and the memory keeps the last
\* status and the mark.
LEMMA GivenUpKeepsBehind ==
    ASSUME IInv, OInv, Dispatching, UNCHANGED <<pr, queue>>,
           mem' # NoMemory, mem'.prev = mem.prev,
           mem.conflictSent => mem'.conflictSent,
           consumer' = IdleConsumer \/ Proceed,
           GivenOnce',
           \A t \in Trouble, n \in Nat : Given(t, n)' =>
              \/ Given(t, n)
              \/ /\ t = Head(consumer.todo) /\ n = NumberOf(t)
                 /\ t = "MERGE_CONFLICT" => mem'.conflictSent
    PROVE  OInv'
<1>1. CASE consumer' = IdleConsumer
  <2>1. consumer'.at = "idle" /\ ~Dispatching' /\ \A t : ~Left(t)'
    BY <1>1, IdleIsTyped DEF Dispatching, Left
  <2> QED BY <2>1, DispatchKeepsBehind
<1>2. CASE Proceed
  <2>1. /\ consumer'.at \in {"idle", "gate"}
        /\ consumer'.at = "gate" =>
              /\ consumer'.item = consumer.item
              /\ consumer'.todo = <<"MERGE_CONFLICT">>
        /\ \A t \in Trouble : Left(t)' => Left(t) /\ t # Head(consumer.todo)
    BY <1>2, ProceedLeaves DEF IInv, OInv
  <2>2. Dispatching' => consumer'.at = "gate"
    BY <2>1 DEF Dispatching
  <2> QED BY <2>1, <2>2, DispatchKeepsBehind
<1> QED BY <1>1, <1>2

\* The thread goes on to the next section with what it has.
LEMMA GoingOnKeepsBehind ==
    ASSUME IInv, OInv, Dispatching, UNCHANGED <<pr, queue, sent, worker>>,
           mem' # NoMemory, mem'.prev = mem.prev, mem'.conflictSent = mem.conflictSent,
           consumer'.at \in {"ensure", "deliver"},
           consumer'.item = consumer.item, consumer'.todo = consumer.todo,
           Head(consumer.todo) = "MERGE_CONFLICT" => ~mem.conflictSent
    PROVE  OInv'
<1>1. Dispatching' /\ \A t : Left(t)' <=> Left(t)
  BY DEF Dispatching, Left
<1>2. GivenOnce' /\ \A t, n : Given(t, n)' <=> Given(t, n)
  BY DEF OInv, GivenOnce, OncePerTrouble, Given
<1>3. consumer.todo \in {<<"PIPELINE_FAILED">>, <<"MERGE_CONFLICT">>,
                         <<"PIPELINE_FAILED", "MERGE_CONFLICT">>}
  BY DEF OInv, OfTheLast
<1> QED BY <1>1, <1>2, <1>3, DispatchKeepsBehind

\* Nothing is given or given up in the meantime.
LEMMA NothingMoreGiven ==
    ASSUME OInv, UNCHANGED <<sent, worker>>
    PROVE  GivenOnce' /\ \A t, n : Given(t, n)' => Given(t, n)
  BY DEF OInv, GivenOnce, OncePerTrouble, Given

\* The prompt that is about to be given was not given yet.
LEMMA PromptIsFresh ==
    ASSUME IInv, OInv, consumer.at = "deliver"
    PROVE  ~Given(Head(consumer.todo), NumberOf(Head(consumer.todo)))
<1> DEFINE t == Head(consumer.todo)
<1>1. Dispatching /\ t \in Trouble /\ Left(t) /\ consumer.item \in Status
  BY LeftIsOpen DEF Dispatching
<1>2. consumer.item.run \in Nat /\ consumer.item.episode \in Nat
  BY <1>1, BoundsAreNumbers DEF Status
<1>3. CASE t = "PIPELINE_FAILED"
  <2>1. ~Given("PIPELINE_FAILED", consumer.item.run)
    BY <1>1, <1>2, <1>3 DEF OInv, FailuresBehind
  <2> QED BY <1>3, <2>1 DEF NumberOf
<1>4. CASE t = "MERGE_CONFLICT"
  <2>1. ~mem.conflictSent
    BY <1>4 DEF OInv, OfTheLast
  <2>2. ~Given("MERGE_CONFLICT", consumer.item.episode)
    BY <1>1, <1>2, <1>4, <2>1 DEF OInv, ConflictsBehind
  <2> QED BY <1>4, <2>2 DEF NumberOf
<1> QED BY <1>1, <1>3, <1>4 DEF Trouble

\* The prompts and one more that was not among them.
LEMMA OneMoreIsOnce ==
    ASSUME IInv, OncePerTrouble, NEW prompt \in [trouble : Trouble, number : Nat],
           sent' = Append(sent, prompt), \A i \in 1 .. Len(sent) : sent[i] # prompt
    PROVE  /\ OncePerTrouble'
           /\ \A i \in 1 .. Len(sent') :
                 sent'[i] = prompt \/ (i \in 1 .. Len(sent) /\ sent'[i] = sent[i])
<1>1. sent \in Seq([trouble : Trouble, number : Nat]) /\ Len(sent) \in Nat
  BY DEF IInv, TypeOK
<1>2. /\ Len(sent') = Len(sent) + 1
      /\ \A i \in 1 .. Len(sent) : sent'[i] = sent[i]
      /\ sent'[Len(sent) + 1] = prompt
  BY <1>1, AppendProperties
<1>3. \A i \in 1 .. Len(sent') : i \in 1 .. Len(sent) \/ i = Len(sent) + 1
  BY <1>1, <1>2
<1> QED BY <1>2, <1>3 DEF OncePerTrouble

LEMMA ConsumerKeepsBehind ==
    ASSUME IInv, OInv, ConsumerNext
    PROVE  OInv'
<1> DEFINE t == Head(consumer.todo)
<1>1. CASE HandleStatus \/ ReadRow \/ InsertAndHandle
  BY <1>1, HandleStatusKeepsBehind, ReadRowKeepsBehind, InsertAndHandleKeepsBehind
<1>2. ASSUME Dispatching
      PROVE  /\ mem \in Memory /\ mem # NoMemory
             /\ consumer = [at |-> consumer.at, item |-> consumer.item, read |-> consumer.read,
                            todo |-> consumer.todo, agent |-> consumer.agent]
  BY <1>2, LeftIsOpen DEF IInv, TypeOK
<1>3. CASE Dispatch
  <2>1. consumer.at = "gate" /\ Dispatching /\ UNCHANGED <<pr, queue, mem, sent, worker>>
    BY <1>3 DEF Dispatch, Dispatching
  <2>2. CASE Drop("skipped")
    BY <1>2, <2>1, <2>2, NothingMoreGiven, GivenUpKeepsBehind DEF Drop
  <2>3. ASSUME NEW kind \in {"chat", "terminal"}, ~Blocked(t),
               consumer' = [consumer EXCEPT !.at = "ensure", !.agent = kind]
        PROVE  OInv'
    <3>1. /\ consumer'.at = "ensure" /\ consumer'.item = consumer.item
          /\ consumer'.todo = consumer.todo
      BY <1>2, <2>1, <2>3
    <3>2. t = "MERGE_CONFLICT" => ~mem.conflictSent
      BY <2>3 DEF Blocked, AlreadySent
    <3> QED BY <1>2, <2>1, <3>1, <3>2, GoingOnKeepsBehind
  <2> QED BY <1>3, <2>2, <2>3 DEF Dispatch
<1>4. CASE AdoptTask \/ CreateTask
  <2>1. PICK u : mem' = [mem EXCEPT !.task = u]
    BY <1>4 DEF AdoptTask, CreateTask
  <2>2. /\ consumer.at = "ensure" /\ Dispatching /\ UNCHANGED <<pr, queue, sent, worker>>
        /\ consumer' = [consumer EXCEPT !.at = "deliver"]
    BY <1>4 DEF AdoptTask, CreateTask, Dispatching, history
  <2>3. mem' # NoMemory
    <3>1. IInv'
      BY <1>4, AdoptTaskKeeps, CreateTaskKeeps
    <3>2. consumer'.at = "deliver"
      BY <1>2, <2>2
    <3> QED BY <3>1, <3>2 DEF IInv, Held
  <2>4. mem'.prev = mem.prev /\ mem'.conflictSent = mem.conflictSent
    BY <1>2, <2>1, <2>2 DEF Memory
  <2>5. consumer'.at = "deliver" /\ consumer'.item = consumer.item /\ consumer'.todo = consumer.todo
    BY <1>2, <2>2
  <2>6. t = "MERGE_CONFLICT" => ~mem.conflictSent
    BY <2>2 DEF OInv, OfTheLast
  <2> QED BY <2>2, <2>3, <2>4, <2>5, <2>6, GoingOnKeepsBehind
<1>5. CASE CannotCreate
  <2>1. /\ Dispatching /\ UNCHANGED <<pr, queue, sent, worker>> /\ Proceed
        /\ mem' = [mem EXCEPT !.task = NoTask]
    BY <1>5 DEF CannotCreate, Dispatching, Drop
  <2>2. mem' # NoMemory /\ mem'.prev = mem.prev /\ mem'.conflictSent = mem.conflictSent
    BY <1>2, <2>1, TaskIsSet DEF Memory
  <2> QED BY <2>1, <2>2, NothingMoreGiven, GivenUpKeepsBehind
<1>6. CASE DeliverChat
  <2>1. /\ consumer.at = "deliver" /\ Dispatching /\ UNCHANGED <<pr, queue, worker>> /\ Proceed
        /\ \/ UNCHANGED <<mem, sent>>
           \/ /\ mem' = Booked(t)
              /\ \/ sent' = Append(sent, [trouble |-> t, number |-> NumberOf(t)])
                 \/ UNCHANGED sent
    BY <1>6 DEF DeliverChat, Dispatching, Drop
  <2>2. CASE UNCHANGED <<mem, sent>>
    BY <1>2, <2>1, <2>2, NothingMoreGiven, GivenUpKeepsBehind
  <2>3. CASE mem' = Booked(t)
    <3>1. /\ mem' # NoMemory /\ mem'.prev = mem.prev
          /\ mem.conflictSent => mem'.conflictSent
          /\ t = "MERGE_CONFLICT" => mem'.conflictSent
      <4>1. mem' \in Memory
        BY <2>1, <2>3, DeliveryIsGuarded, BookedIsMemory
      <4> QED BY <1>2, <2>1, <2>3, <4>1, NoMarks DEF Booked, Memory
    <3>2. CASE UNCHANGED sent
      BY <2>1, <3>1, <3>2, NothingMoreGiven, GivenUpKeepsBehind
    <3>3. CASE sent' = Append(sent, [trouble |-> t, number |-> NumberOf(t)])
      <4> DEFINE prompt == [trouble |-> t, number |-> NumberOf(t)]
      <4>1. t \in Trouble /\ NumberOf(t) \in Nat
        BY <2>1, DeliveryIsGuarded, BookedIsMemory
      <4>2. \A i \in 1 .. Len(sent) : sent[i] # prompt
        BY <2>1, PromptIsFresh DEF Given
      <4>3. /\ OncePerTrouble'
            /\ \A i \in 1 .. Len(sent') :
                  sent'[i] = prompt \/ (i \in 1 .. Len(sent) /\ sent'[i] = sent[i])
        BY <3>3, <4>1, <4>2, OneMoreIsOnce DEF OInv, GivenOnce
      <4>4. worker # NoDrive => prompt # [trouble |-> worker.trouble, number |-> worker.number]
        BY <2>1, PromptIsFresh DEF Given
      <4>5. GivenOnce'
        BY <2>1, <4>3, <4>4 DEF OInv, GivenOnce
      <4>6. \A s \in Trouble, n \in Nat :
               Given(s, n)' => Given(s, n) \/ (s = t /\ n = NumberOf(s))
        BY <2>1, <4>3 DEF Given
      <4> QED BY <2>1, <3>1, <4>5, <4>6, GivenUpKeepsBehind
    <3> QED BY <2>1, <2>3, <3>2, <3>3
  <2> QED BY <2>1, <2>2, <2>3
<1>7. CASE Coalesce
  <2>1. Dispatching /\ UNCHANGED <<pr, queue, mem, sent, worker>> /\ Proceed
    BY <1>7 DEF Coalesce, Dispatching, Drop
  <2> QED BY <1>2, <2>1, NothingMoreGiven, GivenUpKeepsBehind
<1>8. CASE StartDrive
  <2>1. /\ consumer.at = "deliver" /\ Dispatching /\ ~mem.driving
        /\ UNCHANGED <<pr, queue, sent>> /\ Proceed
        /\ worker' = [task |-> mem.task, trouble |-> t, number |-> NumberOf(t)]
        /\ mem' = [Booked(t) EXCEPT !.driving = TRUE]
    BY <1>8 DEF StartDrive, Dispatching, Drop
  <2>2. worker = NoDrive
    BY <1>2, <2>1 DEF IInv, GuardFollowsWorker
  <2>3. /\ mem' # NoMemory /\ mem'.prev = mem.prev
        /\ mem.conflictSent => mem'.conflictSent
        /\ t = "MERGE_CONFLICT" => mem'.conflictSent
    <3>1. Booked(t) \in Memory
      BY <2>1, DeliveryIsGuarded, BookedIsMemory
    <3>2. /\ mem' \in Memory /\ mem'.prev = Booked(t).prev
          /\ mem'.conflictSent = Booked(t).conflictSent
      BY <2>1, <3>1 DEF Memory
    <3> QED BY <1>2, <2>1, <3>1, <3>2, NoMarks DEF Booked, Memory
  <2>4. worker'.trouble = t /\ worker'.number = NumberOf(t)
    BY <2>1
  <2>5. GivenOnce'
    BY <2>1, <2>4, PromptIsFresh DEF OInv, GivenOnce, OncePerTrouble, Given
  <2>6. \A s \in Trouble, n \in Nat :
           Given(s, n)' => Given(s, n) \/ (s = t /\ n = NumberOf(s))
    BY <2>1, <2>4 DEF Given
  <2> QED BY <2>1, <2>3, <2>5, <2>6, GivenUpKeepsBehind
<1>9. CASE CannotStart
  <2>1. /\ Dispatching /\ UNCHANGED <<pr, queue, sent, worker>> /\ Proceed
        /\ mem' = [mem EXCEPT !.driving = FALSE]
    BY <1>9 DEF CannotStart, NotStarted, Dispatching, Drop
  <2>2. mem' # NoMemory /\ mem'.prev = mem.prev /\ mem'.conflictSent = mem.conflictSent
    <3>1. mem' \in Memory
      BY <1>2, <2>1 DEF Memory
    <3> QED BY <1>2, <2>1, <3>1, NoMarks DEF Memory
  <2> QED BY <2>1, <2>2, NothingMoreGiven, GivenUpKeepsBehind
<1>10. CASE HandlingRaises
  <2>1. Dispatching /\ UNCHANGED <<pr, queue, mem, sent, worker>> /\ consumer' = IdleConsumer
    BY <1>10 DEF HandlingRaises, Dispatching
  <2> QED BY <1>2, <2>1, NothingMoreGiven, GivenUpKeepsBehind
<1> QED BY <1>1, <1>3, <1>4, <1>5, <1>6, <1>7, <1>8, <1>9, <1>10 DEF ConsumerNext

-----------------------------------------------------------------------------
(* The other threads *)

\* What the worker was about to give it gives, or it never will.
LEMMA WorkerKeepsBehind ==
    ASSUME IInv, OInv, WorkerNext
    PROVE  OInv'
<1> DEFINE prompt == [trouble |-> worker.trouble, number |-> worker.number]
<1>1. /\ worker # NoDrive /\ worker' = NoDrive
      /\ mem' = [mem EXCEPT !.driving = FALSE]
      /\ UNCHANGED <<pr, queue, consumer>>
      /\ sent' = Append(sent, prompt) \/ sent' = sent
  BY DEF WorkerNext, DriveDelivers, DriveFails, history
<1>2. worker \in Drive /\ mem \in Memory /\ mem # NoMemory
  BY <1>1 DEF IInv, TypeOK, Held
<1>3. mem' # NoMemory /\ mem'.prev = mem.prev /\ mem'.conflictSent = mem.conflictSent
  <2>1. mem' \in Memory
    BY <1>1, <1>2 DEF Memory
  <2> QED BY <1>1, <1>2, <2>1, NoMarks DEF Memory
<1>4. GivenOnce' /\ \A t \in Trouble, n \in Nat : Given(t, n)' => Given(t, n)
  <2>1. CASE sent' = sent
    BY <1>1, <2>1 DEF OInv, GivenOnce, OncePerTrouble, Given
  <2>2. CASE sent' = Append(sent, prompt)
    <3>1. prompt \in [trouble : Trouble, number : Nat]
      BY <1>2 DEF Drive
    <3>2. /\ OncePerTrouble'
          /\ \A i \in 1 .. Len(sent') :
                sent'[i] = prompt \/ (i \in 1 .. Len(sent) /\ sent'[i] = sent[i])
      BY <1>1, <2>2, <3>1, OneMoreIsOnce DEF OInv, GivenOnce
    <3> QED BY <1>1, <3>2 DEF GivenOnce, Given
  <2> QED BY <1>1, <2>1, <2>2
<1> QED BY <1>1, <1>2, <1>3, <1>4, OthersKeepBehind

\* Requests and deletions do not touch what the consumer goes by.
LEMMA ClientKeepsBehind ==
    ASSUME IInv, OInv, (\E c \in Client : ClientNext(c)) \/ (\E t \in Task : Delete(t))
    PROVE  OInv'
<1>1. UNCHANGED <<pr, queue, consumer, sent, worker>>
  BY DEF ClientNext, Ask, AskInsert, SetPaused, PersistPaused, Delete, history
<1>2. \/ mem' = mem
      \/ /\ mem # NoMemory /\ mem' # NoMemory
         /\ mem'.prev = mem.prev /\ mem'.conflictSent = mem.conflictSent
      \/ mem = NoMemory /\ mem' # NoMemory /\ mem'.prev = NoStatus
  <2>1. CASE mem' = mem
    BY <2>1
  <2>2. ASSUME NEW c \in Client, AskInsert(c)
        PROVE  mem' = mem \/ (mem = NoMemory /\ mem' # NoMemory /\ mem'.prev = NoStatus)
    <3>1. client[c].read \in BOOLEAN
      BY DEF IInv, TypeOK
    <3> QED BY <2>2, <3>1, FreshIsMemory, NoMarks DEF AskInsert, Hydrated
  <2>3. ASSUME NEW c \in Client, SetPaused(c)
        PROVE  /\ mem # NoMemory /\ mem' # NoMemory
               /\ mem'.prev = mem.prev /\ mem'.conflictSent = mem.conflictSent
    <3>1. mem \in Memory /\ mem # NoMemory
      BY <2>3 DEF SetPaused, IInv, TypeOK, Held
    <3>2. mem' \in Memory
      BY <2>3, <3>1 DEF SetPaused, Memory
    <3> QED BY <2>3, <3>1, <3>2, NoMarks DEF SetPaused, Memory
  <2> QED BY <2>1, <2>2, <2>3 DEF ClientNext, Ask, PersistPaused, Delete
<1> QED BY <1>1, <1>2, NothingMoreGiven, OthersKeepBehind

-----------------------------------------------------------------------------
(* Every step *)

LEMMA StepKeepsBehind ==
    ASSUME IInv, OInv, [Next]_vars
    PROVE  OInv'
<1>1. CASE UNCHANGED vars
  <2>1. UNCHANGED <<pr, queue, consumer, mem, sent, worker>>
    BY <1>1 DEF vars, history
  <2> QED BY <2>1, NothingMoreGiven, OthersKeepBehind
<1> QED BY <1>1, GitHubKeepsBehind, PollKeepsBehind, ConsumerKeepsBehind, WorkerKeepsBehind,
           ClientKeepsBehind, RestartKeepsBehind DEF Next

\* What was given stays behind what is to come.
LEMMA AlwaysOInv == Spec => []OInv
<1>1. Init => OInv
  BY InitIsBehind
<1>2. IInv /\ OInv /\ [Next]_vars => OInv'
  BY StepKeepsBehind
<1> QED BY <1>1, <1>2, AlwaysIInv, PTL DEF Spec

\* No agent is given two prompts by one process for the same failed run or the
\* same conflict: once given, the run or the conflict is behind every status
\* that is still to come, or the mark for it is set.
THEOREM NeverToldTwice == Spec => []OncePerTrouble
<1>1. OInv => OncePerTrouble
  BY DEF OInv, GivenOnce
<1> QED BY <1>1, AlwaysOInv, PTL

-----------------------------------------------------------------------------
(* No conflict is lost *)

\* A conflict of the last status is marked as sent, or the attempt was given
\* up, or it is still to be dispatched.
Surfaced ==
    mem # NoMemory /\ mem.prev # NoStatus /\ mem.prev.conflicts = "yes" =>
        mem.conflictSent \/ dropped["MERGE_CONFLICT"] # "no" \/ Left("MERGE_CONFLICT")

\* A conflict that is seen is to be dispatched, or was there already and is
\* still marked as before.
LEMMA HandledSurfaces ==
    ASSUME NEW m \in Memory, NEW new \in Status, Handle(m, new),
           ~Left("MERGE_CONFLICT"), TypeOK,
           m.prev # NoStatus /\ m.prev.conflicts = "yes" =>
              m.conflictSent \/ dropped["MERGE_CONFLICT"] # "no"
    PROVE  Surfaced'
<1>1. CASE LostPr(m.prev, new)
  <2>1. mem' = m /\ dropped' = dropped
    BY <1>1 DEF Handle
  <2> QED BY <2>1 DEF Surfaced
<1>2. CASE ~LostPr(m.prev, new)
  <2>1. /\ mem'.prev = new
        /\ mem'.conflictSent <=> m.conflictSent /\ new.conflicts # "no"
        /\ Left("MERGE_CONFLICT")' <=> Conflicted(m.prev, new)
    BY <1>2, HandledBecomesLast
  <2>2. new.conflicts = "yes" => dropped'["MERGE_CONFLICT"] = dropped["MERGE_CONFLICT"]
    BY <1>2 DEF Handle, TypeOK, Trouble
  <2>3. SUFFICES ASSUME new.conflicts = "yes", ~Conflicted(m.prev, new)
        PROVE  mem'.conflictSent \/ dropped'["MERGE_CONFLICT"] # "no"
    BY <2>1 DEF Surfaced
  <2>4. m.conflictSent \/ dropped["MERGE_CONFLICT"] # "no"
    BY <2>3 DEF Conflicted
  <2> QED BY <2>1, <2>2, <2>3, <2>4
<1> QED BY <1>1, <1>2

\* The first transition is given up, or was given and is marked.
LEMMA DroppedSurfaces ==
    ASSUME IInv, OInv, Surfaced, Dispatching,
           NEW how \in {"no", "coalesced", "skipped"}, Drop(how),
           mem'.prev = mem.prev, mem.conflictSent => mem'.conflictSent,
           Head(consumer.todo) = "MERGE_CONFLICT" => how # "no" \/ mem'.conflictSent
    PROVE  Surfaced'
<1>1. mem # NoMemory /\ TypeOK /\ Head(consumer.todo) \in Trouble
  BY LeftIsOpen DEF IInv
<1>2. dropped' = [dropped EXCEPT ![Head(consumer.todo)] = how]
  BY DEF Drop
<1>3. Left("MERGE_CONFLICT") => Left("MERGE_CONFLICT")' \/ Head(consumer.todo) = "MERGE_CONFLICT"
  BY <1>1, ProceedLeaves DEF OInv, Drop, Trouble
<1>4. CASE Head(consumer.todo) = "MERGE_CONFLICT"
  <2>1. dropped'["MERGE_CONFLICT"] = how
    BY <1>1, <1>2, <1>4 DEF TypeOK
  <2> QED BY <1>4, <2>1 DEF Surfaced
<1>5. CASE Head(consumer.todo) # "MERGE_CONFLICT"
  <2>1. dropped'["MERGE_CONFLICT"] = dropped["MERGE_CONFLICT"]
    BY <1>1, <1>2, <1>5 DEF TypeOK, Trouble
  <2> QED BY <1>1, <1>3, <1>5, <2>1 DEF Surfaced
<1> QED BY <1>4, <1>5

\* A step that leaves what is left and what was given up as they are.
LEMMA SurfacedIsKept ==
    ASSUME IInv, Surfaced, UNCHANGED dropped, Left("MERGE_CONFLICT") => Left("MERGE_CONFLICT")',
           \/ mem' = mem
           \/ mem # NoMemory /\ mem'.prev = mem.prev /\ mem'.conflictSent = mem.conflictSent
           \/ mem' = NoMemory \/ mem'.prev = NoStatus
    PROVE  Surfaced'
  BY DEF Surfaced

LEMMA ConsumerSurfaces ==
    ASSUME IInv, OInv, Surfaced, ConsumerNext
    PROVE  Surfaced'
<1> DEFINE t == Head(consumer.todo)
<1>1. TypeOK
  BY DEF IInv
<1>2. ASSUME Dispatching
      PROVE  mem \in Memory /\ mem # NoMemory
  BY <1>2, LeftIsOpen
<1>3. CASE HandleStatus
  <2>1. /\ consumer.at = "idle" /\ mem # NoMemory /\ mem \in Memory /\ queue # <<>>
        /\ Handle(mem, Head(queue))
    BY <1>1, <1>3 DEF HandleStatus, TypeOK
  <2>2. ~Left("MERGE_CONFLICT") /\ Head(queue) \in Status
    BY <1>1, <2>1, IdleLeavesNothing, QueueIsTaken
  <2> QED BY <1>1, <2>1, <2>2, HandledSurfaces DEF Surfaced
<1>4. CASE ReadRow
  BY <1>4, IdleLeavesNothing, SurfacedIsKept DEF ReadRow, history
<1>5. CASE InsertAndHandle
  <2> DEFINE m == Hydrated(consumer.read)
  <2>1. consumer.at = "insert" /\ consumer.item \in Status /\ consumer.read \in BOOLEAN
    BY <1>5 DEF InsertAndHandle, IInv, Held, TypeOK
  <2>2. m \in Memory /\ m.prev = NoStatus /\ Handle(m, consumer.item)
    BY <1>1, <1>5, <2>1, HydratedIsMemory, FreshIsMemory
       DEF InsertAndHandle, Hydrated, OInv, OfTheLast
  <2>3. ~Left("MERGE_CONFLICT")
    BY <2>1, IdleLeavesNothing
  <2> HIDE DEF m
  <2> QED BY <1>1, <2>1, <2>2, <2>3, HandledSurfaces
<1>6. CASE Dispatch
  <2>1. Dispatching /\ UNCHANGED mem
    BY <1>6 DEF Dispatch, Dispatching
  <2>2. CASE Drop("skipped")
    BY <2>1, <2>2, DroppedSurfaces
  <2>3. ASSUME NEW kind, consumer' = [consumer EXCEPT !.at = "ensure", !.agent = kind],
               UNCHANGED dropped
        PROVE  Surfaced'
    <3>1. consumer'.at = "ensure" /\ consumer'.todo = consumer.todo
      BY <1>1, <2>3 DEF TypeOK
    <3>2. Left("MERGE_CONFLICT") => Left("MERGE_CONFLICT")'
      BY <3>1 DEF Left, Dispatching
    <3> QED BY <2>1, <2>3, <3>2, SurfacedIsKept
  <2> QED BY <1>6, <2>2, <2>3 DEF Dispatch
<1>7. CASE AdoptTask \/ CreateTask
  <2>1. PICK u : mem' = [mem EXCEPT !.task = u]
    BY <1>7 DEF AdoptTask, CreateTask
  <2>2. /\ consumer.at = "ensure" /\ Dispatching /\ UNCHANGED dropped
        /\ consumer' = [consumer EXCEPT !.at = "deliver"]
    BY <1>7 DEF AdoptTask, CreateTask, Dispatching, history
  <2>3. mem'.prev = mem.prev /\ mem'.conflictSent = mem.conflictSent
    BY <1>2, <2>1, <2>2 DEF Memory
  <2>4. consumer'.at = "deliver" /\ consumer'.todo = consumer.todo
    BY <1>1, <2>2 DEF TypeOK
  <2>5. Left("MERGE_CONFLICT") => Left("MERGE_CONFLICT")'
    BY <2>4 DEF Left, Dispatching
  <2> QED BY <1>2, <2>2, <2>3, <2>5, SurfacedIsKept
<1>8. CASE CannotCreate
  <2>1. Dispatching /\ Drop("skipped") /\ mem' = [mem EXCEPT !.task = NoTask]
    BY <1>8 DEF CannotCreate, Dispatching
  <2>2. mem'.prev = mem.prev /\ mem'.conflictSent = mem.conflictSent
    BY <1>2, <2>1 DEF Memory
  <2> QED BY <2>1, <2>2, DroppedSurfaces
<1>9. CASE DeliverChat
  <2>1. consumer.at = "deliver" /\ Dispatching
    BY <1>9 DEF DeliverChat, Dispatching
  <2>2. CASE Drop("skipped") /\ UNCHANGED mem
    BY <2>1, <2>2, DroppedSurfaces
  <2>3. CASE Drop("no") /\ mem' = Booked(t)
    <3>1. /\ mem'.prev = mem.prev
          /\ mem.conflictSent => mem'.conflictSent
          /\ t = "MERGE_CONFLICT" => mem'.conflictSent
      BY <1>2, <2>1, <2>3 DEF Booked, Memory
    <3> QED BY <2>1, <2>3, <3>1, DroppedSurfaces
  <2> QED BY <1>9, <2>2, <2>3 DEF DeliverChat
<1>10. CASE Coalesce
  <2>1. Dispatching /\ Drop("coalesced") /\ UNCHANGED mem
    BY <1>10 DEF Coalesce, Dispatching
  <2> QED BY <2>1, DroppedSurfaces
<1>11. CASE StartDrive
  <2>1. /\ consumer.at = "deliver" /\ Dispatching /\ Drop("no")
        /\ mem' = [Booked(t) EXCEPT !.driving = TRUE]
    BY <1>11 DEF StartDrive, Dispatching
  <2>2. Booked(t) \in Memory
    BY <2>1, DeliveryIsGuarded, BookedIsMemory
  <2>3. mem'.prev = Booked(t).prev /\ mem'.conflictSent = Booked(t).conflictSent
    BY <2>1, <2>2 DEF Memory
  <2>4. /\ mem'.prev = mem.prev
        /\ mem.conflictSent => mem'.conflictSent
        /\ t = "MERGE_CONFLICT" => mem'.conflictSent
    BY <1>2, <2>1, <2>3 DEF Booked, Memory
  <2> QED BY <2>1, <2>4, DroppedSurfaces
<1>12. CASE CannotStart
  <2>1. Dispatching /\ Drop("skipped") /\ mem' = [mem EXCEPT !.driving = FALSE]
    BY <1>12 DEF CannotStart, NotStarted, Dispatching
  <2>2. mem'.prev = mem.prev /\ mem'.conflictSent = mem.conflictSent
    BY <1>2, <2>1 DEF Memory
  <2> QED BY <2>1, <2>2, DroppedSurfaces
<1>13. CASE HandlingRaises
  <2>1. /\ Dispatching /\ UNCHANGED mem
        /\ dropped' = [u \in Trouble |->
              IF \E i \in 1 .. Len(consumer.todo) : consumer.todo[i] = u
              THEN "skipped" ELSE dropped[u]]
    BY <1>13 DEF HandlingRaises, Dispatching
  <2>2. /\ Left("MERGE_CONFLICT") => dropped'["MERGE_CONFLICT"] = "skipped"
        /\ ~Left("MERGE_CONFLICT") => dropped'["MERGE_CONFLICT"] = dropped["MERGE_CONFLICT"]
    BY <2>1 DEF Left, Trouble
  <2> QED BY <2>1, <2>2 DEF Surfaced
<1> QED BY <1>3, <1>4, <1>5, <1>6, <1>7, <1>8, <1>9, <1>10, <1>11, <1>12, <1>13 DEF ConsumerNext

LEMMA StepSurfaces ==
    ASSUME IInv, OInv, Surfaced, [Next]_vars
    PROVE  Surfaced'
<1>1. CASE GitHubNext \/ Poll \/ WorkerNext \/ (\E c \in Client : ClientNext(c))
           \/ (\E t \in Task : Delete(t)) \/ UNCHANGED vars
  <2>1. UNCHANGED <<consumer, dropped>>
    BY <1>1 DEF GitHubNext, Push, RunEnds, BaseMoves, ComputeMergeable, Finish, program, history,
                Poll, WorkerNext, DriveDelivers, DriveFails, ClientNext, Ask, AskInsert,
                SetPaused, PersistPaused, Delete, vars
  <2> DEFINE Kept ==
         \/ mem' = mem
         \/ mem # NoMemory /\ mem'.prev = mem.prev /\ mem'.conflictSent = mem.conflictSent
         \/ mem'.prev = NoStatus
  <2>2. Kept
    <3>1. CASE GitHubNext \/ Poll \/ (\E t \in Task : Delete(t)) \/ UNCHANGED vars
      BY <3>1 DEF GitHubNext, Push, RunEnds, BaseMoves, ComputeMergeable, Finish, program, Poll,
                  Delete, vars
    <3>2. CASE WorkerNext
      <4>1. mem' = [mem EXCEPT !.driving = FALSE] /\ mem \in Memory /\ mem # NoMemory
        BY <3>2 DEF WorkerNext, DriveDelivers, DriveFails, IInv, TypeOK, Held
      <4> QED BY <4>1 DEF Memory
    <3>3. ASSUME NEW c \in Client, ClientNext(c)
          PROVE  Kept
      <4>1. CASE Ask(c) \/ PersistPaused(c)
        BY <4>1 DEF Ask, PersistPaused
      <4>2. CASE AskInsert(c)
        <5>1. client[c].read \in BOOLEAN
          BY DEF IInv, TypeOK
        <5> QED BY <4>2, <5>1, FreshIsMemory DEF AskInsert, Hydrated
      <4>3. CASE SetPaused(c)
        <5>1. mem \in Memory /\ mem # NoMemory
          BY <4>3 DEF SetPaused, IInv, TypeOK, Held
        <5> QED BY <4>3, <5>1 DEF SetPaused, Memory
      <4> QED BY <3>3, <4>1, <4>2, <4>3 DEF ClientNext
    <3> QED BY <1>1, <3>1, <3>2, <3>3
  <2>3. Left("MERGE_CONFLICT") => Left("MERGE_CONFLICT")'
    BY <2>1 DEF Left, Dispatching
  <2> QED BY <2>1, <2>2, <2>3, SurfacedIsKept
<1>2. CASE ConsumerNext
  BY <1>2, ConsumerSurfaces
<1>3. CASE Restart
  BY <1>3 DEF Restart, Surfaced
<1> QED BY <1>1, <1>2, <1>3 DEF Next

\* A conflict that the coordinator has seen was prompted when the consumer has
\* nothing to do, unless the attempt was given up: whatever became of the
\* statuses in between, the mark for it and the last status go together.
THEOREM NoConflictIsLost == Spec => []ConflictSurfaces
<1>1. Init => Surfaced
  BY DEF Init, FreshProcess, Surfaced
<1>2. IInv /\ OInv /\ Surfaced /\ [Next]_vars => Surfaced'
  BY StepSurfaces
<1>3. Surfaced => ConflictSurfaces
  BY IdleLeavesNothing DEF Surfaced, ConflictSurfaces
<1> QED BY <1>1, <1>2, <1>3, AlwaysIInv, AlwaysOInv, PTL DEF Spec

-----------------------------------------------------------------------------
(* The user's choice *)

\* What was read of the row is what it still holds until there is a memory,
\* and then the two agree, or the request under way has the row still to write.
PauseAgrees ==
    /\ mem = NoMemory =>
          /\ consumer.at = "insert" => consumer.read = rowPaused
          /\ \A c \in Client : client[c].at = "insert" => client[c].read = rowPaused
    /\ mem # NoMemory =>
          \/ mem.paused = rowPaused /\ \A c \in Client : client[c].at # "persist"
          \/ \E c \in Client : client[c].at = "persist" /\ mem.paused = (client[c].want = "pause")

\* With no two pause requests at once, the memory and the row part only while
\* a request has written the one and not the other.
LEMMA StepAgrees ==
    ASSUME \A c, d \in Client : c = d, IInv, PauseAgrees, [Next]_vars
    PROVE  PauseAgrees'
<1>1. ASSUME UNCHANGED <<client, rowPaused>>,
             \/ mem' = NoMemory /\ mem = NoMemory
             \/ mem # NoMemory /\ mem' # NoMemory /\ mem'.paused = mem.paused
             \/ mem = NoMemory /\ mem' # NoMemory /\ mem'.paused = rowPaused,
             mem' = NoMemory /\ consumer'.at = "insert" => consumer'.read = rowPaused
      PROVE  PauseAgrees'
  <2>1. mem = NoMemory => \A c \in Client : client[c].at # "persist"
    BY DEF IInv, Held
  <2> QED BY <1>1, <2>1 DEF PauseAgrees
<1>2. CASE GitHubNext \/ Poll \/ (\E t \in Task : Delete(t)) \/ UNCHANGED vars
  BY <1>2 DEF PauseAgrees, GitHubNext, Push, RunEnds, BaseMoves, ComputeMergeable, Finish,
              program, Poll, Delete, vars
<1>3. CASE WorkerNext
  <2>1. /\ mem' = [mem EXCEPT !.driving = FALSE] /\ UNCHANGED <<client, consumer, rowPaused>>
        /\ mem \in Memory /\ mem # NoMemory
    BY <1>3 DEF WorkerNext, DriveDelivers, DriveFails, history, IInv, TypeOK, Held
  <2>2. mem' \in Memory /\ mem'.paused = mem.paused
    BY <2>1 DEF Memory
  <2> QED BY <1>1, <2>1, <2>2, NoMarks
<1>4. CASE ConsumerNext
  <2>1. UNCHANGED <<client, rowPaused>>
    BY <1>4 DEF ConsumerNext, HandleStatus, ReadRow, InsertAndHandle, Dispatch, AdoptTask,
                CreateTask, CannotCreate, DeliverChat, Coalesce, StartDrive, CannotStart,
                HandlingRaises
  <2>2. CASE ReadRow
    <3>1. mem' = NoMemory /\ mem = NoMemory /\ consumer'.read = rowPaused
      BY <2>2 DEF ReadRow, IInv, TypeOK
    <3> QED BY <1>1, <2>1, <3>1
  <2>3. ASSUME NEW m \in Memory, NEW new \in Status, Handle(m, new)
        PROVE  mem' # NoMemory /\ mem'.paused = m.paused
    BY <2>3, HandledBecomesLast, AfterStatusIsMemory, NoMarks
  <2>4. CASE HandleStatus
    <3>1. mem \in Memory /\ mem # NoMemory /\ Head(queue) \in Status /\ Handle(mem, Head(queue))
      BY <2>4, QueueIsTaken DEF HandleStatus, IInv, TypeOK
    <3> QED BY <1>1, <2>1, <2>3, <3>1
  <2>5. CASE InsertAndHandle
    <3> DEFINE m == Hydrated(consumer.read)
    <3>1. consumer.item \in Status /\ consumer.read \in BOOLEAN /\ consumer.at = "insert"
      BY <2>5 DEF InsertAndHandle, IInv, Held, TypeOK
    <3>2. m \in Memory /\ Handle(m, consumer.item)
      BY <2>5, <3>1, HydratedIsMemory DEF InsertAndHandle, IInv
    <3>3. /\ mem # NoMemory => m.paused = mem.paused
          /\ mem = NoMemory => m.paused = rowPaused
      BY <3>1 DEF Hydrated, FreshMemory, PauseAgrees
    <3> HIDE DEF m
    <3> QED BY <1>1, <2>1, <2>3, <3>1, <3>2, <3>3
  <2>6. CASE /\ consumer.at \in {"gate", "ensure", "deliver"}
             /\ ~HandleStatus /\ ~ReadRow /\ ~InsertAndHandle
    <3>1. mem \in Memory /\ mem # NoMemory
      BY <2>6 DEF IInv, Held, TypeOK
    <3>2. mem' \in Memory /\ mem'.paused = mem.paused
      <4>1. CASE Dispatch \/ Coalesce \/ HandlingRaises
        BY <3>1, <4>1 DEF Dispatch, Coalesce, HandlingRaises
      <4>2. ASSUME NEW u \in Task \cup {NoTask}, mem' = [mem EXCEPT !.task = u]
            PROVE  mem' \in Memory /\ mem'.paused = mem.paused
        BY <3>1, <4>2 DEF Memory
      <4>3. CASE AdoptTask
        <5>1. Existing \in Task \cup {NoTask}
          BY <3>1, ExistingIsTask DEF IInv
        <5> QED BY <4>2, <4>3, <5>1 DEF AdoptTask
      <4>4. CASE CreateTask \/ CannotCreate
        BY <4>2, <4>4 DEF CreateTask, CannotCreate
      <4>5. CASE consumer.at = "deliver"
        <5> DEFINE t == Head(consumer.todo)
        <5>1. Booked(t) \in Memory /\ Booked(t).paused = mem.paused
          BY <3>1, <4>5, DeliveryIsGuarded, BookedIsMemory DEF Booked, Memory
        <5>2. CASE DeliverChat
          BY <3>1, <5>1, <5>2 DEF DeliverChat
        <5>3. CASE StartDrive
          BY <5>1, <5>3 DEF StartDrive, Memory
        <5>4. CASE CannotStart
          BY <3>1, <5>4 DEF CannotStart, NotStarted, Memory
        <5> QED BY <1>4, <2>6, <4>1, <4>3, <4>4, <5>2, <5>3, <5>4 DEF ConsumerNext
      <4> QED BY <1>4, <2>6, <4>1, <4>3, <4>4, <4>5
         DEF ConsumerNext, DeliverChat, StartDrive, CannotStart
    <3> QED BY <1>1, <2>1, <3>1, <3>2, NoMarks
  <2> QED BY <1>4, <2>2, <2>4, <2>5, <2>6
     DEF ConsumerNext, Dispatch, AdoptTask, CreateTask, CannotCreate, DeliverChat, Coalesce,
         StartDrive, CannotStart, HandlingRaises
<1>5. ASSUME NEW c \in Client, Ask(c)
      PROVE  PauseAgrees'
  <2>1. UNCHANGED <<mem, consumer, rowPaused>> /\ client[c].at = "idle"
    BY <1>5 DEF Ask
  <2>2. \A d \in Client : d = c
    OBVIOUS
  <2>3. /\ mem = NoMemory => client'[c].read = rowPaused
        /\ client'[c].at # "persist"
    BY <1>5 DEF Ask, IInv, TypeOK
  <2>4. mem # NoMemory => mem.paused = rowPaused
    BY <2>1, <2>2 DEF PauseAgrees
  <2> QED BY <2>1, <2>2, <2>3, <2>4 DEF PauseAgrees
<1>6. ASSUME NEW c \in Client, AskInsert(c)
      PROVE  PauseAgrees'
  <2>1. client[c].at = "insert" /\ client[c].read \in BOOLEAN /\ UNCHANGED <<consumer, rowPaused>>
        /\ mem' = Hydrated(client[c].read)
    BY <1>6 DEF AskInsert, IInv, TypeOK
  <2>2. /\ mem' # NoMemory
        /\ mem # NoMemory => mem' = mem
        /\ mem = NoMemory => mem'.paused = rowPaused
    BY <2>1, FreshIsMemory, NoMarks DEF Hydrated, FreshMemory, PauseAgrees
  <2>3. \A d \in Client : d = c
    OBVIOUS
  <2>4. mem # NoMemory => mem.paused = rowPaused
    BY <2>1, <2>3 DEF PauseAgrees
  <2>5. client'[c].at \in {"idle", "set"}
    BY <1>6, IdleIsTyped DEF AskInsert, IInv, TypeOK
  <2> QED BY <2>1, <2>2, <2>3, <2>4, <2>5 DEF PauseAgrees
<1>7. ASSUME NEW c \in Client, SetPaused(c)
      PROVE  PauseAgrees'
  <2>1. /\ mem \in Memory /\ mem # NoMemory
        /\ mem' = [mem EXCEPT !.paused = client[c].want = "pause"]
        /\ client' = [client EXCEPT ![c].at = "persist"]
    BY <1>7 DEF SetPaused, IInv, TypeOK, Held
  <2>2. mem' \in Memory /\ mem'.paused = (client[c].want = "pause")
    BY <2>1 DEF Memory
  <2>3. client'[c].at = "persist" /\ client'[c].want = client[c].want
    BY <2>1 DEF IInv, TypeOK
  <2> QED BY <2>2, <2>3, NoMarks DEF PauseAgrees
<1>8. ASSUME NEW c \in Client, PersistPaused(c)
      PROVE  PauseAgrees'
  <2>1. /\ client[c].at = "persist" /\ mem # NoMemory /\ mem' = mem
        /\ rowPaused' = (client[c].want = "pause")
    BY <1>8 DEF PersistPaused, IInv, Held
  <2>2. \A d \in Client : d = c
    OBVIOUS
  <2>3. mem.paused = (client[c].want = "pause")
    BY <2>1, <2>2 DEF PauseAgrees
  <2>4. client'[c].at = "idle"
    BY <1>8, IdleIsTyped DEF PersistPaused, IInv, TypeOK
  <2> QED BY <2>1, <2>2, <2>3, <2>4 DEF PauseAgrees
<1>9. CASE Restart
  BY <1>9, IdleIsTyped DEF Restart, PauseAgrees
<1> QED BY <1>2, <1>3, <1>4, <1>5, <1>6, <1>7, <1>8, <1>9 DEF Next, ClientNext

\* Without two pause requests at once, what the coordinator goes by is what a
\* restart will read, whenever no request is under way: an insertion never
\* takes back what was set since the row was read.
THEOREM PauseSurvives ==
    ASSUME \A c, d \in Client : c = d
    PROVE  Spec => []PauseIsDurable
<1>1. Init => PauseAgrees
  BY IdleIsTyped DEF Init, FreshProcess, PauseAgrees
<1>2. IInv /\ PauseAgrees /\ [Next]_vars => PauseAgrees'
  BY StepAgrees
<1>3. PauseAgrees => PauseIsDurable
  BY DEF PauseAgrees, PauseIsDurable
<1> QED BY <1>1, <1>2, <1>3, AlwaysIInv, PTL DEF Spec
=============================================================================
