-------------------------- MODULE PrPolling_proofs --------------------------
(***************************************************************************)
(* What PR polling keeps true of one workspace for any number of workers,  *)
(* streams and branches, and any number of changes: TypeOK,                *)
(* PendingIsBacked, NeverAbandoned and OnlyForcedPollsAddUp.               *)
(***************************************************************************)
EXTENDS PrPolling, SequenceTheorems, FiniteSetTheorems, TLAPS

-----------------------------------------------------------------------------
(* The inductive invariant                                                 *)

Queued == jobs.due + jobs.later > 0

\* A worker whose result will be found stale by its generation.
Doomed(w) ==
    /\ worker[w].at \in {"fetching", "fetched", "cleared"}
    /\ ObjectOf(worker[w]).generation # worker[w].generation

\* The mark stands for a job that will be followed by another.
Backed ==
    pending => Queued \/ \E w \in Worker : worker[w].at \in HoldingAJob /\ ~Doomed(w)

\* Somebody who is not doomed has the workspace.
Served ==
    \/ Queued
    \/ \E w \in Worker : worker[w].at # "idle" /\ ~Doomed(w)
    \/ \E s \in Stream : stream[s].at = "enqueue"
    \/ matched
    \/ row.deleted

\* Whatever says that the workspace is deleted is right.
Told(item) == item.kind = "row" /\ item.row.deleted

Messages ==
    \A s \in Stream : \A i \in 1 .. Len(stream[s].inbox) :
        Told(stream[s].inbox[i]) => row.deleted

Deletions ==
    /\ state.deleted => row.deleted
    /\ \A w \in Worker :
          (worker[w].object # Latest /\ worker[w].object.deleted) => row.deleted
    /\ Messages

Counted == Jobs <= forced + (IF pending THEN 1 ELSE 0)

IInv == TypeOK /\ Backed /\ Served /\ Deletions /\ Counted

-----------------------------------------------------------------------------
(* The types of what the actions compute                                   *)

\* The bounds are numbers.
LEMMA BoundsAreNumbers == MaxChanges \in Nat /\ MaxLinks \in Nat /\ MaxFailures \in Nat
  BY PollingAssumption DEF PollingAssumption

\* The records a thread starts from.
LEMMA ConstantRecords ==
    /\ NoPr \in Status
    /\ Failure("error") \in Status /\ Failure("rate_limited") \in Status
    /\ IdleWorker \in WorkerRecord
    /\ IdleRound \in RoundRecord
    /\ ClosedStream \in StreamRecord
<1>1. NoPr \in Status
  BY DEF NoPr, Status
<1>2. Failure("error") \in Status /\ Failure("rate_limited") \in Status
  BY DEF Failure, NoPr, Status
<1>3. IdleWorker \in WorkerRecord
  BY PollingAssumption DEF PollingAssumption, IdleWorker, WorkerRecord, WorkerPlace
<1>4. IdleRound \in RoundRecord
  BY PollingAssumption DEF PollingAssumption, IdleRound, RoundRecord
<1>5. ClosedStream \in StreamRecord
  <2>1. <<>> \in Seq(Item)
    OBVIOUS
  <2> QED BY <2>1 DEF ClosedStream, StreamRecord
<1> QED BY <1>1, <1>2, <1>3, <1>4, <1>5

\* What GitHub says of a branch is a status.
LEMMA StatusForIsStatus ==
    ASSUME TypeOK, NEW branch \in Branch, NEW target \in Branch
    PROVE  StatusFor(branch, target) \in Status
<1>1. request[branch] \in {"none", "open", "merged"}
  BY DEF TypeOK
<1>2. CASE request[branch] = "none"
  BY <1>2, ConstantRecords DEF StatusFor
<1>3. CASE request[branch] # "none" /\ target = Base
  BY <1>1, <1>3 DEF StatusFor, Status
<1>4. CASE request[branch] = "open" /\ target # Base
  BY <1>4 DEF StatusFor, Status
<1>5. CASE request[branch] = "merged" /\ target # Base
  BY <1>5, ConstantRecords DEF StatusFor
<1> QED BY <1>1, <1>2, <1>3, <1>4, <1>5

\* A new object is one of generation zero.
LEMMA PollStateOfIsPollState ==
    ASSUME TypeOK, NEW r \in Row
    PROVE  /\ PollStateOf(r) \in PollState
           /\ PollStateOf(r).deleted = r.deleted
  BY DEF TypeOK, PollStateOf, PollState, Row

\* _resolve_working_dir leaves the generation, and marks as deleted only what is.
LEMMA ResolvedIsPollState ==
    ASSUME TypeOK, NEW object \in PollState
    PROVE  /\ Resolved(object) \in PollState
           /\ Resolved(object).generation = object.generation
           /\ Resolved(object).deleted => object.deleted \/ row.deleted
<1>1. row.target \in Branch
  BY DEF TypeOK, Row
<1>2. CASE object.dir
  BY <1>2 DEF Resolved
<1>3. CASE ~object.dir /\ row.deleted
  BY <1>3 DEF Resolved, PollState
<1>4. CASE ~object.dir /\ ~row.deleted /\ cloned
  <2>1. Resolved(object) = [object EXCEPT !.dir = TRUE, !.target = row.target]
    BY <1>4 DEF Resolved
  <2> QED BY <1>1, <2>1 DEF PollState
<1>5. CASE ~object.dir /\ ~row.deleted /\ ~cloned
  BY <1>5 DEF Resolved
<1> QED BY <1>2, <1>3, <1>4, <1>5

\* The object a worker holds.
LEMMA ObjectIsPollState ==
    ASSUME TypeOK, NEW w \in Worker
    PROVE  ObjectOf(worker[w]) \in PollState
  BY DEF TypeOK, ObjectOf, WorkerRecord

\* A worker that has no job any more.
LEMMA AtIsWorker ==
    ASSUME NEW place \in WorkerPlace, NEW result \in Status \cup {NotReady, Deferred},
           place = "emit" => result \in Status
    PROVE  /\ At(place, result) \in WorkerRecord
           /\ At(place, result).at = place
           /\ At(place, result).object = Latest
  BY PollingAssumption DEF PollingAssumption, At, WorkerRecord

\* Where a worker goes with its result, it has no job any more.
LEMMA KeptIsWorker ==
    ASSUME TypeOK, NEW result \in Status \cup {NotReady, Deferred}
    PROVE  /\ Kept(result) \in WorkerRecord
           /\ Kept(result).at \in {"requeue", "check", "emit"}
           /\ Kept(result).object = Latest
<1>1. {"requeue", "check", "emit"} \subseteq WorkerPlace
  BY DEF WorkerPlace
<1>2. CASE result \in {NotReady, Deferred}
  BY <1>1, <1>2, AtIsWorker DEF Kept
<1>3. CASE result \notin {NotReady, Deferred} /\ IsBlip(result)
  BY <1>1, <1>3, AtIsWorker DEF Kept
<1>4. CASE result \notin {NotReady, Deferred} /\ ~IsBlip(result)
  BY <1>1, <1>4, AtIsWorker DEF Kept
<1> QED BY <1>2, <1>3, <1>4

-----------------------------------------------------------------------------
(* Workers and their jobs                                                  *)

\* The workers that hold a job can be counted.
LEMMA HoldersAreFinite == IsFiniteSet(Holders) /\ Cardinality(Holders) \in Nat
<1>1. IsFiniteSet(Worker) /\ Holders \subseteq Worker
  BY PollingAssumption DEF PollingAssumption, Holders
<1> QED BY <1>1, FS_Subset, FS_CardinalityType

\* How many workers hold a job after one of them moved.
LEMMA OneWorkerMoves ==
    ASSUME TypeOK, NEW w \in Worker, NEW r \in WorkerRecord,
           worker' = [worker EXCEPT ![w] = r]
    PROVE  /\ worker' \in [Worker -> WorkerRecord]
           /\ worker'[w] = r
           /\ \A u \in Worker \ {w} : worker'[u] = worker[u]
           /\ worker[w].at \in HoldingAJob /\ r.at \in HoldingAJob =>
                 Cardinality(Holders') = Cardinality(Holders)
           /\ worker[w].at \notin HoldingAJob /\ r.at \notin HoldingAJob =>
                 Cardinality(Holders') = Cardinality(Holders)
           /\ worker[w].at \notin HoldingAJob /\ r.at \in HoldingAJob =>
                 Cardinality(Holders') = Cardinality(Holders) + 1
           /\ worker[w].at \in HoldingAJob /\ r.at \notin HoldingAJob =>
                 Cardinality(Holders') = Cardinality(Holders) - 1
<1>1. worker \in [Worker -> WorkerRecord]
  BY DEF TypeOK
<1>2. /\ worker' \in [Worker -> WorkerRecord]
      /\ worker'[w] = r
      /\ \A u \in Worker \ {w} : worker'[u] = worker[u]
  BY <1>1
<1>3. CASE worker[w].at \in HoldingAJob <=> r.at \in HoldingAJob
  <2>1. Holders' = Holders
    BY <1>2, <1>3 DEF Holders
  <2> QED BY <1>2, <1>3, <2>1
<1>4. CASE worker[w].at \notin HoldingAJob /\ r.at \in HoldingAJob
  <2>1. Holders' = Holders \cup {w} /\ w \notin Holders
    BY <1>2, <1>4 DEF Holders
  <2> QED BY <1>2, <1>4, <2>1, HoldersAreFinite, FS_AddElement
<1>5. CASE worker[w].at \in HoldingAJob /\ r.at \notin HoldingAJob
  <2>1. Holders' = Holders \ {w} /\ w \in Holders
    BY <1>2, <1>5 DEF Holders
  <2> QED BY <1>2, <1>5, <2>1, HoldersAreFinite, FS_RemoveElement
<1> QED BY <1>3, <1>4, <1>5

\* A worker that did not move is as doomed as before.
LEMMA DoomStays ==
    ASSUME TypeOK, state'.generation = state.generation,
           NEW u \in Worker, worker'[u] = worker[u]
    PROVE  Doomed(u)' <=> Doomed(u)
<1>1. CASE worker[u].object = Latest
  BY <1>1 DEF Doomed, ObjectOf
<1>2. CASE worker[u].object # Latest
  BY <1>2 DEF Doomed, ObjectOf
<1> QED BY <1>1, <1>2

\* The marks and jobs after an _enqueue.
LEMMA EnqueueLaterPuts ==
    ASSUME TypeOK, EnqueueLater
    PROVE  /\ jobs' \in [due : Nat, later : Nat]
           /\ pending' = TRUE
           /\ pending => jobs' = jobs
           /\ ~pending => jobs'.due + jobs'.later = jobs.due + jobs.later + 1
<1>1. jobs \in [due : Nat, later : Nat] /\ pending \in BOOLEAN
  BY DEF TypeOK
<1> QED BY <1>1 DEF EnqueueLater

\* The other _enqueue may also wake a worker, which holds on to its job.
LEMMA EnqueueNowPuts ==
    ASSUME TypeOK, EnqueueNow
    PROVE  /\ jobs' \in [due : Nat, later : Nat]
           /\ pending' = TRUE
           /\ worker' \in [Worker -> WorkerRecord]
           /\ pending => jobs' = jobs /\ worker' = worker
           /\ ~pending => jobs'.due + jobs'.later = jobs.due + jobs.later + 1
           /\ Holders' = Holders
           /\ \A w \in Worker : /\ worker'[w].object = worker[w].object
                               /\ \/ worker'[w] = worker[w]
                                  \/ worker[w].at = "asleep" /\ worker'[w].at = "woken"
<1>1. jobs \in [due : Nat, later : Nat] /\ pending \in BOOLEAN
      /\ worker \in [Worker -> WorkerRecord]
  BY DEF TypeOK
<1>2. CASE worker' = worker
  BY <1>1, <1>2 DEF EnqueueNow, Holders
<1>3. CASE ~pending /\ worker' # worker
  <2>1. PICK w \in Worker : /\ worker[w].at = "asleep"
                            /\ worker' = [worker EXCEPT ![w].at = "woken"]
    BY <1>3 DEF EnqueueNow
  <2>2. worker' \in [Worker -> WorkerRecord]
    <3>1. \A r \in WorkerRecord : [r EXCEPT !.at = "woken"] \in WorkerRecord
      BY DEF WorkerRecord, WorkerPlace
    <3>2. worker' = [worker EXCEPT ![w] = [worker[w] EXCEPT !.at = "woken"]]
      BY <1>1, <2>1
    <3> QED BY <1>1, <3>1, <3>2
  <2>3. \A u \in Worker : /\ worker'[u].object = worker[u].object
                          /\ \/ worker'[u] = worker[u]
                             \/ worker[u].at = "asleep" /\ worker'[u].at = "woken"
    BY <1>1, <2>1 DEF WorkerRecord
  <2>4. \A u \in Worker : worker'[u].at \in HoldingAJob <=> worker[u].at \in HoldingAJob
    BY <1>1, <2>1 DEF WorkerRecord, HoldingAJob
  <2>5. Holders' = Holders
    BY <2>4 DEF Holders
  <2> QED BY <1>1, <1>3, <2>2, <2>3, <2>5 DEF EnqueueNow
<1> QED BY <1>1, <1>2, <1>3 DEF EnqueueNow

\* An _enqueue leaves the workspace served, by a job or by a worker with one.
LEMMA EnqueueNowServes ==
    ASSUME IInv, EnqueueNow, state' = state, forced' = forced
    PROVE  Backed' /\ Served' /\ Counted'
<1>1. TypeOK
  BY DEF IInv
<1>2. Backed'
  <2>1. CASE ~pending
    <3>1. jobs'.due + jobs'.later = jobs.due + jobs.later + 1
      BY <1>1, <2>1, EnqueueNowPuts
    <3>2. jobs.due \in Nat /\ jobs.later \in Nat
      BY <1>1 DEF TypeOK
    <3>3. Queued'
      BY <3>1, <3>2 DEF Queued
    <3> QED BY <3>3 DEF Backed
  <2>2. CASE pending /\ Queued
    <3>1. Queued'
      BY <1>1, <2>2, EnqueueNowPuts DEF Queued
    <3> QED BY <3>1 DEF Backed
  <2>3. CASE pending /\ ~Queued
    <3>1. PICK w \in Worker : worker[w].at \in HoldingAJob /\ ~Doomed(w)
      BY <2>3 DEF IInv, Backed
    <3>2. worker' = worker
      BY <1>1, <2>3, EnqueueNowPuts
    <3>3. worker'[w].at \in HoldingAJob /\ ~Doomed(w)'
      BY <1>1, <3>1, <3>2, DoomStays
    <3> QED BY <3>3 DEF Backed
  <2> QED BY <2>1, <2>2, <2>3
<1>3. Served'
  <2>1. pending'
    BY <1>1, EnqueueNowPuts
  <2>2. CASE Queued'
    BY <2>2 DEF Served
  <2>3. CASE \E w \in Worker : worker'[w].at \in HoldingAJob /\ ~Doomed(w)'
    BY <2>3 DEF Served, HoldingAJob
  <2> QED BY <1>2, <2>1, <2>2, <2>3 DEF Backed
<1>4. Counted'
  <2>1. Counted /\ Cardinality(Holders) \in Nat
    BY HoldersAreFinite DEF IInv
  <2>2. jobs \in [due : Nat, later : Nat] /\ forced \in Nat /\ pending \in BOOLEAN
    BY <1>1 DEF TypeOK
  <2>3. Holders' = Holders /\ pending' = TRUE
    BY <1>1, EnqueueNowPuts
  <2>4. Jobs' = jobs'.due + jobs'.later + Cardinality(Holders)
    BY <2>3 DEF Jobs
  <2>5. CASE pending
    <3>1. jobs' = jobs
      BY <1>1, <2>5, EnqueueNowPuts
    <3>2. Jobs' = Jobs
      BY <2>4, <3>1 DEF Jobs
    <3> QED BY <2>1, <2>3, <2>5, <3>2 DEF Counted
  <2>6. CASE ~pending
    <3>1. /\ jobs'.due + jobs'.later = jobs.due + jobs.later + 1
          /\ jobs' \in [due : Nat, later : Nat]
      BY <1>1, <2>6, EnqueueNowPuts
    <3>2. Jobs' = Jobs + 1
      BY <2>1, <2>2, <2>4, <3>1 DEF Jobs
    <3>3. Jobs \in Nat
      BY <2>1, <2>2 DEF Jobs
    <3> QED BY <2>1, <2>2, <2>3, <2>6, <3>2, <3>3 DEF Counted
  <2> QED BY <2>2, <2>5, <2>6
<1> QED BY <1>2, <1>3, <1>4

\* So does the _enqueue with which a worker ends its poll.
LEMMA EnqueueLaterServes ==
    ASSUME IInv, EnqueueLater, state' = state, forced' = forced,
           NEW w \in Worker, worker[w].at \notin HoldingAJob,
           worker' = [worker EXCEPT ![w] = IdleWorker]
    PROVE  Backed' /\ Served' /\ Counted'
<1>1. TypeOK
  BY DEF IInv
<1>2. IdleWorker \in WorkerRecord /\ IdleWorker.at \notin HoldingAJob
  BY ConstantRecords DEF IdleWorker, HoldingAJob
<1>3. Backed'
  <2>1. CASE ~pending
    <3>1. jobs'.due + jobs'.later = jobs.due + jobs.later + 1
      BY <1>1, <2>1, EnqueueLaterPuts
    <3>2. jobs.due \in Nat /\ jobs.later \in Nat
      BY <1>1 DEF TypeOK
    <3>3. Queued'
      BY <3>1, <3>2 DEF Queued
    <3> QED BY <3>3 DEF Backed
  <2>2. CASE pending /\ Queued
    <3>1. Queued'
      BY <1>1, <2>2, EnqueueLaterPuts DEF Queued
    <3> QED BY <3>1 DEF Backed
  <2>3. CASE pending /\ ~Queued
    <3>1. PICK u \in Worker : worker[u].at \in HoldingAJob /\ ~Doomed(u)
      BY <2>3 DEF IInv, Backed
    <3>2. worker'[u] = worker[u]
      BY <1>1, <1>2, <3>1, OneWorkerMoves
    <3>3. worker'[u].at \in HoldingAJob /\ ~Doomed(u)'
      BY <1>1, <3>1, <3>2, DoomStays
    <3> QED BY <3>3 DEF Backed
  <2> QED BY <2>1, <2>2, <2>3
<1>4. Served'
  <2>1. pending'
    BY <1>1, EnqueueLaterPuts
  <2>2. CASE Queued'
    BY <2>2 DEF Served
  <2>3. CASE \E u \in Worker : worker'[u].at \in HoldingAJob /\ ~Doomed(u)'
    BY <2>3 DEF Served, HoldingAJob
  <2> QED BY <1>3, <2>1, <2>2, <2>3 DEF Backed
<1>5. Counted'
  <2>1. Counted /\ Cardinality(Holders) \in Nat
    BY HoldersAreFinite DEF IInv
  <2>2. jobs \in [due : Nat, later : Nat] /\ forced \in Nat /\ pending \in BOOLEAN
    BY <1>1 DEF TypeOK
  <2>3. Cardinality(Holders') = Cardinality(Holders) /\ pending' = TRUE
    BY <1>1, <1>2, OneWorkerMoves, EnqueueLaterPuts
  <2>4. Jobs' = jobs'.due + jobs'.later + Cardinality(Holders)
    BY <2>3 DEF Jobs
  <2>5. CASE pending
    <3>1. jobs' = jobs
      BY <1>1, <2>5, EnqueueLaterPuts
    <3>2. Jobs' = Jobs
      BY <2>4, <3>1 DEF Jobs
    <3> QED BY <2>1, <2>3, <2>5, <3>2 DEF Counted
  <2>6. CASE ~pending
    <3>1. /\ jobs'.due + jobs'.later = jobs.due + jobs.later + 1
          /\ jobs' \in [due : Nat, later : Nat]
      BY <1>1, <2>6, EnqueueLaterPuts
    <3>2. Jobs' = Jobs + 1
      BY <2>1, <2>2, <2>4, <3>1 DEF Jobs
    <3>3. Jobs \in Nat
      BY <2>1, <2>2 DEF Jobs
    <3> QED BY <2>1, <2>2, <2>3, <2>6, <3>2, <3>3 DEF Counted
  <2> QED BY <2>2, <2>5, <2>6
<1> QED BY <1>3, <1>4, <1>5

\* Where the other parts of the invariant stand when one worker moves.
LEMMA BackedStays ==
    ASSUME IInv, state'.generation = state.generation,
           NEW w \in Worker, NEW r \in WorkerRecord, worker' = [worker EXCEPT ![w] = r],
           pending' => pending, Queued => Queued',
           worker[w].at \in HoldingAJob /\ ~Doomed(w) => r.at \in HoldingAJob /\ ~Doomed(w)'
    PROVE  Backed'
<1>1. TypeOK /\ Backed
  BY DEF IInv
<1>2. worker'[w] = r /\ \A u \in Worker \ {w} : worker'[u] = worker[u]
  BY <1>1, OneWorkerMoves
<1>3. ASSUME NEW u \in Worker, worker[u].at \in HoldingAJob, ~Doomed(u)
      PROVE  worker'[u].at \in HoldingAJob /\ ~Doomed(u)'
  <2>1. CASE u = w
    BY <1>2, <1>3, <2>1
  <2>2. CASE u # w
    BY <1>1, <1>2, <1>3, <2>2, DoomStays
  <2> QED BY <2>1, <2>2
<1> QED BY <1>1, <1>3 DEF Backed

\* The same for who has the workspace.
LEMMA ServedStays ==
    ASSUME IInv, state'.generation = state.generation,
           row' = row, stream' = stream, matched' = matched,
           NEW w \in Worker, NEW r \in WorkerRecord, worker' = [worker EXCEPT ![w] = r],
           Queued => Queued',
           worker[w].at # "idle" /\ ~Doomed(w) => r.at # "idle" /\ ~Doomed(w)'
    PROVE  Served'
<1>1. TypeOK /\ Served
  BY DEF IInv
<1>2. worker'[w] = r /\ \A u \in Worker \ {w} : worker'[u] = worker[u]
  BY <1>1, OneWorkerMoves
<1>3. ASSUME NEW u \in Worker, worker[u].at # "idle", ~Doomed(u)
      PROVE  worker'[u].at # "idle" /\ ~Doomed(u)'
  <2>1. CASE u = w
    BY <1>2, <1>3, <2>1
  <2>2. CASE u # w
    BY <1>1, <1>2, <1>3, <2>2, DoomStays
  <2> QED BY <2>1, <2>2
<1> QED BY <1>1, <1>3 DEF Served

Load(r) == IF r.at \in HoldingAJob THEN 1 ELSE 0

\* No job comes in, or one goes out with its mark.
LEMMA CountStays ==
    ASSUME IInv, forced' = forced,
           NEW w \in Worker, NEW r \in WorkerRecord, worker' = [worker EXCEPT ![w] = r],
           jobs' \in [due : Nat, later : Nat],
           \/ /\ pending' = pending
              /\ jobs'.due + jobs'.later + Load(r) = jobs.due + jobs.later + Load(worker[w])
           \/ /\ pending' = FALSE
              /\ jobs'.due + jobs'.later + Load(r) = jobs.due + jobs.later + Load(worker[w]) - 1
    PROVE  Counted'
<1>1. TypeOK /\ Counted /\ Cardinality(Holders) \in Nat
  BY HoldersAreFinite DEF IInv
<1>2. jobs \in [due : Nat, later : Nat] /\ forced \in Nat /\ pending \in BOOLEAN
  BY <1>1 DEF TypeOK
<1>3. Cardinality(Holders') = Cardinality(Holders) + Load(r) - Load(worker[w])
  <2> DEFINE before == worker[w].at \in HoldingAJob
             after == r.at \in HoldingAJob
  <2>1. CASE before /\ after
    <3>1. Cardinality(Holders') = Cardinality(Holders)
      BY <1>1, <2>1, OneWorkerMoves
    <3>2. Load(r) = 1 /\ Load(worker[w]) = 1
      BY <2>1 DEF Load
    <3> QED BY <1>1, <3>1, <3>2
  <2>2. CASE ~before /\ ~after
    <3>1. Cardinality(Holders') = Cardinality(Holders)
      BY <1>1, <2>2, OneWorkerMoves
    <3>2. Load(r) = 0 /\ Load(worker[w]) = 0
      BY <2>2 DEF Load
    <3> QED BY <1>1, <3>1, <3>2
  <2>3. CASE ~before /\ after
    <3>1. Cardinality(Holders') = Cardinality(Holders) + 1
      BY <1>1, <2>3, OneWorkerMoves
    <3>2. Load(r) = 1 /\ Load(worker[w]) = 0
      BY <2>3 DEF Load
    <3> QED BY <1>1, <3>1, <3>2
  <2>4. CASE before /\ ~after
    <3>1. Cardinality(Holders') = Cardinality(Holders) - 1
      BY <1>1, <2>4, OneWorkerMoves
    <3>2. Load(r) = 0 /\ Load(worker[w]) = 1
      BY <2>4 DEF Load
    <3> QED BY <1>1, <3>1, <3>2
  <2> QED BY <2>1, <2>2, <2>3, <2>4
<1>4. Jobs \in Nat /\ Load(r) \in {0, 1} /\ Load(worker[w]) \in {0, 1}
  BY <1>1, <1>2 DEF Jobs, Load
<1>5. CASE /\ pending' = pending
           /\ jobs'.due + jobs'.later + Load(r) = jobs.due + jobs.later + Load(worker[w])
  <2>1. Jobs' = Jobs
    BY <1>1, <1>2, <1>3, <1>4, <1>5 DEF Jobs
  <2> QED BY <1>1, <1>5, <2>1 DEF Counted
<1>6. CASE /\ pending' = FALSE
           /\ jobs'.due + jobs'.later + Load(r) = jobs.due + jobs.later + Load(worker[w]) - 1
  <2>1. Jobs' = Jobs - 1
    BY <1>1, <1>2, <1>3, <1>4, <1>6 DEF Jobs
  <2> QED BY <1>1, <1>2, <1>4, <1>6, <2>1 DEF Counted
<1> QED BY <1>5, <1>6

\* Who says that the workspace is deleted is right, as long as nobody new says so.
LEMMA DeletionsStay ==
    ASSUME Deletions, row' = row, stream' = stream, state' = state,
           \A u \in Worker : worker'[u].object \in {worker[u].object, Latest}
    PROVE  Deletions'
  BY DEF Deletions, Messages, Told

-----------------------------------------------------------------------------
(* The worker's steps                                                      *)

\* A job goes from the queue to a worker, or ends with its mark for a deleted workspace.
LEMMA DequeueKeeps ==
    ASSUME IInv, NEW w \in Worker, Dequeue(w)
    PROVE  IInv'
<1>1. TypeOK /\ Deletions
  BY DEF IInv
<1>2. /\ jobs \in [due : Nat, later : Nat] /\ pending \in BOOLEAN
      /\ worker \in [Worker -> WorkerRecord] /\ worker[w].at = "idle"
      /\ jobs.due + jobs.later > 0
  BY <1>1 DEF TypeOK, Dequeue
<1>3. /\ UNCHANGED <<world, state, cache, matched, cooling, round, stream, forced, bounds>>
  BY DEF Dequeue
<1>4. /\ jobs' \in [due : Nat, later : Nat]
      /\ jobs'.due + jobs'.later = jobs.due + jobs.later - 1
  <2>1. CASE jobs.due > 0
    <3>1. jobs' = [jobs EXCEPT !.due = @ - 1] /\ jobs.due - 1 \in Nat
      BY <1>2, <2>1 DEF Dequeue
    <3> QED BY <1>2, <3>1
  <2>2. CASE ~(jobs.due > 0)
    <3>1. jobs' = [jobs EXCEPT !.later = @ - 1] /\ jobs.later - 1 \in Nat
      BY <1>2, <2>2 DEF Dequeue
    <3> QED BY <1>2, <3>1
  <2> QED BY <2>1, <2>2
<1>5. CASE state.deleted
  <2>1. pending' = FALSE /\ worker' = worker
    BY <1>5 DEF Dequeue
  <2>2. TypeOK'
    BY <1>1, <1>3, <1>4, <2>1 DEF TypeOK, world, bounds
  <2>3. row.deleted /\ row' = row
    BY <1>1, <1>3, <1>5 DEF Deletions, world
  <2>4. Backed' /\ Served'
    BY <2>1, <2>3 DEF Backed, Served
  <2>5. Deletions'
    BY <1>1, <1>3, <2>1, DeletionsStay DEF world
  <2>6. Counted'
    <3>1. worker' = [worker EXCEPT ![w] = worker[w]] /\ worker[w] \in WorkerRecord
      BY <1>2, <2>1
    <3>2. Load(worker[w]) = 0
      BY <1>2 DEF Load, HoldingAJob
    <3>3. jobs'.due + jobs'.later + Load(worker[w])
             = jobs.due + jobs.later + Load(worker[w]) - 1
      BY <1>2, <1>4, <3>2
    <3> QED BY <1>3, <1>4, <2>1, <3>1, <3>3, CountStays
  <2> QED BY <2>2, <2>4, <2>5, <2>6 DEF IInv
<1>6. CASE ~state.deleted
  <2> DEFINE place == IF jobs.due > 0 THEN "ready" ELSE "asleep"
             r == [IdleWorker EXCEPT !.at = place]
  <2>1. worker' = [worker EXCEPT ![w] = r] /\ pending' = pending
    BY <1>6 DEF Dequeue
  <2>2. r \in WorkerRecord /\ r.at \in {"ready", "asleep"} /\ r.object = Latest
    BY PollingAssumption DEF PollingAssumption, IdleWorker, WorkerRecord, WorkerPlace
  <2> HIDE DEF r
  <2>3. /\ worker' \in [Worker -> WorkerRecord] /\ worker'[w] = r
        /\ \A u \in Worker \ {w} : worker'[u] = worker[u]
    BY <1>1, <2>1, <2>2, OneWorkerMoves
  <2>4. TypeOK'
    BY <1>1, <1>3, <1>4, <2>1, <2>3 DEF TypeOK, world, bounds
  <2>5. worker'[w].at \in HoldingAJob /\ ~Doomed(w)'
    BY <2>2, <2>3 DEF Doomed, HoldingAJob
  <2>6. Backed' /\ Served'
    BY <2>2, <2>3, <2>5 DEF Backed, Served
  <2>7. Deletions'
    <3>1. \A u \in Worker : worker'[u].object \in {worker[u].object, Latest}
      BY <2>2, <2>3
    <3> QED BY <1>1, <1>3, <3>1, DeletionsStay DEF world
  <2>8. Counted'
    <3>1. Load(worker[w]) = 0 /\ Load(r) = 1
      BY <1>2, <2>2 DEF Load, HoldingAJob
    <3>2. jobs'.due + jobs'.later + Load(r) = jobs.due + jobs.later + Load(worker[w])
      BY <1>2, <1>4, <3>1
    <3> QED BY <1>3, <1>4, <2>1, <2>2, <3>2, CountStays
  <2> QED BY <2>4, <2>6, <2>7, <2>8 DEF IInv
<1> QED BY <1>5, <1>6

\* The worker that sleeps on a job keeps it.
LEMMA ComesDueKeeps ==
    ASSUME IInv, NEW w \in Worker, ComesDue(w)
    PROVE  IInv'
<1> DEFINE r == [worker[w] EXCEPT !.at = "ready"]
<1>1. TypeOK /\ Deletions
  BY DEF IInv
<1>2. UNCHANGED <<world, state, jobs, pending, cache, matched, cooling, round, stream, forced, bounds>>
  BY DEF ComesDue
<1>3. worker \in [Worker -> WorkerRecord] /\ worker[w].at \in {"asleep", "woken"}
  BY <1>1 DEF TypeOK, ComesDue
<1>4. r \in WorkerRecord /\ r.at = "ready" /\ r.object = worker[w].object
  BY <1>3 DEF WorkerRecord, WorkerPlace
<1>5. worker' = [worker EXCEPT ![w] = r]
  BY DEF ComesDue
<1> HIDE DEF r
<1>6. /\ worker' \in [Worker -> WorkerRecord] /\ worker'[w] = r
      /\ \A u \in Worker \ {w} : worker'[u] = worker[u]
  BY <1>1, <1>4, <1>5, OneWorkerMoves
<1>7. TypeOK'
  BY <1>1, <1>2, <1>6 DEF TypeOK, world, bounds
<1>8. worker'[w].at \in HoldingAJob /\ ~Doomed(w)'
  BY <1>4, <1>6 DEF Doomed, HoldingAJob
<1>9. Backed' /\ Served'
  BY <1>4, <1>6, <1>8 DEF Backed, Served
<1>10. Deletions'
  <2>1. \A u \in Worker : worker'[u].object \in {worker[u].object, Latest}
    BY <1>4, <1>6
  <2> QED BY <1>1, <1>2, <2>1, DeletionsStay DEF world
<1>11. Counted'
  <2>1. Load(worker[w]) = 1 /\ Load(r) = 1
    BY <1>3, <1>4 DEF Load, HoldingAJob
  <2>2. jobs' \in [due : Nat, later : Nat]
    BY <1>7 DEF TypeOK
  <2> QED BY <1>2, <1>4, <1>5, <2>1, <2>2, CountStays
<1> QED BY <1>7, <1>9, <1>10, <1>11 DEF IInv

\* The job goes from a worker to the queue.
LEMMA PutBackKeeps ==
    ASSUME IInv, NEW w \in Worker, PutBack(w)
    PROVE  IInv'
<1>1. TypeOK /\ Deletions
  BY DEF IInv
<1>2. UNCHANGED <<world, state, pending, cache, matched, cooling, round, stream, forced, bounds>>
  BY DEF PutBack
<1>3. worker[w].at = "woken" /\ worker' = [worker EXCEPT ![w] = IdleWorker]
  BY DEF PutBack
<1>4. /\ jobs \in [due : Nat, later : Nat] /\ jobs' \in [due : Nat, later : Nat]
      /\ jobs'.due + jobs'.later = jobs.due + jobs.later + 1
  BY <1>1 DEF TypeOK, PutBack
<1>5. IdleWorker \in WorkerRecord /\ IdleWorker.at = "idle" /\ IdleWorker.object = Latest
  BY ConstantRecords DEF IdleWorker
<1>6. /\ worker' \in [Worker -> WorkerRecord] /\ worker'[w] = IdleWorker
      /\ \A u \in Worker \ {w} : worker'[u] = worker[u]
  BY <1>1, <1>3, <1>5, OneWorkerMoves
<1>7. TypeOK'
  BY <1>1, <1>2, <1>4, <1>6 DEF TypeOK, world, bounds
<1>8. Queued'
  BY <1>4 DEF Queued
<1>9. Backed' /\ Served'
  BY <1>8 DEF Backed, Served
<1>10. Deletions'
  <2>1. \A u \in Worker : worker'[u].object \in {worker[u].object, Latest}
    BY <1>5, <1>6
  <2> QED BY <1>1, <1>2, <2>1, DeletionsStay DEF world
<1>11. Counted'
  <2>1. Load(worker[w]) = 1 /\ Load(IdleWorker) = 0
    BY <1>3, <1>5 DEF Load, HoldingAJob
  <2>2. jobs'.due + jobs'.later + Load(IdleWorker) = jobs.due + jobs.later + Load(worker[w])
    BY <1>4, <2>1
  <2> QED BY <1>2, <1>3, <1>4, <1>5, <2>2, CountStays
<1> QED BY <1>7, <1>9, <1>10, <1>11 DEF IInv

\* The mark goes with the job, and the worker is about to put another.
LEMMA SkipDisabledKeeps ==
    ASSUME IInv, NEW w \in Worker, SkipDisabled(w)
    PROVE  IInv'
<1> DEFINE r == At("requeue", NotReady)
<1>1. TypeOK /\ Deletions
  BY DEF IInv
<1>2. UNCHANGED <<world, state, jobs, cache, matched, cooling, round, stream, forced, bounds>>
  BY DEF SkipDisabled
<1>3. worker[w].at = "ready" /\ worker' = [worker EXCEPT ![w] = r] /\ pending' = FALSE
  BY DEF SkipDisabled
<1>4. r \in WorkerRecord /\ r.at = "requeue" /\ r.object = Latest
  BY AtIsWorker DEF WorkerPlace
<1> HIDE DEF r
<1>5. /\ worker' \in [Worker -> WorkerRecord] /\ worker'[w] = r
      /\ \A u \in Worker \ {w} : worker'[u] = worker[u]
  BY <1>1, <1>3, <1>4, OneWorkerMoves
<1>6. TypeOK'
  BY <1>1, <1>2, <1>3, <1>5 DEF TypeOK, world, bounds
<1>7. Backed'
  BY <1>3 DEF Backed
<1>8. Served'
  <2>1. worker'[w].at # "idle" /\ ~Doomed(w)'
    BY <1>4, <1>5 DEF Doomed
  <2> QED BY <2>1 DEF Served
<1>9. Deletions'
  <2>1. \A u \in Worker : worker'[u].object \in {worker[u].object, Latest}
    BY <1>4, <1>5
  <2> QED BY <1>1, <1>2, <2>1, DeletionsStay DEF world
<1>10. Counted'
  <2>1. Load(worker[w]) = 1 /\ Load(r) = 0
    BY <1>3, <1>4 DEF Load, HoldingAJob
  <2>2. jobs' \in [due : Nat, later : Nat] /\ jobs' = jobs
    BY <1>2, <1>6 DEF TypeOK
  <2>3. jobs'.due + jobs'.later + Load(r) = jobs.due + jobs.later + Load(worker[w]) - 1
    BY <2>1, <2>2
  <2> QED BY <1>2, <1>3, <1>4, <2>2, <2>3, CountStays
<1> QED BY <1>6, <1>7, <1>8, <1>9, <1>10 DEF IInv

\* A result that comes in leaves the worker with its object and its generation.
LEMMA AnsweredKeeps ==
    ASSUME IInv, NEW w \in Worker, NEW result \in Status \cup {NotReady}, Answered(w, result),
           UNCHANGED <<world, state, jobs, pending, matched, stream, forced>>
    PROVE  /\ worker' \in [Worker -> WorkerRecord]
           /\ Backed' /\ Served' /\ Deletions' /\ Counted'
<1> DEFINE r == [worker[w] EXCEPT !.at = "fetched", !.result = result,
                                  !.branch = Base, !.target = Base]
<1>1. TypeOK /\ Deletions
  BY DEF IInv
<1>2. /\ worker \in [Worker -> WorkerRecord] /\ worker[w].at = "fetching"
      /\ worker' = [worker EXCEPT ![w] = r]
  BY <1>1 DEF TypeOK, Answered
<1>3. /\ r \in WorkerRecord /\ r.at = "fetched"
      /\ r.object = worker[w].object /\ r.generation = worker[w].generation
  BY <1>2, PollingAssumption DEF PollingAssumption, WorkerRecord, WorkerPlace
<1> HIDE DEF r
<1>4. /\ worker' \in [Worker -> WorkerRecord] /\ worker'[w] = r
      /\ \A u \in Worker \ {w} : worker'[u] = worker[u]
  BY <1>1, <1>2, <1>3, OneWorkerMoves
<1>5. Doomed(w)' <=> Doomed(w)
  BY <1>2, <1>3, <1>4 DEF Doomed, ObjectOf
<1>6. "fetched" \in HoldingAJob /\ "fetching" \in HoldingAJob
  BY DEF HoldingAJob
<1>7. Queued' <=> Queued
  BY DEF Queued
<1>8. Backed'
  BY <1>2, <1>3, <1>5, <1>6, <1>7, BackedStays
<1>9. Served'
  BY <1>2, <1>3, <1>5, <1>7, ServedStays DEF world
<1>10. Deletions'
  <2>1. \A u \in Worker : worker'[u].object \in {worker[u].object, Latest}
    BY <1>3, <1>4
  <2> QED BY <1>1, <2>1, DeletionsStay DEF world
<1>11. Counted'
  <2>1. Load(worker[w]) = 1 /\ Load(r) = 1
    BY <1>2, <1>3, <1>6 DEF Load
  <2>2. jobs' \in [due : Nat, later : Nat]
    BY <1>1 DEF TypeOK
  <2> QED BY <1>2, <1>3, <2>1, <2>2, CountStays
<1> QED BY <1>4, <1>8, <1>9, <1>10, <1>11

\* GitHub answers.
LEMMA FetchKeeps ==
    ASSUME IInv, NEW w \in Worker, Fetch(w)
    PROVE  IInv'
<1> DEFINE result == StatusFor(worker[w].branch, worker[w].target)
<1>1. TypeOK
  BY DEF IInv
<1>2. UNCHANGED <<world, state, jobs, pending, cache, matched, cooling, round, stream, forced, bounds>>
  BY DEF Fetch
<1>3. result \in Status
  <2>1. worker[w].branch \in Branch /\ worker[w].target \in Branch
    BY <1>1 DEF TypeOK, WorkerRecord
  <2> QED BY <1>1, <2>1, StatusForIsStatus
<1>4. Answered(w, result)
  BY DEF Fetch
<1> HIDE DEF result
<1>5. worker' \in [Worker -> WorkerRecord] /\ Backed' /\ Served' /\ Deletions' /\ Counted'
  BY <1>2, <1>3, <1>4, AnsweredKeeps
<1>6. TypeOK'
  BY <1>1, <1>2, <1>5 DEF TypeOK, world, bounds
<1> QED BY <1>5, <1>6 DEF IInv

\* GitHub does not, or not with a status.
LEMMA FetchFailsKeeps ==
    ASSUME IInv, NEW w \in Worker, FetchFails(w)
    PROVE  IInv'
<1>1. TypeOK
  BY DEF IInv
<1>2. /\ UNCHANGED <<world, state, jobs, pending, cache, matched, round, stream, forced, changes, links>>
      /\ failures < MaxFailures /\ failures' = failures + 1
      /\ cooling' \in {cooling, TRUE}
  BY DEF FetchFails
<1>3. PICK result \in Status \cup {NotReady} : Answered(w, result)
  BY ConstantRecords DEF FetchFails
<1>4. worker' \in [Worker -> WorkerRecord] /\ Backed' /\ Served' /\ Deletions' /\ Counted'
  BY <1>2, <1>3, AnsweredKeeps
<1>5. failures' \in 0 .. MaxFailures
  BY <1>1, <1>2, BoundsAreNumbers DEF TypeOK
<1>6. TypeOK'
  BY <1>1, <1>2, <1>4, <1>5 DEF TypeOK, world
<1> QED BY <1>4, <1>6 DEF IInv

\* The mark goes before the result is looked at.
LEMMA ClearPendingKeeps ==
    ASSUME IInv, NEW w \in Worker, ClearPending(w)
    PROVE  IInv'
<1> DEFINE r == [worker[w] EXCEPT !.at = "cleared"]
<1>1. TypeOK /\ Deletions
  BY DEF IInv
<1>2. UNCHANGED <<world, state, jobs, cache, matched, cooling, round, stream, forced, bounds>>
  BY DEF ClearPending
<1>3. /\ worker \in [Worker -> WorkerRecord] /\ worker[w].at = "fetched"
      /\ worker' = [worker EXCEPT ![w] = r] /\ pending' = FALSE
  BY <1>1 DEF TypeOK, ClearPending
<1>4. /\ r \in WorkerRecord /\ r.at = "cleared"
      /\ r.object = worker[w].object /\ r.generation = worker[w].generation
  BY <1>3 DEF WorkerRecord, WorkerPlace
<1> HIDE DEF r
<1>5. /\ worker' \in [Worker -> WorkerRecord] /\ worker'[w] = r
      /\ \A u \in Worker \ {w} : worker'[u] = worker[u]
  BY <1>1, <1>3, <1>4, OneWorkerMoves
<1>6. TypeOK'
  BY <1>1, <1>2, <1>3, <1>5 DEF TypeOK, world, bounds
<1>7. Backed'
  BY <1>3 DEF Backed
<1>8. Served'
  <2>1. Doomed(w)' <=> Doomed(w)
    BY <1>2, <1>3, <1>4, <1>5 DEF Doomed, ObjectOf
  <2>2. Queued' <=> Queued
    BY <1>2 DEF Queued
  <2> QED BY <1>2, <1>3, <1>4, <2>1, <2>2, ServedStays DEF world
<1>9. Deletions'
  <2>1. \A u \in Worker : worker'[u].object \in {worker[u].object, Latest}
    BY <1>4, <1>5
  <2> QED BY <1>1, <1>2, <2>1, DeletionsStay DEF world
<1>10. Counted'
  <2>1. Load(worker[w]) = 1 /\ Load(r) = 0
    BY <1>3, <1>4 DEF Load, HoldingAJob
  <2>2. jobs' \in [due : Nat, later : Nat] /\ jobs' = jobs
    BY <1>2, <1>6 DEF TypeOK
  <2>3. jobs'.due + jobs'.later + Load(r) = jobs.due + jobs.later + Load(worker[w]) - 1
    BY <2>1, <2>2
  <2> QED BY <1>2, <1>3, <1>4, <2>2, <2>3, CountStays
<1> QED BY <1>6, <1>7, <1>8, <1>9, <1>10 DEF IInv

\* The worker reads the generation of the object it holds: it is not doomed.
LEMMA StartPollKeeps ==
    ASSUME IInv, NEW w \in Worker, StartPoll(w)
    PROVE  IInv'
<1> DEFINE me == worker[w]
           object == Resolved(ObjectOf(me))
           kept == [me EXCEPT !.object = IF @ = Latest THEN Latest ELSE object,
                              !.generation = object.generation]
           fetching == [kept EXCEPT !.at = "fetching", !.branch = head, !.target = object.target]
           fetched(result) == [kept EXCEPT !.at = "fetched", !.result = result]
           r == CASE ~object.dir -> fetched(NotReady)
                  [] object.dir /\ head = object.target -> fetched(NoPr)
                  [] object.dir /\ head # object.target /\ cooling -> fetched(Deferred)
                  [] object.dir /\ head # object.target /\ ~cooling -> fetching
<1>1. TypeOK /\ Deletions
  BY DEF IInv
<1>2. UNCHANGED <<world, jobs, pending, cache, matched, cooling, round, stream, forced, bounds>>
  BY DEF StartPoll
<1>3. /\ worker[w].at = "ready" /\ worker' = [worker EXCEPT ![w] = r]
      /\ state' = IF me.object = Latest THEN object ELSE state
  BY DEF StartPoll
<1>4. /\ worker \in [Worker -> WorkerRecord] /\ me \in WorkerRecord
      /\ state \in PollState /\ head \in Branch /\ row \in Row
  BY <1>1 DEF TypeOK
<1>5. /\ object \in PollState /\ object.generation = ObjectOf(me).generation
      /\ object.deleted => ObjectOf(me).deleted \/ row.deleted
  BY <1>1, ObjectIsPollState, ResolvedIsPollState
<1>6. object.deleted => row.deleted
  BY <1>1, <1>5 DEF Deletions, ObjectOf
<1> HIDE DEF object
<1>7. /\ kept \in WorkerRecord /\ kept.generation = object.generation
      /\ kept.object = IF me.object = Latest THEN Latest ELSE object
  BY <1>4, <1>5 DEF WorkerRecord, PollState
<1> HIDE DEF kept
<1>8. \A result \in Status \cup {NotReady, Deferred} :
         /\ fetched(result) \in WorkerRecord /\ fetched(result).at = "fetched"
         /\ fetched(result).object = kept.object
         /\ fetched(result).generation = kept.generation
  BY <1>7 DEF WorkerRecord, WorkerPlace
<1>9. /\ fetching \in WorkerRecord /\ fetching.at = "fetching"
      /\ fetching.object = kept.object /\ fetching.generation = kept.generation
  <2>1. object.target \in Branch
    BY <1>5 DEF PollState
  <2> QED BY <1>4, <1>7, <2>1 DEF WorkerRecord, WorkerPlace
<1>10. /\ r \in WorkerRecord /\ r.at \in {"fetching", "fetched"}
       /\ r.object = kept.object /\ r.generation = kept.generation
  <2>1. object.dir \in BOOLEAN /\ cooling \in BOOLEAN
    BY <1>1, <1>5 DEF TypeOK, PollState
  <2>2. CASE ~object.dir
    <3>1. r = fetched(NotReady)
      BY <2>2
    <3> HIDE DEF r, fetched
    <3> QED BY <1>8, <3>1
  <2>3. CASE object.dir /\ head = object.target
    <3>1. r = fetched(NoPr) /\ NoPr \in Status
      BY <2>3, ConstantRecords
    <3> HIDE DEF r, fetched
    <3> QED BY <1>8, <3>1
  <2>4. CASE object.dir /\ head # object.target /\ cooling
    <3>1. r = fetched(Deferred)
      BY <2>4
    <3> HIDE DEF r, fetched
    <3> QED BY <1>8, <3>1
  <2>5. CASE object.dir /\ head # object.target /\ ~cooling
    <3>1. r = fetching
      BY <2>5
    <3> HIDE DEF r, fetching
    <3> QED BY <1>9, <3>1
  <2> QED BY <2>1, <2>2, <2>3, <2>4, <2>5
<1> HIDE DEF r
<1>11. /\ worker' \in [Worker -> WorkerRecord] /\ worker'[w] = r
       /\ \A u \in Worker \ {w} : worker'[u] = worker[u]
  BY <1>1, <1>3, <1>10, OneWorkerMoves
<1>12. state' \in PollState /\ state'.generation = state.generation
  BY <1>3, <1>4, <1>5 DEF ObjectOf
<1>13. TypeOK'
  BY <1>1, <1>2, <1>11, <1>12 DEF TypeOK, world, bounds
<1>14. r.at \in HoldingAJob /\ ~Doomed(w)'
  <2>1. ObjectOf(worker[w])' = object
    BY <1>3, <1>5, <1>7, <1>10, <1>11, LatestIsNoObject DEF ObjectOf
  <2> QED BY <1>7, <1>10, <1>11, <2>1 DEF Doomed, HoldingAJob
<1>15. Backed' /\ Served'
  <2>1. worker'[w].at \in HoldingAJob /\ worker'[w].at # "idle"
    BY <1>11, <1>14 DEF HoldingAJob
  <2> QED BY <1>14, <2>1 DEF Backed, Served
<1>16. Deletions'
  <2>1. state'.deleted => row.deleted
    BY <1>1, <1>3, <1>6 DEF Deletions
  <2>2. \A u \in Worker :
           (worker'[u].object # Latest /\ worker'[u].object.deleted) => row.deleted
    BY <1>1, <1>6, <1>7, <1>10, <1>11 DEF Deletions
  <2>3. row' = row /\ stream' = stream
    BY <1>2 DEF world
  <2> QED BY <1>1, <2>1, <2>2, <2>3 DEF Deletions, Messages, Told
<1>17. Counted'
  <2>1. Load(worker[w]) = 1 /\ Load(r) = 1
    BY <1>3, <1>10 DEF Load, HoldingAJob
  <2>2. jobs' \in [due : Nat, later : Nat]
    BY <1>13 DEF TypeOK
  <2> QED BY <1>2, <1>3, <1>10, <2>1, <2>2, CountStays
<1> QED BY <1>13, <1>15, <1>16, <1>17 DEF IInv

\* A worker past its job goes on to another place past it, or to the next job.
LEMMA PastTheJobKeeps ==
    ASSUME IInv, NEW w \in Worker, worker[w].at \notin HoldingAJob,
           NEW r \in WorkerRecord, r.at \notin HoldingAJob, r.object = Latest,
           worker' = [worker EXCEPT ![w] = r], cache' \in Status \cup {NoStatus}, Served',
           UNCHANGED <<world, state, jobs, pending, matched, cooling, round, stream, forced, bounds>>
    PROVE  IInv'
<1>1. TypeOK /\ Deletions
  BY DEF IInv
<1>2. /\ worker' \in [Worker -> WorkerRecord] /\ worker'[w] = r
      /\ \A u \in Worker \ {w} : worker'[u] = worker[u]
  BY <1>1, OneWorkerMoves
<1>3. TypeOK'
  BY <1>1, <1>2 DEF TypeOK, world, bounds
<1>4. Backed'
  <2>1. Queued' <=> Queued
    BY DEF Queued
  <2> QED BY <2>1, BackedStays
<1>5. Deletions'
  <2>1. \A u \in Worker : worker'[u].object \in {worker[u].object, Latest}
    BY <1>2
  <2> QED BY <1>1, <2>1, DeletionsStay DEF world
<1>6. Counted'
  <2>1. Load(worker[w]) = 0 /\ Load(r) = 0
    BY DEF Load
  <2>2. jobs' \in [due : Nat, later : Nat]
    BY <1>3 DEF TypeOK
  <2> QED BY <2>1, <2>2, CountStays
<1> QED BY <1>3, <1>4, <1>5, <1>6 DEF IInv

\* A stale result is dropped: another worker or a stream has the workspace, or it is deleted.
LEMMA DigestKeeps ==
    ASSUME IInv, NEW w \in Worker, Digest(w)
    PROVE  IInv'
<1> DEFINE object == ObjectOf(worker[w])
           stale == object.generation # worker[w].generation \/ object.deleted
           r == IF stale THEN IdleWorker ELSE Kept(worker[w].result)
<1>1. TypeOK /\ Deletions
  BY DEF IInv
<1>2. UNCHANGED <<world, state, jobs, pending, cache, matched, cooling, round, stream, forced, bounds>>
  BY DEF Digest
<1>3. worker[w].at = "cleared" /\ worker' = [worker EXCEPT ![w] = r]
  BY DEF Digest
<1>4. worker[w].result \in Status \cup {NotReady, Deferred}
  BY <1>1 DEF TypeOK, WorkerRecord
<1>5. r \in WorkerRecord /\ r.at \notin HoldingAJob /\ r.object = Latest
  <2>1. CASE stale
    BY <2>1, ConstantRecords DEF IdleWorker, HoldingAJob
  <2>2. CASE ~stale
    BY <1>1, <1>4, <2>2, KeptIsWorker DEF HoldingAJob
  <2> QED BY <2>1, <2>2
<1>6. Queued' <=> Queued
  BY <1>2 DEF Queued
<1>7. CASE ~stale
  <2>1. r.at \in {"requeue", "check", "emit"}
    BY <1>1, <1>4, <1>7, KeptIsWorker
  <2> HIDE DEF r
  <2>2. worker'[w] = r
    BY <1>1, <1>3, <1>5, OneWorkerMoves
  <2>3. worker'[w].at # "idle" /\ ~Doomed(w)'
    BY <2>1, <2>2 DEF Doomed
  <2>4. Served'
    BY <2>3 DEF Served
  <2> QED BY <1>1, <1>2, <1>3, <1>5, <2>4, PastTheJobKeeps DEF TypeOK, HoldingAJob
<1>8. CASE stale
  <2>1. Doomed(w) \/ row.deleted
    BY <1>1, <1>3, <1>8 DEF Doomed, Deletions, ObjectOf
  <2> HIDE DEF r
  <2>2. Served'
    <3>1. CASE row.deleted
      BY <1>2, <3>1 DEF Served, world
    <3>2. CASE Doomed(w)
      BY <1>2, <1>3, <1>5, <1>6, <3>2, ServedStays DEF world
    <3> QED BY <2>1, <3>1, <3>2
  <2> QED BY <1>1, <1>2, <1>3, <1>5, <2>2, PastTheJobKeeps DEF TypeOK, HoldingAJob
<1> QED BY <1>7, <1>8

\* The worker still has to look whether the round has the workspace.
LEMMA EmitKeeps ==
    ASSUME IInv, NEW w \in Worker, Emit(w)
    PROVE  IInv'
<1> DEFINE r == At("check", NotReady)
<1>1. TypeOK
  BY DEF IInv
<1>2. UNCHANGED <<world, state, jobs, pending, matched, cooling, round, stream, forced, bounds>>
  BY DEF Emit
<1>3. /\ worker[w].at = "emit" /\ worker' = [worker EXCEPT ![w] = r]
      /\ cache' = worker[w].result /\ worker[w].result \in Status
  BY <1>1 DEF TypeOK, WorkerRecord, Emit, EmitStatus
<1>4. r \in WorkerRecord /\ r.at = "check" /\ r.object = Latest
  BY AtIsWorker DEF WorkerPlace
<1> HIDE DEF r
<1>5. worker'[w] = r
  BY <1>1, <1>3, <1>4, OneWorkerMoves
<1>6. Served'
  <2>1. worker'[w].at # "idle" /\ ~Doomed(w)'
    BY <1>4, <1>5 DEF Doomed
  <2> QED BY <2>1 DEF Served
<1> QED BY <1>2, <1>3, <1>4, <1>6, PastTheJobKeeps DEF HoldingAJob

\* The round has the workspace.
LEMMA LeaveToRoundKeeps ==
    ASSUME IInv, NEW w \in Worker, LeaveToRound(w)
    PROVE  IInv'
<1>1. TypeOK
  BY DEF IInv
<1>2. UNCHANGED <<world, state, jobs, pending, cache, matched, cooling, round, stream, forced, bounds>>
  BY DEF LeaveToRound
<1>3. worker[w].at = "check" /\ matched /\ worker' = [worker EXCEPT ![w] = IdleWorker]
  BY DEF LeaveToRound
<1>4. IdleWorker \in WorkerRecord /\ IdleWorker.at = "idle" /\ IdleWorker.object = Latest
  BY ConstantRecords DEF IdleWorker
<1>5. Served'
  BY <1>2, <1>3 DEF Served
<1> QED BY <1>1, <1>2, <1>3, <1>4, <1>5, PastTheJobKeeps DEF TypeOK, HoldingAJob

\* The next job is put, or is there already.
LEMMA RequeueKeeps ==
    ASSUME IInv, NEW w \in Worker, Requeue(w)
    PROVE  IInv'
<1>1. TypeOK /\ Deletions
  BY DEF IInv
<1>2. UNCHANGED <<world, state, cache, matched, cooling, round, stream, forced, bounds>>
  BY DEF Requeue
<1>3. /\ worker[w].at \notin HoldingAJob /\ EnqueueLater
      /\ worker' = [worker EXCEPT ![w] = IdleWorker]
  BY DEF Requeue, HoldingAJob
<1>4. IdleWorker \in WorkerRecord /\ IdleWorker.object = Latest
  BY ConstantRecords DEF IdleWorker
<1>5. /\ worker' \in [Worker -> WorkerRecord] /\ worker'[w] = IdleWorker
      /\ \A u \in Worker \ {w} : worker'[u] = worker[u]
  BY <1>1, <1>3, <1>4, OneWorkerMoves
<1>6. TypeOK'
  <2>1. jobs' \in [due : Nat, later : Nat] /\ pending' \in BOOLEAN
    BY <1>1, <1>3, EnqueueLaterPuts
  <2> QED BY <1>1, <1>2, <1>5, <2>1 DEF TypeOK, world, bounds
<1>7. Backed' /\ Served' /\ Counted'
  BY <1>2, <1>3, EnqueueLaterServes
<1>8. Deletions'
  <2>1. \A u \in Worker : worker'[u].object \in {worker[u].object, Latest}
    BY <1>4, <1>5
  <2> QED BY <1>1, <1>2, <2>1, DeletionsStay DEF world
<1> QED BY <1>6, <1>7, <1>8 DEF IInv

-----------------------------------------------------------------------------
(* The steps of the others                                                 *)

\* Nothing about the jobs changes while no worker moves, no job comes or goes,
\* and nobody who has the workspace lets go of it.
LEMMA NobodyMoves ==
    ASSUME IInv, worker' = worker, pending' = pending, forced' = forced,
           state'.generation = state.generation,
           jobs' \in [due : Nat, later : Nat],
           jobs'.due + jobs'.later = jobs.due + jobs.later,
           matched => matched' \/ row'.deleted, row.deleted => row'.deleted,
           \A s \in Stream : stream[s].at = "enqueue" => stream'[s].at = "enqueue"
    PROVE  Backed' /\ Served' /\ Counted'
<1>1. TypeOK /\ Backed /\ Served /\ Counted
  BY DEF IInv
<1>2. Queued' <=> Queued
  BY DEF Queued
<1>3. \A u \in Worker : Doomed(u)' <=> Doomed(u)
  BY <1>1, DoomStays
<1>4. Backed'
  BY <1>1, <1>2, <1>3 DEF Backed
<1>5. Served'
  BY <1>1, <1>2, <1>3 DEF Served
<1>6. Counted'
  <2>1. Holders' = Holders
    BY DEF Holders
  <2>2. Jobs' = Jobs
    BY <2>1 DEF Jobs
  <2> QED BY <1>1, <2>2 DEF Counted
<1> QED BY <1>4, <1>5, <1>6

\* The job stays in the queue.
LEMMA JobComesDueKeeps ==
    ASSUME IInv, JobComesDue
    PROVE  IInv'
<1>1. TypeOK /\ Deletions
  BY DEF IInv
<1>2. UNCHANGED <<world, state, pending, cache, matched, cooling, worker, round, stream, forced, bounds>>
  BY DEF JobComesDue
<1>3. /\ jobs' \in [due : Nat, later : Nat]
      /\ jobs'.due + jobs'.later = jobs.due + jobs.later
  BY <1>1 DEF TypeOK, JobComesDue
<1>4. TypeOK'
  BY <1>1, <1>2, <1>3 DEF TypeOK, world, bounds
<1>5. Backed' /\ Served' /\ Counted'
  BY <1>2, <1>3, NobodyMoves DEF world
<1>6. Deletions'
  BY <1>1, <1>2, DeletionsStay DEF world
<1> QED BY <1>4, <1>5, <1>6 DEF IInv

\* A round resolves the directory; it marks as deleted only what is.
LEMMA StartRoundKeeps ==
    ASSUME IInv, StartRound
    PROVE  IInv'
<1> DEFINE object == Resolved(state)
<1>1. TypeOK /\ Deletions
  BY DEF IInv
<1>2. UNCHANGED <<world, jobs, pending, cache, matched, cooling, worker, stream, forced, bounds>>
  BY DEF StartRound
<1>3. /\ state' = object /\ object \in PollState
      /\ object.generation = state.generation /\ (object.deleted => row.deleted)
  BY <1>1, ResolvedIsPollState DEF TypeOK, Deletions, StartRound
<1>4. round' \in RoundRecord
  <2> DEFINE candidate(place, result) ==
               [at |-> place, branch |-> head, target |-> object.target, result |-> result]
  <2>1. head \in Branch /\ object.target \in Branch /\ object.dir \in BOOLEAN /\ round \in RoundRecord
    BY <1>1, <1>3 DEF TypeOK, PollState
  <2>2. candidate("emit", NoPr) \in RoundRecord /\ candidate("search", NotReady) \in RoundRecord
    <3> HIDE DEF object
    <3> QED BY <2>1, ConstantRecords DEF RoundRecord
  <2>3. \/ round' = round \/ round' = candidate("emit", NoPr)
        \/ round' = candidate("search", NotReady)
    BY <2>1 DEF StartRound
  <2> HIDE DEF candidate
  <2> QED BY <2>1, <2>2, <2>3
<1> HIDE DEF object
<1>5. jobs' \in [due : Nat, later : Nat]
  BY <1>1, <1>2 DEF TypeOK
<1>6. TypeOK'
  BY <1>1, <1>2, <1>3, <1>4 DEF TypeOK, world, bounds
<1>7. Backed' /\ Served' /\ Counted'
  BY <1>2, <1>3, <1>5, NobodyMoves DEF world
<1>8. Deletions'
  BY <1>1, <1>2, <1>3 DEF Deletions, Messages, Told, world
<1> QED BY <1>6, <1>7, <1>8 DEF IInv

\* A round that finds no open request puts a job and is over.
LEMMA FallBackKeeps ==
    ASSUME IInv, FallBack, UNCHANGED <<world, state, stream, forced>>
    PROVE  /\ jobs' \in [due : Nat, later : Nat] /\ worker' \in [Worker -> WorkerRecord]
           /\ pending' \in BOOLEAN /\ matched' \in BOOLEAN /\ round' \in RoundRecord
           /\ Backed' /\ Served' /\ Deletions' /\ Counted'
<1>1. TypeOK /\ Deletions
  BY DEF IInv
<1>2. EnqueueNow /\ matched' = FALSE /\ round' = IdleRound
  BY DEF FallBack
<1>3. /\ jobs' \in [due : Nat, later : Nat] /\ worker' \in [Worker -> WorkerRecord]
      /\ pending' = TRUE /\ \A u \in Worker : worker'[u].object = worker[u].object
  BY <1>1, <1>2, EnqueueNowPuts
<1>4. Backed' /\ Served' /\ Counted'
  BY <1>2, EnqueueNowServes
<1>5. Deletions'
  BY <1>1, <1>3, DeletionsStay DEF world
<1> QED BY <1>2, <1>3, <1>4, <1>5, ConstantRecords

\* A round takes the workspace over, or puts a job for it.
LEMMA SearchKeeps ==
    ASSUME IInv, Search
    PROVE  IInv'
<1>1. TypeOK /\ Deletions
  BY DEF IInv
<1>2. UNCHANGED <<world, state, cache, cooling, stream, forced, bounds>>
  BY DEF Search
<1>3. CASE Match
  <2> DEFINE status == StatusFor(round.branch, round.target)
  <2>1. /\ matched' = TRUE /\ UNCHANGED <<jobs, pending, worker>>
        /\ round' = [at |-> "emit", branch |-> Base, target |-> Base, result |-> status]
    BY <1>3 DEF Match
  <2>2. status \in Status
    <3>1. round.branch \in Branch /\ round.target \in Branch
      BY <1>1 DEF TypeOK, RoundRecord
    <3> QED BY <1>1, <3>1, StatusForIsStatus
  <2> HIDE DEF status
  <2>3. round' \in RoundRecord
    BY <2>1, <2>2, PollingAssumption DEF PollingAssumption, RoundRecord
  <2>4. TypeOK'
    BY <1>1, <1>2, <2>1, <2>3 DEF TypeOK, world, bounds
  <2>5. jobs' \in [due : Nat, later : Nat]
    BY <2>4 DEF TypeOK
  <2>6. Backed' /\ Served' /\ Counted'
    BY <1>2, <2>1, <2>5, NobodyMoves DEF world
  <2>7. Deletions'
    BY <1>1, <1>2, <2>1, DeletionsStay DEF world
  <2> QED BY <2>4, <2>6, <2>7 DEF IInv
<1>4. CASE FallBack
  <2>1. /\ jobs' \in [due : Nat, later : Nat] /\ worker' \in [Worker -> WorkerRecord]
        /\ pending' \in BOOLEAN /\ matched' \in BOOLEAN /\ round' \in RoundRecord
        /\ Backed' /\ Served' /\ Deletions' /\ Counted'
    BY <1>2, <1>4, FallBackKeeps
  <2>2. TypeOK'
    BY <1>1, <1>2, <2>1 DEF TypeOK, world, bounds
  <2> QED BY <2>1, <2>2 DEF IInv
<1> QED BY <1>3, <1>4 DEF Search

\* A round that fails leaves everything to the next, or takes the request for gone.
LEMMA SearchFailsKeeps ==
    ASSUME IInv, SearchFails
    PROVE  IInv'
<1>1. TypeOK /\ Deletions
  BY DEF IInv
<1>2. /\ UNCHANGED <<world, state, cache, stream, forced, changes, links>>
      /\ failures < MaxFailures /\ failures' = failures + 1
  BY DEF SearchFails
<1>3. failures' \in 0 .. MaxFailures
  BY <1>1, <1>2, BoundsAreNumbers DEF TypeOK
<1>4. CASE /\ round' = IdleRound /\ cooling' \in BOOLEAN
           /\ UNCHANGED <<matched, jobs, pending, worker>>
  <2>1. TypeOK'
    BY <1>1, <1>2, <1>3, <1>4, ConstantRecords DEF TypeOK, world
  <2>2. jobs' \in [due : Nat, later : Nat]
    BY <2>1 DEF TypeOK
  <2>3. Backed' /\ Served' /\ Counted'
    BY <1>2, <1>4, <2>2, NobodyMoves DEF world
  <2>4. Deletions'
    BY <1>1, <1>2, <1>4, DeletionsStay DEF world
  <2> QED BY <2>1, <2>3, <2>4 DEF IInv
<1>5. CASE FallBack /\ UNCHANGED cooling
  <2>1. /\ jobs' \in [due : Nat, later : Nat] /\ worker' \in [Worker -> WorkerRecord]
        /\ pending' \in BOOLEAN /\ matched' \in BOOLEAN /\ round' \in RoundRecord
        /\ Backed' /\ Served' /\ Deletions' /\ Counted'
    BY <1>2, <1>5, FallBackKeeps
  <2>2. TypeOK'
    BY <1>1, <1>2, <1>3, <1>5, <2>1 DEF TypeOK, world
  <2> QED BY <2>1, <2>2 DEF IInv
<1> QED BY <1>4, <1>5 DEF SearchFails

\* The steps that leave the jobs, the workers and the streams alone.
LEMMA QuietKeeps ==
    ASSUME IInv, UNCHANGED <<world, state, jobs, pending, matched, worker, stream, forced, bounds>>,
           cache' \in Status \cup {NoStatus}, cooling' \in BOOLEAN, round' \in RoundRecord
    PROVE  IInv'
<1>1. TypeOK /\ Deletions
  BY DEF IInv
<1>2. TypeOK'
  BY <1>1 DEF TypeOK, world, bounds
<1>3. jobs' \in [due : Nat, later : Nat]
  BY <1>2 DEF TypeOK
<1>4. Backed' /\ Served' /\ Counted'
  BY <1>3, NobodyMoves DEF world
<1>5. Deletions'
  BY <1>1, DeletionsStay DEF world
<1> QED BY <1>2, <1>4, <1>5 DEF IInv

\* The round driver's steps, and the end of the cooldown.
LEMMA RoundStepKeeps ==
    ASSUME IInv, RoundStep \/ CoolDown
    PROVE  IInv'
<1>1. TypeOK
  BY DEF IInv
<1>2. CASE StartRound
  BY <1>2, StartRoundKeeps
<1>3. CASE Search
  BY <1>3, SearchKeeps
<1>4. CASE SkipSearch
  BY <1>1, <1>4, QuietKeeps, ConstantRecords DEF TypeOK, SkipSearch
<1>5. CASE SearchFails
  BY <1>5, SearchFailsKeeps
<1>6. CASE EmitRound
  <2>1. cache' \in Status
    BY <1>1, <1>6 DEF TypeOK, RoundRecord, EmitRound, EmitStatus
  <2> QED BY <1>1, <1>6, <2>1, QuietKeeps, ConstantRecords DEF TypeOK, EmitRound
<1>7. CASE CoolDown
  BY <1>1, <1>7, QuietKeeps DEF TypeOK, CoolDown
<1> QED BY <1>2, <1>3, <1>4, <1>5, <1>6, <1>7 DEF RoundStep

-----------------------------------------------------------------------------
(* The streams' steps                                                      *)

\* One stream moves, and its queue holds nothing new.
LEMMA OneStreamMoves ==
    ASSUME TypeOK, Deletions, row' = row, NEW s \in Stream, NEW r \in StreamRecord,
           stream' = [stream EXCEPT ![s] = r],
           \/ r.inbox = stream[s].inbox
           \/ r.inbox = <<>>
           \/ stream[s].inbox # <<>> /\ r.inbox = Tail(stream[s].inbox)
    PROVE  /\ stream' \in [Stream -> StreamRecord]
           /\ stream'[s] = r
           /\ \A u \in Stream \ {s} : stream'[u] = stream[u]
           /\ Messages'
<1>1. stream \in [Stream -> StreamRecord]
  BY DEF TypeOK
<1>2. /\ stream' \in [Stream -> StreamRecord]
      /\ stream'[s] = r
      /\ \A u \in Stream \ {s} : stream'[u] = stream[u]
  BY <1>1
<1>3. Messages
  BY DEF Deletions
<1>4. ASSUME NEW i \in 1 .. Len(r.inbox), Told(r.inbox[i])
      PROVE  row.deleted
  <2>1. stream[s].inbox \in Seq(Item)
    BY <1>1 DEF StreamRecord
  <2>2. CASE r.inbox = stream[s].inbox
    BY <1>3, <1>4, <2>2 DEF Messages
  <2>3. CASE r.inbox = <<>>
    BY <1>4, <2>3
  <2>4. CASE stream[s].inbox # <<>> /\ r.inbox = Tail(stream[s].inbox)
    <3>1. i + 1 \in 1 .. Len(stream[s].inbox) /\ r.inbox[i] = stream[s].inbox[i + 1]
      BY <1>4, <2>1, <2>4
    <3> QED BY <1>3, <1>4, <3>1 DEF Messages
  <2> QED BY <2>2, <2>3, <2>4
<1>5. Messages'
  BY <1>2, <1>3, <1>4 DEF Messages, Told
<1> QED BY <1>2, <1>5

\* What a stream takes out of its queue.
LEMMA TakenItem ==
    ASSUME TypeOK, NEW s \in Stream, NEW kind, Handling(s, kind)
    PROVE  /\ Head(stream[s].inbox) \in Item
           /\ kind = "branch" => Head(stream[s].inbox).branch \in Branch
           /\ kind = "row" => Head(stream[s].inbox).row \in Row
           /\ Handled(s) \in StreamRecord
           /\ Handled(s).inbox = Tail(stream[s].inbox)
           /\ stream[s].inbox # <<>>
           /\ stream[s] \in StreamRecord
<1>1. stream[s] \in StreamRecord /\ stream[s].inbox \in Seq(Item) /\ stream[s].inbox # <<>>
  BY DEF TypeOK, StreamRecord, Handling
<1>2. Head(stream[s].inbox) \in Item /\ Tail(stream[s].inbox) \in Seq(Item)
  BY <1>1
<1>3. Head(stream[s].inbox).kind = kind
  BY DEF Handling
<1>4. /\ kind = "branch" => Head(stream[s].inbox).branch \in Branch
      /\ kind = "row" => Head(stream[s].inbox).row \in Row
  BY <1>2, <1>3 DEF Item
<1>5. Handled(s) \in StreamRecord /\ Handled(s).inbox = Tail(stream[s].inbox)
  BY <1>1, <1>2 DEF Handled, StreamRecord
<1> QED BY <1>1, <1>2, <1>4, <1>5

\* The first branch: a job, unless there is one.
LEMMA NotifyReadyKeeps ==
    ASSUME IInv, NEW s \in Stream, NotifyReady(s)
    PROVE  IInv'
<1> DEFINE r == [Handled(s) EXCEPT !.last = Head(stream[s].inbox).branch]
<1>1. TypeOK /\ Deletions
  BY DEF IInv
<1>2. UNCHANGED <<world, state, cache, matched, cooling, round, forced, bounds>>
  BY DEF NotifyReady
<1>3. EnqueueNow /\ stream' = [stream EXCEPT ![s] = r] /\ Handling(s, "branch")
  BY DEF NotifyReady
<1>4. r \in StreamRecord /\ stream[s].inbox # <<>> /\ r.inbox = Tail(stream[s].inbox)
  <2>1. /\ Handled(s) \in StreamRecord /\ Handled(s).inbox = Tail(stream[s].inbox)
        /\ stream[s].inbox # <<>> /\ Head(stream[s].inbox).branch \in Branch
    BY <1>1, <1>3, TakenItem
  <2> QED BY <2>1 DEF StreamRecord
<1> HIDE DEF r
<1>5. stream' \in [Stream -> StreamRecord] /\ Messages'
  BY <1>1, <1>2, <1>3, <1>4, OneStreamMoves DEF world
<1>6. /\ jobs' \in [due : Nat, later : Nat] /\ worker' \in [Worker -> WorkerRecord]
      /\ pending' = TRUE /\ \A u \in Worker : worker'[u].object = worker[u].object
  BY <1>1, <1>3, EnqueueNowPuts
<1>7. TypeOK'
  BY <1>1, <1>2, <1>5, <1>6 DEF TypeOK, world, bounds
<1>8. Backed' /\ Served' /\ Counted'
  BY <1>2, <1>3, EnqueueNowServes
<1>9. Deletions'
  BY <1>1, <1>2, <1>5, <1>6 DEF Deletions, world
<1> QED BY <1>7, <1>8, <1>9 DEF IInv

\* The stream puts the job it was about to put.
LEMMA ForceEnqueueKeeps ==
    ASSUME IInv, NEW s \in Stream, ForceEnqueue(s)
    PROVE  IInv'
<1>1. TypeOK /\ Deletions
  BY DEF IInv
<1>2. UNCHANGED <<world, state, cache, matched, cooling, round, forced, bounds>>
  BY DEF ForceEnqueue
<1>3. EnqueueNow /\ stream' = [stream EXCEPT ![s] = Handled(s)] /\ stream[s].at = "enqueue"
  BY DEF ForceEnqueue
<1>4. /\ Handled(s) \in StreamRecord /\ stream[s].inbox # <<>>
      /\ Handled(s).inbox = Tail(stream[s].inbox)
  <2>1. /\ stream[s] \in StreamRecord /\ stream[s].inbox # <<>>
        /\ stream[s].inbox \in Seq(Item)
    BY <1>1, <1>3 DEF TypeOK, StreamRecord
  <2>2. Tail(stream[s].inbox) \in Seq(Item)
    BY <2>1
  <2> QED BY <2>1, <2>2 DEF Handled, StreamRecord
<1>5. stream' \in [Stream -> StreamRecord] /\ Messages'
  BY <1>1, <1>2, <1>3, <1>4, OneStreamMoves DEF world
<1>6. /\ jobs' \in [due : Nat, later : Nat] /\ worker' \in [Worker -> WorkerRecord]
      /\ pending' = TRUE /\ \A u \in Worker : worker'[u].object = worker[u].object
  BY <1>1, <1>3, EnqueueNowPuts
<1>7. TypeOK'
  BY <1>1, <1>2, <1>5, <1>6 DEF TypeOK, world, bounds
<1>8. Backed' /\ Served' /\ Counted'
  BY <1>2, <1>3, EnqueueNowServes
<1>9. Deletions'
  BY <1>1, <1>2, <1>5, <1>6 DEF Deletions, world
<1> QED BY <1>7, <1>8, <1>9 DEF IInv

\* Nothing new.
LEMMA NotifySameBranchKeeps ==
    ASSUME IInv, NEW s \in Stream, NotifySameBranch(s)
    PROVE  IInv'
<1>1. TypeOK /\ Deletions
  BY DEF IInv
<1>2. /\ UNCHANGED <<world, state, jobs, pending, cache, matched, cooling, worker, round, forced, bounds>>
      /\ stream' = [stream EXCEPT ![s] = Handled(s)] /\ Handling(s, "branch")
  BY DEF NotifySameBranch
<1>3. /\ Handled(s) \in StreamRecord /\ stream[s].inbox # <<>>
      /\ Handled(s).inbox = Tail(stream[s].inbox)
  BY <1>1, <1>2, TakenItem
<1>4. /\ stream' \in [Stream -> StreamRecord] /\ Messages'
      /\ \A u \in Stream \ {s} : stream'[u] = stream[u]
  BY <1>1, <1>2, <1>3, OneStreamMoves DEF world
<1>5. TypeOK'
  BY <1>1, <1>2, <1>4 DEF TypeOK, world, bounds
<1>6. Backed' /\ Served' /\ Counted'
  <2>1. jobs' \in [due : Nat, later : Nat]
    BY <1>5 DEF TypeOK
  <2>2. stream[s].at # "enqueue"
    BY <1>2 DEF Handling
  <2> QED BY <1>2, <1>4, <2>1, <2>2, NobodyMoves DEF world
<1>7. Deletions'
  BY <1>1, <1>2, <1>4 DEF Deletions, world
<1> QED BY <1>5, <1>6, <1>7 DEF IInv

\* A forced poll: the mark goes, and the stream is about to put a job past it.
LEMMA ForcedServes ==
    ASSUME IInv, pending' = FALSE, forced' = forced + 1, jobs' = jobs,
           \A w \in Worker : worker'[w].at = worker[w].at,
           NEW s \in Stream, stream'[s].at = "enqueue"
    PROVE  Backed' /\ Served' /\ Counted'
<1>1. TypeOK /\ Counted /\ Cardinality(Holders) \in Nat
  BY HoldersAreFinite DEF IInv
<1>2. Backed' /\ Served'
  BY DEF Backed, Served
<1>3. Counted'
  <2>1. Holders' = Holders
    BY DEF Holders
  <2>2. Jobs' = Jobs
    BY <2>1 DEF Jobs
  <2>3. Jobs \in Nat /\ forced \in Nat /\ pending \in BOOLEAN
    BY <1>1 DEF TypeOK, Jobs
  <2> QED BY <1>1, <2>2, <2>3 DEF Counted
<1> QED BY <1>2, <1>3

\* Another branch dooms the poll under way, and the stream is about to put a job.
LEMMA NotifyBranchKeeps ==
    ASSUME IInv, NEW s \in Stream, NotifyBranch(s)
    PROVE  IInv'
<1> DEFINE branch == Head(stream[s].inbox).branch
           r == [stream[s] EXCEPT !.last = branch, !.at = "enqueue"]
<1>1. TypeOK /\ Deletions
  BY DEF IInv
<1>2. /\ UNCHANGED <<world, jobs, cooling, worker, round, bounds>>
      /\ stream' = [stream EXCEPT ![s] = r] /\ Handling(s, "branch")
  BY DEF NotifyBranch
<1>3. /\ state' = [state EXCEPT !.generation = @ + 1]
      /\ cache' = NoStatus /\ matched' = FALSE /\ pending' = FALSE /\ forced' = forced + 1
  BY DEF NotifyBranch, Invalidate
<1>4. r \in StreamRecord /\ r.inbox = stream[s].inbox /\ r.at = "enqueue"
  <2>1. branch \in Branch /\ stream[s].inbox # <<>> /\ stream[s] \in StreamRecord
    BY <1>1, <1>2, TakenItem
  <2> QED BY <2>1 DEF StreamRecord
<1> HIDE DEF r
<1>5. stream' \in [Stream -> StreamRecord] /\ stream'[s] = r /\ Messages'
  BY <1>1, <1>2, <1>4, OneStreamMoves DEF world
<1>6. state' \in PollState /\ state'.deleted = state.deleted
  BY <1>1, <1>3 DEF TypeOK, PollState
<1>7. forced' \in Nat
  BY <1>1, <1>3 DEF TypeOK
<1>8. TypeOK'
  BY <1>1, <1>2, <1>3, <1>5, <1>6, <1>7 DEF TypeOK, world, bounds
<1>9. Backed' /\ Served' /\ Counted'
  BY <1>2, <1>3, <1>4, <1>5, ForcedServes
<1>10. Deletions'
  BY <1>1, <1>2, <1>5, <1>6 DEF Deletions, world
<1> QED BY <1>8, <1>9, <1>10 DEF IInv

\* The service is told of a deletion that happened.
LEMMA NotifyDeletedKeeps ==
    ASSUME IInv, NEW s \in Stream, NotifyDeleted(s)
    PROVE  IInv'
<1>1. TypeOK /\ Deletions
  BY DEF IInv
<1>2. /\ UNCHANGED <<world, jobs, pending, cooling, worker, round, forced, bounds>>
      /\ stream' = [stream EXCEPT ![s] = Handled(s)] /\ Handling(s, "row")
      /\ cache' = NoStatus /\ matched' = FALSE
  BY DEF NotifyDeleted
<1>3. /\ Handled(s) \in StreamRecord /\ stream[s].inbox # <<>>
      /\ Handled(s).inbox = Tail(stream[s].inbox)
  BY <1>1, <1>2, TakenItem
<1>4. /\ stream' \in [Stream -> StreamRecord] /\ Messages'
      /\ \A u \in Stream \ {s} : stream'[u] = stream[u]
  BY <1>1, <1>2, <1>3, OneStreamMoves DEF world
<1>5. row.deleted
  <2>1. stream[s].inbox \in Seq(Item) /\ stream[s].inbox # <<>>
    BY <1>1, <1>3 DEF TypeOK, StreamRecord
  <2>2. 1 \in 1 .. Len(stream[s].inbox) /\ Head(stream[s].inbox) = stream[s].inbox[1]
    BY <2>1
  <2>3. Told(stream[s].inbox[1])
    BY <2>2 DEF NotifyDeleted, Handling, Told
  <2> QED BY <1>1, <2>2, <2>3 DEF Deletions, Messages
<1>6. state' \in PollState /\ state'.generation = state.generation
  BY <1>1 DEF TypeOK, PollState, NotifyDeleted
<1>7. TypeOK'
  BY <1>1, <1>2, <1>4, <1>6 DEF TypeOK, world, bounds
<1>8. Backed' /\ Served' /\ Counted'
  <2>1. jobs' \in [due : Nat, later : Nat]
    BY <1>7 DEF TypeOK
  <2>2. stream[s].at # "enqueue"
    BY <1>2 DEF Handling
  <2> QED BY <1>2, <1>4, <1>5, <1>6, <2>1, <2>2, NobodyMoves DEF world
<1>9. Deletions'
  BY <1>1, <1>2, <1>4, <1>5 DEF Deletions, world
<1> QED BY <1>7, <1>8, <1>9 DEF IInv

\* A worker at work keeps the object that was the workspace's, and with it its doom.
LEMMA NotifyRowKeeps ==
    ASSUME IInv, NEW s \in Stream, NotifyRow(s)
    PROVE  IInv'
<1> DEFINE new == Head(stream[s].inbox).row
           enqueue == [stream[s] EXCEPT !.at = "enqueue"]
           keeps(w) == worker[w].object = Latest /\ worker[w].at \in HoldingAJob \cup {"cleared"}
<1>1. TypeOK /\ Deletions /\ Backed /\ Served /\ Counted
  BY DEF IInv
<1>2. UNCHANGED <<world, jobs, cooling, round, bounds>> /\ Handling(s, "row") /\ ~new.deleted
  BY DEF NotifyRow
<1>3. worker' = [w \in Worker |-> IF keeps(w) THEN [worker[w] EXCEPT !.object = state]
                                  ELSE worker[w]]
  BY DEF NotifyRow
<1>4. /\ new \in Row /\ stream[s] \in StreamRecord /\ stream[s].inbox # <<>>
      /\ Handled(s) \in StreamRecord /\ Handled(s).inbox = Tail(stream[s].inbox)
      /\ stream[s].at = "idle"
  BY <1>1, <1>2, TakenItem DEF Handling
<1>5. /\ PollStateOf(new) \in PollState /\ ~PollStateOf(new).deleted
  BY <1>1, <1>2, <1>4, PollStateOfIsPollState
<1> HIDE DEF new
<1>6. /\ worker \in [Worker -> WorkerRecord] /\ state \in PollState
      /\ jobs \in [due : Nat, later : Nat] /\ forced \in Nat
  BY <1>1 DEF TypeOK
<1>7. \A w \in Worker : /\ worker'[w] \in WorkerRecord
                        /\ worker'[w].at = worker[w].at
                        /\ worker'[w].generation = worker[w].generation
                        /\ keeps(w) => worker'[w].object = state
                        /\ ~keeps(w) => worker'[w].object = worker[w].object
  BY <1>3, <1>6 DEF WorkerRecord
<1>8. worker' \in [Worker -> WorkerRecord]
  BY <1>3, <1>7
<1>9. \A w \in Worker : (worker'[w].object # Latest /\ worker'[w].object.deleted) => row.deleted
  BY <1>1, <1>7 DEF Deletions
<1>10. CASE \/ state.target # new.target
            \/ state.target = new.target /\ ~state.open /\ new.open
  <2>1. /\ stream' = [stream EXCEPT ![s] = enqueue]
        /\ pending' = FALSE /\ forced' = forced + 1 /\ cache' \in {cache, NoStatus}
        /\ matched' \in {matched, FALSE}
    BY <1>10 DEF NotifyRow, Invalidate, new
  <2>2. state' \in PollState /\ ~state'.deleted
    <3>1. CASE state.target # new.target
      <4>1. state' = [PollStateOf(new) EXCEPT !.generation = @ + 1]
        BY <3>1 DEF NotifyRow, Invalidate, new
      <4> QED BY <1>5, <4>1 DEF PollState
    <3>2. CASE ~(state.target # new.target)
      <4>1. state' = PollStateOf(new)
        BY <1>10, <3>2 DEF NotifyRow, new
      <4> QED BY <1>5, <4>1
    <3> QED BY <3>1, <3>2
  <2>3. enqueue \in StreamRecord /\ enqueue.inbox = stream[s].inbox /\ enqueue.at = "enqueue"
    BY <1>4 DEF StreamRecord
  <2> HIDE DEF enqueue
  <2>4. stream' \in [Stream -> StreamRecord] /\ stream'[s] = enqueue /\ Messages'
    BY <1>1, <1>2, <2>1, <2>3, OneStreamMoves DEF world
  <2>5. TypeOK'
    <3>1. cache' \in Status \cup {NoStatus} /\ matched' \in BOOLEAN
      BY <1>1, <2>1 DEF TypeOK
    <3>2. pending' \in BOOLEAN
      BY <2>1
    <3>3. forced' \in Nat
      <4>1. forced' = forced + 1
        BY <2>1
      <4> QED BY <1>6, <4>1
    <3> QED BY <1>1, <1>2, <1>8, <2>2, <2>4, <3>1, <3>2, <3>3 DEF TypeOK, world, bounds
  <2>6. Backed' /\ Served' /\ Counted'
    BY <1>2, <1>7, <2>1, <2>3, <2>4, ForcedServes
  <2>7. Deletions'
    BY <1>2, <1>9, <2>2, <2>4 DEF Deletions, world
  <2> QED BY <2>5, <2>6, <2>7 DEF IInv
<1>11. CASE state.target = new.target /\ (state.open \/ ~new.open)
  <2>1. /\ stream' = [stream EXCEPT ![s] = Handled(s)] /\ state' = PollStateOf(new)
        /\ UNCHANGED <<cache, matched, pending, forced>>
    BY <1>11 DEF NotifyRow, new
  <2>2. /\ stream' \in [Stream -> StreamRecord] /\ Messages'
        /\ \A u \in Stream \ {s} : stream'[u] = stream[u]
    BY <1>1, <1>2, <1>4, <2>1, OneStreamMoves DEF world
  <2>3. TypeOK'
    BY <1>1, <1>2, <1>5, <1>8, <2>1, <2>2 DEF TypeOK, world, bounds
  <2>4. \A w \in Worker : Doomed(w)' <=> Doomed(w)
    <3>1. SUFFICES ASSUME NEW w \in Worker
                   PROVE  Doomed(w)' <=> Doomed(w)
      OBVIOUS
    <3>2. CASE keeps(w)
      BY <1>6, <1>7, <3>2, LatestIsNoObject DEF Doomed, ObjectOf
    <3>3. CASE worker[w].object # Latest
      BY <1>7, <3>3 DEF Doomed, ObjectOf
    <3>4. CASE worker[w].object = Latest /\ ~keeps(w)
      BY <1>7, <3>4 DEF Doomed, HoldingAJob
    <3> QED BY <3>2, <3>3, <3>4
  <2>5. Queued' <=> Queued
    BY <1>2 DEF Queued
  <2>6. Backed'
    BY <1>1, <1>7, <2>1, <2>4, <2>5 DEF Backed
  <2>7. Served'
    BY <1>1, <1>2, <1>4, <1>7, <2>1, <2>2, <2>4, <2>5 DEF Served, world
  <2>8. Counted'
    <3>1. Holders' = Holders
      BY <1>7 DEF Holders
    <3>2. Jobs' = Jobs
      BY <1>2, <3>1 DEF Jobs
    <3> QED BY <1>1, <2>1, <3>2 DEF Counted
  <2>9. Deletions'
    BY <1>2, <1>5, <1>9, <2>1, <2>2 DEF Deletions, world
  <2> QED BY <2>3, <2>6, <2>7, <2>8, <2>9 DEF IInv
<1> QED BY <1>4, <1>6, <1>10, <1>11 DEF PollState, Row

\* A client comes: its queue starts with what is known of the workspace.
LEMMA ConnectKeeps ==
    ASSUME IInv, NEW s \in Stream, Connect(s)
    PROVE  IInv'
<1> DEFINE branches == IF scanned = NoBranch THEN <<>>
                       ELSE <<[kind |-> "branch", branch |-> scanned]>>
           rows == IF row.deleted THEN <<>> ELSE <<[kind |-> "row", row |-> row]>>
           inbox == branches \o rows
           r == [stream[s] EXCEPT !.on = TRUE, !.inbox = inbox]
<1>1. TypeOK /\ Deletions
  BY DEF IInv
<1>2. /\ UNCHANGED <<world, state, jobs, pending, cache, matched, cooling, worker, round, forced, changes, failures>>
      /\ links < MaxLinks /\ links' = links + 1
  BY DEF Connect
<1>3. stream' = [stream EXCEPT ![s] = r]
  BY DEF Connect
<1>4. branches \in Seq(Item) /\ rows \in Seq(Item)
  <2>1. scanned # NoBranch => [kind |-> "branch", branch |-> scanned] \in Item
    BY <1>1 DEF TypeOK, Item
  <2>2. [kind |-> "row", row |-> row] \in Item
    BY <1>1 DEF TypeOK, Item
  <2> QED BY <2>1, <2>2
<1>5. \A i \in 1 .. Len(branches) : ~Told(branches[i])
  BY DEF Told
<1>6. \A i \in 1 .. Len(rows) : Told(rows[i]) => row.deleted
  BY DEF Told
<1> HIDE DEF branches, rows
<1>7. /\ inbox \in Seq(Item) /\ Len(inbox) = Len(branches) + Len(rows)
      /\ \A i \in 1 .. Len(inbox) :
            inbox[i] = IF i <= Len(branches) THEN branches[i] ELSE rows[i - Len(branches)]
  BY <1>4, ConcatProperties
<1>8. \A i \in 1 .. Len(inbox) : Told(inbox[i]) => row.deleted
  <2>1. SUFFICES ASSUME NEW i \in 1 .. Len(inbox), Told(inbox[i])
                 PROVE  row.deleted
    OBVIOUS
  <2>2. Len(branches) \in Nat /\ Len(rows) \in Nat
    BY <1>4
  <2>3. CASE i <= Len(branches)
    BY <1>5, <1>7, <2>1, <2>2, <2>3
  <2>4. CASE ~(i <= Len(branches))
    <3>1. i - Len(branches) \in 1 .. Len(rows) /\ inbox[i] = rows[i - Len(branches)]
      BY <1>7, <2>1, <2>2, <2>4
    <3> QED BY <1>6, <2>1, <3>1
  <2> QED BY <2>3, <2>4
<1> HIDE DEF inbox
<1>9. stream \in [Stream -> StreamRecord] /\ stream[s].at = "idle"
  BY <1>1 DEF TypeOK, StreamRecord, Connect
<1>10. r \in StreamRecord /\ r.at = stream[s].at /\ r.inbox = inbox
  BY <1>7, <1>9 DEF StreamRecord
<1> HIDE DEF r
<1>11. /\ stream' \in [Stream -> StreamRecord] /\ stream'[s] = r
       /\ \A u \in Stream \ {s} : stream'[u] = stream[u]
  BY <1>3, <1>9, <1>10
<1>12. Messages'
  BY <1>1, <1>2, <1>8, <1>10, <1>11 DEF Deletions, Messages, Told, world
<1>13. links' \in 0 .. MaxLinks
  BY <1>1, <1>2, BoundsAreNumbers DEF TypeOK
<1>14. TypeOK'
  BY <1>1, <1>2, <1>11, <1>13 DEF TypeOK, world
<1>15. Backed' /\ Served' /\ Counted'
  <2>1. jobs' \in [due : Nat, later : Nat]
    BY <1>14 DEF TypeOK
  <2> QED BY <1>2, <1>9, <1>11, <2>1, NobodyMoves DEF world
<1>16. Deletions'
  BY <1>1, <1>2, <1>12 DEF Deletions, world
<1> QED BY <1>14, <1>15, <1>16 DEF IInv

\* A stream goes that was not about to put a job.
LEMMA DisconnectKeeps ==
    ASSUME IInv, NEW s \in Stream, Disconnect(s)
    PROVE  IInv'
<1>1. TypeOK /\ Deletions
  BY DEF IInv
<1>2. /\ UNCHANGED <<world, state, jobs, pending, cache, matched, cooling, worker, round, forced, changes, failures>>
      /\ stream' = [stream EXCEPT ![s] = ClosedStream]
      /\ stream[s].at = "idle" /\ links < MaxLinks /\ links' = links + 1
  BY DEF Disconnect
<1>3. ClosedStream \in StreamRecord /\ ClosedStream.inbox = <<>>
  BY ConstantRecords DEF ClosedStream
<1>4. /\ stream' \in [Stream -> StreamRecord] /\ Messages'
      /\ \A u \in Stream \ {s} : stream'[u] = stream[u]
  BY <1>1, <1>2, <1>3, OneStreamMoves DEF world
<1>5. links' \in 0 .. MaxLinks
  BY <1>1, <1>2, BoundsAreNumbers DEF TypeOK
<1>6. TypeOK'
  BY <1>1, <1>2, <1>4, <1>5 DEF TypeOK, world
<1>7. Backed' /\ Served' /\ Counted'
  <2>1. jobs' \in [due : Nat, later : Nat]
    BY <1>6 DEF TypeOK
  <2> QED BY <1>2, <1>4, <2>1, NobodyMoves DEF world
<1>8. Deletions'
  BY <1>1, <1>2, <1>4 DEF Deletions, world
<1> QED BY <1>6, <1>7, <1>8 DEF IInv

-----------------------------------------------------------------------------
(* The environment's steps                                                 *)

\* An item comes into the queues.
LEMMA PostKeeps ==
    ASSUME TypeOK, Deletions, row.deleted => row'.deleted,
           NEW item \in Item, Told(item) => row'.deleted, stream' = Post(stream, item)
    PROVE  /\ stream' \in [Stream -> StreamRecord]
           /\ \A s \in Stream : stream'[s].at = stream[s].at
           /\ Messages'
<1>1. stream \in [Stream -> StreamRecord] /\ Messages
  BY DEF TypeOK, Deletions
<1>2. ASSUME NEW s \in Stream
      PROVE  /\ stream'[s] \in StreamRecord
             /\ stream'[s].at = stream[s].at
             /\ \A i \in 1 .. Len(stream'[s].inbox) : Told(stream'[s].inbox[i]) => row'.deleted
  <2> DEFINE inbox == stream[s].inbox
  <2>1. stream[s] \in StreamRecord /\ inbox \in Seq(Item)
    BY <1>1 DEF StreamRecord
  <2>2. \A i \in 1 .. Len(inbox) : Told(inbox[i]) => row'.deleted
    BY <1>1 DEF Messages
  <2>3. CASE ~stream[s].on
    BY <1>1, <2>1, <2>2, <2>3 DEF Post
  <2>4. CASE stream[s].on
    <3>1. stream'[s] = [stream[s] EXCEPT !.inbox = Append(inbox, item)]
      BY <2>4 DEF Post
    <3>2. /\ Append(inbox, item) \in Seq(Item) /\ Append(inbox, item) # <<>>
          /\ Len(Append(inbox, item)) = Len(inbox) + 1
          /\ \A i \in 1 .. Len(inbox) : Append(inbox, item)[i] = inbox[i]
          /\ Append(inbox, item)[Len(inbox) + 1] = item
      BY <2>1
    <3>3. \A i \in 1 .. Len(inbox) + 1 : Told(Append(inbox, item)[i]) => row'.deleted
      <4>1. SUFFICES ASSUME NEW i \in 1 .. Len(inbox) + 1, Told(Append(inbox, item)[i])
                     PROVE  row'.deleted
        OBVIOUS
      <4>2. CASE i = Len(inbox) + 1
        BY <3>2, <4>1, <4>2
      <4>3. CASE i # Len(inbox) + 1
        <5>1. i \in 1 .. Len(inbox)
          BY <2>1, <4>1, <4>3
        <5> QED BY <2>2, <3>2, <4>1, <5>1
      <4> QED BY <4>2, <4>3
    <3> DEFINE longer == Append(inbox, item)
    <3> HIDE DEF longer
    <3>4. stream'[s] = [stream[s] EXCEPT !.inbox = longer]
      BY <3>1 DEF longer
    <3>5. stream'[s] \in StreamRecord /\ stream'[s].at = stream[s].at /\ stream'[s].inbox = longer
      <4>1. longer \in Seq(Item) /\ longer # <<>>
        BY <3>2 DEF longer
      <4> QED BY <2>1, <2>4, <3>4, <4>1 DEF StreamRecord
    <3> QED BY <3>2, <3>3, <3>5 DEF longer
  <2> QED BY <2>3, <2>4
<1>3. stream' \in [Stream -> StreamRecord]
  <2>1. stream' = [s \in Stream |-> stream'[s]]
    BY DEF Post
  <2> QED BY <1>2, <2>1
<1>4. Messages'
  BY <1>2 DEF Messages, Told
<1> QED BY <1>2, <1>3, <1>4

\* What changes around the service leaves its jobs alone.
LEMMA EnvironmentKeeps ==
    ASSUME IInv,
           UNCHANGED <<state, jobs, pending, cache, matched, cooling, worker, round, forced, links>>,
           head' \in Branch, cloned' \in BOOLEAN, row' \in Row,
           request' \in [Branch -> {"none", "open", "merged"}],
           enabled' \in BOOLEAN, scanned' \in Branch \cup {NoBranch},
           changes' \in 0 .. MaxChanges, failures' \in 0 .. MaxFailures,
           row.deleted => row'.deleted,
           \/ stream' = stream
           \/ \E item \in Item : (Told(item) => row'.deleted) /\ stream' = Post(stream, item)
    PROVE  IInv'
<1>1. TypeOK /\ Deletions
  BY DEF IInv
<1>2. /\ stream' \in [Stream -> StreamRecord]
      /\ \A s \in Stream : stream'[s].at = stream[s].at
      /\ Messages'
  <2>1. CASE stream' = stream
    BY <1>1, <2>1 DEF TypeOK, Deletions, Messages, Told
  <2>2. CASE stream' # stream
    BY <1>1, <2>2, PostKeeps
  <2> QED BY <2>1, <2>2
<1>3. TypeOK'
  BY <1>1, <1>2 DEF TypeOK
<1>4. jobs' \in [due : Nat, later : Nat]
  BY <1>3 DEF TypeOK
<1>5. Backed' /\ Served' /\ Counted'
  BY <1>2, <1>4, NobodyMoves
<1>6. Deletions'
  BY <1>1, <1>2 DEF Deletions
<1> QED BY <1>3, <1>5, <1>6 DEF IInv

\* The scanner's steps.
LEMMA ScannerKeeps ==
    ASSUME IInv, Scan \/ ScanFails
    PROVE  IInv'
<1>1. TypeOK
  BY DEF IInv
<1>2. CASE Scan
  <2>1. UNCHANGED <<head, cloned, row, request, enabled, state, jobs, pending, cache, matched,
                    cooling, worker, round, forced, bounds>>
    BY <1>2 DEF Scan
  <2>2. /\ scanned' \in Branch \cup {NoBranch}
        /\ \/ stream' = stream
           \/ stream' = Post(stream, [kind |-> "branch", branch |-> head])
    BY <1>1, <1>2 DEF Scan, TypeOK
  <2>3. [kind |-> "branch", branch |-> head] \in Item /\ ~Told([kind |-> "branch", branch |-> head])
    BY <1>1 DEF TypeOK, Item, Told
  <2> QED BY <1>1, <2>1, <2>2, <2>3, EnvironmentKeeps DEF TypeOK, bounds
<1>3. CASE ScanFails
  <2>1. /\ UNCHANGED <<head, cloned, row, request, enabled, state, jobs, pending, cache, matched,
                       cooling, worker, round, stream, forced, changes, links>>
        /\ scanned' = NoBranch
    BY <1>3 DEF ScanFails
  <2>2. failures' \in 0 .. MaxFailures
    BY <1>1, <1>3, BoundsAreNumbers DEF ScanFails, TypeOK
  <2> QED BY <1>1, <2>1, <2>2, EnvironmentKeeps DEF TypeOK
<1> QED BY <1>2, <1>3

\* The row changes, or its directory comes; the streams are told what it is.
LEMMA UpdateRowKeeps ==
    ASSUME IInv, UpdateRow \/ Clone
    PROVE  IInv'
<1> DEFINE item == [kind |-> "row", row |-> row']
<1>1. TypeOK
  BY DEF IInv
<1>2. row \in Row
  BY <1>1 DEF TypeOK
<1>3. row' \in Row /\ (row.deleted => row'.deleted)
  <2>1. CASE UpdateRow
    <3>1. /\ ~row.deleted
          /\ row' \in [target : {row.target}, open : {~row.open}, deleted : {FALSE}]
                   \cup [target : Branch \ {row.target}, open : {row.open}, deleted : {FALSE}]
                   \cup {[row EXCEPT !.deleted = TRUE]}
      BY <2>1 DEF UpdateRow
    <3> QED BY <1>2, <3>1 DEF Row
  <2>2. CASE Clone
    BY <1>2, <2>2 DEF Clone
  <2> QED BY <2>1, <2>2
<1>4. item \in Item /\ (Told(item) => row'.deleted)
  BY <1>3 DEF Item, Told
<1>5. stream' = Post(stream, item)
  BY DEF UpdateRow, Clone
<1> HIDE DEF item
<1>6. CASE UpdateRow
  <2>1. /\ UNCHANGED <<head, cloned, request, enabled>>
        /\ UNCHANGED <<scanned, state, jobs, pending, cache, matched, cooling, worker, round, forced, links, failures>>
    BY <1>6 DEF UpdateRow, Change
  <2>2. changes' \in 0 .. MaxChanges
    BY <1>1, <1>6, BoundsAreNumbers DEF UpdateRow, Change, TypeOK
  <2> QED BY <1>1, <1>3, <1>4, <1>5, <2>1, <2>2, EnvironmentKeeps DEF TypeOK
<1>7. CASE Clone
  <2>1. /\ UNCHANGED <<head, row, request, enabled, scanned, state, jobs, pending, cache, matched,
                       cooling, worker, round, forced, bounds>>
        /\ cloned' \in BOOLEAN
    BY <1>7 DEF Clone
  <2> QED BY <1>1, <1>3, <1>4, <1>5, <2>1, EnvironmentKeeps DEF TypeOK, bounds
<1> QED BY <1>6, <1>7

\* The checkout, the requests and the setting.
LEMMA ChangeKeeps ==
    ASSUME IInv, SwitchBranch \/ ChangeRequest \/ ToggleSetting
    PROVE  IInv'
<1>1. TypeOK
  BY DEF IInv
<1>2. /\ UNCHANGED <<cloned, row, stream>>
      /\ UNCHANGED <<scanned, state, jobs, pending, cache, matched, cooling, worker, round, forced, links, failures>>
      /\ changes < MaxChanges /\ changes' = changes + 1
  BY DEF SwitchBranch, ChangeRequest, ToggleSetting, Change
<1>3. changes' \in 0 .. MaxChanges
  BY <1>1, <1>2, BoundsAreNumbers DEF TypeOK
<1>4. head' \in Branch
  BY <1>1 DEF TypeOK, SwitchBranch, ChangeRequest, ToggleSetting
<1>5. enabled' \in BOOLEAN
  BY <1>1 DEF TypeOK, SwitchBranch, ChangeRequest, ToggleSetting
<1>6. request' \in [Branch -> {"none", "open", "merged"}]
  <2>1. CASE request' = request
    BY <1>1, <2>1 DEF TypeOK
  <2>2. CASE request' # request
    <3>1. ChangeRequest
      BY <2>2 DEF SwitchBranch, ToggleSetting
    <3>2. PICK b \in Branch : request' = [request EXCEPT ![b] = CASE @ = "none" -> "open" [] OTHER -> "merged"]
      BY <3>1 DEF ChangeRequest
    <3> QED BY <1>1, <3>2 DEF TypeOK
  <2> QED BY <2>1, <2>2
<1> QED BY <1>1, <1>2, <1>3, <1>4, <1>5, <1>6, EnvironmentKeeps DEF TypeOK

-----------------------------------------------------------------------------
(* The invariant                                                           *)

\* The service starts with one job and the mark for it.
LEMMA InitHolds == Init => IInv
<1> SUFFICES ASSUME Init PROVE IInv
  OBVIOUS
<1>1. TypeOK
  <2>1. row \in Row /\ ~row.deleted
    BY DEF Init, Row
  <2>2. state \in PollState
    BY <2>1 DEF Init, Idle, PollStateOf, PollState, Row
  <2>3. worker \in [Worker -> WorkerRecord] /\ stream \in [Stream -> StreamRecord] /\ round \in RoundRecord
    BY ConstantRecords DEF Init, Idle
  <2>4. jobs \in [due : Nat, later : Nat] /\ forced \in Nat
    BY DEF Init, Idle
  <2>5. /\ cache \in Status \cup {NoStatus} /\ scanned \in Branch \cup {NoBranch}
        /\ pending \in BOOLEAN /\ matched \in BOOLEAN /\ cooling \in BOOLEAN
    BY DEF Init, Idle
  <2>6. changes \in 0 .. MaxChanges /\ links \in 0 .. MaxLinks /\ failures \in 0 .. MaxFailures
    BY BoundsAreNumbers DEF Init
  <2>7. /\ head \in Branch /\ cloned \in BOOLEAN /\ enabled \in BOOLEAN
        /\ request \in [Branch -> {"none", "open", "merged"}]
    BY DEF Init
  <2> QED BY <2>1, <2>2, <2>3, <2>4, <2>5, <2>6, <2>7 DEF TypeOK
<1>2. Queued
  BY DEF Init, Idle, Queued
<1>3. Backed /\ Served
  BY <1>2 DEF Backed, Served
<1>4. Deletions
  BY DEF Init, Idle, IdleWorker, ClosedStream, PollStateOf, Deletions, Messages
<1>5. Counted
  <2>1. Holders = {}
    BY DEF Init, Idle, IdleWorker, Holders, HoldingAJob
  <2>2. Cardinality(Holders) = 0
    BY <2>1, FS_EmptySet
  <2> QED BY <2>2 DEF Counted, Jobs, Init, Idle
<1> QED BY <1>1, <1>3, <1>4, <1>5 DEF IInv

\* Every step keeps it.
LEMMA StepKeeps == IInv /\ [Next]_vars => IInv'
<1> SUFFICES ASSUME IInv, [Next]_vars PROVE IInv'
  OBVIOUS
<1>1. ASSUME NEW w \in Worker, WorkerStep(w)
      PROVE  IInv'
  BY <1>1, DequeueKeeps, ComesDueKeeps, PutBackKeeps, SkipDisabledKeeps, StartPollKeeps, FetchKeeps,
     FetchFailsKeeps, ClearPendingKeeps, DigestKeeps, EmitKeeps, LeaveToRoundKeeps, RequeueKeeps
     DEF WorkerStep
<1>2. ASSUME NEW s \in Stream, StreamStep(s) \/ Connect(s) \/ Disconnect(s)
      PROVE  IInv'
  BY <1>2, NotifyReadyKeeps, NotifySameBranchKeeps, NotifyBranchKeeps, ForceEnqueueKeeps,
     NotifyRowKeeps, NotifyDeletedKeeps, ConnectKeeps, DisconnectKeeps DEF StreamStep
<1>3. CASE RoundStep \/ CoolDown
  BY <1>3, RoundStepKeeps
<1>4. CASE Scan \/ ScanFails \/ SwitchBranch \/ UpdateRow \/ ChangeRequest \/ ToggleSetting \/ Clone
  BY <1>4, ScannerKeeps, UpdateRowKeeps, ChangeKeeps
<1>5. CASE JobComesDue
  BY <1>5, JobComesDueKeeps
<1>6. CASE UNCHANGED vars
  <2>1. TypeOK
    BY DEF IInv
  <2> QED BY <1>6, <2>1, QuietKeeps DEF vars, TypeOK
<1> QED BY <1>1, <1>2, <1>3, <1>4, <1>5, <1>6 DEF Next

\* The inductive invariant holds in every reachable state.
THEOREM PollingInvariant == Spec => []IInv
BY InitHolds, StepKeeps, PTL DEF Spec

\* Whatever the threads do, the state of the service keeps its shape; in
\* particular what waits to be put into the cache is a status, and a stream
\* about to put a job has not lost the item it is for.
THEOREM PollingTypeCorrect == Spec => []TypeOK
<1>1. IInv => TypeOK
  BY DEF IInv
<1> QED BY <1>1, PollingInvariant, PTL

\* _pending never outlives its job: with any number of workers and streams, a
\* mark on the workspace stands for a job that is queued or that a worker holds.
THEOREM MarksAreBacked == Spec => []PendingIsBacked
<1>1. IInv => PendingIsBacked
  <2> SUFFICES ASSUME IInv, pending PROVE Jobs > 0
    BY DEF PendingIsBacked
  <2>1. /\ jobs.due \in Nat /\ jobs.later \in Nat
        /\ IsFiniteSet(Holders) /\ Cardinality(Holders) \in Nat
    BY HoldersAreFinite DEF IInv, TypeOK
  <2>2. CASE Queued
    BY <2>1, <2>2 DEF Queued, Jobs
  <2>3. CASE Holders # {}
    <3>1. Cardinality(Holders) # 0
      BY <2>1, <2>3, FS_EmptySet
    <3> QED BY <2>1, <3>1 DEF Jobs
  <2> QED BY <2>2, <2>3 DEF IInv, Backed, Holders
<1> QED BY <1>1, PollingInvariant, PTL

\* A workspace that is not deleted always has a job, a worker or a stream about
\* to put one, or the round driver: no interleaving of polls, rounds, forced
\* polls and changes of the row ends its polling.
THEOREM NobodyIsAbandoned == Spec => []NeverAbandoned
<1>1. IInv => NeverAbandoned
  <2> SUFFICES ASSUME IInv PROVE NeverAbandoned
    OBVIOUS
  <2>1. /\ jobs.due \in Nat /\ jobs.later \in Nat /\ worker \in [Worker -> WorkerRecord]
        /\ IsFiniteSet(Holders) /\ Cardinality(Holders) \in Nat
    BY HoldersAreFinite DEF IInv, TypeOK
  <2>2. CASE Queued
    <3>1. Jobs > 0
      BY <2>1, <2>2 DEF Queued, Jobs
    <3> QED BY <3>1 DEF NeverAbandoned
  <2>3. CASE Holders # {}
    <3>1. Cardinality(Holders) # 0
      BY <2>1, <2>3, FS_EmptySet
    <3>2. Jobs > 0
      BY <2>1, <3>1 DEF Jobs
    <3> QED BY <3>2 DEF NeverAbandoned
  <2>4. CASE Holders = {} /\ \E w \in Worker : worker[w].at # "idle"
    BY <2>1, <2>4 DEF NeverAbandoned, Holders, HoldingAJob, WorkerRecord, WorkerPlace
  <2>5. Served
    BY DEF IInv
  <2> QED BY <2>2, <2>3, <2>4, <2>5 DEF Served, NeverAbandoned
<1> QED BY <1>1, PollingInvariant, PTL

\* Only forced polls add to the jobs: rounds, first polls and the workers'
\* own next jobs never do, in whatever order they cross.
THEOREM OnlyForcedAddUp == Spec => []OnlyForcedPollsAddUp
<1>1. IInv => OnlyForcedPollsAddUp
  <2> SUFFICES ASSUME IInv PROVE OnlyForcedPollsAddUp
    OBVIOUS
  <2>1. jobs.due \in Nat /\ jobs.later \in Nat /\ forced \in Nat /\ Cardinality(Holders) \in Nat
    BY HoldersAreFinite DEF IInv, TypeOK
  <2>2. Jobs \in Nat
    BY <2>1 DEF Jobs
  <2> QED BY <2>1, <2>2 DEF IInv, Counted, OnlyForcedPollsAddUp
<1> QED BY <1>1, PollingInvariant, PTL
=============================================================================
