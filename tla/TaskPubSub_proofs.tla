------------------------- MODULE TaskPubSub_proofs -------------------------
(***************************************************************************)
(* What TaskPubSub keeps true for every number of threads, listeners and   *)
(* streams, and with no bound on messages or restarts that the proofs      *)
(* depend on: TypeOK, CacheIsComplete, NothingIsMissed, FollowersSeeOnce,   *)
(* and that it implements MessageFeed.                                     *)
(***************************************************************************)
EXTENDS TaskPubSub, FiniteSetTheorems, TLAPS

-----------------------------------------------------------------------------
(* The inductive invariant *)

\* Who publishes or clears the entry of a deleted task does so after the
\* deletion; a message to publish was committed; followers copy.
Bookkeeping ==
    /\ \A w \in Writer :
          /\ writer[w].todo \in {"publishDeleted", "cleanup"} => deleted
          /\ writer[w].todo = "publish" => writer[w].message \in 1 .. Len(log)
    /\ \A s \in Sub :
          /\ pc[s] # "copying" => history[s] = <<>> /\ copied[s] = 0 /\ ~aliased[s]
          /\ pc[s] \in {"idle", "resolved", "closed"} => seen[s] = <<>>
    /\ \A s \in Follower : ~aliased[s] /\ copied[s] = 0 /\ (pc[s] = "resolved" => log # <<>>)

\* From the moment it is registered, a listener has all that the cache holds.
Complete == ~deleted => \A s \in Sub : Listening(s) => ToSet(cache) \subseteq Has(s)

\* A message that is still to be published is to be published by one thread,
\* and is in no list of the cache or of a follower.
NewToAll(m) ==
    /\ m \notin ToSet(cache)
    /\ \A s \in Follower : m \notin ToSet(seen[s]) /\ m \notin ToSet(history[s])
Unpublished ==
    /\ \A v, w \in Writer :
          writer[v].todo = "publish" /\ writer[w].todo = "publish"
            /\ writer[v].message = writer[w].message => v = w
    /\ \A w \in Writer : writer[w].todo = "publish" => NewToAll(writer[w].message)
    /\ \A m \in Nat : m > Len(log) => NewToAll(m)

\* The lists have no message twice, and a follower's two lists share none.
Once ==
    /\ IsInjective(cache)
    /\ \A s \in Follower :
          /\ IsInjective(seen[s]) /\ IsInjective(history[s])
          /\ ToSet(seen[s]) \cap ToSet(history[s]) = {}

IInv ==
    /\ TypeOK /\ Bookkeeping
    /\ CacheIsComplete
    /\ Complete
    /\ Unpublished /\ Once

-----------------------------------------------------------------------------
(* Sequences *)

\* Appending adds one element, and keeps a list free of repetitions when the
\* element is new.
LEMMA Appended ==
    ASSUME NEW S, NEW q \in Seq(S), NEW e \in S
    PROVE  /\ ToSet(Append(q, e)) = ToSet(q) \cup {e}
           /\ IsInjective(q) /\ e \notin ToSet(q) => IsInjective(Append(q, e))
<1>1. /\ DOMAIN q = 1 .. Len(q) /\ Len(q) \in Nat
      /\ DOMAIN Append(q, e) = 1 .. Len(q) + 1
      /\ \A i \in 1 .. Len(q) : Append(q, e)[i] = q[i]
      /\ Append(q, e)[Len(q) + 1] = e
  OBVIOUS
<1>2. ToSet(Append(q, e)) = ToSet(q) \cup {e}
  BY <1>1 DEF ToSet
<1>3. ASSUME IsInjective(q), e \notin ToSet(q) PROVE IsInjective(Append(q, e))
  BY <1>1, <1>3 DEF ToSet, IsInjective
<1> QED BY <1>2, <1>3

\* So does joining two lists that share nothing.
LEMMA Joined ==
    ASSUME NEW S, NEW q \in Seq(S), NEW r \in Seq(S)
    PROVE  /\ ToSet(q \o r) = ToSet(q) \cup ToSet(r)
           /\ IsInjective(q) /\ IsInjective(r) /\ ToSet(q) \cap ToSet(r) = {}
                => IsInjective(q \o r)
<1>1. /\ DOMAIN q = 1 .. Len(q) /\ Len(q) \in Nat
      /\ DOMAIN r = 1 .. Len(r) /\ Len(r) \in Nat
      /\ DOMAIN (q \o r) = 1 .. Len(q) + Len(r)
      /\ \A i \in 1 .. Len(q) : (q \o r)[i] = q[i]
      /\ \A i \in 1 .. Len(r) : (q \o r)[Len(q) + i] = r[i]
      /\ \A i \in 1 .. Len(q) + Len(r) : i \in 1 .. Len(q) \/ i - Len(q) \in 1 .. Len(r)
  OBVIOUS
<1>2. \A i \in 1 .. Len(q) + Len(r) :
         \/ i \in 1 .. Len(q) /\ (q \o r)[i] = q[i]
         \/ i - Len(q) \in 1 .. Len(r) /\ (q \o r)[i] = r[i - Len(q)]
  <2> TAKE i \in 1 .. Len(q) + Len(r)
  <2>1. CASE i \in 1 .. Len(q)
    BY <1>1, <2>1
  <2>2. CASE i - Len(q) \in 1 .. Len(r)
    <3>1. Len(q) + (i - Len(q)) = i
      BY <1>1
    <3> QED BY <1>1, <2>2, <3>1
  <2> QED BY <1>1, <2>1, <2>2
<1>3. ToSet(q \o r) = ToSet(q) \cup ToSet(r)
  <2>1. ToSet(q \o r) \subseteq ToSet(q) \cup ToSet(r)
    BY <1>1, <1>2 DEF ToSet
  <2>2. ToSet(q) \subseteq ToSet(q \o r)
    BY <1>1 DEF ToSet
  <2>3. ToSet(r) \subseteq ToSet(q \o r)
    <3>1. \A i \in 1 .. Len(r) : Len(q) + i \in 1 .. Len(q) + Len(r)
      BY <1>1
    <3> QED BY <1>1, <3>1 DEF ToSet
  <2> QED BY <2>1, <2>2, <2>3
<1>4. ASSUME IsInjective(q), IsInjective(r), ToSet(q) \cap ToSet(r) = {},
             NEW i \in 1 .. Len(q) + Len(r), NEW j \in 1 .. Len(q) + Len(r),
             (q \o r)[i] = (q \o r)[j]
      PROVE  i = j
  <2>1. CASE i \in 1 .. Len(q) /\ j \in 1 .. Len(q)
    BY <1>1, <1>4, <2>1 DEF IsInjective
  <2>2. CASE i \notin 1 .. Len(q) /\ j \notin 1 .. Len(q)
    <3>1. i - Len(q) \in DOMAIN r /\ j - Len(q) \in DOMAIN r /\ r[i - Len(q)] = r[j - Len(q)]
      BY <1>1, <1>2, <1>4, <2>2
    <3>2. i - Len(q) = j - Len(q)
      BY <1>4, <3>1 DEF IsInjective
    <3> QED BY <3>2, <1>1
  <2>0. ASSUME NEW k \in 1 .. Len(q) + Len(r)
        PROVE  /\ k \in 1 .. Len(q) => (q \o r)[k] \in ToSet(q)
               /\ k \notin 1 .. Len(q) => (q \o r)[k] \in ToSet(r)
    <3>1. k \in 1 .. Len(q) => k \in DOMAIN q /\ (q \o r)[k] = q[k]
      BY <1>1
    <3>2. k \notin 1 .. Len(q) => k - Len(q) \in DOMAIN r /\ (q \o r)[k] = r[k - Len(q)]
      BY <1>1, <1>2
    <3> QED BY <3>1, <3>2 DEF ToSet
  <2>3. CASE i \in 1 .. Len(q) /\ j \notin 1 .. Len(q)
    BY <1>4, <2>0, <2>3
  <2>4. CASE i \notin 1 .. Len(q) /\ j \in 1 .. Len(q)
    BY <1>4, <2>0, <2>4
  <2> QED BY <2>1, <2>2, <2>3, <2>4
<1> QED BY <1>1, <1>3, <1>4 DEF IsInjective

\* The empty list.
LEMMA Empty == ToSet(<<>>) = {} /\ IsInjective(<<>>)
  BY DEF ToSet, IsInjective

\* What is reloaded is a list of the saved messages, each once.
LEMMA ReloadedIsList ==
    ASSUME TypeOK, NEW q \in Reloaded
    PROVE  q \in Seq(Message) /\ ToSet(q) = Saved /\ IsInjective(q)
<1>1. Len(log) \in Nat /\ Len(log) <= MaxCommits
  BY DEF TypeOK
<1>2. Saved \subseteq 1 .. Len(log) /\ IsFiniteSet(1 .. Len(log))
  BY <1>1, FS_Interval DEF Saved
<1>3. Cardinality(Saved) \in Nat
  BY <1>2, FS_Subset, FS_CardinalityType
<1>4. Saved \subseteq Message
  BY <1>1, <1>2, PubSubAssumption DEF Message
<1>5. q \in [1 .. Cardinality(Saved) -> Message]
  BY <1>4 DEF Reloaded
<1> QED BY <1>3, <1>5 DEF Reloaded

-----------------------------------------------------------------------------
(* Types *)

\* Every step keeps the types.
LEMMA TypeStep ==
    ASSUME TypeOK, Bookkeeping, [Next]_vars
    PROVE  TypeOK'
<1> USE DEF TypeOK, tableVars, cacheVars, listenerVars
<1>0. <<>> \in Seq(Message) /\ Follower \subseteq Sub
  BY DEF Sub
<1>1. ASSUME NEW w \in Writer, NEW kind \in {"saved", "ephemeral"}, Commit(w, kind)
      PROVE  TypeOK'
  <2>1. NewMessage \in Message
    BY <1>1, PubSubAssumption DEF Commit, NewMessage, Message
  <2>2. log' \in Seq({"saved", "ephemeral"}) /\ Len(log') <= MaxCommits
    BY <1>1, PubSubAssumption DEF Commit
  <2>3. writer' \in [Writer -> [todo : Callback, message : Message \cup {NoMessage}]]
    BY <1>1, <2>1 DEF Commit, Callback
  <2> QED BY <1>1, <2>2, <2>3 DEF Commit
<1>2. ASSUME NEW w \in Writer, CommitDeletion(w) PROVE TypeOK'
  BY <1>2 DEF CommitDeletion, Callback
<1>3. ASSUME NEW w \in Writer, Publish(w) PROVE TypeOK'
  <2>1. writer[w].message \in Message
    <3>1. Len(log) \in Nat /\ Len(log) <= MaxCommits /\ MaxCommits \in Nat
      BY PubSubAssumption
    <3>2. writer[w].message \in 1 .. Len(log)
      BY <1>3 DEF Publish, Bookkeeping
    <3> QED BY <3>1, <3>2 DEF Message
  <2>2. cache' \in Seq(Message)
    BY <1>3, <2>1 DEF Publish
  <2>3. history' \in [Sub -> Seq(Message)] /\ seen' \in [Sub -> Seq(Message)]
    BY <1>3, <2>1 DEF Publish
  <2>4. writer' \in [Writer -> [todo : Callback, message : Message \cup {NoMessage}]]
    BY <1>3 DEF Publish, Idle, Callback
  <2>5. unread' \in [Follower -> BOOLEAN] /\ cached' \in BOOLEAN
    BY <1>3 DEF Publish, Listening
  <2> QED BY <1>3, <2>2, <2>3, <2>4, <2>5 DEF Publish
<1>4. ASSUME NEW w \in Writer, PublishDeleted(w) PROVE TypeOK'
  <2>1. unread' \in [Follower -> BOOLEAN] /\ notice' \in [Follower -> BOOLEAN]
    BY <1>4 DEF PublishDeleted, Listening
  <2>2. writer' \in [Writer -> [todo : Callback, message : Message \cup {NoMessage}]]
    BY <1>4 DEF PublishDeleted, Callback
  <2> QED BY <1>4, <2>1, <2>2 DEF PublishDeleted
<1>5. ASSUME NEW w \in Writer, Cleanup(w) PROVE TypeOK'
  <2>1. writer' \in [Writer -> [todo : Callback, message : Message \cup {NoMessage}]]
    BY <1>5 DEF Cleanup, Idle, Callback
  <2> QED BY <1>0, <1>5, <2>1 DEF Cleanup
<1>6. ASSUME NEW s \in TaskSub, SubscribeToTask(s) PROVE TypeOK'
  BY <1>6 DEF SubscribeToTask, SubPC
<1>7. ASSUME NEW s \in Sub, CopyNext(s) PROVE TypeOK'
  <2>1. copied[s] \in Nat /\ history[s] \in Seq(Message) /\ copied[s] < Len(history[s])
    BY <1>7 DEF CopyNext
  <2>2. history[s][copied[s] + 1] \in Message
    BY <2>1
  <2>3. seen' \in [Sub -> Seq(Message)] /\ copied' \in [Sub -> Nat]
    BY <1>7, <2>1, <2>2 DEF CopyNext
  <2> QED BY <1>7, <2>3 DEF CopyNext
<1>8. ASSUME NEW s \in Sub, CopyDone(s) PROVE TypeOK'
  BY <1>8 DEF CopyDone, Release, SubPC
<1>9. ASSUME NEW s \in Follower, Resolve(s) PROVE TypeOK'
  BY <1>9 DEF Resolve, SubPC
<1>10. ASSUME NEW s \in Follower, SubscribeToContainers(s) PROVE TypeOK'
  <2>1. (IF Visible THEN cache ELSE <<>>) \in Seq(Message)
    BY <1>0
  <2>2. pc' \in [Sub -> SubPC] /\ history' \in [Sub -> Seq(Message)]
    BY <1>10, <2>1 DEF SubscribeToContainers, SubPC
  <2> QED BY <1>10, <2>2 DEF SubscribeToContainers
<1>11. ASSUME NEW s \in Follower, PutSeed(s) PROVE TypeOK'
  <2>1. seen[s] \o history[s] \in Seq(Message)
    BY DEF Sub
  <2>2. seen' \in [Sub -> Seq(Message)]
    BY <1>11, <2>1 DEF PutSeed, Seed
  <2>3. history' \in [Sub -> Seq(Message)] /\ aliased' \in [Sub -> BOOLEAN] /\ copied' \in [Sub -> Nat]
    BY <1>0, <1>11 DEF PutSeed, Release
  <2>4. pc' \in [Sub -> SubPC] /\ unread' \in [Follower -> BOOLEAN]
    BY <1>11 DEF PutSeed, SubPC
  <2> QED BY <1>11, <2>2, <2>3, <2>4 DEF PutSeed
<1>12. ASSUME NEW s \in Follower, SendInitialState(s) PROVE TypeOK'
  BY <1>12 DEF SendInitialState, SubPC
<1>13. ASSUME NEW s \in Follower, SendUpdate(s) PROVE TypeOK'
  <2>1. pc' \in [Sub -> SubPC] /\ seen' \in [Sub -> Seq(Message)]
    BY <1>0, <1>13 DEF SendUpdate, SubPC
  <2> QED BY <1>13, <2>1 DEF SendUpdate
<1>14. ASSUME NEW s \in Sub, Unsubscribe(s) PROVE TypeOK'
  <2>1. unread' \in [Follower -> BOOLEAN] /\ notice' \in [Follower -> BOOLEAN]
    BY <1>14 DEF Unsubscribe
  <2> QED BY <1>14, <2>1 DEF Unsubscribe, SubPC
<1>15. ASSUME Restart PROVE TypeOK'
  <2>1. cache' \in Seq(Message) /\ cached' \in BOOLEAN
    BY <1>0, <1>15, ReloadedIsList DEF Restart, Visible
  <2>2. lost' \subseteq Message
    <3>1. Len(log) \in Nat /\ Len(log) <= MaxCommits /\ MaxCommits \in Nat
      BY PubSubAssumption
    <3> QED BY <1>15, <3>1 DEF Restart, Message
  <2>3. writer' \in [Writer -> [todo : Callback, message : Message \cup {NoMessage}]]
    BY <1>15 DEF Restart, Idle, Callback
  <2>4. restarts' \in 0 .. MaxRestarts
    BY <1>15, PubSubAssumption DEF Restart
  <2>5. /\ pc' \in [Sub -> SubPC] /\ history' \in [Sub -> Seq(Message)]
        /\ aliased' \in [Sub -> BOOLEAN] /\ copied' \in [Sub -> Nat]
        /\ seen' \in [Sub -> Seq(Message)]
        /\ unread' \in [Follower -> BOOLEAN] /\ notice' \in [Follower -> BOOLEAN]
    BY <1>15 DEF Restart, SubPC
  <2> QED BY <1>15, <2>1, <2>2, <2>3, <2>4, <2>5 DEF Restart
<1>16. CASE UNCHANGED vars
  BY <1>16 DEF vars
<1> QED
  BY <1>1, <1>2, <1>3, <1>4, <1>5, <1>6, <1>7, <1>8, <1>9, <1>10, <1>11, <1>12, <1>13, <1>14,
     <1>15, <1>16 DEF Next, CallbackStep, Subscribe, ListenerStep

-----------------------------------------------------------------------------
(* Bookkeeping *)

\* Every step keeps Bookkeeping.
LEMMA BookkeepingStep ==
    ASSUME TypeOK, Bookkeeping, [Next]_vars
    PROVE  Bookkeeping'
<1> USE DEF TypeOK, Bookkeeping, tableVars, cacheVars, listenerVars, Sub
<1>1. ASSUME NEW w \in Writer, NEW kind \in {"saved", "ephemeral"}, Commit(w, kind)
      PROVE  Bookkeeping'
  <2>1. Len(log) \in Nat /\ Len(log') = Len(log) + 1 /\ log' # <<>>
    <3>1. log' = Append(log, kind) /\ log \in Seq({"saved", "ephemeral"})
      BY <1>1 DEF Commit
    <3>2. Len(log) \in Nat /\ Len(log') = Len(log) + 1
      BY <3>1
    <3> QED BY <3>2
  <2>2. \A v \in Writer : writer'[v].todo = "publish" =>
          writer'[v].message \in 1 .. Len(log) \cup {Len(log) + 1}
    BY <1>1, <2>1 DEF Commit, NewMessage
  <2> QED BY <1>1, <2>1, <2>2 DEF Commit
<1>2. ASSUME NEW w \in Writer, CommitDeletion(w) PROVE Bookkeeping'
  BY <1>2 DEF CommitDeletion
<1>3. ASSUME NEW w \in Writer, Publish(w) PROVE Bookkeeping'
  BY <1>3 DEF Publish, Idle, Listening
<1>4. ASSUME NEW w \in Writer, PublishDeleted(w) PROVE Bookkeeping'
  BY <1>4 DEF PublishDeleted
<1>5. ASSUME NEW w \in Writer, Cleanup(w) PROVE Bookkeeping'
  BY <1>5 DEF Cleanup, Idle
<1>6. ASSUME NEW s \in TaskSub, SubscribeToTask(s) PROVE Bookkeeping'
  BY <1>6, PubSubAssumption DEF SubscribeToTask
<1>7. ASSUME NEW s \in TaskSub, CopyNext(s) PROVE Bookkeeping'
  BY <1>7, PubSubAssumption DEF CopyNext
<1>8. ASSUME NEW s \in TaskSub, CopyDone(s) PROVE Bookkeeping'
  BY <1>8, PubSubAssumption DEF CopyDone, Release
<1>9. ASSUME NEW s \in Follower, Resolve(s) PROVE Bookkeeping'
  BY <1>9 DEF Resolve, Visible
<1>10. ASSUME NEW s \in Follower, SubscribeToContainers(s) PROVE Bookkeeping'
  BY <1>10 DEF SubscribeToContainers
<1>11. ASSUME NEW s \in Follower, PutSeed(s) PROVE Bookkeeping'
  BY <1>11 DEF PutSeed, Release
<1>12. ASSUME NEW s \in Follower, SendInitialState(s) PROVE Bookkeeping'
  BY <1>12 DEF SendInitialState
<1>13. ASSUME NEW s \in Follower, SendUpdate(s) PROVE Bookkeeping'
  BY <1>13 DEF SendUpdate
<1>14. ASSUME NEW s \in Sub, Unsubscribe(s) PROVE Bookkeeping'
  BY <1>14 DEF Unsubscribe
<1>15. ASSUME Restart PROVE Bookkeeping'
  BY <1>15 DEF Restart, Idle
<1>16. CASE UNCHANGED vars
  BY <1>16 DEF vars
<1> QED
  BY <1>1, <1>2, <1>3, <1>4, <1>5, <1>6, <1>7, <1>8, <1>9, <1>10, <1>11, <1>12, <1>13, <1>14,
     <1>15, <1>16 DEF Next, CallbackStep, Subscribe, ListenerStep

-----------------------------------------------------------------------------
(* The cache *)

\* A message that a thread has still to publish stays so while the thread's
\* callback stays.
LEMMA PendingStays ==
    ASSUME NEW w \in Writer, writer[w].todo # "publish", NEW r,
           writer \in [Writer -> [todo : Callback, message : Message \cup {NoMessage}]],
           writer' = [writer EXCEPT ![w] = r], NEW m, Pending(m)
    PROVE  Pending(m)'
<1>1. PICK v \in Writer : writer[v].todo = "publish" /\ writer[v].message = m
  BY DEF Pending
<1>2. writer'[v] = writer[v]
  BY <1>1
<1> QED BY <1>1, <1>2 DEF Pending

\* Every step keeps the cache complete.
LEMMA CacheStep ==
    ASSUME TypeOK, Bookkeeping, CacheIsComplete, [Next]_vars
    PROVE  CacheIsComplete'
<1> USE DEF tableVars, cacheVars, listenerVars
<1>0. writer \in [Writer -> [todo : Callback, message : Message \cup {NoMessage}]]
  BY DEF TypeOK
<1>a. ASSUME writer' = writer, log' = log, deleted' = deleted, cache' = cache PROVE CacheIsComplete'
  BY <1>a DEF CacheIsComplete, Pending, Saved
<1>1. ASSUME NEW w \in Writer, NEW kind \in {"saved", "ephemeral"}, Commit(w, kind)
      PROVE  CacheIsComplete'
  <2>1. log \in Seq({"saved", "ephemeral"}) /\ log' = Append(log, kind) /\ Len(log) \in Nat
    BY <1>1 DEF Commit, TypeOK
  <2>2. /\ Len(log') = Len(log) + 1
        /\ \A m \in 1 .. Len(log) : log'[m] = log[m]
        /\ 1 .. Len(log) + 1 = 1 .. Len(log) \cup {Len(log) + 1}
    BY <2>1
  <2>3. Saved' \subseteq Saved \cup {NewMessage}
    BY <2>2 DEF Saved, NewMessage
  <2>4. writer'[w].todo = "publish" /\ writer'[w].message = NewMessage
    BY <1>0, <1>1 DEF Commit
  <2>5. ~deleted /\ cache' = cache
    BY <1>1 DEF Commit
  <2>6. ASSUME NEW m \in Saved PROVE Pending(m)' \/ m \in ToSet(cache')
    <3>1. CASE m \in ToSet(cache)
      BY <2>5, <3>1
    <3>2. CASE Pending(m)
      <4>1. writer[w].todo # "publish"
        BY <1>1 DEF Commit, Idle
      <4> QED BY <1>0, <1>1, <3>2, <4>1, PendingStays DEF Commit
    <3> QED BY <2>5, <2>6, <3>1, <3>2 DEF CacheIsComplete
  <2> QED BY <2>3, <2>4, <2>6 DEF CacheIsComplete, Pending
<1>2. ASSUME NEW w \in Writer, CommitDeletion(w) PROVE CacheIsComplete'
  BY <1>2 DEF CommitDeletion, CacheIsComplete
<1>3. ASSUME NEW w \in Writer, Publish(w) PROVE CacheIsComplete'
  <2>1. writer[w].message \in Message
    BY PubSubAssumption, <1>3 DEF TypeOK, Bookkeeping, Message, Publish
  <2>2. ToSet(cache') = ToSet(cache) \cup {writer[w].message}
    BY <1>3, <2>1, Appended DEF Publish, TypeOK
  <2>3. ASSUME NEW m \in Saved, ~deleted PROVE Pending(m)' \/ m \in ToSet(cache')
    <3>1. CASE m \in ToSet(cache)
      BY <2>2, <3>1
    <3>2. CASE Pending(m)
      <4>1. PICK v \in Writer : writer[v].todo = "publish" /\ writer[v].message = m
        BY <3>2 DEF Pending
      <4>2. CASE v = w
        BY <2>2, <4>1, <4>2
      <4>3. CASE v # w
        <5>1. writer'[v] = writer[v]
          BY <1>0, <1>3, <4>3 DEF Publish
        <5> QED BY <4>1, <5>1 DEF Pending
      <4> QED BY <4>2, <4>3
    <3> QED BY <2>3, <3>1, <3>2 DEF CacheIsComplete
  <2> QED BY <1>3, <2>3 DEF CacheIsComplete, Publish, Saved
<1>4. ASSUME NEW w \in Writer, PublishDeleted(w) \/ Cleanup(w) PROVE CacheIsComplete'
  BY <1>4 DEF PublishDeleted, Cleanup, CacheIsComplete, Bookkeeping
<1>5. ASSUME Restart PROVE CacheIsComplete'
  <2>1. CASE Visible
    <3>1. cache' \in Reloaded /\ log' = log
      BY <1>5, <2>1 DEF Restart
    <3>2. ToSet(cache') = Saved
      BY <3>1, ReloadedIsList
    <3> QED BY <3>1, <3>2 DEF CacheIsComplete, Saved
  <2>2. CASE ~Visible
    <3>1. deleted' \/ log' = <<>>
      BY <1>5, <2>2 DEF Restart, Visible
    <3>2. log' = <<>> => Saved' = {}
      BY DEF Saved
    <3> QED BY <3>1, <3>2 DEF CacheIsComplete
  <2> QED BY <2>1, <2>2
<1>6. ASSUME NEW s \in Sub, ListenerStep(s) \/ Unsubscribe(s) \/ Resolve(s) \/ SubscribeToTask(s)
      PROVE  CacheIsComplete'
  BY <1>a, <1>6 DEF ListenerStep, CopyNext, CopyDone, SubscribeToContainers, PutSeed,
     SendInitialState, SendUpdate, Unsubscribe, Resolve, SubscribeToTask
<1>7. CASE UNCHANGED vars
  BY <1>a, <1>7 DEF vars
<1> QED
  BY <1>1, <1>2, <1>3, <1>4, <1>5, <1>6, <1>7 DEF Next, CallbackStep, Subscribe, Sub

-----------------------------------------------------------------------------
(* What a listener has *)

\* A step that leaves a listener's lists and the cache alone keeps what it has.
LEMMA HasStays ==
    ASSUME NEW s \in Sub, seen'[s] = seen[s], history'[s] = history[s], copied'[s] = copied[s]
    PROVE  Has(s)' = Has(s)
  BY DEF Has, Outstanding

\* When its history is copied, a listener has what was put into its queue.
LEMMA HasSettled ==
    ASSUME NEW s \in Sub, Bookkeeping, pc[s] # "copying"
    PROVE  Has(s) = ToSet(seen[s])
<1>1. history[s] = <<>> /\ copied[s] = 0
  BY DEF Bookkeeping
<1>2. Outstanding(s) = {}
  BY <1>1 DEF Outstanding
<1> QED BY <1>2 DEF Has

\* Who has just read the cache has all of it still to copy.
LEMMA WholeListOutstanding ==
    ASSUME TypeOK, NEW s \in Sub, history'[s] = cache, copied'[s] = 0
    PROVE  ToSet(cache) \subseteq Has(s)'
<1>1. DOMAIN cache = 0 + 1 .. Len(cache)
  BY DEF TypeOK
<1>2. Outstanding(s)' = {cache[i] : i \in 0 + 1 .. Len(cache)}
  BY DEF Outstanding
<1> QED BY <1>1, <1>2 DEF Has, ToSet

\* Every step leaves every listener with all that the cache holds.
LEMMA CompleteStep ==
    ASSUME TypeOK, Bookkeeping, Bookkeeping', Complete, [Next]_vars
    PROVE  Complete'
<1> USE DEF tableVars, cacheVars, listenerVars
<1>0. /\ pc \in [Sub -> SubPC] /\ history \in [Sub -> Seq(Message)] /\ copied \in [Sub -> Nat]
      /\ seen \in [Sub -> Seq(Message)] /\ aliased \in [Sub -> BOOLEAN] /\ cache \in Seq(Message)
      /\ Follower \subseteq Sub /\ TaskSub \subseteq Sub
  BY DEF TypeOK, Sub
\* One listener moves, and the others have what they had.
<1>a. ASSUME NEW s \in Sub, cache' = cache, deleted' = deleted,
             \A u \in Sub \ {s} : /\ pc'[u] = pc[u] /\ seen'[u] = seen[u]
                                  /\ history'[u] = history[u] /\ copied'[u] = copied[u],
             ~deleted /\ pc'[s] \in {"copying", "dump", "following"} => ToSet(cache) \subseteq Has(s)'
      PROVE  Complete'
  <2>1. ASSUME NEW u \in Sub \ {s}, Listening(u)', ~deleted PROVE ToSet(cache) \subseteq Has(u)'
    BY <1>a, <2>1, HasStays DEF Complete, Listening
  <2> QED BY <1>a, <2>1 DEF Complete, Listening
<1>b. ASSUME cache' = cache, deleted' = deleted \/ deleted', pc' = pc, seen' = seen,
             history' = history, copied' = copied
      PROVE  Complete'
  BY <1>b, HasStays DEF Complete, Listening
<1>1. ASSUME NEW w \in Writer, (\E kind \in {"saved", "ephemeral"} : Commit(w, kind)) \/ CommitDeletion(w)
      PROVE  Complete'
  BY <1>1, <1>b DEF Commit, CommitDeletion
<1>2. ASSUME NEW w \in Writer, Publish(w) PROVE Complete'
  <2> DEFINE m == writer[w].message
  <2>1. m \in Message
    BY PubSubAssumption, <1>2 DEF TypeOK, Bookkeeping, Message, Publish
  <2>2. ToSet(cache') = ToSet(cache) \cup {m}
    BY <1>0, <1>2, <2>1, Appended DEF Publish
  <2>3. ASSUME NEW s \in Sub, Listening(s), ~deleted PROVE ToSet(cache') \subseteq Has(s)'
    <3>1. ToSet(seen'[s]) = ToSet(seen[s]) \cup {m}
      BY <1>0, <1>2, <2>1, <2>3, Appended DEF Publish
    <3>2. Outstanding(s) \subseteq Outstanding(s)'
      <4>1. copied'[s] = copied[s] /\ copied[s] \in Nat
        BY <1>0, <1>2 DEF Publish
      <4>2. history'[s] = history[s] \/ history'[s] = Append(history[s], m)
        BY <1>2 DEF Publish
      <4>3. /\ Len(history[s]) \in Nat /\ Len(history'[s]) \in Nat
            /\ Len(history'[s]) >= Len(history[s])
            /\ \A i \in 1 .. Len(history[s]) : history'[s][i] = history[s][i]
        <5>1. history[s] \in Seq(Message) /\ m \in Message
          BY <1>0, <2>1, <2>3
        <5>2. CASE history'[s] = history[s]
          BY <5>1, <5>2
        <5>3. CASE history'[s] = Append(history[s], m)
          BY <5>1, <5>3
        <5> QED BY <4>2, <5>2, <5>3
      <4> QED BY <4>1, <4>3 DEF Outstanding
    <3>3. ToSet(cache) \subseteq Has(s)
      BY <2>3 DEF Complete
    <3> QED BY <2>2, <3>1, <3>2, <3>3 DEF Has
  <2> QED BY <1>2, <2>3 DEF Complete, Publish, Listening
<1>3. ASSUME NEW w \in Writer, PublishDeleted(w) \/ Cleanup(w) PROVE Complete'
  BY <1>3 DEF PublishDeleted, Cleanup, Complete, Bookkeeping
<1>4. ASSUME NEW s \in TaskSub, SubscribeToTask(s) PROVE Complete'
  <2>1. s \in Sub /\ history'[s] = cache /\ copied'[s] = 0
    BY <1>0, <1>4 DEF SubscribeToTask, Bookkeeping
  <2>2. ToSet(cache) \subseteq Has(s)'
    BY <2>1, WholeListOutstanding
  <2> QED BY <1>0, <1>4, <1>a, <2>1, <2>2 DEF SubscribeToTask
<1>5. ASSUME NEW s \in TaskSub, CopyNext(s) PROVE Complete'
  <2>1. /\ copied[s] \in Nat /\ Len(history[s]) \in Nat /\ copied[s] < Len(history[s])
        /\ copied'[s] = copied[s] + 1 /\ history'[s] = history[s]
        /\ seen'[s] = Append(seen[s], history[s][copied[s] + 1])
    BY <1>0, <1>5 DEF CopyNext
  <2>2. ToSet(seen'[s]) = ToSet(seen[s]) \cup {history[s][copied[s] + 1]}
    <3>1. history[s][copied[s] + 1] \in Message
      BY <1>0, <2>1
    <3> QED BY <1>0, <2>1, <3>1, Appended
  <2>3. Outstanding(s) \subseteq Outstanding(s)' \cup {history[s][copied[s] + 1]}
    BY <2>1 DEF Outstanding
  <2>4. Has(s) \subseteq Has(s)'
    BY <2>2, <2>3 DEF Has
  <2>5. pc[s] = "copying" /\ s \in Sub
    BY <1>0, <1>5 DEF CopyNext
  <2> QED BY <1>5, <1>a, <2>4, <2>5 DEF CopyNext, Complete, Listening
<1>6. ASSUME NEW s \in TaskSub, CopyDone(s) PROVE Complete'
  <2>1. s \in Sub /\ pc[s] = "copying" /\ copied[s] = Len(history[s]) /\ Len(history[s]) \in Nat
    BY <1>0, <1>6 DEF CopyDone
  <2>2. Outstanding(s) = {}
    BY <2>1 DEF Outstanding
  <2>3. Has(s) \subseteq Has(s)'
    BY <1>6, <2>2 DEF CopyDone, Has
  <2> QED BY <1>6, <1>a, <2>1, <2>3 DEF CopyDone, Release, Complete, Listening
<1>7. ASSUME NEW s \in Follower, Resolve(s) PROVE Complete'
  <2>1. pc'[s] = "resolved" /\ s \in Sub
    BY <1>0, <1>7 DEF Resolve
  <2> QED BY <1>7, <1>a, <2>1 DEF Resolve
<1>8. ASSUME NEW s \in Follower, SubscribeToContainers(s) PROVE Complete'
  <2>1. s \in Sub /\ copied'[s] = 0 /\ log # <<>> /\ pc[s] = "resolved"
    BY <1>0, <1>8 DEF SubscribeToContainers, Bookkeeping
  <2>2. ~deleted => history'[s] = cache
    BY <1>0, <1>8, <2>1 DEF SubscribeToContainers, Visible
  <2>3. ~deleted => ToSet(cache) \subseteq Has(s)'
    BY <2>1, <2>2, WholeListOutstanding
  <2> QED BY <1>0, <1>8, <1>a, <2>1, <2>3 DEF SubscribeToContainers
<1>9. ASSUME NEW s \in Follower, PutSeed(s) PROVE Complete'
  <2>1. s \in Sub /\ pc[s] = "copying" /\ copied[s] = 0 /\ seen'[s] = seen[s] \o history[s]
    BY <1>0, <1>9 DEF PutSeed, Seed, Bookkeeping
  <2>2. ToSet(seen'[s]) = ToSet(seen[s]) \cup ToSet(history[s])
    BY <1>0, <2>1, Joined
  <2>3. Outstanding(s) = ToSet(history[s])
    BY <1>0, <2>1 DEF Outstanding, ToSet
  <2>4. Has(s) \subseteq Has(s)'
    BY <2>2, <2>3 DEF Has
  <2> QED BY <1>9, <1>a, <2>1, <2>4 DEF PutSeed, Release, Complete, Listening
<1>10. ASSUME NEW s \in Follower, SendInitialState(s) PROVE Complete'
  <2>1. s \in Sub /\ Has(s)' = Has(s) /\ pc[s] = "dump"
    BY <1>0, <1>10, HasStays DEF SendInitialState
  <2> QED BY <1>10, <1>a, <2>1 DEF SendInitialState, Complete, Listening
<1>11. ASSUME NEW s \in Follower, SendUpdate(s) PROVE Complete'
  <2>1. s \in Sub /\ pc[s] = "following"
    BY <1>0, <1>11 DEF SendUpdate
  <2>2. CASE notice[s]
    BY <1>0, <1>11, <1>a, <2>1, <2>2 DEF SendUpdate
  <2>3. CASE ~notice[s]
    <3>1. Has(s)' = Has(s)
      BY <1>0, <1>11, <2>1, <2>3, HasStays DEF SendUpdate
    <3> QED BY <1>11, <1>a, <2>1, <3>1 DEF SendUpdate, Complete, Listening
  <2> QED BY <2>2, <2>3
<1>12. ASSUME NEW s \in Sub, Unsubscribe(s) PROVE Complete'
  <2>1. pc'[s] = "closed"
    BY <1>0, <1>12 DEF Unsubscribe
  <2> QED BY <1>12, <1>a, <2>1 DEF Unsubscribe
<1>13. ASSUME Restart PROVE Complete'
  BY <1>13 DEF Restart, Complete, Listening
<1>14. CASE UNCHANGED vars
  BY <1>14, <1>b DEF vars
<1> QED
  BY <1>1, <1>2, <1>3, <1>4, <1>5, <1>6, <1>7, <1>8, <1>9, <1>10, <1>11, <1>12, <1>13, <1>14
     DEF Next, CallbackStep, Subscribe, ListenerStep

-----------------------------------------------------------------------------
(* No message twice *)

\* A step that commits and publishes nothing, and in which the lists of one
\* follower only lose messages or change places, keeps new what was new.
LEMMA NothingNew ==
    ASSUME Unpublished, log' = log,
           \A v \in Writer : writer'[v] = writer[v] \/ writer'[v].todo # "publish",
           ToSet(cache') \subseteq ToSet(cache),
           \A u \in Follower :
              ToSet(seen'[u]) \cup ToSet(history'[u])
                \subseteq ToSet(seen[u]) \cup ToSet(history[u]) \cup ToSet(cache)
    PROVE  Unpublished'
<1>1. ASSUME NEW m, NewToAll(m) PROVE NewToAll(m)'
  BY <1>1 DEF NewToAll
<1> QED BY <1>1 DEF Unpublished

\* Every step keeps the unpublished messages new, and every list free of
\* repetitions.
LEMMA OnceStep ==
    ASSUME TypeOK, Bookkeeping, Unpublished, Once, [Next]_vars
    PROVE  Unpublished' /\ Once'
<1> USE DEF tableVars, cacheVars, listenerVars
<1>0. /\ pc \in [Sub -> SubPC] /\ history \in [Sub -> Seq(Message)]
      /\ seen \in [Sub -> Seq(Message)] /\ aliased \in [Sub -> BOOLEAN] /\ cache \in Seq(Message)
      /\ Follower \subseteq Sub /\ TaskSub \subseteq Sub
      /\ writer \in [Writer -> [todo : Callback, message : Message \cup {NoMessage}]]
      /\ Len(log) \in Nat
  BY DEF TypeOK, Sub
<1>a. ASSUME cache' = cache, \A u \in Follower : seen'[u] = seen[u] /\ history'[u] = history[u]
      PROVE  Once'
  BY <1>a DEF Once
<1>b. ASSUME cache' = cache, log' = log, \A v \in Writer : writer'[v] = writer[v] \/ writer'[v].todo # "publish",
             \A u \in Follower : seen'[u] = seen[u] /\ history'[u] = history[u]
      PROVE  Unpublished' /\ Once'
  BY <1>a, <1>b, NothingNew
\* One follower moves.
<1>c. ASSUME NEW s \in Follower, cache' = cache, log' = log, writer' = writer,
             \A u \in Follower \ {s} : seen'[u] = seen[u] /\ history'[u] = history[u],
             ToSet(seen'[s]) \cup ToSet(history'[s])
               \subseteq ToSet(seen[s]) \cup ToSet(history[s]) \cup ToSet(cache),
             IsInjective(seen'[s]), IsInjective(history'[s]),
             ToSet(seen'[s]) \cap ToSet(history'[s]) = {}
      PROVE  Unpublished' /\ Once'
  <2>1. Once'
    BY <1>c DEF Once
  <2>2. Unpublished'
    BY <1>c, NothingNew
  <2> QED BY <2>1, <2>2
<1>1. ASSUME NEW w \in Writer, NEW kind \in {"saved", "ephemeral"}, Commit(w, kind)
      PROVE  Unpublished' /\ Once'
  <2>1. Len(log') = Len(log) + 1
    BY <1>1 DEF Commit, TypeOK
  <2>2. \A m : NewToAll(m)' = NewToAll(m)
    BY <1>1 DEF Commit, NewToAll
  <2>3. writer'[w].message = Len(log) + 1 /\ \A v \in Writer \ {w} : writer'[v] = writer[v]
    BY <1>0, <1>1 DEF Commit, NewMessage
  <2>4. \A v \in Writer : writer[v].todo = "publish" => writer[v].message # Len(log) + 1
    BY <1>0 DEF Bookkeeping
  <2>5. NewToAll(Len(log) + 1) /\ \A m \in Nat : m > Len(log') => NewToAll(m)
    BY <1>0, <2>1 DEF Unpublished
  <2>6. Unpublished'
    BY <2>2, <2>3, <2>4, <2>5 DEF Unpublished
  <2> QED BY <1>1, <1>a, <2>6 DEF Commit
<1>2. ASSUME NEW w \in Writer, CommitDeletion(w) \/ PublishDeleted(w) PROVE Unpublished' /\ Once'
  <2>1. \A v \in Writer : writer'[v] = writer[v] \/ writer'[v].todo # "publish"
    BY <1>0, <1>2 DEF CommitDeletion, PublishDeleted
  <2> QED BY <1>2, <1>b, <2>1 DEF CommitDeletion, PublishDeleted
<1>3. ASSUME NEW w \in Writer, Publish(w) PROVE Unpublished' /\ Once'
  <2> DEFINE m == writer[w].message
  <2>1. m \in Message /\ m \in 1 .. Len(log) /\ NewToAll(m)
    BY PubSubAssumption, <1>3 DEF TypeOK, Bookkeeping, Message, Publish, Unpublished
  <2>2. ToSet(cache') = ToSet(cache) \cup {m} /\ IsInjective(cache')
    BY <1>0, <1>3, <2>1, Appended DEF Publish, Once, NewToAll
  <2>3. ASSUME NEW u \in Follower
        PROVE  /\ history'[u] = history[u]
               /\ ToSet(seen'[u]) \subseteq ToSet(seen[u]) \cup {m}
               /\ IsInjective(seen'[u])
    <3>1. history'[u] = history[u]
      BY <1>0, <1>3 DEF Publish, Bookkeeping
    <3>2. seen[u] \in Seq(Message) /\ IsInjective(seen[u]) /\ m \notin ToSet(seen[u])
      BY <1>0, <2>1 DEF Once, NewToAll
    <3>3. seen'[u] = seen[u] \/ seen'[u] = Append(seen[u], m)
      BY <1>0, <1>3 DEF Publish
    <3>4. CASE seen'[u] = seen[u]
      BY <3>1, <3>2, <3>4
    <3>5. CASE seen'[u] = Append(seen[u], m)
      BY <2>1, <3>1, <3>2, <3>5, Appended
    <3> QED BY <3>3, <3>4, <3>5
  <2>4. Once'
    BY <2>1, <2>2, <2>3 DEF Once, NewToAll
  <2>5. \A n : NewToAll(n) /\ n # m => NewToAll(n)'
    BY <2>2, <2>3 DEF NewToAll
  <2>6. /\ writer'[w].todo # "publish" /\ log' = log
        /\ \A v \in Writer \ {w} : writer'[v] = writer[v]
    BY <1>0, <1>3 DEF Publish, Idle
  <2>7. \A v \in Writer \ {w} : writer[v].todo = "publish" => writer[v].message # m
    BY <1>3 DEF Unpublished, Publish
  <2>8. \A n \in Nat : n > Len(log) => n # m
    BY <1>0, <2>1
  <2>9. Unpublished'
    BY <2>5, <2>6, <2>7, <2>8 DEF Unpublished
  <2> QED BY <2>4, <2>9
<1>4. ASSUME NEW w \in Writer, Cleanup(w) PROVE Unpublished' /\ Once'
  <2>1. \A v \in Writer : writer'[v] = writer[v] \/ writer'[v].todo # "publish"
    BY <1>0, <1>4 DEF Cleanup, Idle
  <2>2. ToSet(cache') = {} /\ IsInjective(cache')
    BY <1>4, Empty DEF Cleanup
  <2>3. Once'
    BY <1>4, <2>2 DEF Cleanup, Once
  <2>4. Unpublished'
    BY <1>4, <2>1, <2>2, NothingNew DEF Cleanup
  <2> QED BY <2>3, <2>4
<1>5. ASSUME NEW s \in TaskSub, SubscribeToTask(s) \/ CopyNext(s) \/ CopyDone(s)
      PROVE  Unpublished' /\ Once'
  <2>1. s \notin Follower
    BY PubSubAssumption
  <2>2. \A u \in Follower : seen'[u] = seen[u] /\ history'[u] = history[u]
    BY <1>0, <1>5, <2>1 DEF SubscribeToTask, CopyNext, CopyDone, Release
  <2> QED BY <1>5, <1>b, <2>2 DEF SubscribeToTask, CopyNext, CopyDone
<1>6. ASSUME NEW s \in Follower, Resolve(s) \/ SendInitialState(s) PROVE Unpublished' /\ Once'
  BY <1>6, <1>b DEF Resolve, SendInitialState
<1>7. ASSUME NEW s \in Follower, SubscribeToContainers(s) PROVE Unpublished' /\ Once'
  <2>1. seen[s] = <<>> /\ seen'[s] = <<>>
    BY <1>0, <1>7 DEF SubscribeToContainers, Bookkeeping
  <2>2. history'[s] = cache \/ history'[s] = <<>>
    BY <1>0, <1>7 DEF SubscribeToContainers
  <2>3. /\ ToSet(seen'[s]) = {} /\ IsInjective(seen'[s])
        /\ ToSet(history'[s]) \subseteq ToSet(cache) /\ IsInjective(history'[s])
    BY <2>1, <2>2, Empty DEF Once
  <2> QED BY <1>7, <1>c, <2>3 DEF SubscribeToContainers
<1>8. ASSUME NEW s \in Follower, PutSeed(s) PROVE Unpublished' /\ Once'
  <2>1. seen'[s] = seen[s] \o history[s] /\ history'[s] = <<>>
    BY <1>0, <1>8 DEF PutSeed, Seed, Release
  <2>2. ToSet(seen'[s]) = ToSet(seen[s]) \cup ToSet(history[s]) /\ IsInjective(seen'[s])
    <3>1. seen[s] \in Seq(Message) /\ history[s] \in Seq(Message)
      BY <1>0
    <3>2. /\ IsInjective(seen[s]) /\ IsInjective(history[s])
          /\ ToSet(seen[s]) \cap ToSet(history[s]) = {}
      BY DEF Once
    <3> QED BY <2>1, <3>1, <3>2, Joined
  <2> QED BY <1>8, <1>c, <2>1, <2>2, Empty DEF PutSeed, Release
<1>9. ASSUME NEW s \in Follower, SendUpdate(s) PROVE Unpublished' /\ Once'
  <2>1. seen'[s] = seen[s] \/ seen'[s] = <<>>
    BY <1>0, <1>9 DEF SendUpdate
  <2>2. ToSet(seen'[s]) \subseteq ToSet(seen[s]) /\ IsInjective(seen'[s])
    BY <2>1, Empty DEF Once
  <2>3. IsInjective(history[s]) /\ ToSet(seen[s]) \cap ToSet(history[s]) = {}
    BY DEF Once
  <2>4. history' = history /\ \A u \in Follower \ {s} : seen'[u] = seen[u]
    BY <1>0, <1>9 DEF SendUpdate
  <2>5. ToSet(seen'[s]) \cap ToSet(history'[s]) = {}
    BY <2>2, <2>3, <2>4
  <2> QED BY <1>9, <1>c, <2>2, <2>3, <2>4, <2>5 DEF SendUpdate
<1>10. ASSUME NEW s \in Sub, Unsubscribe(s) PROVE Unpublished' /\ Once'
  <2>1. \A u \in Follower : u # s => seen'[u] = seen[u]
    BY <1>0, <1>10 DEF Unsubscribe
  <2>2. CASE s \in TaskSub
    BY PubSubAssumption, <1>10, <1>b, <2>1, <2>2 DEF Unsubscribe
  <2>3. CASE s \in Follower
    <3>1. ToSet(seen'[s]) = {} /\ IsInjective(seen'[s])
      BY <1>0, <1>10, Empty DEF Unsubscribe
    <3> QED BY <1>10, <1>c, <2>1, <2>3, <3>1 DEF Unsubscribe, Once
  <2> QED BY <2>2, <2>3 DEF Sub
<1>11. ASSUME Restart PROVE Unpublished' /\ Once'
  <2>1. /\ ToSet(cache') \subseteq 1 .. Len(log) /\ IsInjective(cache')
    <3>1. cache' \in Reloaded \/ cache' = <<>>
      BY <1>11 DEF Restart
    <3> QED BY <3>1, ReloadedIsList, Empty DEF Saved
  <2>2. \A u \in Follower : seen'[u] = <<>> /\ history'[u] = <<>>
    BY <1>0, <1>11 DEF Restart
  <2>3. Once'
    BY <2>1, <2>2, Empty DEF Once
  <2>4. \A v \in Writer : writer'[v].todo # "publish"
    BY <1>11 DEF Restart, Idle
  <2>5. \A n \in Nat : n > Len(log) => NewToAll(n)'
    <3>1. \A n \in Nat : n > Len(log) => n \notin ToSet(cache')
      BY <1>0, <2>1
    <3> QED BY <2>2, <3>1, Empty DEF NewToAll
  <2>6. Unpublished'
    BY <1>11, <2>4, <2>5 DEF Restart, Unpublished
  <2> QED BY <2>3, <2>6
<1>12. CASE UNCHANGED vars
  BY <1>12, <1>b DEF vars
<1> QED
  BY <1>1, <1>2, <1>3, <1>4, <1>5, <1>6, <1>7, <1>8, <1>9, <1>10, <1>11, <1>12
     DEF Next, CallbackStep, Subscribe, ListenerStep

-----------------------------------------------------------------------------
(* The theorems *)

\* The first state has no task, no listener and an empty cache.
LEMMA InitHolds == Init => IInv
<1> SUFFICES ASSUME Init PROVE IInv
  OBVIOUS
<1>1. <<>> \in Seq(Message) /\ <<>> \in Seq({"saved", "ephemeral"}) /\ Len(<<>>) = 0
  OBVIOUS
<1>2. TypeOK
  <2>1. Idle \in [todo : Callback, message : Message \cup {NoMessage}]
    BY DEF Idle, Callback
  <2>2. writer \in [Writer -> [todo : Callback, message : Message \cup {NoMessage}]]
    BY <2>1 DEF Init
  <2>3. Len(log) <= MaxCommits /\ restarts \in 0 .. MaxRestarts
    BY <1>1, PubSubAssumption DEF Init
  <2>4. /\ pc \in [Sub -> SubPC] /\ history \in [Sub -> Seq(Message)]
        /\ seen \in [Sub -> Seq(Message)] /\ copied \in [Sub -> Nat]
    BY <1>1 DEF Init, SubPC
  <2> QED BY <1>1, <2>2, <2>3, <2>4 DEF Init, TypeOK
<1>3. Bookkeeping
  BY DEF Init, Bookkeeping, Idle, Sub
<1>4. CacheIsComplete /\ Complete
  BY <1>1 DEF Init, CacheIsComplete, Saved, Complete, Listening
<1>5. Unpublished
  BY Empty DEF Init, Unpublished, NewToAll, Idle, Sub
<1>6. Once
  BY Empty DEF Init, Once, Sub
<1> QED BY <1>2, <1>3, <1>4, <1>5, <1>6 DEF IInv

\* Every step keeps the inductive invariant.
LEMMA StepKeeps == IInv /\ [Next]_vars => IInv'
  BY TypeStep, BookkeepingStep, CacheStep, CompleteStep, OnceStep DEF IInv

\* The inductive invariant holds in every state.
LEMMA IInvHolds == Spec => []IInv
  BY InitHolds, StepKeeps, PTL DEF Spec

\* Every variable has its type, however the callbacks, the listeners and the
\* restarts interleave.
THEOREM TypeCorrect == Spec => []TypeOK
<1>1. IInv => TypeOK
  BY DEF IInv
<1> QED BY <1>1, IInvHolds, PTL

\* A saved message that no callback still has to publish is in the cache, also
\* if the process died between its commit and its publication (start,
\* _publish_task_update).
THEOREM CacheStaysComplete == Spec => []CacheIsComplete
<1>1. IInv => CacheIsComplete
  BY DEF IInv
<1> QED BY <1>1, IInvHolds, PTL

\* A listener that has its history misses nothing that the cache holds,
\* whether it read the cache's own list or a copy of it (_subscribe_to_task,
\* _scoped_task_container_subscription).
THEOREM ListenersMissNothing == Spec => []NothingIsMissed
<1>1. IInv => NothingIsMissed
  <2> SUFFICES ASSUME IInv, ~deleted, NEW s \in Sub, Settled(s)
               PROVE  ToSet(cache) \subseteq ToSet(seen[s])
    BY DEF NothingIsMissed
  <2>1. Has(s) = ToSet(seen[s])
    BY HasSettled DEF IInv, Settled
  <2> QED BY <2>1 DEF IInv, Complete, Settled, Listening
<1> QED BY <1>1, IInvHolds, PTL

\* A stream brings every message once: the copy that was made under the lock
\* and the publications after it share none.
THEOREM StreamsBringOnce == Spec => []FollowersSeeOnce
<1>1. IInv => FollowersSeeOnce
  BY DEF IInv, Once, FollowersSeeOnce
<1> QED BY <1>1, IInvHolds, PTL

-----------------------------------------------------------------------------
(* The refinement of MessageFeed *)

\* What the abstract specification takes a listener to have been given, and the
\* messages it takes to be unpublished.
Given(s) == IF Listening(s) THEN Has(s) ELSE {}
ToPublish == {m \in Message : Pending(m)}

\* A listener that has copied nothing yet has the whole list outstanding.
LEMMA NothingCopied ==
    ASSUME NEW s \in Sub, history[s] \in Seq(Message), copied[s] = 0
    PROVE  Outstanding(s) = ToSet(history[s])
<1>1. DOMAIN history[s] = 0 + 1 .. Len(history[s])
  OBVIOUS
<1> QED BY <1>1 DEF Outstanding, ToSet

\* A publication adds one message to what a listener has, whether it comes with
\* its queue or with the list it is still copying or with both.
LEMMA PublishGives ==
    ASSUME TypeOK, NEW w \in Writer, Publish(w), NEW s \in Sub, Listening(s),
           writer[w].message \in Message
    PROVE  Has(s)' = Has(s) \cup {writer[w].message}
<1> DEFINE m == writer[w].message
<1>1. seen[s] \in Seq(Message) /\ history[s] \in Seq(Message) /\ copied[s] \in Nat
  BY DEF TypeOK
<1>2. ToSet(seen'[s]) = ToSet(seen[s]) \cup {m}
  BY <1>1, Appended DEF Publish
<1>3. history'[s] \in {history[s], Append(history[s], m)} /\ copied' = copied
  BY DEF Publish
<1>4. CASE history'[s] = history[s]
  BY <1>2, <1>3, <1>4 DEF Has, Outstanding
<1>5. CASE history'[s] = Append(history[s], m)
  <2>1. /\ Len(history[s]) \in Nat /\ Len(history'[s]) = Len(history[s]) + 1
        /\ \A i \in 1 .. Len(history[s]) : history'[s][i] = history[s][i]
        /\ history'[s][Len(history[s]) + 1] = m
    BY <1>1, <1>5
  <2>2. Outstanding(s) \subseteq Outstanding(s)'
    BY <1>1, <1>3, <2>1 DEF Outstanding
  <2>3. ASSUME NEW i \in copied[s] + 1 .. Len(history[s]) + 1
        PROVE  history'[s][i] \in Outstanding(s) \cup {m}
    <3>1. CASE i = Len(history[s]) + 1
      BY <2>1, <3>1
    <3>2. CASE i # Len(history[s]) + 1
      <4>1. i \in 1 .. Len(history[s]) /\ i \in copied[s] + 1 .. Len(history[s])
        BY <1>1, <2>1, <3>2
      <4> QED BY <2>1, <4>1 DEF Outstanding
    <3> QED BY <3>1, <3>2
  <2>4. Outstanding(s)' \subseteq Outstanding(s) \cup {m}
    BY <1>3, <2>1, <2>3 DEF Outstanding
  <2> QED BY <1>2, <2>2, <2>4 DEF Has
<1> QED BY <1>3, <1>4, <1>5

\* To copy is to move a message from the list to the queue.
LEMMA CopyMoves ==
    ASSUME TypeOK, NEW s \in Sub, CopyNext(s)
    PROVE  Has(s)' = Has(s)
<1> DEFINE e == history[s][copied[s] + 1]
<1>1. /\ copied[s] \in Nat /\ Len(history[s]) \in Nat /\ copied[s] < Len(history[s])
      /\ copied'[s] = copied[s] + 1 /\ history' = history
      /\ seen'[s] = Append(seen[s], e)
  BY DEF TypeOK, CopyNext
<1>2. seen[s] \in Seq(Message) /\ e \in Message
  BY <1>1 DEF TypeOK
<1>3. ToSet(seen'[s]) = ToSet(seen[s]) \cup {e}
  BY <1>1, <1>2, Appended
<1>4. Outstanding(s) = Outstanding(s)' \cup {e}
  <2>1. copied[s] + 1 .. Len(history[s])
          = {copied[s] + 1} \cup ((copied[s] + 1) + 1 .. Len(history[s]))
    BY <1>1
  <2> QED BY <1>1, <2>1 DEF Outstanding
<1> QED BY <1>3, <1>4 DEF Has

\* So is to put the first container, and the end of the copy moves nothing.
LEMMA HistoryEnds ==
    ASSUME TypeOK, Bookkeeping, NEW s \in Sub,
           CopyDone(s) \/ (s \in Follower /\ PutSeed(s))
    PROVE  Has(s)' = Has(s)
<1>1. /\ seen[s] \in Seq(Message) /\ history[s] \in Seq(Message)
      /\ copied[s] \in Nat /\ Len(history[s]) \in Nat
      /\ history'[s] = <<>> /\ copied'[s] = 0
  BY DEF TypeOK, CopyDone, PutSeed, Release
<1>2. Outstanding(s)' = {}
  BY <1>1 DEF Outstanding
<1>3. CASE CopyDone(s)
  <2>1. copied[s] = Len(history[s]) /\ seen' = seen
    BY <1>3 DEF CopyDone
  <2>2. Outstanding(s) = {}
    BY <1>1, <2>1 DEF Outstanding
  <2> QED BY <1>2, <2>1, <2>2 DEF Has
<1>4. CASE s \in Follower /\ PutSeed(s)
  <2>1. seen'[s] = seen[s] \o history[s] /\ copied[s] = 0
    BY <1>4 DEF TypeOK, PutSeed, Seed, Bookkeeping
  <2>2. ToSet(seen'[s]) = ToSet(seen[s]) \cup ToSet(history[s])
    BY <1>1, <2>1, Joined
  <2>3. Outstanding(s) = ToSet(history[s])
    BY <1>1, <2>1, NothingCopied
  <2> QED BY <1>2, <2>2, <2>3 DEF Has
<1> QED BY <1>3, <1>4

\* A step of one listener alone.
Alone(s) ==
    /\ UNCHANGED <<log, deleted, writer, cache>>
    /\ \A u \in Sub \ {s} : pc'[u] = pc[u] /\ seen'[u] = seen[u]
                            /\ history'[u] = history[u] /\ copied'[u] = copied[u]

LEMMA AloneKeeps ==
    ASSUME NEW s \in Sub, Alone(s)
    PROVE  /\ UNCHANGED <<1 .. Len(log), Saved, ToPublish, ToSet(cache), deleted>>
           /\ \A u \in Sub \ {s} : Listening(u)' = Listening(u) /\ Given(u)' = Given(u)
<1>1. UNCHANGED <<1 .. Len(log), Saved, ToPublish, ToSet(cache), deleted>>
  BY DEF Alone, Saved, ToPublish, Pending
<1>2. \A u \in Sub \ {s} : Listening(u)' = Listening(u) /\ Given(u)' = Given(u)
  BY HasStays DEF Alone, Listening, Given
<1> QED BY <1>1, <1>2

\* A listener that was given nothing new, and neither joined nor left.
LEMMA AloneStutters ==
    ASSUME NEW s \in Sub, Alone(s),
           Listening(s)' = Listening(s), Listening(s) => Has(s)' = Has(s)
    PROVE  UNCHANGED Feed!vars
<1>1. \A u \in Sub : Listening(u)' = Listening(u) /\ Given(u)' = Given(u)
  BY AloneKeeps DEF Given
<1>2. {u \in Sub : Listening(u)'} = {u \in Sub : Listening(u)}
  BY <1>1
<1>3. [u \in Sub |-> Given(u)'] = [u \in Sub |-> Given(u)]
  BY <1>1
<1> QED BY <1>2, <1>3, AloneKeeps DEF Feed!vars, ToPublish, Given

\* One that is registered has joined, with all that was published, however
\* much of it is still to be copied.
LEMMA RegisterJoins ==
    ASSUME TypeOK, Bookkeeping, NEW s \in Sub, pc[s] \in {"idle", "resolved"},
           Alone(s), pc'[s] = "copying", seen' = seen, copied' = copied,
           history'[s] \in {cache, <<>>}, deleted \/ history'[s] = cache
    PROVE  Feed!Join(s)
<1>1. /\ history[s] = <<>> /\ copied[s] = 0 /\ seen[s] = <<>>
      /\ cache \in Seq(Message)
  BY DEF Bookkeeping, TypeOK
<1>2. ~Listening(s) /\ Listening(s)'
  BY DEF Listening
<1>3. Outstanding(s)' = ToSet(history'[s])
  <2>1. DOMAIN cache = 0 + 1 .. Len(cache) /\ DOMAIN <<>> = 0 + 1 .. Len(<<>>)
    BY <1>1
  <2> QED BY <1>1, <2>1 DEF Outstanding, ToSet
<1>4. Has(s)' = ToSet(history'[s])
  BY <1>1, <1>3, Empty DEF Has
<1> DEFINE ms == Has(s)'
<1>5. ms \in SUBSET ToSet(cache) /\ (deleted \/ ms = ToSet(cache))
  BY <1>4, Empty
<1>6. {u \in Sub : Listening(u)'} = {u \in Sub : Listening(u)} \cup {s}
  BY <1>2, AloneKeeps
<1>7. [u \in Sub |-> Given(u)'] = [[u \in Sub |-> Given(u)] EXCEPT ![s] = ms]
  BY <1>2, AloneKeeps DEF Given
<1> HIDE DEF ms
<1> QED BY <1>2, <1>5, <1>6, <1>7, AloneKeeps DEF Feed!Join, ToPublish, Given

\* One that is closed has left.
LEMMA ClosedLeaves ==
    ASSUME NEW s \in Sub, Alone(s), Listening(s), ~Listening(s)'
    PROVE  Feed!Leave(s)
<1>1. {u \in Sub : Listening(u)'} = {u \in Sub : Listening(u)} \ {s}
  BY AloneKeeps
<1>2. [u \in Sub |-> Given(u)'] = [[u \in Sub |-> Given(u)] EXCEPT ![s] = {}]
  BY AloneKeeps DEF Given
<1> QED BY <1>1, <1>2, AloneKeeps DEF Feed!Leave, ToPublish, Given

\* Every step of a listener is one of these.
LEMMA ListenerRefines ==
    ASSUME TypeOK, Bookkeeping, NEW s \in Sub,
           \/ s \in TaskSub /\ SubscribeToTask(s)
           \/ s \in Follower /\ Resolve(s)
           \/ ListenerStep(s) \/ Unsubscribe(s)
    PROVE  [Feed!Next]_(Feed!vars)
<1> USE DEF tableVars, cacheVars, listenerVars
<1>0. /\ pc \in [Sub -> SubPC] /\ history \in [Sub -> Seq(Message)]
      /\ copied \in [Sub -> Nat] /\ seen \in [Sub -> Seq(Message)]
  BY DEF TypeOK
<1>1. Alone(s)
  <2>1. CASE SubscribeToTask(s) \/ CopyNext(s) \/ CopyDone(s)
    BY <1>0, <2>1 DEF SubscribeToTask, CopyNext, CopyDone, Release, Alone
  <2>2. CASE Resolve(s) \/ SubscribeToContainers(s) \/ PutSeed(s)
    BY <1>0, <2>2 DEF Resolve, SubscribeToContainers, PutSeed, Release, Alone
  <2>3. CASE SendInitialState(s) \/ SendUpdate(s) \/ Unsubscribe(s)
    BY <1>0, <2>3 DEF SendInitialState, SendUpdate, Unsubscribe, Alone
  <2> QED BY <2>1, <2>2, <2>3 DEF ListenerStep
<1>2. CASE s \in TaskSub /\ SubscribeToTask(s)
  <2>1. Feed!Join(s)
    BY <1>0, <1>1, <1>2, RegisterJoins DEF SubscribeToTask
  <2> QED BY <2>1 DEF Feed!Next
<1>3. CASE s \in Follower /\ SubscribeToContainers(s)
  <2>1. log # <<>> /\ pc[s] = "resolved"
    BY <1>3 DEF SubscribeToContainers, Bookkeeping
  <2>2. history'[s] \in {cache, <<>>} /\ (deleted \/ history'[s] = cache)
    BY <1>0, <1>3, <2>1 DEF SubscribeToContainers, Visible
  <2>3. Feed!Join(s)
    BY <1>0, <1>1, <1>3, <2>1, <2>2, RegisterJoins DEF SubscribeToContainers
  <2> QED BY <2>3 DEF Feed!Next
<1>4. CASE CopyNext(s)
  <2>1. Listening(s) /\ Listening(s)' /\ Has(s)' = Has(s)
    BY <1>4, CopyMoves DEF CopyNext, Listening
  <2> QED BY <1>1, <2>1, AloneStutters
<1>5. CASE CopyDone(s) \/ (s \in Follower /\ PutSeed(s))
  <2>1. Listening(s) /\ Listening(s)'
    BY <1>0, <1>5 DEF CopyDone, PutSeed, Listening
  <2>2. Has(s)' = Has(s)
    BY <1>5, HistoryEnds
  <2> QED BY <1>1, <2>1, <2>2, AloneStutters
<1>6. CASE Resolve(s)
  <2>1. ~Listening(s) /\ Listening(s)' = Listening(s)
    BY <1>0, <1>6 DEF Resolve, Listening
  <2> QED BY <1>1, <2>1, AloneStutters
<1>7. CASE s \in Follower /\ (SendInitialState(s) \/ (SendUpdate(s) /\ ~notice[s]))
  <2>1. Listening(s) /\ Listening(s)' /\ seen'[s] = seen[s] /\ history' = history /\ copied' = copied
    BY <1>0, <1>7 DEF SendInitialState, SendUpdate, Listening
  <2>2. Has(s)' = Has(s)
    BY <2>1, HasStays
  <2> QED BY <1>1, <2>1, <2>2, AloneStutters
<1>8. CASE Unsubscribe(s) \/ (SendUpdate(s) /\ notice[s])
  <2>1. Listening(s) /\ ~Listening(s)'
    BY <1>0, <1>8 DEF Unsubscribe, SendUpdate, Listening
  <2>2. Feed!Leave(s)
    BY <1>1, <2>1, ClosedLeaves
  <2> QED BY <2>2 DEF Feed!Next
<1> QED BY <1>2, <1>3, <1>4, <1>5, <1>6, <1>7, <1>8 DEF ListenerStep

\* A commit makes a message that is to be published.
LEMMA CommitMakes ==
    ASSUME TypeOK, NEW w \in Writer, NEW kind \in {"saved", "ephemeral"}, Commit(w, kind)
    PROVE  Feed!Make(NewMessage)
<1>1. /\ log \in Seq({"saved", "ephemeral"}) /\ Len(log) \in Nat /\ Len(log) < MaxCommits
      /\ log' = Append(log, kind) /\ MaxCommits \in Nat
      /\ writer \in [Writer -> [todo : Callback, message : Message \cup {NoMessage}]]
  BY PubSubAssumption DEF Commit, TypeOK
<1>2. /\ Len(log') = Len(log) + 1
      /\ \A m \in 1 .. Len(log) : log'[m] = log[m]
      /\ 1 .. Len(log) + 1 = 1 .. Len(log) \cup {Len(log) + 1}
      /\ Len(log) + 1 \notin 1 .. Len(log)
  BY <1>1
<1>3. Saved' \in {Saved, Saved \cup {NewMessage}}
  <2>1. Saved' = IF log'[Len(log) + 1] = "saved" THEN Saved \cup {Len(log) + 1} ELSE Saved
    BY <1>2 DEF Saved
  <2> QED BY <2>1 DEF NewMessage
<1>4. NewMessage \in Message
  BY <1>1 DEF NewMessage, Message
<1>5. writer' = [writer EXCEPT ![w] = [todo |-> "publish", message |-> NewMessage]]
      /\ writer[w].todo # "publish"
  BY DEF Commit, Idle
<1>6. ToPublish' = ToPublish \cup {NewMessage}
  <2>1. ToPublish \cup {NewMessage} \subseteq ToPublish'
    <3>1. ASSUME NEW m, m = NewMessage PROVE Pending(m)'
      <4>1. writer'[w].todo = "publish" /\ writer'[w].message = m
        BY <1>1, <1>5, <3>1
      <4> QED BY <4>1 DEF Pending
    <3>2. ASSUME NEW m \in ToPublish PROVE Pending(m)'
      BY <1>1, <1>5, PendingStays DEF ToPublish
    <3> QED BY <1>4, <3>1, <3>2 DEF ToPublish
  <2>2. ToPublish' \subseteq ToPublish \cup {NewMessage}
    BY <1>1, <1>5 DEF ToPublish, Pending
  <2> QED BY <2>1, <2>2
<1>7. UNCHANGED <<ToSet(cache), {s \in Sub : Listening(s)}, [s \in Sub |-> Given(s)]>>
  BY DEF Commit, cacheVars, listenerVars, Listening, Given, Has, Outstanding
<1> QED
  BY <1>2, <1>3, <1>6, <1>7 DEF Feed!Make, Commit, ToPublish, Given, NewMessage

\* A publication publishes it, to all who are registered.
LEMMA PublishPublishes ==
    ASSUME TypeOK, Bookkeeping, Unpublished, NEW w \in Writer, Publish(w)
    PROVE  Feed!Publish(writer[w].message) /\ writer[w].message \in Message
<1> DEFINE m == writer[w].message
<1>1. m \in Message /\ writer[w].todo = "publish"
  BY PubSubAssumption DEF TypeOK, Bookkeeping, Message, Publish
<1>2. m \in ToPublish /\ m \notin ToSet(cache)
  BY <1>1 DEF ToPublish, Pending, Unpublished, NewToAll
<1>3. /\ writer \in [Writer -> [todo : Callback, message : Message \cup {NoMessage}]]
      /\ writer' = [writer EXCEPT ![w] = Idle]
  BY DEF TypeOK, Publish
<1>4. ToPublish' = ToPublish \ {m}
  <2>1. \A n \in Message : Pending(n)' => Pending(n) /\ n # m
    BY <1>1, <1>3 DEF Pending, Unpublished, Idle
  <2>2. ASSUME NEW n \in Message, Pending(n), n # m PROVE Pending(n)'
    <3>1. PICK v \in Writer : writer[v].todo = "publish" /\ writer[v].message = n
      BY <2>2 DEF Pending
    <3>2. writer'[v] = writer[v]
      BY <1>3, <2>2, <3>1
    <3> QED BY <3>1, <3>2 DEF Pending
  <2> QED BY <2>1, <2>2 DEF ToPublish
<1>5. ToSet(cache') = ToSet(cache) \cup {m}
  BY <1>1, Appended DEF TypeOK, Publish
<1>6. \A s \in Sub : Listening(s)' = Listening(s)
  BY DEF Publish, Listening
<1>7. ASSUME NEW s \in Sub
      PROVE  Given(s)' = IF Listening(s) THEN Given(s) \cup {m} ELSE Given(s)
  BY <1>1, <1>6, PublishGives DEF Given
<1>8. [s \in Sub |-> Given(s)']
        = [s \in Sub |-> IF s \in {u \in Sub : Listening(u)}
                         THEN [u \in Sub |-> Given(u)][s] \cup {m}
                         ELSE [u \in Sub |-> Given(u)][s]]
  BY <1>7
<1>9. UNCHANGED <<1 .. Len(log), Saved, deleted, {u \in Sub : Listening(u)}>>
  BY <1>6 DEF Publish, tableVars, Saved
<1> HIDE DEF m
<1>10. Feed!Publish(m)
  BY <1>2, <1>4, <1>5, <1>8, <1>9 DEF Feed!Publish, ToPublish, Given
<1> QED BY <1>1, <1>10 DEF m

\* The other callbacks of a deletion, and its commit.
LEMMA DeletionRefines ==
    ASSUME TypeOK, Bookkeeping, NEW w \in Writer,
           CommitDeletion(w) \/ PublishDeleted(w) \/ Cleanup(w)
    PROVE  [Feed!Next]_(Feed!vars)
<1> USE DEF tableVars, cacheVars, listenerVars
<1>1. writer \in [Writer -> [todo : Callback, message : Message \cup {NoMessage}]]
  BY DEF TypeOK
<1>2. ToPublish' = ToPublish
  <2>1. writer[w].todo # "publish" /\ writer'[w].todo # "publish"
        /\ \A v \in Writer \ {w} : writer'[v] = writer[v]
    BY <1>1 DEF CommitDeletion, PublishDeleted, Cleanup, Idle
  <2>2. \A n : Pending(n)' <=> Pending(n)
    BY <2>1 DEF Pending
  <2> QED BY <2>2 DEF ToPublish
<1>3. UNCHANGED <<1 .. Len(log), Saved, {s \in Sub : Listening(s)}, [s \in Sub |-> Given(s)]>>
  <2>1. UNCHANGED <<log, pc, seen, history, copied>>
    BY DEF CommitDeletion, PublishDeleted, Cleanup
  <2> QED BY <2>1 DEF Saved, Listening, Given, Has, Outstanding
<1>4. CASE CommitDeletion(w)
  BY <1>2, <1>3, <1>4 DEF CommitDeletion, Visible, Feed!Next, Feed!Delete, ToPublish, Given
<1>5. CASE PublishDeleted(w)
  BY <1>2, <1>3, <1>5 DEF PublishDeleted, Feed!vars, ToPublish, Given
<1>6. CASE Cleanup(w)
  <2>1. deleted /\ deleted' = deleted /\ ToSet(cache') = {}
    BY <1>6, Empty DEF Cleanup, Bookkeeping
  <2> QED BY <1>2, <1>3, <2>1 DEF Feed!Next, Feed!Forget, ToPublish, Given
<1> QED BY <1>4, <1>5, <1>6

\* A restart publishes what was saved.
LEMMA RestartRestarts ==
    ASSUME TypeOK, Restart
    PROVE  Feed!Restart
<1>1. ToPublish' = {}
  BY DEF Restart, Idle, ToPublish, Pending
<1>2. \A s \in Sub : ~Listening(s)'
  BY DEF Restart, Listening
<1>3. ToSet(cache') = IF deleted THEN {} ELSE Saved
  <2>1. CASE Visible
    BY <2>1, ReloadedIsList DEF Restart, Visible
  <2>2. CASE ~Visible
    <3>1. cache' = <<>> /\ (deleted \/ log = <<>>)
      BY <2>2 DEF Restart, Visible
    <3>2. log = <<>> => Saved = {}
      BY DEF Saved
    <3> QED BY <3>1, <3>2, Empty
  <2> QED BY <2>1, <2>2
<1>4. {s \in Sub : Listening(s)'} = {}
  BY <1>2
<1>5. [s \in Sub |-> Given(s)'] = [s \in Sub |-> {}]
  BY <1>2 DEF Given
<1>6. UNCHANGED <<1 .. Len(log), Saved, deleted>>
  BY DEF Restart, Saved
<1> QED BY <1>1, <1>3, <1>4, <1>5, <1>6 DEF Feed!Restart, ToPublish, Given

\* Every step is a step of MessageFeed or changes nothing there.
LEMMA FeedStep ==
    ASSUME IInv, [Next]_vars
    PROVE  [Feed!Next]_(Feed!vars)
<1> USE DEF IInv
<1>1. ASSUME NEW w \in Writer, NEW kind \in {"saved", "ephemeral"}, Commit(w, kind)
      PROVE  Feed!Next
  <2>1. NewMessage \in Message
    BY <1>1, PubSubAssumption DEF TypeOK, Commit, NewMessage, Message
  <2> QED BY <1>1, <2>1, CommitMakes DEF Feed!Next
<1>2. ASSUME NEW w \in Writer, Publish(w) PROVE Feed!Next
  BY <1>2, PublishPublishes DEF Feed!Next
<1>3. ASSUME NEW w \in Writer, CommitDeletion(w) \/ PublishDeleted(w) \/ Cleanup(w)
      PROVE  [Feed!Next]_(Feed!vars)
  BY <1>3, DeletionRefines
<1>4. ASSUME NEW s \in Sub,
             \/ s \in TaskSub /\ SubscribeToTask(s)
             \/ s \in Follower /\ Resolve(s)
             \/ ListenerStep(s) \/ Unsubscribe(s)
      PROVE  [Feed!Next]_(Feed!vars)
  BY <1>4, ListenerRefines
<1>5. CASE Restart
  BY <1>5, RestartRestarts DEF Feed!Next
<1>6. CASE UNCHANGED vars
  BY <1>6
  DEF vars, tableVars, cacheVars, listenerVars, Feed!vars, Saved, Pending, Listening, Has,
      Outstanding
<1> QED
  BY <1>1, <1>2, <1>3, <1>4, <1>5, <1>6 DEF Next, CallbackStep, Subscribe, Sub

\* The first state has no message and no listener, as in MessageFeed.
LEMMA FeedInit ==
    ASSUME Init
    PROVE  Feed!Init
<1>1. 1 .. Len(log) = {} /\ Saved = {}
  BY DEF Init, Saved
<1>2. ToPublish = {}
  BY DEF Init, Idle, ToPublish, Pending
<1>3. \A s \in Sub : ~Listening(s)
  BY DEF Init, Listening
<1>4. [s \in Sub |-> Given(s)] = [s \in Sub |-> {}]
  BY <1>3 DEF Given
<1> QED BY <1>1, <1>2, <1>3, <1>4, Empty DEF Init, Feed!Init, ToPublish, Given

\* The cache, its lock, the callbacks and the two kinds of listener implement
\* MessageFeed: to listen is one step that gives all that was published, and to
\* publish is one step that reaches every listener, once per message and process
\* (_publish_task_update, _subscribe_to_task, _scoped_task_container_subscription).
THEOREM FeedRefinement == Spec => ImplementsFeed
<1>1. IInv /\ [Next]_vars => [Feed!Next]_(Feed!vars)
  BY FeedStep
<1>2. Init => Feed!Init
  BY FeedInit
<1> QED BY <1>1, <1>2, IInvHolds, PTL DEF Spec, ImplementsFeed, Feed!Spec

\* The guarantee of MessageFeed itself: who has joined was given what was
\* published, all of it and nothing else, until the task is deleted.
GivenAll ==
    deleted \/ \A s \in Sub : Listening(s) => Has(s) = ToSet(cache)

LEMMA FeedGivesAll ==
    ASSUME GivenAll, [Feed!Next]_(Feed!vars)
    PROVE  GivenAll'
<1> DEFINE known == [s \in Sub |-> Given(s)]
           joined == {s \in Sub : Listening(s)}
<1>1. GivenAll <=> deleted \/ \A s \in joined : known[s] = ToSet(cache)
  BY DEF GivenAll, Given
<1>2. GivenAll' <=> deleted' \/ \A s \in joined' : known'[s] = ToSet(cache')
  BY DEF GivenAll, Given
<1>3. known = [s \in Sub |-> IF Listening(s) THEN Has(s) ELSE {}]
  BY DEF Given
<1>4. known' = [s \in Sub |-> IF Listening(s)' THEN Has(s)' ELSE {}]
  BY DEF Given
<1>5. DOMAIN known = Sub /\ joined \subseteq Sub
  OBVIOUS
<1> HIDE DEF known, joined
<1>6. CASE UNCHANGED Feed!vars
  BY <1>1, <1>2, <1>3, <1>4, <1>6 DEF Feed!vars, joined
<1>7. ASSUME NEW m \in Message, Feed!Make(m) PROVE GivenAll'
  BY <1>1, <1>2, <1>3, <1>4, <1>7 DEF Feed!Make, joined
<1>8. ASSUME NEW m \in Message, Feed!Publish(m) PROVE GivenAll'
  <2>1. /\ ToSet(cache') = ToSet(cache) \cup {m} /\ joined' = joined /\ deleted' = deleted
        /\ known' = [s \in Sub |-> IF s \in joined THEN known[s] \cup {m} ELSE known[s]]
    BY <1>3, <1>4, <1>8 DEF Feed!Publish, joined
  <2> QED BY <1>1, <1>2, <1>5, <2>1
<1>9. ASSUME NEW l \in Sub, Feed!Join(l) PROVE GivenAll'
  <2>1. /\ ToSet(cache') = ToSet(cache) /\ joined' = joined \cup {l} /\ deleted' = deleted
        /\ deleted \/ known' = [known EXCEPT ![l] = ToSet(cache)]
    BY <1>3, <1>4, <1>9 DEF Feed!Join, joined
  <2> QED BY <1>1, <1>2, <1>5, <2>1
<1>10. ASSUME NEW l \in Sub, Feed!Leave(l) PROVE GivenAll'
  <2>1. /\ ToSet(cache') = ToSet(cache) /\ joined' = joined \ {l} /\ deleted' = deleted
        /\ known' = [known EXCEPT ![l] = {}]
    BY <1>3, <1>4, <1>10 DEF Feed!Leave, joined
  <2> QED BY <1>1, <1>2, <1>5, <2>1
<1>11. CASE Feed!Delete \/ Feed!Forget
  BY <1>2, <1>11 DEF Feed!Delete, Feed!Forget
<1>12. CASE Feed!Restart
  <2>1. joined' = {}
    BY <1>12 DEF Feed!Restart, joined
  <2> QED BY <1>2, <2>1
<1> QED BY <1>6, <1>7, <1>8, <1>9, <1>10, <1>11, <1>12 DEF Feed!Next

\* So a listener has, put into its queue or still to be copied, exactly what the
\* cache holds, from its registration on: nothing is missed and nothing is made up.
THEOREM ListenersHaveTheCache == Spec => []GivenAll
<1>1. Init => GivenAll
  BY DEF Init, GivenAll, Listening
<1>2. IInv /\ [Next]_vars /\ GivenAll => GivenAll'
  BY FeedStep, FeedGivesAll
<1> QED BY <1>1, <1>2, IInvHolds, PTL DEF Spec

=============================================================================
