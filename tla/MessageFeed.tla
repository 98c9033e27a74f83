---------------------------- MODULE MessageFeed ----------------------------
(***************************************************************************)
(* What the task service promises to those who listen to a task, with the  *)
(* lock, the lists, the copies and the queues hidden: to join is one step, *)
(* which gives a listener all that was published, and to publish is one    *)
(* step, which gives the message to every listener at once.  A message is  *)
(* published once in the life of a process, and a restart publishes what   *)
(* was kept.  Once the task is deleted a listener who joins may get less.  *)
(***************************************************************************)
CONSTANTS Listener, Message

VARIABLES
    made,       \* the messages committed
    kept,       \* those a restart does not forget
    pending,    \* those still to be published
    published,  \* those who joins is given
    over,       \* the task is deleted
    joined,     \* the listeners
    known       \* listener -> what it was given

vars == <<made, kept, pending, published, over, joined, known>>

Init ==
    /\ made = {} /\ kept = {} /\ pending = {} /\ published = {}
    /\ over = FALSE
    /\ joined = {}
    /\ known = [l \in Listener |-> {}]

Make(m) ==
    /\ ~over
    /\ m \notin made
    /\ made' = made \cup {m}
    /\ kept' \in {kept, kept \cup {m}}
    /\ pending' = pending \cup {m}
    /\ UNCHANGED <<published, over, joined, known>>

Publish(m) ==
    /\ m \in pending \ published
    /\ pending' = pending \ {m}
    /\ published' = published \cup {m}
    /\ known' = [l \in Listener |-> IF l \in joined THEN known[l] \cup {m} ELSE known[l]]
    /\ UNCHANGED <<made, kept, over, joined>>

Join(l) ==
    /\ l \notin joined
    /\ joined' = joined \cup {l}
    /\ \E ms \in SUBSET published :
          /\ over \/ ms = published
          /\ known' = [known EXCEPT ![l] = ms]
    /\ UNCHANGED <<made, kept, pending, published, over>>

Leave(l) ==
    /\ l \in joined
    /\ joined' = joined \ {l}
    /\ known' = [known EXCEPT ![l] = {}]
    /\ UNCHANGED <<made, kept, pending, published, over>>

\* The deletion of the task commits.
Delete ==
    /\ ~over
    /\ over' = TRUE
    /\ UNCHANGED <<made, kept, pending, published, joined, known>>

\* What was published of a deleted task is forgotten.
Forget ==
    /\ over
    /\ published' = {}
    /\ UNCHANGED <<made, kept, pending, over, joined, known>>

\* The process dies and is started again.
Restart ==
    /\ pending' = {}
    /\ published' = IF over THEN {} ELSE kept
    /\ joined' = {}
    /\ known' = [l \in Listener |-> {}]
    /\ UNCHANGED <<made, kept, over>>

Next ==
    \/ \E m \in Message : Make(m) \/ Publish(m)
    \/ \E l \in Listener : Join(l) \/ Leave(l)
    \/ Delete \/ Forget \/ Restart

Spec == Init /\ [][Next]_vars

=============================================================================
