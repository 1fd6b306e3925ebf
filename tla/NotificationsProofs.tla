------------------------- MODULE NotificationsProofs -------------------------
(***************************************************************************)
(* What one step of notification delivery does to the queues and the       *)
(* stored rows, for every domain module that fills the queues.             *)
(***************************************************************************)
EXTENDS Notifications, TLAPS

\* Rewriting the job at the head of a queue keeps the types, touches no other
\* queue, and takes in no row from outside.
LEMMA AdvanceKeeps ==
  ASSUME NotificationsTypeOK, NEW c \in Calls, work[c] # <<>>,
         NEW stage \in Stage, NEW rows \in SUBSET Current(c),
         Advance(c, stage, rows)
  PROVE  /\ work' \in [Calls -> Seq(Job)]
         /\ \A k \in Calls \ {c} : work'[k] = work[k]
         /\ InHand(c)' \subseteq InHand(c)
         /\ work'[c] # <<>> /\ work'[c][1] = [stage |-> stage, rows |-> rows]
<1> DEFINE job == [stage |-> stage, rows |-> rows]
<1>1. work[c] \in Seq(Job) /\ work[c][1] \in Job /\ 1 \in DOMAIN work[c]
  BY DEF NotificationsTypeOK
<1>2. job \in Job
  BY <1>1 DEF Job, Current
<1>3. work'[c] = [work[c] EXCEPT ![1] = job]
  BY DEF Advance, NotificationsTypeOK
<1>4. work'[c] \in Seq(Job) /\ Len(work'[c]) = Len(work[c])
  BY <1>1, <1>2, <1>3
<1>5. \A k \in Calls \ {c} : work'[k] = work[k]
  BY DEF Advance, NotificationsTypeOK
<1>6. work' \in [Calls -> Seq(Job)]
  BY <1>2, <1>3, <1>4, <1>5 DEF Advance, NotificationsTypeOK
<1>7. work'[c][1] = job /\ work'[c] # <<>>
  BY <1>1, <1>3, <1>4
<1>8. InHand(c)' \subseteq InHand(c)
  <2> SUFFICES ASSUME NEW n, n \in InHand(c)' PROVE n \in InHand(c)
    OBVIOUS
  <2>1. PICK i \in DOMAIN work'[c] : n \in work'[c][i].rows
    BY DEF InHand
  <2>2. i \in DOMAIN work[c]
    BY <2>1, <1>1, <1>3, <1>4
  <2>3. CASE i = 1
    <3>1. n \in work[c][1].rows
      BY <2>1, <2>3, <1>7 DEF Current
    <3> QED BY <3>1, <1>1 DEF InHand
  <2>4. CASE i # 1
    <3>1. work'[c][i] = work[c][i]
      BY <2>2, <2>4, <1>1, <1>3
    <3> QED BY <3>1, <2>1, <2>2 DEF InHand
  <2> QED BY <2>3, <2>4
<1> QED BY <1>5, <1>6, <1>7, <1>8

\* So does dropping it.
LEMMA ReturnKeeps ==
  ASSUME NotificationsTypeOK, NEW c \in Calls, work[c] # <<>>, Return(c)
  PROVE  /\ work' \in [Calls -> Seq(Job)]
         /\ \A k \in Calls \ {c} : work'[k] = work[k]
         /\ InHand(c)' \subseteq InHand(c)
<1>1. work[c] \in Seq(Job)
  BY DEF NotificationsTypeOK
<1>2. work'[c] = Tail(work[c]) /\ Tail(work[c]) \in Seq(Job)
  BY <1>1 DEF Return, NotificationsTypeOK
<1>3. \A k \in Calls \ {c} : work'[k] = work[k]
  BY DEF Return, NotificationsTypeOK
<1>4. work' \in [Calls -> Seq(Job)]
  BY <1>2, <1>3 DEF Return, NotificationsTypeOK
<1>5. InHand(c)' \subseteq InHand(c)
  <2> SUFFICES ASSUME NEW n, n \in InHand(c)' PROVE n \in InHand(c)
    OBVIOUS
  <2>1. PICK i \in DOMAIN work'[c] : n \in work'[c][i].rows
    BY DEF InHand
  <2>2. i + 1 \in DOMAIN work[c] /\ work'[c][i] = work[c][i + 1]
    BY <2>1, <1>1, <1>2
  <2> QED BY <2>1, <2>2 DEF InHand
<1> QED BY <1>3, <1>4, <1>5

\* One step of delivery keeps the types, takes rows from the caller's own queue
\* only, and removes none that is stored.
LEMMA NotifyStepKeeps ==
  ASSUME NotificationsTypeOK, NEW c \in Calls, NotifyStep(c)
  PROVE  /\ NotificationsTypeOK'
         /\ notifications \subseteq notifications'
         /\ notifications' \subseteq notifications \cup InHand(c)
         /\ \A k \in Calls \ {c} : work'[k] = work[k]
         /\ InHand(c)' \subseteq InHand(c)
         /\ work[c] # <<>>
         /\ active' = active
<1>1. work[c] # <<>>
  BY DEF NotifyStep, ResolveAudience, CreateRows, PushRows, AddressEmails,
         SendEmails, Broadcast, Emit, At
<1>2. work[c] \in Seq(Job) /\ work[c][1] \in Job /\ 1 \in DOMAIN work[c]
  BY <1>1 DEF NotificationsTypeOK
<1>3. Current(c) \subseteq Notice /\ Current(c) \subseteq InHand(c)
      /\ Reachable(Current(c)) \subseteq Current(c)
  BY <1>2 DEF Current, InHand, Job, Reachable
<1>4. /\ active' = active
      /\ notifications \subseteq notifications'
      /\ notifications' \subseteq notifications \cup Current(c)
      /\ pushed' \subseteq pushed \cup Current(c)
      /\ emails' \subseteq emails \cup Current(c)
  BY <1>3 DEF NotifyStep, ResolveAudience, CreateRows, PushRows, AddressEmails,
              SendEmails, Broadcast, Emit
<1>5. Return(c) \/ \E stage \in Stage, rows \in SUBSET Current(c) : Advance(c, stage, rows)
  <2>1. CASE ResolveAudience(c)
    BY <2>1, <1>3 DEF ResolveAudience, Stage
  <2>2. CASE CreateRows(c)
    BY <2>2 DEF CreateRows, Stage
  <2>3. CASE PushRows(c)
    BY <2>3 DEF PushRows, Stage
  <2>4. CASE AddressEmails(c)
    BY <2>4, <1>3 DEF AddressEmails, Stage
  <2>5. CASE SendEmails(c)
    BY <2>5 DEF SendEmails
  <2>6. CASE Broadcast(c)
    BY <2>6 DEF Broadcast
  <2>7. CASE Emit(c)
    BY <2>7 DEF Emit
  <2> QED BY <2>1, <2>2, <2>3, <2>4, <2>5, <2>6, <2>7 DEF NotifyStep
<1>6. /\ work' \in [Calls -> Seq(Job)]
      /\ \A k \in Calls \ {c} : work'[k] = work[k]
      /\ InHand(c)' \subseteq InHand(c)
  BY <1>1, <1>5, AdvanceKeeps, ReturnKeeps
<1>7. NotificationsTypeOK'
  BY <1>3, <1>4, <1>6 DEF NotificationsTypeOK
<1> QED BY <1>1, <1>3, <1>4, <1>6, <1>7
----------------------------------------------------------------------------
(* Delivery follows storage.                                               *)

\* A queue that DeliveryFollowsStorage allows; only its head is under way, and
\* what is emitted without being stored is a bare note:sync.
QueueOK(c) ==
  /\ \A n \in InHand(c) : n.by = c
  /\ work[c] # <<>> =>
       /\ work[c][1].stage \in {"push", "address", "send"} => Current(c) \subseteq notifications
       /\ work[c][1].stage \in {"address", "send"} => Current(c) \subseteq pushed
  /\ \A i \in DOMAIN work[c] :
       /\ i # 1 => work[c][i].stage \in {"resolve", "create", "broadcast", "emit"}
       /\ work[c][i].stage \in {"broadcast", "emit"} =>
            \A n \in work[c][i].rows : n.via = "noteSync"

Delivery ==
  /\ emails \subseteq pushed
  /\ \A n \in pushed : n.via # "noteSync" => n \in notifications
  /\ \A c \in Calls : QueueOK(c)

\* A queue nobody touches stays as good as it was.
LEMMA QueueStays ==
  ASSUME NEW c \in Calls, QueueOK(c), work'[c] = work[c],
         notifications \subseteq notifications', pushed \subseteq pushed'
  PROVE  QueueOK(c)'
<1>1. InHand(c)' = InHand(c) /\ Current(c)' = Current(c)
  BY DEF InHand, Current
<1> QED BY <1>1 DEF QueueOK

\* So does one whose head is dropped.
LEMMA QueueReturns ==
  ASSUME NotificationsTypeOK, NEW c \in Calls, work[c] # <<>>, QueueOK(c), Return(c)
  PROVE  QueueOK(c)'
<1>1. work[c] \in Seq(Job)
  BY DEF NotificationsTypeOK
<1>2. work'[c] = Tail(work[c])
  BY <1>1 DEF Return, NotificationsTypeOK
<1>3. \A n \in InHand(c)' : n.by = c
  BY ReturnKeeps DEF QueueOK
<1>4. \A i \in DOMAIN work'[c] :
        i + 1 \in DOMAIN work[c] /\ i + 1 # 1 /\ work'[c][i] = work[c][i + 1]
  BY <1>1, <1>2
<1>5. \A i \in DOMAIN work'[c] :
        /\ work'[c][i].stage \in {"resolve", "create", "broadcast", "emit"}
        /\ work'[c][i].stage \in {"broadcast", "emit"} =>
             \A n \in work'[c][i].rows : n.via = "noteSync"
  BY <1>4 DEF QueueOK
<1>6. work'[c] # <<>> => 1 \in DOMAIN work'[c]
  BY <1>1, <1>2
<1>7. work'[c] # <<>> => work'[c][1].stage \notin {"push", "address", "send"}
  BY <1>5, <1>6
<1> QED BY <1>3, <1>5, <1>7 DEF QueueOK

\* And one whose head moves on to a stage its rows are ready for.
LEMMA QueueAdvances ==
  ASSUME NotificationsTypeOK, NEW c \in Calls, work[c] # <<>>, QueueOK(c),
         NEW stage \in {"create", "push", "address", "send"},
         NEW rows \in SUBSET Current(c), Advance(c, stage, rows),
         stage \in {"push", "address", "send"} => rows \subseteq notifications',
         stage \in {"address", "send"} => rows \subseteq pushed'
  PROVE  QueueOK(c)'
<1>1. stage \in Stage
  BY DEF Stage
<1>2. /\ InHand(c)' \subseteq InHand(c)
      /\ work'[c] # <<>> /\ work'[c][1] = [stage |-> stage, rows |-> rows]
  BY <1>1, AdvanceKeeps
<1>3. work'[c][1].stage = stage /\ Current(c)' = rows
  BY <1>2 DEF Current
<1>4. work[c] \in Seq(Job)
  BY DEF NotificationsTypeOK
<1>5. \A i \in DOMAIN work'[c] : i \in DOMAIN work[c] /\ (i # 1 => work'[c][i] = work[c][i])
  BY <1>4 DEF Advance, NotificationsTypeOK
<1>6. \A i \in DOMAIN work'[c] :
        /\ i # 1 => work'[c][i].stage \in {"resolve", "create", "broadcast", "emit"}
        /\ work'[c][i].stage \in {"broadcast", "emit"} =>
             \A n \in work'[c][i].rows : n.via = "noteSync"
  BY <1>3, <1>5 DEF QueueOK
<1>7. \A n \in InHand(c)' : n.by = c
  BY <1>2 DEF QueueOK
<1> QED BY <1>3, <1>6, <1>7 DEF QueueOK

LEMMA NotifyStepDelivers ==
  ASSUME NotificationsTypeOK, Delivery, NEW c \in Calls, NotifyStep(c)
  PROVE  Delivery'
<1>1. work[c] # <<>> /\ QueueOK(c)
  BY NotifyStepKeeps DEF Delivery
<1>2. work[c] \in Seq(Job) /\ 1 \in DOMAIN work[c]
  BY <1>1 DEF NotificationsTypeOK
<1>3. Reachable(Current(c)) \in SUBSET Current(c)
  BY DEF Reachable
<1> DEFINE Stored == /\ emails' \subseteq pushed'
                     /\ \A n \in pushed' : n.via # "noteSync" => n \in notifications'
                     /\ notifications \subseteq notifications' /\ pushed \subseteq pushed'
<1>4. QueueOK(c)' /\ Stored
  <2>1. CASE ResolveAudience(c)
    BY <1>1, <1>3, <2>1, QueueReturns, QueueAdvances DEF ResolveAudience, Delivery
  <2>2. CASE CreateRows(c)
    BY <1>1, <2>2, QueueAdvances DEF CreateRows, Delivery
  <2>3. CASE PushRows(c)
    <3>1. Current(c) \subseteq notifications
      BY <1>1, <2>3 DEF PushRows, At, QueueOK
    <3> QED BY <1>1, <2>3, <3>1, QueueReturns, QueueAdvances DEF PushRows, Delivery
  <2>4. CASE AddressEmails(c)
    <3>1. Current(c) \subseteq notifications /\ Current(c) \subseteq pushed
      BY <1>1, <2>4 DEF AddressEmails, At, QueueOK
    <3> QED BY <1>1, <1>3, <2>4, <3>1, QueueAdvances DEF AddressEmails, Delivery
  <2>5. CASE SendEmails(c)
    <3>1. Current(c) \subseteq pushed
      BY <1>1, <2>5 DEF SendEmails, At, QueueOK
    <3> QED BY <1>1, <2>5, <3>1, QueueReturns DEF SendEmails, Delivery
  <2>6. CASE Broadcast(c) \/ Emit(c)
    <3>1. \A n \in Current(c) : n.via = "noteSync"
      BY <1>1, <1>2, <2>6 DEF Broadcast, Emit, At, Current, QueueOK
    <3> QED BY <1>1, <1>3, <2>6, <3>1, QueueReturns DEF Broadcast, Emit, Delivery
  <2> QED BY <2>1, <2>2, <2>3, <2>4, <2>5, <2>6 DEF NotifyStep
<1>5. ASSUME NEW k \in Calls PROVE QueueOK(k)'
  <2>1. CASE k = c
    BY <1>4, <2>1
  <2>2. CASE k # c
    <3>1. work'[k] = work[k]
      BY <2>2, NotifyStepKeeps
    <3> QED BY <1>4, <3>1, QueueStays DEF Delivery
  <2> QED BY <2>1, <2>2
<1> QED BY <1>4, <1>5 DEF Delivery

\* A handler fills its empty hands with jobs that have not begun.
LEMMA QueueFills ==
  ASSUME NEW c \in Calls, NEW jobs \in Seq(Job), work'[c] = jobs,
         \A i \in DOMAIN jobs :
           /\ jobs[i].stage \in {"resolve", "create", "broadcast", "emit"}
           /\ \A n \in jobs[i].rows : n.by = c
           /\ jobs[i].stage \in {"broadcast", "emit"} => \A n \in jobs[i].rows : n.via = "noteSync"
  PROVE  QueueOK(c)'
<1>1. \A n \in InHand(c)' : n.by = c
  BY DEF InHand
<1>2. jobs # <<>> => 1 \in DOMAIN jobs
  OBVIOUS
<1> QED BY <1>1, <1>2 DEF QueueOK

----------------------------------------------------------------------------
(* What is still to be stored.                                             *)

\* The jobs of a handler that may yet store rows.
ToStore(c) == { i \in DOMAIN work[c] : work[c][i].stage \in {"resolve", "create"} }

\* A step of delivery stores the rows of the job at the head, or none; what is to
\* be stored afterwards was to be stored before, in the same order.
LEMMA NotifyStepStores ==
  ASSUME NotificationsTypeOK, NEW c \in Calls, NotifyStep(c)
  PROVE  \E shift \in {0, 1} :
           /\ \A j \in ToStore(c)' :
                j + shift \in ToStore(c) /\ work'[c][j].rows \subseteq work[c][j + shift].rows
           /\ \/ notifications' = notifications
              \/ /\ 1 \in ToStore(c) /\ notifications' = notifications \cup Current(c)
                 /\ \A j \in ToStore(c)' : j + shift # 1
<1>1. work[c] # <<>>
  BY NotifyStepKeeps
<1>2. /\ work[c] \in Seq(Job) /\ 1 \in DOMAIN work[c] /\ work[c][1] \in Job
      /\ work' \in [Calls -> Seq(Job)]
  BY <1>1, NotifyStepKeeps DEF NotificationsTypeOK
<1>3. ASSUME notifications' = notifications, Return(c)
      PROVE  \A j \in ToStore(c)' :
               j + 1 \in ToStore(c) /\ work'[c][j].rows \subseteq work[c][j + 1].rows
  <2>1. work'[c] = Tail(work[c])
    BY <1>3 DEF Return, NotificationsTypeOK
  <2>2. \A j \in DOMAIN work'[c] : j + 1 \in DOMAIN work[c] /\ work'[c][j] = work[c][j + 1]
    BY <1>1, <1>2, <2>1
  <2> QED BY <2>2 DEF ToStore
<1>4. ASSUME NEW stage \in Stage, NEW rows \in SUBSET Current(c), Advance(c, stage, rows),
             stage = "create" => At(c, "resolve"), stage # "resolve"
      PROVE  \A j \in ToStore(c)' :
               /\ j + 0 \in ToStore(c) /\ work'[c][j].rows \subseteq work[c][j + 0].rows
               /\ stage # "create" => j + 0 # 1
  <2> DEFINE job == [stage |-> stage, rows |-> rows]
  <2>1. job \in Job
    BY <1>2 DEF Job, Current
  <2>2. /\ DOMAIN work'[c] = DOMAIN work[c] /\ work'[c][1] = job
        /\ \A j \in DOMAIN work[c] \ {1} : work'[c][j] = work[c][j]
    BY <1>2, <1>4, <2>1 DEF Advance, NotificationsTypeOK
  <2>3. DOMAIN work[c] \subseteq Nat
    BY <1>2
  <2> SUFFICES ASSUME NEW j \in ToStore(c)'
               PROVE  /\ j \in ToStore(c) /\ work'[c][j].rows \subseteq work[c][j].rows
                      /\ j \in Nat /\ (stage # "create" => j # 1)
    BY <2>3
  <2>4. j \in DOMAIN work[c] /\ work'[c][j].stage \in {"resolve", "create"}
    BY <2>2 DEF ToStore
  <2>5. CASE j = 1
    BY <1>1, <1>2, <1>4, <2>2, <2>3, <2>4, <2>5 DEF ToStore, At, Current
  <2>6. CASE j # 1
    BY <2>2, <2>3, <2>4, <2>6 DEF ToStore
  <2> QED BY <2>5, <2>6
<1>5. Reachable(Current(c)) \subseteq Current(c)
  BY DEF Reachable
<1>6. CASE ResolveAudience(c)
  <2>1. notifications' = notifications
    BY <1>6 DEF ResolveAudience
  <2>2. CASE Return(c)
    BY <1>3, <2>1, <2>2
  <2>3. CASE Advance(c, "create", Reachable(Current(c)))
    BY <1>4, <1>5, <1>6, <2>1, <2>3 DEF ResolveAudience, Stage
  <2> QED BY <1>6, <2>2, <2>3 DEF ResolveAudience
<1>7. CASE CreateRows(c)
  <2>1. 1 \in ToStore(c)
    BY <1>2, <1>7 DEF CreateRows, At, ToStore
  <2> QED BY <1>4, <1>7, <2>1 DEF CreateRows, Stage
<1>8. CASE PushRows(c)
  <2>1. notifications' = notifications
    BY <1>8 DEF PushRows
  <2>2. CASE Return(c)
    BY <1>3, <2>1, <2>2
  <2>3. CASE Advance(c, "address", Current(c))
    BY <1>4, <2>1, <2>3 DEF Stage
  <2> QED BY <1>8, <2>2, <2>3 DEF PushRows
<1>9. CASE AddressEmails(c)
  BY <1>4, <1>5, <1>9 DEF AddressEmails, Stage
<1>10. CASE SendEmails(c) \/ Broadcast(c) \/ Emit(c)
  BY <1>3, <1>10 DEF SendEmails, Broadcast, Emit
<1> QED BY <1>6, <1>7, <1>8, <1>9, <1>10 DEF NotifyStep

----------------------------------------------------------------------------
(* What is still to be emitted.                                            *)

Emitting == { "push", "broadcast", "emit" }

\* The jobs of a handler that may yet emit something.
ToEmit(c) == { j \in DOMAIN work[c] : work[c][j].stage \notin {"address", "send"} }

\* What they may yet emit.
Outgoing(c) == UNION { work[c][j].rows : j \in ToEmit(c) }

\* Whoever is asked for is active.
AudienceActive(c) ==
  \A j \in DOMAIN work[c] :
    work[c][j].stage \in {"resolve", "broadcast"} => Reachable(work[c][j].rows) = work[c][j].rows

\* A step of delivery emits the rows of the job at the head, or none; as long as
\* the audiences are active nothing else is lost.
LEMMA NotifyStepEmits ==
  ASSUME NotificationsTypeOK, NEW c \in Calls, NotifyStep(c), AudienceActive(c)
  PROVE  /\ \/ /\ work[c][1].stage \in Emitting
               /\ Outgoing(c) = Outgoing(c)' \cup Current(c)
            \/ /\ work[c][1].stage \notin Emitting
               /\ Outgoing(c) = Outgoing(c)'
         /\ \A j \in DOMAIN work'[c] : work'[c][j].stage \in {"resolve", "broadcast"} =>
              \E k \in DOMAIN work[c] : work[c][k] = work'[c][j]
<1>1. work[c] # <<>>
  BY NotifyStepKeeps
<1>2. /\ work[c] \in Seq(Job) /\ 1 \in DOMAIN work[c] /\ DOMAIN work[c] \subseteq Nat
      /\ Reachable(Current(c)) \subseteq Current(c)
  BY <1>1 DEF NotificationsTypeOK, Reachable
<1>3. ASSUME Return(c)
      PROVE  /\ \A j \in DOMAIN work[c] : j # 1 => j - 1 \in DOMAIN work'[c]
                                              /\ work'[c][j - 1] = work[c][j]
             /\ \A j \in DOMAIN work'[c] : j + 1 \in DOMAIN work[c] /\ j + 1 # 1
                                          /\ work'[c][j] = work[c][j + 1]
  <2>1. work'[c] = Tail(work[c])
    BY <1>3 DEF Return, NotificationsTypeOK
  <2> QED BY <1>1, <1>2, <2>1
<1>4. ASSUME NEW stage \in Stage \ {"resolve", "broadcast"}, NEW rows \in SUBSET Current(c),
             Advance(c, stage, rows)
      PROVE  /\ DOMAIN work'[c] = DOMAIN work[c]
             /\ work'[c][1].stage = stage /\ work'[c][1].rows = rows
             /\ \A j \in DOMAIN work[c] \ {1} : work'[c][j] = work[c][j]
  <2> DEFINE job == [stage |-> stage, rows |-> rows]
  <2>1. work'[c] = [work[c] EXCEPT ![1] = job]
    BY <1>4 DEF Advance, NotificationsTypeOK
  <2> QED BY <1>2, <2>1
<1>5. ASSUME Return(c)
      PROVE  \A j \in DOMAIN work'[c] : \E k \in DOMAIN work[c] : work[c][k] = work'[c][j]
  BY <1>3, <1>5
<1>6. ASSUME NEW stage \in Stage \ {"resolve", "broadcast"}, NEW rows \in SUBSET Current(c),
             Advance(c, stage, rows)
      PROVE  \A j \in DOMAIN work'[c] : work'[c][j].stage \in {"resolve", "broadcast"} =>
               \E k \in DOMAIN work[c] : work[c][k] = work'[c][j]
  BY <1>4, <1>6
\* The queue without its head.
<1> DEFINE Rest == UNION { work[c][j].rows : j \in ToEmit(c) \ {1} }
<1>7. ASSUME Return(c) PROVE Outgoing(c)' = Rest
  <2>1. \A n \in Outgoing(c)' : n \in Rest
    <3> SUFFICES ASSUME NEW n \in Outgoing(c)' PROVE n \in Rest
      OBVIOUS
    <3>1. PICK j \in DOMAIN work'[c] : /\ n \in work'[c][j].rows
                                       /\ work'[c][j].stage \notin {"address", "send"}
      BY DEF Outgoing, ToEmit
    <3>2. j + 1 \in ToEmit(c) \ {1} /\ n \in work[c][j + 1].rows
      BY <1>3, <1>7, <3>1 DEF ToEmit
    <3> QED BY <3>2
  <2>2. \A n \in Rest : n \in Outgoing(c)'
    <3> SUFFICES ASSUME NEW n \in Rest PROVE n \in Outgoing(c)'
      OBVIOUS
    <3>1. PICK j \in ToEmit(c) \ {1} : n \in work[c][j].rows
      OBVIOUS
    <3>2. j - 1 \in DOMAIN work'[c] /\ work'[c][j - 1] = work[c][j]
      BY <1>3, <1>7, <3>1 DEF ToEmit
    <3>3. j - 1 \in ToEmit(c)'
      BY <3>1, <3>2 DEF ToEmit
    <3> QED BY <3>1, <3>2, <3>3 DEF Outgoing
  <2> QED BY <2>1, <2>2
<1>8. ASSUME NEW stage \in Stage \ {"resolve", "broadcast"}, NEW rows \in SUBSET Current(c),
             Advance(c, stage, rows)
      PROVE  Outgoing(c)' = Rest \cup (IF stage \in {"address", "send"} THEN {} ELSE rows)
  <2>1. \A j \in DOMAIN work[c] \ {1} : j \in ToEmit(c)' <=> j \in ToEmit(c)
    BY <1>4, <1>8 DEF ToEmit
  <2>2. 1 \in ToEmit(c)' <=> stage \notin {"address", "send"}
    BY <1>2, <1>4, <1>8 DEF ToEmit
  <2>3. ToEmit(c)' = (ToEmit(c) \ {1}) \cup (IF stage \in {"address", "send"} THEN {} ELSE {1})
    BY <1>2, <1>4, <1>8, <2>1, <2>2 DEF ToEmit
  <2>4. \A j \in ToEmit(c) \ {1} : work'[c][j].rows = work[c][j].rows
    BY <1>4, <1>8 DEF ToEmit
  <2>5. work'[c][1].rows = rows
    BY <1>4, <1>8
  <2> QED BY <2>3, <2>4, <2>5 DEF Outgoing
<1>9. Outgoing(c) = Rest \cup (IF work[c][1].stage \in {"address", "send"} THEN {} ELSE Current(c))
  <2>1. 1 \in ToEmit(c) <=> work[c][1].stage \notin {"address", "send"}
    BY <1>2 DEF ToEmit
  <2> QED BY <2>1 DEF Outgoing, Current
<1> HIDE DEF Rest
<1>10. CASE ResolveAudience(c)
  <2>1. work[c][1].stage = "resolve" /\ Reachable(Current(c)) = Current(c)
    BY <1>2, <1>10 DEF ResolveAudience, At, AudienceActive, Current
  <2>2. CASE Return(c) /\ Current(c) = {}
    BY <1>5, <1>7, <1>9, <2>1, <2>2 DEF Emitting
  <2>3. CASE Advance(c, "create", Current(c))
    BY <1>6, <1>8, <1>9, <2>1, <2>3 DEF Emitting, Stage
  <2> QED BY <1>10, <2>1, <2>2, <2>3 DEF ResolveAudience
<1>11. CASE CreateRows(c)
  BY <1>6, <1>8, <1>9, <1>11 DEF CreateRows, At, Emitting, Stage
<1>12. CASE PushRows(c)
  <2>1. work[c][1].stage = "push"
    BY <1>12 DEF PushRows, At
  <2>2. CASE Return(c)
    BY <1>5, <1>7, <1>9, <2>1, <2>2 DEF Emitting
  <2>3. CASE Advance(c, "address", Current(c))
    BY <1>6, <1>8, <1>9, <2>1, <2>3 DEF Emitting, Stage
  <2> QED BY <1>12, <2>2, <2>3 DEF PushRows
<1>13. CASE AddressEmails(c)
  BY <1>2, <1>6, <1>8, <1>9, <1>13 DEF AddressEmails, At, Emitting, Stage
<1>14. CASE SendEmails(c)
  BY <1>5, <1>7, <1>9, <1>14 DEF SendEmails, At, Emitting
<1>15. CASE Broadcast(c) \/ Emit(c)
  BY <1>5, <1>7, <1>9, <1>15 DEF Broadcast, Emit, At, Emitting
<1> QED BY <1>10, <1>11, <1>12, <1>13, <1>14, <1>15 DEF NotifyStep
=============================================================================
