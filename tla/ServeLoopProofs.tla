--------------------------- MODULE ServeLoopProofs ---------------------------
(* Safety of the serve loop for any number of serving tasks, transports and *)
(* datagrams, and any counts serve() is called with.                        *)
EXTENDS ServeLoop, SequenceLemmas

\* the owner opens, binds and closes one thing at a time: the transport is the
\* last one made, and a connection being lost is that of a closed responder
OwnerInv ==
    /\ transport # 0 => transport = opens /\ owner = "idle"
    /\ losing # 0 => losing = opens /\ owner = "closing"
    /\ owner = "closing" => closed

\* Whoever is in a queue's getters waits on it, once, and has not been woken;
\* whoever has been woken waits on a queue
Parked(gs, w, on) ==
    /\ \A g \in Transports : Distinct(gs[g])
    /\ \A g \in Transports : \A i \in 1 .. Len(gs[g]) : on[gs[g][i]] = g /\ gs[g][i] \notin w
    /\ \A c \in w : on[c] # 0

\* Whoever has been woken waits on the last queue made and runs before the owner
\* goes on from close(); the late ones wait on a queue whose connection is lost.
WaitInv ==
    /\ Parked(getters, woken, waitsOn)
    /\ \A c \in woken \ late : waitsOn[c] = opens
    /\ \A c \in late : waitsOn[c] \notin {transport, losing}
    /\ transport = 0 /\ owner # "closing" => woken \subseteq late

\* a task that waits or runs is inside serve(), and one that runs does not wait
TaskInv ==
    /\ \A c \in Consumers : waitsOn[c] # 0 => c \in serving
    /\ running # NoTask => running \in serving /\ waitsOn[running] = 0

\* What is in the open transport's queue came in after everything answered and
\* everything in the other queues, in the order of the queue, and there is no
\* sentinel in it yet.
QueueInv ==
    /\ \A g \in Transports : g > opens => queue[g] = <<>>
    /\ transport # 0 =>
         /\ \A i \in 1 .. Len(queue[transport]) :
              queue[transport][i].type # "closed" /\ queue[transport][i].n > 0
         /\ \A i, j \in 1 .. Len(queue[transport]) :
              i < j => queue[transport][i].n < queue[transport][j].n
         /\ \A i \in 1 .. Len(replies), j \in 1 .. Len(queue[transport]) :
              replies[i].to < queue[transport][j].n
         /\ \A g \in Transports \ {transport} :
              \A i \in 1 .. Len(queue[g]), j \in 1 .. Len(queue[transport]) :
                queue[g][i].n < queue[transport][j].n

\* No two datagrams queued have one number, in whatever queues they are, and
\* none of them has been answered.
ItemInv ==
    /\ \A g \in Transports : \A i \in 1 .. Len(queue[g]) :
         queue[g][i].type # "closed" => queue[g][i].n > 0
    /\ \A g, h \in Transports : \A i \in 1 .. Len(queue[g]), j \in 1 .. Len(queue[h]) :
         queue[g][i].n = queue[h][j].n /\ queue[g][i].n > 0 => g = h /\ i = j
    /\ \A g \in Transports : \A i \in 1 .. Len(replies), j \in 1 .. Len(queue[g]) :
         replies[i].to # queue[g][j].n

ServeInv ==
    /\ TypeOK /\ OwnerInv /\ WaitInv /\ TaskInv /\ QueueInv /\ ItemInv
    /\ AnsweredInOrder

------------------------------------------------------------------------------
(* Getters come, are woken and go.                                          *)

GettersType == [Transports -> Seq(Consumers)]
OnType      == [Consumers -> Nat]

LEMMA WakeOne ==
    ASSUME NEW gs \in GettersType, NEW w \in SUBSET Consumers, NEW on \in OnType,
           NEW g \in Transports, Parked(gs, w, on), gs[g] # <<>>
    PROVE  /\ [gs EXCEPT ![g] = Tail(@)] \in GettersType
           /\ w \union {Head(gs[g])} \in SUBSET Consumers
           /\ Parked([gs EXCEPT ![g] = Tail(@)], w \union {Head(gs[g])}, on)
           /\ on[Head(gs[g])] = g
<1> DEFINE t == Tail(gs[g])
           h == Head(gs[g])
           ngs == [gs EXCEPT ![g] = t]
<1>1. gs[g] \in Seq(Consumers) /\ g # 0 /\ g \in Nat
  BY DEF GettersType, Transports
<1>2. /\ 1 \in 1 .. Len(gs[g]) /\ gs[g][1] = h
      /\ t \in Seq(Consumers) /\ TakenOut(gs[g], 1, t)
  BY <1>1, TailTakesOut
<1>3. /\ Distinct(t)
      /\ \A j \in 1 .. Len(t) : \E k \in 1 .. Len(gs[g]) : t[j] = gs[g][k] /\ gs[g][k] # h
  <2> HIDE DEF t, h
  <2>1. Distinct(gs[g])
    BY DEF Parked
  <2>2. /\ Distinct(t)
        /\ \A j \in 1 .. Len(t) : \E k \in 1 .. Len(gs[g]) : t[j] = gs[g][k] /\ gs[g][k] # gs[g][1]
    BY <1>1, <1>2, <2>1, DistinctWithout
  <2> QED
    BY <1>2, <2>2
<1> HIDE DEF t, h
<1>4. ngs \in GettersType /\ \A f \in Transports : ngs[f] = IF f = g THEN t ELSE gs[f]
  BY <1>2 DEF GettersType
<1>5. h \in Consumers /\ on[h] = g
  BY <1>1, <1>2 DEF Parked
<1>6. ASSUME NEW f \in Transports, NEW i \in 1 .. Len(ngs[f])
      PROVE  on[ngs[f][i]] = f /\ ngs[f][i] \notin w \union {h}
  <2>1. CASE f = g
    <3>1. i \in 1 .. Len(t) /\ ngs[f][i] = t[i]
      BY <1>4, <2>1
    <3>2. PICK k \in 1 .. Len(gs[g]) : t[i] = gs[g][k] /\ gs[g][k] # h
      BY <1>3, <3>1
    <3>3. on[gs[g][k]] = g /\ gs[g][k] \notin w
      BY DEF Parked
    <3> QED
      BY <2>1, <3>1, <3>2, <3>3
  <2>2. CASE f # g
    <3>1. i \in 1 .. Len(gs[f]) /\ ngs[f][i] = gs[f][i]
      BY <1>4, <2>2
    <3>2. on[gs[f][i]] = f /\ gs[f][i] \notin w
      BY <3>1 DEF Parked
    <3> QED
      BY <1>5, <2>2, <3>1, <3>2
  <2> QED
    BY <2>1, <2>2
<1>7. \A f \in Transports : Distinct(ngs[f])
  BY <1>3, <1>4 DEF Parked
<1>8. \A c \in w \union {h} : on[c] # 0
  BY <1>1, <1>5 DEF Parked
<1>9. Parked(ngs, w \union {h}, on)
  BY <1>6, <1>7, <1>8 DEF Parked
<1> QED
  BY <1>4, <1>5, <1>9 DEF t, h

\* c, who is in no getters, runs
LEMMA Unpark ==
    ASSUME NEW gs \in GettersType, NEW w \in SUBSET Consumers, NEW on \in OnType,
           Parked(gs, w, on), NEW c \in Consumers,
           c \in w \/ on[c] = 0, NEW x \in Nat
    PROVE  Parked(gs, w \ {c}, [on EXCEPT ![c] = x])
<1> DEFINE non == [on EXCEPT ![c] = x]
<1>1. ASSUME NEW g \in Transports, NEW i \in 1 .. Len(gs[g])
      PROVE  gs[g][i] \in Consumers /\ gs[g][i] # c
  <2>1. gs[g] \in Seq(Consumers) /\ g # 0
    BY DEF GettersType, Transports
  <2> QED
    BY <2>1 DEF Parked
<1>2. \A d \in Consumers \ {c} : non[d] = on[d]
  BY DEF OnType
<1> HIDE DEF non
<1> QED
  BY <1>1, <1>2 DEF Parked, non

\* c joins the getters of g
LEMMA Park ==
    ASSUME NEW gs \in GettersType, NEW w \in SUBSET Consumers, NEW on \in OnType,
           Parked(gs, w, on), NEW c \in Consumers,
           c \in w \/ on[c] = 0, NEW g \in Transports
    PROVE  /\ [gs EXCEPT ![g] = Append(@, c)] \in GettersType
           /\ Parked([gs EXCEPT ![g] = Append(@, c)], w \ {c}, [on EXCEPT ![c] = g])
<1> DEFINE non == [on EXCEPT ![c] = g]
           a == Append(gs[g], c)
           ngs == [gs EXCEPT ![g] = a]
<1>0. g \in Nat /\ gs[g] \in Seq(Consumers)
  BY DEF Transports, GettersType
<1>1. Parked(gs, w \ {c}, non)
  BY <1>0, Unpark
<1>2. non \in OnType /\ non[c] = g
  BY <1>0 DEF OnType
<1>3. ASSUME NEW i \in 1 .. Len(gs[g]) PROVE gs[g][i] # c
  <2>1. on[gs[g][i]] = g /\ gs[g][i] \notin w /\ g # 0
    BY DEF Parked, Transports
  <2> QED
    BY <2>1
<1>4. Distinct(a)
  BY <1>0, <1>3, DistinctAppend DEF Parked
<1>5. /\ a \in Seq(Consumers) /\ Len(a) = Len(gs[g]) + 1 /\ Len(gs[g]) \in Nat
      /\ a[Len(gs[g]) + 1] = c /\ \A i \in 1 .. Len(gs[g]) : a[i] = gs[g][i]
  BY <1>0, AppendProperties
<1> HIDE DEF a, non
<1>6. ngs \in GettersType /\ \A f \in Transports : ngs[f] = IF f = g THEN a ELSE gs[f]
  BY <1>5 DEF GettersType
<1>7. ASSUME NEW i \in 1 .. Len(a) PROVE non[a[i]] = g /\ a[i] \notin w \ {c}
  <2>1. CASE i = Len(gs[g]) + 1
    BY <1>2, <1>5, <2>1
  <2>2. CASE i \in 1 .. Len(gs[g])
    BY <1>1, <1>5, <2>2 DEF Parked
  <2> QED
    BY <1>5, <2>1, <2>2
<1>8. Parked(ngs, w \ {c}, non)
  BY <1>1, <1>4, <1>6, <1>7 DEF Parked
<1> QED
  BY <1>6, <1>8 DEF a, non

\* c, cancelled before it was woken, leaves the getters
LEMMA Leave ==
    ASSUME NEW gs \in GettersType, NEW w \in SUBSET Consumers, NEW on \in OnType,
           Parked(gs, w, on), NEW c \in Consumers, c \notin w,
           on[c] \in Transports
    PROVE  /\ [gs EXCEPT ![on[c]] = RemoveFirst(@, c)] \in GettersType
           /\ Parked([gs EXCEPT ![on[c]] = RemoveFirst(@, c)], w, [on EXCEPT ![c] = 0])
<1> DEFINE g == on[c]
           non == [on EXCEPT ![c] = 0]
           r == RemoveFirst(gs[g], c)
           ngs == [gs EXCEPT ![g] = r]
<1>0. gs[g] \in Seq(Consumers) /\ \A f \in Transports : gs[f] \in Seq(Consumers)
  BY DEF GettersType
<1>1. /\ r \in Seq(Consumers) /\ Distinct(r)
      /\ \A j \in 1 .. Len(r) : r[j] # c /\ \E k \in 1 .. Len(gs[g]) : r[j] = gs[g][k]
  <2>1. CASE \E i \in 1 .. Len(gs[g]) : gs[g][i] = c
    <3>1. PICK i \in 1 .. Len(gs[g]) : gs[g][i] = c
      BY <2>1
    <3>2. Distinct(gs[g])
      BY DEF Parked
    <3>3. r = RemoveAt(gs[g], i)
      BY <1>0, <3>1, <3>2, RemoveFirstIsRemoveAt
    <3>4. r \in Seq(Consumers) /\ TakenOut(gs[g], i, r)
      BY <1>0, <3>3, RemoveAtTakesOut
    <3> HIDE DEF r
    <3> QED
      BY <1>0, <3>1, <3>2, <3>4, DistinctWithout
  <2>2. CASE ~\E i \in 1 .. Len(gs[g]) : gs[g][i] = c
    <3>1. r = gs[g]
      BY <2>2 DEF RemoveFirst
    <3> QED
      BY <1>0, <2>2, <3>1 DEF Parked
  <2> QED
    BY <2>1, <2>2
<1> HIDE DEF r
<1>2. ngs \in GettersType /\ \A f \in Transports : ngs[f] = IF f = g THEN r ELSE gs[f]
  BY <1>1 DEF GettersType
<1>3. \A d \in Consumers \ {c} : non[d] = on[d]
  BY DEF OnType
<1>4. ASSUME NEW f \in Transports, NEW i \in 1 .. Len(ngs[f])
      PROVE  ngs[f][i] \in Consumers \ {c} /\ on[ngs[f][i]] = f /\ ngs[f][i] \notin w
  <2>1. CASE f = g
    <3>1. i \in 1 .. Len(r) /\ ngs[f][i] = r[i]
      BY <1>2, <2>1
    <3>2. PICK k \in 1 .. Len(gs[g]) : r[i] = gs[g][k]
      BY <1>1, <3>1
    <3> QED
      BY <1>0, <1>1, <2>1, <3>1, <3>2 DEF Parked
  <2>2. CASE f # g
    <3>1. i \in 1 .. Len(gs[f]) /\ ngs[f][i] = gs[f][i]
      BY <1>2, <2>2
    <3>2. on[gs[f][i]] = f /\ gs[f][i] \notin w
      BY <3>1 DEF Parked
    <3> QED
      BY <1>0, <2>2, <3>1, <3>2
  <2> QED
    BY <2>1, <2>2
<1> HIDE DEF ngs, non
<1>5. \A f \in Transports : Distinct(ngs[f])
  BY <1>1, <1>2 DEF Parked
<1>6. \A d \in w : non[d] # 0
  BY <1>3 DEF Parked
<1>7. Parked(ngs, w, non)
  BY <1>3, <1>4, <1>5, <1>6 DEF Parked
<1> QED
  BY <1>2, <1>7 DEF ngs, non, r

------------------------------------------------------------------------------
(* The steps of the owner and of the transport.                             *)

Items(n)      == [type : {"request", "noise", "closed"}, n : 0 .. n]
Replies(n, o) == [to : 1 .. n, from : 1 .. o, via : 1 .. o, by : Consumers]

(* The types, by what keeps them. *)
NumberTypes ==
    /\ transport \in 0 .. opens /\ losing \in 0 .. opens
    /\ opens \in 0 .. MaxOpens /\ received \in Nat
QueueTypes  == queue \in [Transports -> Seq(Items(received))]
WaitTypes   ==
    /\ getters \in GettersType /\ woken \in SUBSET Consumers /\ late \subseteq woken
    /\ waitsOn \in [Consumers -> 0 .. opens]
TaskTypes   == serving \subseteq Consumers /\ running \in Consumers \union {NoTask}
OwnerTypes  == owner \in {"idle", "binding", "closing"} /\ closed \in BOOLEAN
ResultTypes == result \in [Consumers -> {"none", "done", "stopped", "lost", "unsent",
                                         "refused", "cancelled"}]
ReplyTypes  == replies \in Seq(Replies(received, opens))

LEMMA TypesInParts ==
    /\ TypeOK <=> /\ NumberTypes /\ QueueTypes /\ WaitTypes /\ TaskTypes
                  /\ OwnerTypes /\ ResultTypes /\ ReplyTypes
    /\ TypeOK' <=> /\ NumberTypes' /\ QueueTypes' /\ WaitTypes' /\ TaskTypes'
                   /\ OwnerTypes' /\ ResultTypes' /\ ReplyTypes'
  BY ZenonT(60) DEF TypeOK, NumberTypes, QueueTypes, WaitTypes, TaskTypes, OwnerTypes,
         ResultTypes, ReplyTypes, Items, Replies, GettersType

\* what one more datagram or transport leaves in its set
LEMMA SetsGrow ==
    ASSUME NEW n \in Nat, NEW o \in Nat
    PROVE  /\ Seq(Items(n)) \subseteq Seq(Items(n + 1))
           /\ Seq(Replies(n, o)) \subseteq Seq(Replies(n + 1, o))
           /\ Seq(Replies(n, o)) \subseteq Seq(Replies(n, o + 1))
<1>1. /\ Items(n) \subseteq Items(n + 1)
      /\ Replies(n, o) \subseteq Replies(n + 1, o)
      /\ Replies(n, o) \subseteq Replies(n, o + 1)
  BY DEF Items, Replies
<1>2. ASSUME NEW S, NEW T, S \subseteq T PROVE Seq(S) \subseteq Seq(T)
  BY <1>2
<1> QED
  BY <1>1, <1>2

\* the invariant holds at the start
LEMMA ServeInit ==
    ASSUME Init
    PROVE  ServeInv
<1> USE UdpServerAssumption DEF Init, ServerInit
<1>1. \A S : <<>> \in Seq(S) /\ Len(<<>>) = 0
  OBVIOUS
<1>2. TypeOK
  <2>1. NumberTypes
    BY DEF NumberTypes
  <2>2. QueueTypes /\ WaitTypes
    BY <1>1 DEF QueueTypes, WaitTypes, GettersType
  <2>3. TaskTypes /\ OwnerTypes
    BY DEF TaskTypes, OwnerTypes
  <2>4. ResultTypes /\ ReplyTypes
    BY <1>1 DEF ResultTypes, ReplyTypes
  <2> QED
    BY <2>1, <2>2, <2>3, <2>4, TypesInParts
<1>3. OwnerInv
  BY DEF OwnerInv
<1>4. WaitInv
  BY <1>1 DEF WaitInv, Parked, Distinct
<1>5. TaskInv
  BY DEF TaskInv
<1>6. QueueInv /\ ItemInv
  BY DEF QueueInv, ItemInv
<1>7. AnsweredInOrder
  BY <1>1 DEF AnsweredInOrder
<1> QED
  BY <1>2, <1>3, <1>4, <1>5, <1>6, <1>7 DEF ServeInv

\* nothing changes
LEMMA ServeStutters ==
    ASSUME ServeInv, UNCHANGED vars
    PROVE  ServeInv'
<1> USE DEF vars, serverVars, loopVars
<1>1. TypeOK'
  BY DEF ServeInv, TypeOK
<1>2. OwnerInv' /\ TaskInv'
  BY DEF ServeInv, OwnerInv, TaskInv
<1>3. WaitInv'
  BY DEF ServeInv, WaitInv, Parked
<1>4. QueueInv' /\ ItemInv'
  BY DEF ServeInv, QueueInv, ItemInv
<1>5. AnsweredInOrder'
  BY DEF ServeInv, AnsweredInOrder
<1> QED
  BY <1>1, <1>2, <1>3, <1>4, <1>5 DEF ServeInv

\* the responses stay
LEMMA RepliesStay ==
    ASSUME ServeInv, UNCHANGED replies
    PROVE  AnsweredInOrder'
  BY DEF ServeInv, AnsweredInOrder

\* what is queued and what was answered stay
LEMMA ItemsStay ==
    ASSUME ServeInv, UNCHANGED <<queue, replies>>
    PROVE  ItemInv'
  BY DEF ServeInv, ItemInv

\* the numbers of what is queued and answered
LEMMA Numbers ==
    ASSUME ServeInv
    PROVE  /\ received \in Nat
           /\ \A g \in Transports :
                queue[g] \in Seq(Items(received)) /\ Len(queue[g]) \in Nat
           /\ \A g \in Transports : \A i \in 1 .. Len(queue[g]) :
                queue[g][i] \in Items(received) /\ queue[g][i].n \in 0 .. received
           /\ \A i \in 1 .. Len(replies) : replies[i].to \in 1 .. received
<1>1. NumberTypes /\ QueueTypes /\ ReplyTypes
  BY TypesInParts DEF ServeInv
<1>2. \A g \in Transports : queue[g] \in Seq(Items(received)) /\ Len(queue[g]) \in Nat
  BY <1>1 DEF QueueTypes
<1>3. \A g \in Transports : \A i \in 1 .. Len(queue[g]) : queue[g][i] \in Items(received)
  BY <1>2
<1>4. \A i \in 1 .. Len(replies) : replies[i] \in Replies(received, opens)
  BY <1>1 DEF ReplyTypes
<1> QED
  BY <1>1, <1>2, <1>3, <1>4 DEF Items, Replies, NumberTypes

\* a datagram with a number of its own, or the sentinel, comes into queue g
LEMMA ItemComes ==
    ASSUME ServeInv, NEW g \in Transports, NEW item,
           queue' = [queue EXCEPT ![g] = Append(@, item)], UNCHANGED replies,
           item = ServerClosed \/ item.n = received + 1
    PROVE  ItemInv'
<1> DEFINE old == queue[g]
           new == Append(old, item)
           Fresh(n) == n = 0 \/ n = received + 1
<1>1. /\ received \in Nat /\ old \in Seq(Items(received)) /\ Len(old) \in Nat
      /\ \A h \in Transports : \A i \in 1 .. Len(queue[h]) : queue[h][i].n \in 0 .. received
      /\ \A i \in 1 .. Len(replies) : replies[i].to \in 1 .. received
  BY Numbers
<1>2. /\ Len(new) = Len(old) + 1 /\ new[Len(old) + 1] = item
      /\ \A i \in 1 .. Len(old) : new[i] = old[i]
  <2> DEFINE S == Items(received) \union {item}
  <2>1. ASSUME NEW A, NEW B, A \subseteq B PROVE Seq(A) \subseteq Seq(B)
    BY <2>1
  <2>2. old \in Seq(S) /\ item \in S
    BY <1>1, <2>1
  <2> HIDE DEF S, old
  <2> QED
    BY <2>2, AppendProperties
<1>3. \A h \in Transports : queue'[h] = IF h = g THEN new ELSE queue[h]
  BY TypesInParts DEF ServeInv, QueueTypes
<1>4. Fresh(item.n) /\ (item.type # "closed" => item.n > 0)
  BY <1>1 DEF ServerClosed
<1> HIDE DEF new, old
<1>5. ASSUME NEW h \in Transports, NEW i \in 1 .. Len(queue'[h])
      PROVE  \/ h = g /\ i = Len(old) + 1 /\ queue'[h][i] = item
             \/ i \in 1 .. Len(queue[h]) /\ queue'[h][i] = queue[h][i]
  BY <1>1, <1>2, <1>3 DEF old
<1>6. \A h \in Transports : \A i \in 1 .. Len(queue'[h]) :
        queue'[h][i].type # "closed" => queue'[h][i].n > 0
  BY <1>4, <1>5 DEF ServeInv, ItemInv
<1>7. \A h \in Transports : \A i \in 1 .. Len(replies), j \in 1 .. Len(queue'[h]) :
        replies[i].to # queue'[h][j].n
  <2> SUFFICES ASSUME NEW h \in Transports, NEW i \in 1 .. Len(replies),
                      NEW j \in 1 .. Len(queue'[h])
               PROVE  replies[i].to # queue'[h][j].n
    OBVIOUS
  <2>1. CASE queue'[h][j] = item
    BY <1>1, <1>4, <2>1
  <2>2. CASE j \in 1 .. Len(queue[h]) /\ queue'[h][j] = queue[h][j]
    BY <2>2 DEF ServeInv, ItemInv
  <2> QED
    BY <1>5, <2>1, <2>2
<1>8. ASSUME NEW h \in Transports, NEW k \in Transports,
             NEW i \in 1 .. Len(queue'[h]), NEW j \in 1 .. Len(queue'[k]),
             queue'[h][i].n = queue'[k][j].n, queue'[h][i].n > 0
      PROVE  h = k /\ i = j
  <2>1. CASE i \in 1 .. Len(queue[h]) /\ queue'[h][i] = queue[h][i]
    <3>1. CASE j \in 1 .. Len(queue[k]) /\ queue'[k][j] = queue[k][j]
      BY <1>8, <2>1, <3>1 DEF ServeInv, ItemInv
    <3>2. CASE queue'[k][j] = item
      <4>1. queue[h][i].n = item.n /\ queue[h][i].n \in 0 .. received /\ item.n > 0
        BY <1>1, <1>8, <2>1, <3>2
      <4> QED
        BY <1>1, <1>4, <4>1
    <3> QED
      BY <1>5, <3>1, <3>2
  <2>2. CASE h = g /\ i = Len(old) + 1 /\ queue'[h][i] = item
    <3>1. CASE j \in 1 .. Len(queue[k]) /\ queue'[k][j] = queue[k][j]
      <4>1. queue[k][j].n = item.n /\ queue[k][j].n \in 0 .. received /\ item.n > 0
        BY <1>1, <1>8, <2>2, <3>1
      <4> QED
        BY <1>1, <1>4, <4>1
    <3>2. CASE k = g /\ j = Len(old) + 1
      BY <2>2, <3>2
    <3> QED
      BY <1>5, <3>1, <3>2
  <2> QED
    BY <1>5, <2>1, <2>2
<1> QED
  BY <1>6, <1>7, <1>8 DEF ItemInv

\* the first item of queue g goes: it was in no other place, and not answered
LEMMA ItemGoes ==
    ASSUME ServeInv, NEW g \in Transports, queue[g] # <<>>,
           queue' = [queue EXCEPT ![g] = Tail(@)]
    PROVE  /\ UNCHANGED replies => ItemInv'
           /\ \A h \in Transports : \A i \in 1 .. Len(queue'[h]) :
                queue'[h][i].type # "closed" => queue'[h][i].n > 0
           /\ \A h, k \in Transports :
                \A i \in 1 .. Len(queue'[h]), j \in 1 .. Len(queue'[k]) :
                  queue'[h][i].n = queue'[k][j].n /\ queue'[h][i].n > 0 => h = k /\ i = j
           /\ \A h \in Transports : \A i \in 1 .. Len(replies), j \in 1 .. Len(queue'[h]) :
                replies[i].to # queue'[h][j].n
           /\ Head(queue[g]).n > 0 =>
                \A h \in Transports : \A j \in 1 .. Len(queue'[h]) :
                  Head(queue[g]).n # queue'[h][j].n
           /\ Head(queue[g]).type # "closed" => Head(queue[g]).n > 0
           /\ \A i \in 1 .. Len(replies) : replies[i].to # Head(queue[g]).n
           /\ Head(queue[g]).n \in 0 .. received
<1> DEFINE old == queue[g]
           new == Tail(old)
           At(h, i) == IF h = g THEN i + 1 ELSE i
<1>1. /\ old \in Seq(Items(received)) /\ Len(old) \in Nat
      /\ \A h \in Transports : Len(queue[h]) \in Nat
      /\ \A i \in 1 .. Len(old) : old[i].n \in 0 .. received
  BY Numbers
<1>2. /\ Head(old) = old[1] /\ 1 \in 1 .. Len(old)
      /\ Len(new) = Len(old) - 1 /\ \A i \in 1 .. Len(new) : new[i] = old[i + 1]
  BY <1>1, HeadTailProperties
<1>3. \A h \in Transports : queue'[h] = IF h = g THEN new ELSE queue[h]
  BY TypesInParts DEF ServeInv, QueueTypes
<1> HIDE DEF new, old
<1>4. ASSUME NEW h \in Transports, NEW i \in 1 .. Len(queue'[h])
      PROVE  /\ At(h, i) \in 1 .. Len(queue[h]) /\ queue'[h][i] = queue[h][At(h, i)]
             /\ h = g => At(h, i) # 1
  BY <1>1, <1>2, <1>3 DEF old
<1>5. \A h \in Transports : \A i \in 1 .. Len(queue'[h]) :
        queue'[h][i].type # "closed" => queue'[h][i].n > 0
  BY <1>4 DEF ServeInv, ItemInv
<1>6. ASSUME NEW h \in Transports, NEW k \in Transports,
             NEW i \in 1 .. Len(queue'[h]), NEW j \in 1 .. Len(queue'[k]),
             queue'[h][i].n = queue'[k][j].n, queue'[h][i].n > 0
      PROVE  h = k /\ i = j
  <2>1. h = k /\ At(h, i) = At(k, j)
    <3> HIDE DEF At
    <3> QED
      BY <1>4, <1>6 DEF ServeInv, ItemInv
  <2> QED
    BY <2>1
<1>7. \A h \in Transports : \A i \in 1 .. Len(replies), j \in 1 .. Len(queue'[h]) :
        replies[i].to # queue'[h][j].n
  BY <1>4 DEF ServeInv, ItemInv
<1>8. ASSUME old[1].n > 0, NEW h \in Transports, NEW j \in 1 .. Len(queue'[h])
      PROVE  old[1].n # queue'[h][j].n
  <2>1. old[1].n = queue[h][At(h, j)].n => g = h /\ At(h, j) = 1
    <3> HIDE DEF At
    <3> QED
      BY <1>2, <1>4, <1>8 DEF ServeInv, ItemInv, old
  <2> QED
    BY <1>4, <2>1
<1>9. /\ old[1].type # "closed" => old[1].n > 0
      /\ \A i \in 1 .. Len(replies) : replies[i].to # old[1].n
  BY <1>2 DEF ServeInv, ItemInv, old
<1>10. \A h, k \in Transports :
         \A i \in 1 .. Len(queue'[h]), j \in 1 .. Len(queue'[k]) :
           queue'[h][i].n = queue'[k][j].n /\ queue'[h][i].n > 0 => h = k /\ i = j
  BY ONLY <1>6, Zenon
<1>11. UNCHANGED replies => ItemInv'
  BY ONLY <1>5, <1>7, <1>10 DEF ItemInv
<1>12. old[1].n > 0 =>
         \A h \in Transports : \A j \in 1 .. Len(queue'[h]) : old[1].n # queue'[h][j].n
  BY <1>8
<1> QED
  BY ONLY <1>1, <1>2, <1>5, <1>7, <1>9, <1>10, <1>11, <1>12 DEF old

\* open(), close() and the ends of binding and closing leave the queues
OwnerSteps ==
    /\ running = NoTask
    /\ UNCHANGED <<opens, queue, getters, woken, late, waitsOn, running, received,
                   serving, count, handled, result, replies>>
    /\ transport' \in {0, transport} /\ losing' \in {0, losing, transport}
    /\ owner' \in {"idle", "binding", "closing"} /\ closed' \in BOOLEAN

LEMMA OwnerStepsKeep ==
    ASSUME ServeInv, OwnerSteps, OwnerInv', transport' = 0 /\ owner' # "closing" => woken \subseteq late
    PROVE  ServeInv'
<1> USE DEF OwnerSteps
<1>1. TypeOK'
  <2>1. /\ NumberTypes /\ QueueTypes /\ WaitTypes /\ TaskTypes
        /\ OwnerTypes /\ ResultTypes /\ ReplyTypes
    BY TypesInParts DEF ServeInv
  <2>2. NumberTypes'
    BY <2>1 DEF NumberTypes
  <2>3. QueueTypes' /\ WaitTypes' /\ ResultTypes' /\ ReplyTypes'
    BY <2>1 DEF QueueTypes, WaitTypes, ResultTypes, ReplyTypes
  <2>4. TaskTypes' /\ OwnerTypes'
    BY <2>1 DEF TaskTypes, OwnerTypes
  <2> QED
    BY <2>2, <2>3, <2>4, TypesInParts
<1>2. TaskInv'
  BY DEF ServeInv, TaskInv
<1>3. WaitInv'
  <2>1. \A c \in late : waitsOn[c] \notin {0, transport, losing}
    BY TypesInParts DEF ServeInv, WaitInv, Parked, WaitTypes
  <2> QED
    BY <2>1 DEF ServeInv, WaitInv, Parked
<1>4. QueueInv' /\ ItemInv'
  BY ItemsStay DEF ServeInv, QueueInv
<1>5. AnsweredInOrder'
  BY RepliesStay
<1> QED
  BY <1>1, <1>2, <1>3, <1>4, <1>5 DEF ServeInv

LEMMA OwnerActs ==
    ASSUME ServeInv,
           \/ Open \/ Close
           \/ BindFails /\ UNCHANGED loopVars
           \/ CloseReturns /\ UNCHANGED loopVars
    PROVE  ServeInv'
<1> USE DEF loopVars
<1>1. CASE Open
  <2>1. OwnerSteps
    BY <1>1 DEF Open, ServerOpen, OwnerSteps
  <2>2. OwnerInv' /\ (transport' = 0 /\ owner' # "closing" => woken \subseteq late)
    BY <1>1 DEF Open, ServerOpen, ServeInv, OwnerInv, WaitInv
  <2> QED
    BY <2>1, <2>2, OwnerStepsKeep
<1>2. CASE Close
  <2>1. OwnerSteps
    BY <1>2 DEF Close, ServerClose, OwnerSteps, ServeInv, TypeOK
  <2>2. OwnerInv' /\ (transport' = 0 /\ owner' # "closing" => woken \subseteq late)
    BY <1>2 DEF Close, ServerClose, ServeInv, OwnerInv, WaitInv
  <2> QED
    BY <2>1, <2>2, OwnerStepsKeep
<1>3. CASE BindFails /\ UNCHANGED loopVars
  <2>1. OwnerSteps
    BY <1>3 DEF BindFails, OwnerSteps, ServeInv, TypeOK
  <2>2. OwnerInv' /\ (transport' = 0 /\ owner' # "closing" => woken \subseteq late)
    BY <1>3 DEF BindFails, ServeInv, OwnerInv, WaitInv
  <2> QED
    BY <2>1, <2>2, OwnerStepsKeep
<1>4. CASE CloseReturns /\ UNCHANGED loopVars
  <2>1. OwnerSteps
    BY <1>4 DEF CloseReturns, OwnerSteps, ServeInv, TypeOK
  <2>2. OwnerInv' /\ (transport' = 0 /\ owner' # "closing" => woken \subseteq late)
    BY <1>4 DEF CloseReturns, ServeInv, OwnerInv, WaitInv
  <2> QED
    BY <2>1, <2>2, OwnerStepsKeep
<1> QED
  BY <1>1, <1>2, <1>3, <1>4

\* a transport is made: only the late are woken then, and its queue is empty
LEMMA BoundKeeps ==
    ASSUME ServeInv, Bound, UNCHANGED loopVars
    PROVE  ServeInv'
<1> USE DEF Bound, loopVars
<1>1. /\ NumberTypes /\ QueueTypes /\ WaitTypes /\ TaskTypes
      /\ OwnerTypes /\ ResultTypes /\ ReplyTypes
  BY TypesInParts DEF ServeInv
<1>2. transport = 0 /\ losing = 0 /\ woken \subseteq late
  BY DEF ServeInv, OwnerInv, WaitInv
<1>3. opens \in Nat /\ opens + 1 \in Transports /\ opens + 1 # 0
  BY <1>1, UdpServerAssumption DEF NumberTypes, Transports
<1>4. TypeOK'
  <2>1. NumberTypes'
    BY <1>1, <1>2, <1>3 DEF NumberTypes, Transports
  <2>2. QueueTypes' /\ ResultTypes'
    BY <1>1 DEF QueueTypes, ResultTypes
  <2>3. WaitTypes'
    BY <1>1, <1>3 DEF WaitTypes
  <2>4. TaskTypes' /\ OwnerTypes'
    BY <1>1 DEF TaskTypes, OwnerTypes
  <2>5. ReplyTypes'
    <3>1. received \in Nat
      BY <1>1 DEF NumberTypes
    <3> QED
      BY <1>1, <1>3, <3>1, SetsGrow DEF ReplyTypes
  <2> QED
    BY <2>1, <2>2, <2>3, <2>4, <2>5, TypesInParts
<1>5. OwnerInv'
  BY <1>2 DEF ServeInv, OwnerInv
<1>6. WaitInv'
  <2>1. \A c \in late : waitsOn[c] \in 1 .. opens
    BY <1>1, <1>3 DEF ServeInv, WaitInv, Parked, WaitTypes
  <2>2. \A c \in late : waitsOn[c] \notin {opens + 1, 0}
    BY <1>3, <2>1
  <2> QED
    BY <1>2, <1>3, <2>2 DEF ServeInv, WaitInv, Parked
<1>7. TaskInv'
  BY DEF ServeInv, TaskInv
<1>8. QueueInv'
  <2>1. queue[opens + 1] = <<>>
    BY <1>3 DEF ServeInv, QueueInv, Transports
  <2>2. \A g \in Transports : g > opens + 1 => queue[g] = <<>>
    BY <1>3 DEF ServeInv, QueueInv, Transports
  <2>3. 1 .. Len(queue[opens + 1]) = {}
    BY <2>1
  <2> QED
    BY <2>2, <2>3 DEF QueueInv
<1>9. AnsweredInOrder' /\ ItemInv'
  BY RepliesStay, ItemsStay
<1> QED
  BY <1>4, <1>5, <1>6, <1>7, <1>8, <1>9 DEF ServeInv

\* an item at the end of the newest queue wakes its first getter
LEMMA PutWakes ==
    ASSUME ServeInv, opens # 0, NEW item, Put(opens, item), opens \in {transport, losing},
           losing' \in {0, losing}, UNCHANGED <<transport, opens, late, waitsOn, owner>>
    PROVE  WaitTypes' /\ WaitInv'
<1>1. NumberTypes /\ WaitTypes
  BY TypesInParts DEF ServeInv
<1>2. opens \in Transports /\ opens \in Nat
  BY <1>1 DEF NumberTypes, Transports
<1>3. /\ Parked(getters, woken, waitsOn)
      /\ \A c \in woken \ late : waitsOn[c] = opens
      /\ \A c \in late : waitsOn[c] \notin {0, transport, losing}
      /\ transport = 0 => owner = "closing"
  BY <1>1 DEF ServeInv, WaitInv, Parked, OwnerInv, WaitTypes
<1>4. \A c \in late' : waitsOn'[c] \notin {transport', losing'}
  BY <1>3
<1>5. CASE getters[opens] = <<>>
  <2>1. UNCHANGED <<getters, woken>>
    BY <1>5 DEF Put, WakeNext
  <2> QED
    BY <1>1, <1>3, <1>4, <2>1 DEF WaitTypes, WaitInv, Parked
<1>6. CASE getters[opens] # <<>>
  <2>1. /\ getters' = [getters EXCEPT ![opens] = Tail(@)]
        /\ woken' = woken \union {Head(getters[opens])}
    BY <1>6 DEF Put, WakeNext
  <2>2. getters \in GettersType /\ woken \in SUBSET Consumers /\ waitsOn \in OnType
    BY <1>1, <1>2 DEF WaitTypes, OnType
  <2>3. /\ getters' \in GettersType /\ woken' \in SUBSET Consumers
        /\ Parked(getters', woken', waitsOn)
        /\ waitsOn[Head(getters[opens])] = opens
    <3>1. Parked(getters, woken, waitsOn)
      BY <1>3
    <3> QED
      BY ONLY <1>2, <1>6, <2>1, <2>2, <3>1, WakeOne
  <2>4. WaitTypes'
    BY <1>1, <2>1, <2>3 DEF WaitTypes
  <2>5. \A c \in woken' \ late' : waitsOn'[c] = opens'
    BY <1>3, <2>1, <2>3
  <2>6. Parked(getters, woken, waitsOn)'
    BY <2>3 DEF Parked
  <2> QED
    BY <1>3, <1>4, <2>4, <2>5, <2>6 DEF WaitInv
<1> QED
  BY <1>5, <1>6

\* the sentinel goes into the queue of a responder that is closed
LEMMA ConnectionLostKeeps ==
    ASSUME ServeInv, ConnectionLost, UNCHANGED loopVars
    PROVE  ServeInv'
<1> USE DEF ConnectionLost, loopVars
<1>1. /\ NumberTypes /\ QueueTypes /\ WaitTypes /\ TaskTypes
      /\ OwnerTypes /\ ResultTypes /\ ReplyTypes
  BY TypesInParts DEF ServeInv
<1>2. losing = opens /\ owner = "closing" /\ opens # 0 /\ transport = 0
  BY DEF ServeInv, OwnerInv
<1>3. opens \in Transports /\ opens \in Nat /\ received \in Nat
  BY <1>1, <1>2 DEF NumberTypes, Transports
<1>4. queue' = [queue EXCEPT ![opens] = Append(@, ServerClosed)]
  BY <1>2 DEF Put
<1>5. WaitTypes' /\ WaitInv'
  BY <1>2, PutWakes
<1>6. TypeOK'
  <2>1. NumberTypes'
    BY <1>1, <1>3 DEF NumberTypes
  <2>2. QueueTypes'
    <3>1. ServerClosed \in Items(received)
      BY <1>3 DEF ServerClosed, Items
    <3>2. Append(queue[opens], ServerClosed) \in Seq(Items(received))
      BY <1>1, <1>3, <3>1 DEF QueueTypes
    <3> QED
      BY <1>1, <1>3, <1>4, <3>2 DEF QueueTypes
  <2>3. TaskTypes' /\ OwnerTypes' /\ ResultTypes' /\ ReplyTypes'
    BY <1>1 DEF TaskTypes, OwnerTypes, ResultTypes, ReplyTypes
  <2> QED
    BY <1>5, <2>1, <2>2, <2>3, TypesInParts
<1>7. OwnerInv'
  BY <1>2 DEF ServeInv, OwnerInv
<1>8. ItemInv'
  BY <1>3, <1>4, ItemComes
<1>9. TaskInv'
  BY DEF ServeInv, TaskInv
<1>10. QueueInv'
  <2>1. \A g \in Transports : g > opens => queue'[g] = queue[g]
    BY <1>3, <1>4, <1>1 DEF QueueTypes
  <2> QED
    BY <1>2, <2>1 DEF ServeInv, QueueInv
<1>11. AnsweredInOrder'
  BY RepliesStay
<1> QED
  BY <1>5, <1>6, <1>7, <1>8, <1>9, <1>10, <1>11 DEF ServeInv

\* a datagram is newer than everything queued or answered
LEMMA DatagramKeeps ==
    ASSUME ServeInv, DatagramReceived, UNCHANGED loopVars
    PROVE  ServeInv'
<1> USE DEF DatagramReceived, loopVars
<1>1. /\ NumberTypes /\ QueueTypes /\ WaitTypes /\ TaskTypes
      /\ OwnerTypes /\ ResultTypes /\ ReplyTypes
  BY TypesInParts DEF ServeInv
<1>2. transport = opens /\ owner = "idle" /\ opens # 0
  BY DEF ServeInv, OwnerInv
<1>3. opens \in Transports /\ opens \in Nat /\ received \in Nat
  BY <1>1, <1>2 DEF NumberTypes, Transports
<1>4. PICK item \in {Request(received + 1), Noise(received + 1)} : Put(opens, item)
  BY <1>2
<1>5. item \in Items(received + 1) /\ item.n = received + 1 /\ item.type # "closed"
  BY <1>3, <1>4 DEF Request, Noise, Items
<1> DEFINE old == queue[opens]
           new == Append(old, item)
<1>6. queue' = [queue EXCEPT ![opens] = new]
  BY <1>4 DEF Put
<1>7. WaitTypes' /\ WaitInv'
  BY <1>2, <1>4, PutWakes
<1>8. old \in Seq(Items(received)) /\ Seq(Items(received)) \subseteq Seq(Items(received + 1))
  BY <1>1, <1>3, SetsGrow DEF QueueTypes
<1>9. /\ new \in Seq(Items(received + 1)) /\ Len(new) = Len(old) + 1 /\ Len(old) \in Nat
      /\ new[Len(old) + 1] = item /\ \A i \in 1 .. Len(old) : new[i] = old[i]
  BY <1>5, <1>8, AppendProperties
<1>10. \A i \in 1 .. Len(old) : old[i].n \in 0 .. received
  <2>1. \A i \in 1 .. Len(old) : old[i] \in Items(received)
    BY <1>8
  <2> QED
    BY <2>1 DEF Items
<1>11. TypeOK'
  <2>1. NumberTypes'
    BY <1>1, <1>3 DEF NumberTypes
  <2>2. QueueTypes'
    <3>1. \A g \in Transports : queue[g] \in Seq(Items(received + 1))
      BY <1>1, <1>8 DEF QueueTypes
    <3> HIDE DEF new
    <3> QED
      BY <1>1, <1>3, <1>6, <1>9, <3>1 DEF QueueTypes
  <2>3. TaskTypes' /\ OwnerTypes' /\ ResultTypes'
    BY <1>1 DEF TaskTypes, OwnerTypes, ResultTypes
  <2>4. ReplyTypes'
    BY <1>1, <1>3, SetsGrow DEF ReplyTypes
  <2> QED
    BY <1>7, <2>1, <2>2, <2>3, <2>4, TypesInParts
<1>12. OwnerInv'
  BY <1>2 DEF ServeInv, OwnerInv
<1>13. ItemInv'
  BY <1>3, <1>5, <1>6, ItemComes
<1>14. TaskInv'
  BY DEF ServeInv, TaskInv
<1>15. QueueInv'
  <2>1. \A g \in Transports : g > opens => queue'[g] = <<>>
    BY <1>1, <1>3, <1>6 DEF ServeInv, QueueInv, QueueTypes
  <2>2. queue'[transport'] = new
    BY <1>1, <1>2, <1>3, <1>6 DEF QueueTypes
  <2> HIDE DEF new
  <2>3. /\ \A i \in 1 .. Len(old) : old[i].type # "closed" /\ old[i].n > 0
        /\ \A i, j \in 1 .. Len(old) : i < j => old[i].n < old[j].n
        /\ \A i \in 1 .. Len(replies), j \in 1 .. Len(old) : replies[i].to < old[j].n
    BY <1>2 DEF ServeInv, QueueInv
  <2>4. \A i \in 1 .. Len(new) : new[i].type # "closed" /\ new[i].n > 0
    BY <1>3, <1>5, <1>9, <2>3
  <2>5. ASSUME NEW i \in 1 .. Len(new), NEW j \in 1 .. Len(new), i < j
        PROVE  new[i].n < new[j].n
    <3>1. i \in 1 .. Len(old) /\ new[i] = old[i]
      BY <1>9, <2>5
    <3>2. CASE j \in 1 .. Len(old)
      BY <1>9, <2>3, <2>5, <3>1, <3>2
    <3>3. CASE j = Len(old) + 1
      BY <1>3, <1>5, <1>9, <1>10, <3>1, <3>3
    <3> QED
      BY <1>9, <3>2, <3>3
  <2>6. \A i \in 1 .. Len(replies) : replies[i].to \in 1 .. received
    <3>1. \A i \in 1 .. Len(replies) : replies[i] \in Replies(received, opens)
      BY <1>1 DEF ReplyTypes
    <3> QED
      BY <3>1 DEF Replies
  <2>7. ASSUME NEW i \in 1 .. Len(replies), NEW j \in 1 .. Len(new)
        PROVE  replies[i].to < new[j].n
    <3>1. CASE j \in 1 .. Len(old)
      BY <1>9, <2>3, <3>1
    <3>2. CASE j = Len(old) + 1
      BY <1>3, <1>5, <1>9, <2>6, <3>2
    <3> QED
      BY <1>9, <3>1, <3>2
  <2>8. ASSUME NEW g \in Transports \ {opens}, NEW i \in 1 .. Len(queue'[g]),
               NEW j \in 1 .. Len(new)
        PROVE  queue'[g][i].n < new[j].n
    <3>1. queue'[g] = queue[g]
      BY <1>1, <1>3, <1>6 DEF QueueTypes
    <3>2. queue[g][i].n \in 0 .. received
      BY <3>1, Numbers
    <3>3. CASE j \in 1 .. Len(old)
      BY <1>2, <1>9, <3>1, <3>3 DEF ServeInv, QueueInv
    <3>4. CASE j = Len(old) + 1
      BY <1>3, <1>5, <1>9, <3>1, <3>2, <3>4
    <3> QED
      BY <1>9, <3>3, <3>4
  <2>9. transport' = opens
    BY <1>2
  <2> QED
    BY <2>1, <2>2, <2>4, <2>5, <2>7, <2>8, <2>9 DEF QueueInv
<1>16. AnsweredInOrder'
  BY RepliesStay
<1> QED
  BY <1>7, <1>11, <1>12, <1>13, <1>14, <1>15, <1>16 DEF ServeInv

------------------------------------------------------------------------------
(* The steps of a serving task.                                             *)

LEMMA ServeKeeps ==
    ASSUME ServeInv, NEW c \in Consumers, NEW n \in 0 .. MaxCount, Serve(c, n)
    PROVE  ServeInv'
<1> USE DEF Serve
<1>1. /\ NumberTypes /\ QueueTypes /\ WaitTypes /\ TaskTypes
      /\ OwnerTypes /\ ResultTypes /\ ReplyTypes
  BY TypesInParts DEF ServeInv
<1>2. TypeOK'
  <2>1. NumberTypes' /\ QueueTypes' /\ WaitTypes' /\ OwnerTypes' /\ ReplyTypes'
    BY <1>1 DEF NumberTypes, QueueTypes, WaitTypes, OwnerTypes, ReplyTypes
  <2>2. TaskTypes' /\ ResultTypes'
    BY <1>1 DEF TaskTypes, ResultTypes
  <2> QED
    BY <2>1, <2>2, TypesInParts
<1>3. OwnerInv' /\ QueueInv'
  BY DEF ServeInv, OwnerInv, QueueInv
<1>4. WaitInv'
  BY DEF ServeInv, WaitInv, Parked
<1>5. TaskInv'
  BY DEF ServeInv, TaskInv
<1>6. ItemInv'
  BY ItemsStay
<1>7. AnsweredInOrder'
  BY RepliesStay
<1> QED
  BY <1>2, <1>3, <1>4, <1>5, <1>6, <1>7 DEF ServeInv

\* c may look at queue g: it runs or has been woken, and unless it is late g is
\* the queue of the open transport or of a responder that has just been closed
Ready(c, g) ==
    /\ c \in serving /\ running \in {c, NoTask}
    /\ c \in woken \/ waitsOn[c] = 0
    /\ g \in Transports /\ g <= opens
    /\ c \notin late => transport = g \/ (transport = 0 /\ closed)

\* every queue a task looks at, unless it is late, is the newest one
LEMMA LooksAtNewest ==
    ASSUME ServeInv, NEW c \in Consumers
    PROVE  /\ running = c /\ transport # 0 => Ready(c, transport)
           /\ running = NoTask /\ c \in woken => Ready(c, waitsOn[c])
<1>1. NumberTypes /\ WaitTypes
  BY TypesInParts DEF ServeInv
<1>2. opens \in Nat /\ 1 .. opens \subseteq Transports
  BY <1>1, UdpServerAssumption DEF NumberTypes, Transports
<1>3. ASSUME running = c, transport # 0 PROVE Ready(c, transport)
  <2>1. transport = opens
    BY <1>3 DEF ServeInv, OwnerInv
  <2>2. c \in serving /\ waitsOn[c] = 0
    BY <1>3, UdpServerAssumption DEF ServeInv, TaskInv
  <2> QED
    BY <1>2, <1>3, <2>1, <2>2 DEF Ready
<1>4. ASSUME running = NoTask, c \in woken PROVE Ready(c, waitsOn[c])
  <2>1. waitsOn[c] \in 1 .. opens
    BY <1>1, <1>2, <1>4 DEF ServeInv, WaitInv, Parked, WaitTypes
  <2>2. c \in serving
    BY <1>2, <2>1 DEF ServeInv, TaskInv
  <2>3. c \notin late => transport = waitsOn[c] \/ (transport = 0 /\ closed)
    BY <1>4 DEF ServeInv, WaitInv, OwnerInv
  <2> QED
    BY <1>2, <1>4, <2>1, <2>2, <2>3 DEF Ready
<1> QED
  BY <1>3, <1>4

\* c takes the first item: what is left came in after it
LEMMA TakeKeeps ==
    ASSUME ServeInv, NEW c \in Consumers, NEW g, Ready(c, g),
           NEW more \in BOOLEAN, Take(c, g, more), UNCHANGED closed
    PROVE  /\ NumberTypes' /\ QueueTypes' /\ WaitTypes' /\ OwnerTypes'
           /\ running' \in {c, NoTask} /\ OwnerInv' /\ WaitInv'
           /\ waitsOn' = [waitsOn EXCEPT ![c] = 0]
           /\ \A f \in Transports : f > opens => queue'[f] = <<>>
           /\ \A f \in Transports : f # g => queue'[f] = queue[f]
           /\ Head(queue[g]) \in Items(received)
           /\ transport = g =>
                /\ Head(queue[g]).type # "closed" /\ Head(queue[g]).n > 0
                /\ \A i \in 1 .. Len(replies) : replies[i].to < Head(queue[g]).n
                /\ \A i \in 1 .. Len(queue'[g]) :
                     queue'[g][i].type # "closed" /\ queue'[g][i].n > 0
                /\ \A i, j \in 1 .. Len(queue'[g]) :
                     i < j => queue'[g][i].n < queue'[g][j].n
                /\ \A j \in 1 .. Len(queue'[g]) : Head(queue[g]).n < queue'[g][j].n
                /\ \A i \in 1 .. Len(replies), j \in 1 .. Len(queue'[g]) :
                     replies[i].to < queue'[g][j].n
<1> DEFINE old == queue[g]
           new == Tail(old)
<1>1. /\ NumberTypes /\ QueueTypes /\ WaitTypes /\ OwnerTypes
  BY TypesInParts DEF ServeInv
<1>2. g <= opens /\ g \in Transports /\ opens \in Nat
  BY <1>1 DEF Ready, NumberTypes
<1>3. /\ old # <<>> /\ queue' = [queue EXCEPT ![g] = new]
      /\ woken' = woken \ {c} /\ late' = late \ {c} /\ waitsOn' = [waitsOn EXCEPT ![c] = 0]
      /\ running' \in {c, NoTask}
      /\ UNCHANGED <<transport, opens, getters, owner, losing, received>>
  BY DEF Take
<1>4. /\ old \in Seq(Items(received)) /\ new \in Seq(Items(received))
      /\ Head(old) = old[1] /\ 1 \in 1 .. Len(old) /\ Len(old) \in Nat
      /\ Len(new) = Len(old) - 1 /\ \A i \in 1 .. Len(new) : new[i] = old[i + 1]
      /\ Head(old) \in Items(received)
  BY <1>1, <1>2, <1>3, HeadTailProperties DEF QueueTypes
<1>5. \A f \in Transports : queue'[f] = IF f = g THEN new ELSE queue[f]
  BY <1>1, <1>3 DEF QueueTypes
<1> HIDE DEF new, old
<1>6. QueueTypes'
  BY <1>1, <1>3, <1>4 DEF QueueTypes
<1>7. NumberTypes' /\ OwnerTypes'
  BY <1>1, <1>3 DEF NumberTypes, OwnerTypes
<1>8. WaitTypes'
  BY <1>1, <1>3 DEF WaitTypes, NumberTypes
<1>9. OwnerInv'
  BY <1>3 DEF ServeInv, OwnerInv
<1>10. WaitInv'
  <2>1. getters \in GettersType /\ woken \in SUBSET Consumers /\ waitsOn \in OnType
    BY <1>1, <1>2 DEF WaitTypes, OnType
  <2>2. Parked(getters, woken \ {c}, [waitsOn EXCEPT ![c] = 0])
    BY <2>1, Unpark DEF ServeInv, WaitInv, Ready
  <2>3. Parked(getters, woken, waitsOn)'
    BY <1>3, <2>2 DEF Parked
  <2>4. \A d \in Consumers \ {c} : waitsOn'[d] = waitsOn[d]
    BY <1>3, <2>1 DEF OnType
  <2>5. late \subseteq woken
    BY <1>1 DEF WaitTypes
  <2> QED
    BY <1>3, <2>1, <2>3, <2>4, <2>5 DEF ServeInv, WaitInv
<1>11. \A f \in Transports : f > opens => queue'[f] = <<>>
  BY <1>2, <1>5, UdpServerAssumption DEF ServeInv, QueueInv, Transports
<1>12. ASSUME transport = g
       PROVE  /\ old[1].type # "closed" /\ old[1].n > 0
              /\ \A i \in 1 .. Len(replies) : replies[i].to < old[1].n
              /\ \A i \in 1 .. Len(new) : new[i].type # "closed" /\ new[i].n > 0
              /\ \A i, j \in 1 .. Len(new) : i < j => new[i].n < new[j].n
              /\ \A j \in 1 .. Len(new) : old[1].n < new[j].n
              /\ \A i \in 1 .. Len(replies), j \in 1 .. Len(new) : replies[i].to < new[j].n
  <2>1. transport # 0
    BY <1>2, <1>12 DEF Transports
  <2>2. /\ \A i \in 1 .. Len(old) : old[i].type # "closed" /\ old[i].n > 0
        /\ \A i, j \in 1 .. Len(old) : i < j => old[i].n < old[j].n
        /\ \A i \in 1 .. Len(replies), j \in 1 .. Len(old) : replies[i].to < old[j].n
    BY <1>12, <2>1 DEF ServeInv, QueueInv, old
  <2>3. \A j \in 1 .. Len(new) : j + 1 \in 1 .. Len(old) /\ 1 < j + 1
    BY <1>4
  <2>4. ASSUME NEW i \in 1 .. Len(new), NEW j \in 1 .. Len(new), i < j
        PROVE  new[i].n < new[j].n
    <3>1. i + 1 < j + 1 /\ i + 1 \in 1 .. Len(old) /\ j + 1 \in 1 .. Len(old)
      BY <2>3, <2>4
    <3> QED
      BY <1>4, <2>2, <3>1
  <2>5. old[1].type # "closed" /\ old[1].n > 0
    BY <1>4, <2>2
  <2>6. \A i \in 1 .. Len(replies) : replies[i].to < old[1].n
    BY <1>4, <2>2
  <2>7. \A i \in 1 .. Len(new) : new[i].type # "closed" /\ new[i].n > 0
    BY <1>4, <2>2, <2>3
  <2>8. \A j \in 1 .. Len(new) : old[1].n < new[j].n
    BY <1>4, <2>2, <2>3
  <2>9. \A i \in 1 .. Len(replies), j \in 1 .. Len(new) : replies[i].to < new[j].n
    BY <1>4, <2>2, <2>3
  <2> QED
    BY <2>4, <2>5, <2>6, <2>7, <2>8, <2>9
<1>13. queue'[g] = new /\ \A f \in Transports : f # g => queue'[f] = queue[f]
  BY <1>2, <1>5
<1> QED
  BY <1>3, <1>4, <1>6, <1>7, <1>8, <1>9, <1>10, <1>11, <1>12, <1>13 DEF old

\* what is left in the queues stays in order
LEMMA RestInOrder ==
    ASSUME ServeInv, NEW c \in Consumers, NEW g, Ready(c, g),
           NEW more \in BOOLEAN, Take(c, g, more), UNCHANGED closed
    PROVE  /\ UNCHANGED replies => QueueInv'
           /\ \A f \in Transports : f > opens => queue'[f] = <<>>
           /\ transport # 0 =>
                /\ \A i \in 1 .. Len(queue'[transport]) :
                     queue'[transport][i].type # "closed" /\ queue'[transport][i].n > 0
                /\ \A i, j \in 1 .. Len(queue'[transport]) :
                     i < j => queue'[transport][i].n < queue'[transport][j].n
                /\ \A i \in 1 .. Len(replies), j \in 1 .. Len(queue'[transport]) :
                     replies[i].to < queue'[transport][j].n
                /\ \A f \in Transports \ {transport} :
                     \A i \in 1 .. Len(queue'[f]), j \in 1 .. Len(queue'[transport]) :
                       queue'[f][i].n < queue'[transport][j].n
<1> DEFINE At(f, i) == IF f = g THEN i + 1 ELSE i
<1>1. /\ g \in Transports /\ queue[g] # <<>> /\ queue' = [queue EXCEPT ![g] = Tail(@)]
      /\ UNCHANGED <<transport, opens>>
  BY DEF Take, Ready
<1>2. \A f \in Transports : queue'[f] = IF f = g THEN Tail(queue[g]) ELSE queue[f]
  BY <1>1, TypesInParts DEF ServeInv, QueueTypes
<1>3. /\ Len(queue[g]) \in Nat /\ Len(Tail(queue[g])) = Len(queue[g]) - 1
      /\ \A i \in 1 .. Len(Tail(queue[g])) : Tail(queue[g])[i] = queue[g][i + 1]
      /\ \A f \in Transports : Len(queue[f]) \in Nat
  BY <1>1, Numbers, HeadTailProperties
<1>4. ASSUME NEW f \in Transports, NEW i \in 1 .. Len(queue'[f])
      PROVE  At(f, i) \in 1 .. Len(queue[f]) /\ queue'[f][i] = queue[f][At(f, i)]
  <2>1. CASE f = g
    <3>1. i \in 1 .. Len(Tail(queue[g])) /\ queue'[f][i] = Tail(queue[g])[i]
      BY <1>2, <2>1
    <3> QED
      BY ONLY <1>3, <2>1, <3>1
  <2>2. CASE f # g
    BY <1>2, <2>2
  <2> QED
    BY <2>1, <2>2
<1>5. \A f \in Transports : f > opens => queue'[f] = <<>>
  BY TakeKeeps
<1> HIDE DEF At
<1>6. ASSUME transport # 0
      PROVE  /\ \A i \in 1 .. Len(queue'[transport]) :
                  queue'[transport][i].type # "closed" /\ queue'[transport][i].n > 0
             /\ \A i, j \in 1 .. Len(queue'[transport]) :
                  i < j => queue'[transport][i].n < queue'[transport][j].n
             /\ \A i \in 1 .. Len(replies), j \in 1 .. Len(queue'[transport]) :
                  replies[i].to < queue'[transport][j].n
             /\ \A f \in Transports \ {transport} :
                  \A i \in 1 .. Len(queue'[f]), j \in 1 .. Len(queue'[transport]) :
                    queue'[f][i].n < queue'[transport][j].n
  <2>1. transport \in Transports
    BY <1>6, UdpServerAssumption, TypesInParts DEF ServeInv, NumberTypes, Transports
  <2>2. ASSUME NEW i \in 1 .. Len(queue'[transport]), NEW j \in 1 .. Len(queue'[transport]),
               i < j
        PROVE  queue'[transport][i].n < queue'[transport][j].n
    <3>1. At(transport, i) < At(transport, j)
      BY <2>2 DEF At
    <3> QED
      BY <1>4, <1>6, <2>1, <3>1 DEF ServeInv, QueueInv
  <2>3. \A f \in Transports \ {transport} :
          \A i \in 1 .. Len(queue'[f]), j \in 1 .. Len(queue'[transport]) :
            queue'[f][i].n < queue'[transport][j].n
    BY <1>4, <1>6, <2>1 DEF ServeInv, QueueInv
  <2> QED
    BY <1>4, <1>6, <2>1, <2>2, <2>3 DEF ServeInv, QueueInv
<1>7. UNCHANGED replies => QueueInv'
  BY <1>1, <1>5, <1>6 DEF QueueInv
<1> QED
  BY <1>5, <1>6, <1>7

\* a task that takes an item and answers nothing goes on, or ends serve()
Ends(c, how) ==
    \/ running' = c /\ UNCHANGED <<serving, result>>
    \/ running' = NoTask /\ Return(c, how)

\* a task that stays inside serve() runs on, one that leaves waits for nothing
LEMMA EndsKeep ==
    ASSUME ServeInv, NEW c \in Consumers, c \in serving,
           NEW how \in {"none", "done", "stopped", "lost", "unsent", "refused", "cancelled"},
           Ends(c, how),
           waitsOn' = [waitsOn EXCEPT ![c] = 0]
    PROVE  TaskTypes' /\ ResultTypes' /\ TaskInv'
<1>1. WaitTypes /\ TaskTypes /\ ResultTypes
  BY TypesInParts DEF ServeInv
<1>2. waitsOn'[c] = 0 /\ \A d \in Consumers : d # c => waitsOn'[d] = waitsOn[d]
  BY <1>1 DEF WaitTypes
<1>3. TaskTypes' /\ ResultTypes'
  BY <1>1 DEF TaskTypes, ResultTypes, Ends, Return
<1>4. TaskInv'
  BY <1>2 DEF ServeInv, TaskInv, Ends, Return
<1> QED
  BY <1>3, <1>4

\* c takes an item it does not answer
LEMMA DropKeeps ==
    ASSUME ServeInv, NEW c \in Consumers, NEW g, Ready(c, g),
           NEW more \in BOOLEAN, Take(c, g, more), UNCHANGED <<closed, replies>>,
           NEW how \in {"none", "done", "stopped", "lost", "unsent", "refused", "cancelled"},
           Ends(c, how)
    PROVE  ServeInv'
<1>1. ReplyTypes
  BY TypesInParts DEF ServeInv
<1>2. /\ c \in serving /\ waitsOn' = [waitsOn EXCEPT ![c] = 0] /\ g \in Transports
      /\ queue[g] # <<>> /\ queue' = [queue EXCEPT ![g] = Tail(@)]
      /\ UNCHANGED <<transport, opens, received>>
  BY DEF Take, Ready
<1>3. TaskTypes' /\ ResultTypes' /\ TaskInv'
  BY <1>2, EndsKeep
<1>4. NumberTypes' /\ QueueTypes' /\ WaitTypes' /\ OwnerTypes' /\ OwnerInv' /\ WaitInv'
  BY TakeKeeps
<1>5. ReplyTypes'
  BY <1>1, <1>2 DEF ReplyTypes
<1>6. TypeOK'
  BY <1>3, <1>4, <1>5, TypesInParts
<1>7. QueueInv'
  BY <1>2, RestInOrder
<1>8. ItemInv' /\ AnsweredInOrder'
  BY <1>2, ItemGoes, RepliesStay
<1> QED
  BY <1>3, <1>4, <1>6, <1>7, <1>8 DEF ServeInv

\* c takes a request and answers it, through the transport it came in on
\* unless c is late
LEMMA AnswerKeeps ==
    ASSUME ServeInv, NEW c \in Consumers, NEW g, Ready(c, g),
           NEW more \in BOOLEAN, Take(c, g, more), Reply(c, Head(queue[g]).n, g),
           Head(queue[g]).type = "request", Ends(c, "done")
    PROVE  ServeInv'
<1> DEFINE n == Head(queue[g]).n
           r == [to |-> n, from |-> g, via |-> transport, by |-> c]
           new == Append(replies, r)
<1>1. ReplyTypes /\ NumberTypes
  BY TypesInParts DEF ServeInv
<1>2. /\ c \in serving /\ waitsOn' = [waitsOn EXCEPT ![c] = 0]
      /\ g \in Transports /\ g <= opens
      /\ queue[g] # <<>> /\ queue' = [queue EXCEPT ![g] = Tail(@)]
      /\ UNCHANGED <<transport, opens, received, closed>>
  BY DEF Take, Ready, Reply
<1>3. transport # 0 /\ replies' = new
  BY DEF Reply
<1>4. TaskTypes' /\ ResultTypes' /\ TaskInv'
  BY <1>2, EndsKeep
<1>5. NumberTypes' /\ QueueTypes' /\ WaitTypes' /\ OwnerTypes' /\ OwnerInv' /\ WaitInv'
  BY <1>2, TakeKeeps
<1>6. g \in 1 .. opens /\ transport \in 1 .. opens
  BY <1>1, <1>2, <1>3 DEF ServeInv, NumberTypes, Transports
<1>7. n \in 1 .. received
  <2>1. n \in 0 .. received /\ n > 0
    BY <1>2, ItemGoes
  <2> QED
    BY <1>1, <2>1 DEF NumberTypes
<1>8. /\ \A h \in Transports : \A i \in 1 .. Len(queue'[h]) :
           queue'[h][i].type # "closed" => queue'[h][i].n > 0
      /\ \A h, k \in Transports :
           \A i \in 1 .. Len(queue'[h]), j \in 1 .. Len(queue'[k]) :
             queue'[h][i].n = queue'[k][j].n /\ queue'[h][i].n > 0 => h = k /\ i = j
      /\ \A h \in Transports : \A i \in 1 .. Len(replies), j \in 1 .. Len(queue'[h]) :
           replies[i].to # queue'[h][j].n
      /\ \A h \in Transports : \A j \in 1 .. Len(queue'[h]) : n # queue'[h][j].n
      /\ \A i \in 1 .. Len(replies) : replies[i].to # n
  BY <1>2, <1>7, ItemGoes
<1>9. /\ g = transport => \A i \in 1 .. Len(replies) : replies[i].to < n
      /\ \A j \in 1 .. Len(queue'[transport]) : n < queue'[transport][j].n
  <2>1. CASE g = transport
    BY <1>2, <2>1, TakeKeeps
  <2>2. CASE g # transport
    <3>1. queue'[transport] = queue[transport]
      BY <1>2, <2>2
    <3>2. 1 \in 1 .. Len(queue[g]) /\ n = queue[g][1].n
      BY <1>2, Numbers, HeadTailProperties
    <3> QED
      BY <1>2, <1>3, <2>2, <3>1, <3>2 DEF ServeInv, QueueInv
  <2> QED
    BY <2>1, <2>2
<1>10. r \in Replies(received, opens)
  BY <1>6, <1>7 DEF Replies
<1>11. r.to = n /\ (r.via = r.from => g = transport)
  OBVIOUS
<1> HIDE DEF n, r
<1>12. /\ new \in Seq(Replies(received, opens)) /\ Len(new) = Len(replies) + 1
       /\ Len(replies) \in Nat
       /\ new[Len(replies) + 1] = r /\ \A i \in 1 .. Len(replies) : new[i] = replies[i]
  BY <1>1, <1>10, AppendProperties DEF ReplyTypes
<1>13. DOMAIN new = 1 .. Len(new) /\ DOMAIN replies = 1 .. Len(replies)
  BY <1>1, <1>12 DEF ReplyTypes
<1> HIDE DEF new
<1>14. TypeOK'
  <2>1. ReplyTypes'
    BY <1>2, <1>3, <1>12 DEF ReplyTypes
  <2> QED
    BY <1>4, <1>5, <2>1, TypesInParts
<1>15. QueueInv'
  <2>1. /\ \A f \in Transports : f > opens => queue'[f] = <<>>
        /\ \A i \in 1 .. Len(queue'[transport]) :
             queue'[transport][i].type # "closed" /\ queue'[transport][i].n > 0
        /\ \A i, j \in 1 .. Len(queue'[transport]) :
             i < j => queue'[transport][i].n < queue'[transport][j].n
        /\ \A i \in 1 .. Len(replies), j \in 1 .. Len(queue'[transport]) :
             replies[i].to < queue'[transport][j].n
        /\ \A f \in Transports \ {transport} :
             \A i \in 1 .. Len(queue'[f]), j \in 1 .. Len(queue'[transport]) :
               queue'[f][i].n < queue'[transport][j].n
    BY <1>2, <1>3, RestInOrder
  <2>2. ASSUME NEW i \in 1 .. Len(new), NEW j \in 1 .. Len(queue'[transport])
        PROVE  new[i].to < queue'[transport][j].n
    <3>1. CASE i \in 1 .. Len(replies)
      BY <1>12, <2>1, <3>1
    <3>2. CASE i = Len(replies) + 1
      BY <1>9, <1>11, <1>12, <3>2
    <3> QED
      BY <1>12, <3>1, <3>2
  <2> QED
    BY <1>2, <1>3, <2>1, <2>2 DEF QueueInv
<1>16. ItemInv'
  <2>1. ASSUME NEW h \in Transports, NEW i \in 1 .. Len(new), NEW j \in 1 .. Len(queue'[h])
        PROVE  new[i].to # queue'[h][j].n
    <3>1. CASE i \in 1 .. Len(replies)
      BY <1>8, <1>12, <3>1
    <3>2. CASE i = Len(replies) + 1
      BY <1>8, <1>11, <1>12, <3>2
    <3> QED
      BY <1>12, <3>1, <3>2
  <2> QED
    BY <1>3, <1>8, <2>1 DEF ItemInv
<1>17. AnsweredInOrder'
  <2>1. ASSUME NEW i \in 1 .. Len(new), NEW j \in 1 .. Len(new), i < j
        PROVE  /\ new[i].to # new[j].to
               /\ new[j].via = new[j].from => new[i].to < new[j].to
    <3>1. i \in 1 .. Len(replies) /\ new[i] = replies[i]
      BY <1>12, <2>1
    <3>2. CASE j \in 1 .. Len(replies)
      BY <1>12, <1>13, <2>1, <3>1, <3>2 DEF ServeInv, AnsweredInOrder
    <3>3. CASE j = Len(replies) + 1
      BY <1>8, <1>9, <1>11, <1>12, <3>1, <3>3
    <3> QED
      BY <1>12, <3>2, <3>3
  <2> QED
    BY <1>3, <1>13, <2>1 DEF AnsweredInOrder
<1> QED
  BY <1>4, <1>5, <1>14, <1>15, <1>16, <1>17 DEF ServeInv

\* c handles the first item of a queue
LEMMA HandleKeeps ==
    ASSUME ServeInv, NEW c \in Consumers, NEW g, Ready(c, g), Handle(c, g)
    PROVE  ServeInv'
<1> DEFINE item == Head(queue[g])
<1>1. CASE /\ item.type = "noise" /\ Take(c, g, TRUE) /\ UNCHANGED loopVars
  <2>1. Ends(c, "none") /\ UNCHANGED <<closed, replies>>
    BY <1>1 DEF Take, Ends, loopVars
  <2> QED
    BY <1>1, <2>1, DropKeeps
<1>2. CASE /\ item.type = "closed" /\ Take(c, g, FALSE) /\ TransportError(c, "lost")
  <2>1. UNCHANGED <<closed, replies>>
    BY <1>2 DEF TransportError
  <2>2. Ends(c, "stopped") \/ Ends(c, "lost")
    BY <1>2 DEF Take, Ends, TransportError
  <2> QED
    BY <1>2, <2>1, <2>2, DropKeeps
<1>3. CASE /\ item.type = "request" /\ Take(c, g, TRUE)
           /\ Reply(c, item.n, g) /\ UNCHANGED <<serving, result>>
  <2>1. Ends(c, "done")
    BY <1>3 DEF Take, Ends
  <2> QED
    BY <1>3, <2>1, AnswerKeeps
<1>4. CASE /\ item.type = "request" /\ Take(c, g, FALSE)
           /\ Reply(c, item.n, g) /\ Return(c, "done")
  <2>1. Ends(c, "done")
    BY <1>4 DEF Take, Ends
  <2> QED
    BY <1>4, <2>1, AnswerKeeps
<1>5. CASE /\ item.type = "request" /\ Take(c, g, FALSE) /\ TransportError(c, "unsent")
  <2>1. UNCHANGED <<closed, replies>>
    BY <1>5 DEF TransportError
  <2>2. Ends(c, "stopped") \/ Ends(c, "unsent")
    BY <1>5 DEF Take, Ends, TransportError
  <2> QED
    BY <1>5, <2>1, <2>2, DropKeeps
<1> QED
  BY <1>1, <1>2, <1>3, <1>4, <1>5 DEF Handle

\* c finds the queue empty and joins its getters
LEMMA SuspendKeeps ==
    ASSUME ServeInv, NEW c \in Consumers, NEW g, Ready(c, g), Suspend(c, g),
           UNCHANGED loopVars
    PROVE  ServeInv'
<1> USE DEF Suspend, loopVars
<1>1. /\ NumberTypes /\ QueueTypes /\ WaitTypes /\ TaskTypes
      /\ OwnerTypes /\ ResultTypes /\ ReplyTypes
  BY TypesInParts DEF ServeInv
<1>2. g \in Transports /\ g \in 0 .. opens /\ opens \in Nat /\ c \in serving
  BY <1>1 DEF Ready, NumberTypes, Transports
<1>3. getters \in GettersType /\ woken \in SUBSET Consumers /\ waitsOn \in OnType
  BY <1>1, <1>2 DEF WaitTypes, OnType
<1>4. getters' \in GettersType /\ Parked(getters', woken', waitsOn')
  BY <1>2, <1>3, Park DEF ServeInv, WaitInv, Ready
<1>5. WaitTypes'
  BY <1>1, <1>2, <1>4 DEF WaitTypes
<1>6. TypeOK'
  <2>1. NumberTypes' /\ QueueTypes' /\ OwnerTypes' /\ ResultTypes' /\ ReplyTypes'
    BY <1>1 DEF NumberTypes, QueueTypes, OwnerTypes, ResultTypes, ReplyTypes
  <2>2. TaskTypes'
    BY <1>1 DEF TaskTypes
  <2> QED
    BY <1>5, <2>1, <2>2, TypesInParts
<1>7. OwnerInv' /\ QueueInv' /\ ItemInv'
  BY ItemsStay DEF ServeInv, OwnerInv, QueueInv
<1>8. WaitInv'
  <2>1. \A d \in Consumers \ {c} : waitsOn'[d] = waitsOn[d]
    BY <1>1 DEF WaitTypes
  <2>2. Parked(getters, woken, waitsOn)'
    BY <1>4 DEF Parked
  <2>3. late \subseteq woken
    BY <1>1 DEF WaitTypes
  <2> QED
    BY <1>3, <2>1, <2>2, <2>3 DEF ServeInv, WaitInv
<1>9. TaskInv'
  BY <1>1, <1>2 DEF ServeInv, TaskInv, WaitTypes
<1>10. AnsweredInOrder'
  BY RepliesStay
<1> QED
  BY <1>6, <1>7, <1>8, <1>9, <1>10 DEF ServeInv

\* receive() on a server that is not open
LEMMA RefusedKeeps ==
    ASSUME ServeInv, NEW c \in Consumers, running = c, running' = NoTask,
           TransportError(c, "refused"),
           UNCHANGED <<transport, opens, queue, getters, woken, late, waitsOn, owner,
                      losing, received>>
    PROVE  ServeInv'
<1>1. /\ NumberTypes /\ QueueTypes /\ WaitTypes /\ TaskTypes
      /\ OwnerTypes /\ ResultTypes /\ ReplyTypes
  BY TypesInParts DEF ServeInv
<1>2. c \in serving /\ waitsOn[c] = 0
  BY UdpServerAssumption DEF ServeInv, TaskInv
<1>3. waitsOn' = [waitsOn EXCEPT ![c] = 0]
  BY <1>1, <1>2 DEF WaitTypes
<1>4. UNCHANGED <<closed, replies>> /\ (Ends(c, "stopped") \/ Ends(c, "refused"))
  BY DEF TransportError, Ends
<1>5. TaskTypes' /\ ResultTypes' /\ TaskInv'
  BY <1>2, <1>3, <1>4, EndsKeep
<1>6. TypeOK'
  <2>1. NumberTypes' /\ QueueTypes' /\ WaitTypes' /\ OwnerTypes' /\ ReplyTypes'
    BY <1>1, <1>4 DEF NumberTypes, QueueTypes, WaitTypes, OwnerTypes, ReplyTypes
  <2> QED
    BY <1>5, <2>1, TypesInParts
<1>7. OwnerInv' /\ QueueInv' /\ ItemInv'
  BY <1>4, ItemsStay DEF ServeInv, OwnerInv, QueueInv
<1>8. WaitInv'
  BY DEF ServeInv, WaitInv, Parked
<1>9. AnsweredInOrder'
  BY <1>4, RepliesStay
<1> QED
  BY <1>5, <1>6, <1>7, <1>8, <1>9 DEF ServeInv

\* a woken task that is cancelled passes its item to the next getter
LEMMA CancelKeeps ==
    ASSUME ServeInv, NEW c \in Consumers, Cancel(c)
    PROVE  ServeInv'
<1> DEFINE g == waitsOn[c]
           on == [waitsOn EXCEPT ![c] = 0]
<1>1. /\ NumberTypes /\ QueueTypes /\ WaitTypes /\ TaskTypes
      /\ OwnerTypes /\ ResultTypes /\ ReplyTypes
  BY TypesInParts DEF ServeInv
<1>2. /\ waitsOn[c] # 0 /\ waitsOn' = [waitsOn EXCEPT ![c] = 0]
      /\ running = NoTask /\ UNCHANGED <<transport, opens, queue, running, owner, losing, received>>
      /\ UNCHANGED <<closed, replies>> /\ Return(c, "cancelled")
  BY DEF Cancel, CancelGet
<1>3. getters \in GettersType /\ woken \in SUBSET Consumers /\ waitsOn \in OnType
      /\ waitsOn[c] \in Transports
  <2>1. opens \in 0 .. MaxOpens
    BY <1>1 DEF NumberTypes
  <2>2. waitsOn[c] \in 1 .. opens
    BY <1>1, <1>2, <2>1 DEF WaitTypes
  <2>3. waitsOn[c] \in Transports
    BY <2>1, <2>2, UdpServerAssumption DEF Transports
  <2>4. waitsOn \in OnType
    BY <1>1, <2>1 DEF WaitTypes, OnType
  <2> QED
    BY <1>1, <2>3, <2>4 DEF WaitTypes
<1>4. Parked(getters, woken, waitsOn)
  BY DEF ServeInv, WaitInv
<1>5. /\ getters' \in GettersType /\ woken' \in SUBSET Consumers /\ late' \subseteq woken'
      /\ Parked(getters', woken', on)
      /\ \A d \in woken' \ late' : on[d] = opens
      /\ \A d \in late' : on[d] \notin {transport, losing}
      /\ transport = 0 /\ owner # "closing" => woken' \subseteq late'
  <2>0. /\ late \subseteq woken /\ on \in OnType /\ c \in Consumers
        /\ \A d \in Consumers \ {c} : on[d] = waitsOn[d]
        /\ \A d \in woken \ late : waitsOn[d] = opens
        /\ \A d \in late : waitsOn[d] \notin {transport, losing}
        /\ transport = 0 /\ owner # "closing" => woken \subseteq late
    BY <1>1, <1>3 DEF WaitTypes, OnType, ServeInv, WaitInv
  <2> HIDE DEF on
  <2>1. CASE c \notin woken
    <3>1. getters' = [getters EXCEPT ![g] = RemoveFirst(@, c)] /\ UNCHANGED <<woken, late>>
      BY <2>1 DEF Cancel, CancelGet, Runs
    <3>2. getters' \in GettersType /\ Parked(getters', woken', on)
      BY <1>3, <1>4, <2>1, <3>1, Leave DEF on
    <3> QED
      BY <1>3, <2>0, <2>1, <3>1, <3>2
  <2>2. CASE c \in woken /\ (queue[g] = <<>> \/ getters[g] = <<>>)
    <3>1. woken' = woken \ {c} /\ late' = late \ {c} /\ UNCHANGED getters
      BY <2>2 DEF Cancel, CancelGet
    <3>2. Parked(getters, woken \ {c}, on)
      BY <1>3, <1>4, <2>2, Unpark DEF on
    <3> QED
      BY <1>3, <2>0, <3>1, <3>2
  <2>3. CASE c \in woken /\ queue[g] # <<>> /\ getters[g] # <<>>
    <3> DEFINE next == Head(getters[g])
    <3>1. /\ getters' = [getters EXCEPT ![g] = Tail(@)]
          /\ woken' = (woken \ {c}) \union {next}
          /\ late' = (late \ {c}) \union (IF g \notin {transport, losing} THEN {next} ELSE {})
      BY <2>3 DEF Cancel, CancelGet
    <3>2. Parked(getters, woken \ {c}, on)
      BY <1>3, <1>4, <2>3, Unpark DEF on
    <3>3. /\ getters' \in GettersType /\ woken' \in SUBSET Consumers
          /\ Parked(getters', woken', on) /\ on[next] = g
      <4>1. woken \ {c} \in SUBSET Consumers /\ on \in OnType /\ g \in Transports
            /\ getters[g] # <<>> /\ getters \in GettersType
        BY <1>3, <2>0, <2>3
      <4> HIDE DEF g
      <4> QED
        BY ONLY <3>1, <3>2, <4>1, WakeOne
    <3>4. g \in {transport, losing} => g = opens
      BY <1>2 DEF ServeInv, OwnerInv
    <3>5. transport = 0 /\ owner # "closing" => g \notin {transport, losing}
      BY <1>2 DEF ServeInv, OwnerInv
    <3> HIDE DEF next
    <3>6. late' \subseteq woken'
      BY <2>0, <3>1
    <3>7. \A d \in woken' \ late' : on[d] = opens
      BY <1>3, <2>0, <3>1, <3>3, <3>4
    <3>8. \A d \in late' : on[d] \notin {transport, losing}
      BY <1>3, <2>0, <3>1, <3>3
    <3>9. transport = 0 /\ owner # "closing" => woken' \subseteq late'
      BY <2>0, <3>1, <3>5
    <3> QED
      BY <3>3, <3>6, <3>7, <3>8, <3>9
  <2> QED
    BY <2>1, <2>2, <2>3
<1>6. TypeOK'
  <2>1. NumberTypes' /\ QueueTypes' /\ OwnerTypes' /\ ReplyTypes'
    BY <1>1, <1>2 DEF NumberTypes, QueueTypes, OwnerTypes, ReplyTypes
  <2>2. WaitTypes'
    BY <1>1, <1>2, <1>3, <1>5 DEF WaitTypes, NumberTypes
  <2>3. TaskTypes' /\ ResultTypes'
    BY <1>1, <1>2 DEF TaskTypes, ResultTypes, Return
  <2> QED
    BY <2>1, <2>2, <2>3, TypesInParts
<1>7. OwnerInv' /\ QueueInv' /\ ItemInv'
  BY <1>2, ItemsStay DEF ServeInv, OwnerInv, QueueInv
<1>8. WaitInv'
  <2>1. Parked(getters, woken, waitsOn)'
    BY <1>2, <1>5 DEF Parked
  <2> QED
    BY <1>2, <1>5, <2>1 DEF WaitInv
<1>9. TaskInv'
  <2>1. \A d \in Consumers : waitsOn'[d] = IF d = c THEN 0 ELSE waitsOn[d]
    BY <1>2, <1>3 DEF OnType
  <2>2. serving' = serving \ {c} /\ running' = NoTask
    BY <1>2 DEF Return
  <2> QED
    BY <2>1, <2>2 DEF ServeInv, TaskInv
<1>10. AnsweredInOrder'
  BY <1>2, RepliesStay
<1> QED
  BY <1>6, <1>7, <1>8, <1>9, <1>10 DEF ServeInv

LEMMA ServeStep ==
    ASSUME ServeInv, [Next]_vars
    PROVE  ServeInv'
<1>1. CASE Open \/ Close
  BY <1>1, OwnerActs
<1>2. CASE ServerNext /\ UNCHANGED loopVars
  BY <1>2, OwnerActs, BoundKeeps, ConnectionLostKeeps, DatagramKeeps DEF ServerNext
<1>3. CASE \E c \in Consumers, n \in 0 .. MaxCount : Serve(c, n)
  BY <1>3, ServeKeeps
<1>4. CASE \E c \in Consumers : Receive(c)
  <2>1. PICK c \in Consumers : Receive(c)
    BY <1>4
  <2>2. CASE transport = 0
    BY <2>1, <2>2, RefusedKeeps DEF Receive
  <2>3. CASE transport # 0
    BY <2>1, <2>3, LooksAtNewest, HandleKeeps, SuspendKeeps DEF Receive
  <2> QED
    BY <2>2, <2>3
<1>5. CASE \E c \in Consumers : Resume(c)
  BY <1>5, LooksAtNewest, HandleKeeps, SuspendKeeps DEF Resume, Runs
<1>6. CASE \E c \in Consumers : Cancel(c)
  BY <1>6, CancelKeeps
<1>7. CASE UNCHANGED vars
  BY <1>7, ServeStutters
<1> QED
  BY <1>1, <1>2, <1>3, <1>4, <1>5, <1>6, <1>7 DEF Next

\* only a late task answers through another transport, or finds the responder
\* open again when it takes the sentinel
LEMMA OnlyTheLate ==
    ASSUME ServeInv, [Next]_vars
    PROVE  /\ \A i \in DOMAIN replies' \ DOMAIN replies :
                replies'[i].by \notin late => replies'[i].via = replies'[i].from
           /\ \A c \in Consumers :
                result[c] # "lost" /\ result'[c] = "lost" => c \in late
<1> DEFINE Answers == \A i \in DOMAIN replies' \ DOMAIN replies :
                        replies'[i].by \notin late => replies'[i].via = replies'[i].from
           Losses  == \A c \in Consumers :
                        result[c] # "lost" /\ result'[c] = "lost" => c \in late
<1>1. ResultTypes /\ ReplyTypes
  BY TypesInParts DEF ServeInv
<1>2. ASSUME NEW c \in Consumers, NEW how, Return(c, how), how # "lost" \/ c \in late
      PROVE  Losses
  BY <1>1, <1>2 DEF Return, ResultTypes
<1>3. UNCHANGED <<replies, result>> => Answers /\ Losses
  OBVIOUS
<1>4. UNCHANGED replies => Answers
  OBVIOUS
<1>5. ASSUME NEW c \in Consumers, NEW g, Ready(c, g), Handle(c, g)
      PROVE  Answers /\ Losses
  <2> DEFINE item == Head(queue[g])
  <2>1. CASE item.type = "noise" /\ UNCHANGED loopVars
    BY <1>3, <2>1 DEF loopVars
  <2>2. CASE item.type = "closed" /\ Take(c, g, FALSE) /\ TransportError(c, "lost")
    <3>1. UNCHANGED <<closed, replies>> /\ Return(c, IF closed THEN "stopped" ELSE "lost")
      BY <2>2 DEF TransportError
    <3>2. closed \/ c \in late
      BY <2>2, <3>1, <1>5, TakeKeeps DEF Ready
    <3> QED
      BY <1>2, <1>4, <3>1, <3>2
  <2>3. CASE /\ item.type = "request" /\ Reply(c, item.n, g)
             /\ UNCHANGED <<serving, result>> \/ Return(c, "done")
    <3>1. /\ transport # 0
          /\ replies' = Append(replies, [to |-> item.n, from |-> g, via |-> transport, by |-> c])
      BY <2>3 DEF Reply
    <3>2. c \notin late => transport = g
      BY <1>5, <3>1 DEF Ready
    <3> HIDE DEF item
    <3>3. \A i \in DOMAIN replies' \ DOMAIN replies :
            replies'[i] = [to |-> item.n, from |-> g, via |-> transport, by |-> c]
      BY <1>1, <3>1 DEF ReplyTypes
    <3>4. Answers
      BY <3>2, <3>3
    <3>5. Losses
      BY <1>2, <2>3
    <3> QED
      BY <3>4, <3>5
  <2>4. CASE item.type = "request" /\ TransportError(c, "unsent")
    BY <1>2, <1>4, <2>4 DEF TransportError
  <2> QED
    BY <1>5, <2>1, <2>2, <2>3, <2>4 DEF Handle
<1>6. CASE Open \/ Close
  BY <1>3, <1>6 DEF Open, Close
<1>7. CASE ServerNext /\ UNCHANGED loopVars
  BY <1>3, <1>7 DEF loopVars
<1>8. CASE \E c \in Consumers, n \in 0 .. MaxCount : Serve(c, n)
  <2>1. UNCHANGED replies /\ \E c \in Consumers : result' = [result EXCEPT ![c] = "none"]
    BY <1>8 DEF Serve
  <2> QED
    BY <1>1, <1>4, <2>1 DEF ResultTypes
<1>9. CASE \E c \in Consumers : Receive(c)
  <2>1. PICK c \in Consumers : Receive(c)
    BY <1>9
  <2>2. CASE TransportError(c, "refused")
    BY <1>2, <1>4, <2>2 DEF TransportError
  <2>3. CASE transport # 0 /\ Handle(c, transport)
    BY <1>5, <2>1, <2>3, LooksAtNewest DEF Receive
  <2>4. CASE UNCHANGED loopVars
    BY <1>3, <2>4 DEF loopVars
  <2> QED
    BY <2>1, <2>2, <2>3, <2>4 DEF Receive
<1>10. CASE \E c \in Consumers : Resume(c)
  <2>1. PICK c \in Consumers : Resume(c)
    BY <1>10
  <2>2. CASE Handle(c, waitsOn[c])
    BY <1>5, <2>1, <2>2, LooksAtNewest DEF Resume, Runs
  <2>3. CASE UNCHANGED loopVars
    BY <1>3, <2>3 DEF loopVars
  <2> QED
    BY <2>1, <2>2, <2>3 DEF Resume
<1>11. CASE \E c \in Consumers : Cancel(c)
  BY <1>2, <1>4, <1>11 DEF Cancel
<1>12. CASE UNCHANGED vars
  BY <1>3, <1>12 DEF vars, loopVars
<1> QED
  BY <1>6, <1>7, <1>8, <1>9, <1>10, <1>11, <1>12 DEF Next

LEMMA ServeInvariant == Spec => []ServeInv
<1>1. Init => ServeInv
  BY ServeInit
<1>2. ServeInv /\ [Next]_vars => ServeInv'
  BY ServeStep
<1> QED
  BY <1>1, <1>2, PTL DEF Spec

------------------------------------------------------------------------------

\* The server's queues, getters and the serve loops' variables keep their
\* types: every response leaves through a transport that was made, to a
\* request that came in.
THEOREM ServeTypes == Spec => []TypeOK
<1>1. ServeInv => TypeOK
  BY DEF ServeInv
<1> QED
  BY <1>1, ServeInvariant, PTL

\* However many tasks serve, are cancelled and woken, handle_request answers
\* no request twice, and in the order they came in those it answers through the
\* transport they came in on.
THEOREM NoRequestTwice == Spec => []AnsweredInOrder
<1>1. ServeInv => AnsweredInOrder
  BY DEF ServeInv
<1> QED
  BY <1>1, ServeInvariant, PTL

\* A response leaves through the transport of a later open() only when a task
\* sends it that a cancelled one woke in its place after connection_lost.
THEOREM NoStrayAnswer == Spec => AnsweredOnItsTransport
<1>1. ASSUME ServeInv, [Next]_vars
      PROVE  [\A i \in DOMAIN replies' \ DOMAIN replies :
                replies'[i].by \notin late => replies'[i].via = replies'[i].from]_vars
  BY <1>1, OnlyTheLate
<1> QED
  BY <1>1, ServeInvariant, PTL DEF Spec, AnsweredOnItsTransport

\* Whoever takes the sentinel of connection_lost does so while the responder
\* is closed, and so leaves serve() without an error, unless a cancelled task
\* woke it in its place after connection_lost.
THEOREM CloseIsClean == Spec => CloseIsNotAnError
<1>1. ASSUME ServeInv, [Next]_vars
      PROVE  [\A c \in Consumers :
                result[c] # "lost" /\ result'[c] = "lost" => c \in late]_vars
  BY <1>1, OnlyTheLate
<1> QED
  BY <1>1, ServeInvariant, PTL DEF Spec, CloseIsNotAnError
==============================================================================
