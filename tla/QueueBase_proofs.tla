-------------------------- MODULE QueueBase_proofs --------------------------
(***************************************************************************)
(* What the queues promise for any number of operations and steps, any     *)
(* batch sizes and any capacity.                                           *)
(***************************************************************************)
EXTENDS QueueBase, TLAPS

Actions == {"enqueue", "dequeue"}
Elements == Ops \X Int
Labels == {"idle", "flush", "call", "clean", "cancel", "done", "end"}
Attempt == [left : Int, tuple : Seq(Elements), cancelled : BOOLEAN]

TInv ==
    /\ flavor \in Flavors /\ closed \in BOOLEAN
    /\ work \in [Ops -> [kind : Kinds, n : Nat, step : Steps]]
    /\ queue \in Seq(Elements)
    /\ attempts \in [Actions -> Seq(Ops)]
    /\ att \in [Ops -> Attempt]
    /\ calls \in [Ops -> Nat]
    /\ mu \in Threads \union {Free} /\ action \in Actions
    /\ result \in {"start", "progress"} /\ changed \in BOOLEAN
    /\ pc \in [Threads -> Labels]
    /\ todo \in [Threads -> SUBSET Ops]
    /\ clean \in [Threads -> Seq(Ops)]

\* An open queue holds no more than its capacity.
RoomInv == ~closed => Len(queue) <= Capacity

\* The holder of mu_ is in a flush, and the labels say what a thread has left.
PcInv ==
    \A t \in Threads :
      /\ mu = t => pc[t] = "flush"
      /\ pc[t] = "clean" => clean[t] # <<>>
      /\ pc[t] = "done" => t \in Ops /\ Kind(t) = "closeCancel"

\* A dequeue that is pending still needs an element.
LeftInv ==
    \A o \in SeqSet(attempts["dequeue"]) : att[o].left > 0

\* Half of the no lost wake-up argument: a flush that comes to the dequeues
\* with nothing changed has left the enqueues blocked.  And an attempt that has
\* made progress stays at the front.
WakeInv ==
    mu # Free =>
      /\ action = "dequeue" /\ ~changed /\ result = "start" => EnqueueBlocked
      /\ result = "progress" => attempts[action] # <<>> /\ ~att[Front].cancelled

Uniq(s) == \A i, j \in DOMAIN s : s[i] = s[j] => i = j

Queued(o) == \E a \in Actions : o \in SeqSet(attempts[a])

\* An operation is in one place: once in the attempts of its kind, or once in
\* the clean_up of one flush; one thread has taken its callback.
PlacesInv ==
    /\ \A a \in Actions : Uniq(attempts[a])
    /\ \A a \in Actions : \A o \in SeqSet(attempts[a]) : a = ActionOf(o)
    /\ \A t \in Threads : Uniq(clean[t])
    /\ \A t, u \in Threads :
         t # u => SeqSet(clean[t]) \cap SeqSet(clean[u]) = {} /\ todo[t] \cap todo[u] = {}

\* Who may still call back operation o.
CallsOf(o) ==
    /\ calls[o] \in {0, 1}
    /\ Queued(o) /\ ~att[o].cancelled => calls[o] = 0
    /\ \A t \in Threads : o \in todo[t] => att[o].cancelled /\ calls[o] = 0
    /\ \A t \in Threads :
         o \in SeqSet(clean[t]) => ~att[o].cancelled /\ calls[o] = 0 /\ ~Queued(o)
    /\ pc[o] = "idle" \/ Kind(o) = "closeCancel" =>
         ~att[o].cancelled /\ ~Queued(o) /\ \A t \in Threads : o \notin SeqSet(clean[t])
    /\ pc[o] = "idle" \/ (Kind(o) = "closeCancel" /\ pc[o] # "end") => calls[o] = 0

CallsInv == \A o \in Ops : CallsOf(o)

IInv == TInv /\ RoomInv /\ PcInv /\ LeftInv /\ WakeInv /\ NoStrandedAttempt
          /\ PlacesInv /\ CallsInv
-----------------------------------------------------------------------------
(* Sequences.                                                              *)

\* What pop_front leaves.
LEMMA TailFacts ==
  ASSUME NEW S, NEW s \in Seq(S), s # <<>>
  PROVE  /\ Head(s) \in SeqSet(s) /\ Head(s) \in S
         /\ Tail(s) \in Seq(S) /\ SeqSet(Tail(s)) \subseteq SeqSet(s)
         /\ Uniq(s) => Uniq(Tail(s)) /\ SeqSet(Tail(s)) = SeqSet(s) \ {Head(s)}
  <1>1. Len(s) \in Nat /\ Len(s) > 0 /\ DOMAIN s = 1..Len(s) /\ Head(s) = s[1] /\ s[1] \in S
    OBVIOUS
  <1>2. /\ Tail(s) \in Seq(S) /\ DOMAIN Tail(s) = 1..(Len(s) - 1)
        /\ \A i \in 1..(Len(s) - 1) : Tail(s)[i] = s[i + 1]
    BY <1>1
  <1>3. \A i \in DOMAIN s : i # 1 => i - 1 \in DOMAIN Tail(s) /\ Tail(s)[i - 1] = s[i]
    BY <1>1, <1>2
  <1>4. \A i \in DOMAIN Tail(s) : i + 1 \in DOMAIN s /\ i + 1 # 1 /\ Tail(s)[i] = s[i + 1]
    BY <1>1, <1>2
  <1>5. Head(s) \in SeqSet(s)
    BY <1>1 DEF SeqSet
  <1>6. SeqSet(Tail(s)) \subseteq SeqSet(s)
    BY <1>4, Zenon DEF SeqSet
  <1>7. ASSUME Uniq(s) PROVE Uniq(Tail(s))
    BY <1>2, <1>4, <1>7 DEF Uniq
  <1>8. ASSUME Uniq(s) PROVE SeqSet(Tail(s)) = SeqSet(s) \ {Head(s)}
    <2>1. Head(s) \notin SeqSet(Tail(s))
      BY <1>1, <1>4, <1>8 DEF SeqSet, Uniq
    <2>2. \A x \in SeqSet(s) : x # Head(s) => x \in SeqSet(Tail(s))
      BY <1>1, <1>3, Zenon DEF SeqSet
    <2> QED BY <1>6, <2>1, <2>2, Zenon
  <1> QED BY <1>1, <1>2, <1>5, <1>6, <1>7, <1>8, Zenon

\* What emplace_back adds.
LEMMA AppendFacts ==
  ASSUME NEW S, NEW s \in Seq(S), NEW x \in S
  PROVE  /\ Append(s, x) \in Seq(S) /\ SeqSet(Append(s, x)) = SeqSet(s) \union {x}
         /\ Uniq(s) /\ x \notin SeqSet(s) => Uniq(Append(s, x))
         /\ Append(s, x) # <<>> /\ Len(Append(s, x)) = Len(s) + 1
         /\ s # <<>> => Head(Append(s, x)) = Head(s)
  <1> DEFINE a == Append(s, x)
  <1>1. /\ Len(s) \in Nat /\ DOMAIN s = 1..Len(s) /\ a \in Seq(S)
        /\ DOMAIN a = 1..(Len(s) + 1) /\ a[Len(s) + 1] = x
        /\ \A i \in 1..Len(s) : a[i] = s[i]
    OBVIOUS
  <1>2. SeqSet(a) = SeqSet(s) \union {x}
    <2>1. \A y \in SeqSet(s) : y \in SeqSet(a)
      BY <1>1 DEF SeqSet
    <2>2. x \in SeqSet(a)
      BY <1>1 DEF SeqSet
    <2>3. \A y \in SeqSet(a) : y \in SeqSet(s) \/ y = x
      <3> SUFFICES ASSUME NEW i \in DOMAIN a PROVE a[i] \in SeqSet(s) \/ a[i] = x
        BY Zenon DEF SeqSet
      <3> i \in 1..Len(s) \/ i = Len(s) + 1
        BY <1>1
      <3> QED BY <1>1, Zenon DEF SeqSet
    <2> QED BY <2>1, <2>2, <2>3, Zenon
  <1>3. ASSUME Uniq(s), x \notin SeqSet(s) PROVE Uniq(a)
    <2> SUFFICES ASSUME NEW i \in DOMAIN a, NEW j \in DOMAIN a, a[i] = a[j] PROVE i = j
      BY Zenon DEF Uniq
    <2>1. \A k \in 1..Len(s) : a[k] # x
      BY <1>1, <1>3, Zenon DEF SeqSet
    <2> QED BY <1>1, <1>3, <2>1 DEF Uniq
  <1>4. a # <<>> /\ Len(a) = Len(s) + 1 /\ (s # <<>> => Head(a) = Head(s))
    BY <1>1
  <1> QED BY <1>1, <1>2, <1>3, <1>4, Zenon

\* What is not empty has a member.
LEMMA EmptySet ==
  ASSUME NEW S, NEW s \in Seq(S)
  PROVE  (s = <<>> <=> SeqSet(s) = {}) /\ SeqSet(s) \subseteq S
  <1>1. s # <<>> => Head(s) \in SeqSet(s)
    BY TailFacts, Zenon
  <1>2. s = <<>> => SeqSet(s) = {}
    BY DEF SeqSet
  <1> QED BY <1>1, <1>2 DEF SeqSet

\* DequeueLocked takes one element out.
LEMMA WithoutFacts ==
  ASSUME NEW S, NEW q \in Seq(S), NEW i \in 1..Len(q)
  PROVE  Without(q, i) \in Seq(S) /\ Len(Without(q, i)) = Len(q) - 1
  <1>1. CASE flavor = "shuffle"
    <2> DEFINE r == [q EXCEPT ![i] = q[Len(q)]]
    <2>1. r \in Seq(S) /\ Len(r) = Len(q)
      OBVIOUS
    <2> HIDE DEF r
    <2>2. SubSeq(r, 1, Len(q) - 1) \in Seq(S) /\ Len(SubSeq(r, 1, Len(q) - 1)) = Len(q) - 1
      BY <2>1
    <2> QED BY <1>1, <2>2, Zenon DEF Without, r
  <1>2. CASE flavor # "shuffle"
    <2> DEFINE a == SubSeq(q, 1, i - 1)
               b == SubSeq(q, i + 1, Len(q))
    <2>1. a \in Seq(S) /\ Len(a) = i - 1 /\ b \in Seq(S) /\ Len(b) = Len(q) - i
      OBVIOUS
    <2>2. Without(q, i) = a \o b
      BY <1>2, Zenon DEF Without
    <2> HIDE DEF a, b
    <2>3. a \o b \in Seq(S) /\ Len(a \o b) = Len(a) + Len(b)
      BY <2>1
    <2> QED BY <2>1, <2>2, <2>3
  <1> QED BY <1>1, <1>2, Zenon

\* The batch that is given up is a batch of elements.
LEMMA RestoredFacts ==
  ASSUME TInv, Front \in Ops
  PROVE  Restored \in Seq(Elements)
  <1> DEFINE u == att[Front].tuple
             r == [i \in 1..Len(u) |-> u[Len(u) + 1 - i]]
  <1>1. u \in Seq(Elements) /\ queue \in Seq(Elements)
    BY Zenon DEF TInv, Attempt
  <1> HIDE DEF u
  <1>2. r \in Seq(Elements)
    <2>1. \A i \in 1..Len(u) : u[Len(u) + 1 - i] \in Elements
      BY <1>1
    <2> QED BY <1>1, <2>1
  <1> HIDE DEF r
  <1>3. u \o queue \in Seq(Elements) /\ queue \o r \in Seq(Elements)
    BY <1>1, <1>2
  <1> QED BY <1>3, Zenon DEF Restored, u, r

-----------------------------------------------------------------------------
(* The actions.                                                            *)

\* Nothing is queued at first.
LEMMA InitIInv == Init => IInv
  <1> SUFFICES ASSUME Init PROVE IInv
    BY Zenon
  <1>1. TInv
    <2>1. EmptyAttempt \in Attempt
      BY DEF EmptyAttempt, Attempt
    <2>2. /\ att \in [Ops -> Attempt]
          /\ queue \in Seq(Elements) /\ attempts \in [Actions -> Seq(Ops)]
          /\ clean \in [Threads -> Seq(Ops)]
      BY <2>1 DEF Init, Actions
    <2>3. /\ flavor \in Flavors /\ closed \in BOOLEAN
          /\ work \in [Ops -> [kind : Kinds, n : Nat, step : Steps]]
          /\ calls \in [Ops -> Nat] /\ pc \in [Threads -> Labels]
          /\ todo \in [Threads -> SUBSET Ops]
      BY Zenon DEF Init, Labels
    <2>4. /\ mu \in Threads \union {Free} /\ action \in Actions
          /\ result \in {"start", "progress"} /\ changed \in BOOLEAN
      BY Zenon DEF Init, Actions
    <2> QED BY <2>2, <2>3, <2>4, Zenon DEF TInv
  <1>2. RoomInv /\ LeftInv /\ WakeInv /\ NoStrandedAttempt
    BY QueueConstants DEF Init, RoomInv, LeftInv, WakeInv, NoStrandedAttempt, SeqSet,
                          EnqueueBlocked, DequeueBlocked
  <1>3. PcInv
    BY QueueConstants, Zenon DEF Init, PcInv
  <1>4. PlacesInv
    BY DEF Init, PlacesInv, SeqSet, Uniq, Actions
  <1>5. CallsInv
    BY DEF Init, CallsInv, CallsOf, SeqSet, Queued, EmptyAttempt, Actions, Threads
  <1> QED BY <1>1, <1>2, <1>3, <1>4, <1>5, Zenon DEF IInv

\* The attempt a flush runs.
LEMMA FrontFacts ==
  ASSUME TInv, attempts[action] # <<>>
  PROVE  Front \in Ops /\ Front \in SeqSet(attempts[action]) /\ attempts[action] \in Seq(Ops)
  <1>1. attempts[action] \in Seq(Ops)
    BY Zenon DEF TInv
  <1> QED BY <1>1, TailFacts, Zenon DEF Front

\* A complete attempt leaves the attempts for the clean_up of its flush.
LEMMA CompleteFacts ==
  ASSUME TInv, PlacesInv, NEW t \in Threads, NEW act, NEW s, Runs(t, act), Complete(t, s)
  PROVE  /\ attempts' \in [Actions -> Seq(Ops)] /\ clean' \in [Threads -> Seq(Ops)]
         /\ action = act /\ mu = t /\ action' = action /\ mu' = mu
         /\ changed' = TRUE /\ result' = "start"
         /\ Front \in Ops /\ Front \in SeqSet(attempts[act]) /\ ~att[Front].cancelled
         /\ SeqSet(attempts'[act]) = SeqSet(attempts[act]) \ {Front}
         /\ \A a \in Actions : a # act => attempts'[a] = attempts[a]
         /\ SeqSet(clean'[t]) = SeqSet(clean[t]) \union {Front} /\ clean'[t] # <<>>
         /\ \A u \in Threads : u # t => clean'[u] = clean[u]
         /\ Uniq(attempts'[act])
         /\ Uniq(clean[t]) /\ Front \notin SeqSet(clean[t]) => Uniq(clean'[t])
  <1>1. action = act /\ mu = t /\ act \in Actions /\ attempts[act] # <<>> /\ ~att[Front].cancelled
    BY Zenon DEF Runs, TInv
  <1>2. /\ attempts[act] \in Seq(Ops) /\ Uniq(attempts[act]) /\ clean[t] \in Seq(Ops)
        /\ Front \in Ops /\ Front \in SeqSet(attempts[act]) /\ Front = Head(attempts[act])
    BY <1>1, FrontFacts, Zenon DEF TInv, PlacesInv, Front
  <1>3. /\ Tail(attempts[act]) \in Seq(Ops) /\ Uniq(Tail(attempts[act]))
        /\ SeqSet(Tail(attempts[act])) = SeqSet(attempts[act]) \ {Front}
    BY <1>1, <1>2, TailFacts, Zenon
  <1>4. /\ Append(clean[t], Front) \in Seq(Ops) /\ Append(clean[t], Front) # <<>>
        /\ SeqSet(Append(clean[t], Front)) = SeqSet(clean[t]) \union {Front}
        /\ Uniq(clean[t]) /\ Front \notin SeqSet(clean[t]) => Uniq(Append(clean[t], Front))
    BY <1>2, AppendFacts
  <1>5. /\ attempts' = [attempts EXCEPT ![act] = Tail(attempts[act])]
        /\ clean' = [clean EXCEPT ![t] = Append(clean[t], Front)]
        /\ changed' = TRUE /\ result' = "start" /\ action' = action /\ mu' = mu
    BY <1>1, Zenon DEF Complete
  <1>6. attempts \in [Actions -> Seq(Ops)] /\ clean \in [Threads -> Seq(Ops)]
    BY Zenon DEF TInv
  <1>7. /\ attempts' \in [Actions -> Seq(Ops)] /\ attempts'[act] = Tail(attempts[act])
        /\ \A a \in Actions : a # act => attempts'[a] = attempts[a]
    BY <1>1, <1>3, <1>5, <1>6, Zenon
  <1>8. /\ clean' \in [Threads -> Seq(Ops)] /\ clean'[t] = Append(clean[t], Front)
        /\ \A u \in Threads : u # t => clean'[u] = clean[u]
    BY <1>4, <1>5, <1>6, Zenon
  <1> QED BY <1>1, <1>2, <1>3, <1>4, <1>5, <1>7, <1>8, Zenon

\* It is then in one place still, and nobody has called it back.
LEMMA CompletePlaces ==
  ASSUME TInv, PlacesInv, CallsInv, NEW t \in Threads, NEW act, NEW s,
         Runs(t, act), Complete(t, s), UNCHANGED <<work, calls, pc, todo>>,
         \A o \in Ops : att'[o].cancelled = att[o].cancelled
  PROVE  PlacesInv' /\ CallsInv'
  <1>0. PICK f \in Ops : f = Front
    BY CompleteFacts, Zenon
  <1>1. /\ action = act /\ act \in Actions /\ f \in Ops /\ f \in SeqSet(attempts[act])
        /\ ~att[f].cancelled
        /\ SeqSet(attempts'[act]) = SeqSet(attempts[act]) \ {f}
        /\ \A a \in Actions : a # act => attempts'[a] = attempts[a]
        /\ SeqSet(clean'[t]) = SeqSet(clean[t]) \union {f}
        /\ \A u \in Threads : u # t => clean'[u] = clean[u]
        /\ Uniq(attempts'[act])
        /\ Uniq(clean[t]) /\ f \notin SeqSet(clean[t]) => Uniq(clean'[t])
    BY <1>0, CompleteFacts, Zenon DEF TInv
  <1>2. /\ calls[f] = 0 /\ \A u \in Threads : f \notin SeqSet(clean[u])
        /\ \A a \in Actions : a # act => f \notin SeqSet(attempts[a])
        /\ pc[f] # "idle" /\ Kind(f) # "closeCancel"
    BY <1>1 DEF CallsInv, CallsOf, PlacesInv, Queued
  <1>3. /\ \A a \in Actions : SeqSet(attempts'[a]) = SeqSet(attempts[a]) \ {f}
        /\ \A o : ActionOf(o)' = ActionOf(o) /\ Kind(o)' = Kind(o)
    <2>1. \A a \in Actions : SeqSet(attempts'[a]) = SeqSet(attempts[a]) \ {f}
      BY <1>1, <1>2, Zenon
    <2>2. \A o : ActionOf(o)' = ActionOf(o) /\ Kind(o)' = Kind(o)
      BY Zenon DEF ActionOf, Kind
    <2> QED BY <2>1, <2>2, Zenon
  <1>4. /\ ~Queued(f)' /\ \A o \in Ops : Queued(o)' => Queued(o)
    BY <1>3, Zenon DEF Queued
  <1>5. PlacesInv'
    <2>1. \A a \in Actions : Uniq(attempts'[a])
      BY <1>1, Zenon DEF PlacesInv
    <2>2. \A a \in Actions : \A o \in SeqSet(attempts'[a]) : a = ActionOf(o)'
      BY <1>3, Zenon DEF PlacesInv
    <2>3. \A u \in Threads : Uniq(clean'[u])
      BY <1>1, <1>2, Zenon DEF PlacesInv
    <2>4. \A u, v \in Threads : u # v =>
            SeqSet(clean'[u]) \cap SeqSet(clean'[v]) = {} /\ todo'[u] \cap todo'[v] = {}
      BY <1>1, <1>2 DEF PlacesInv
    <2> QED BY <2>1, <2>2, <2>3, <2>4, Zenon DEF PlacesInv, Uniq, SeqSet
  <1>6. CallsInv'
    <2>1. \A o \in Ops, u \in Threads : o \in SeqSet(clean'[u]) => o = f \/ o \in SeqSet(clean[u])
      BY <1>1, Zenon
    <2> SUFFICES ASSUME NEW o \in Ops PROVE CallsOf(o)'
      BY Zenon DEF CallsInv
    <2> CallsOf(o)
      BY Zenon DEF CallsInv
    <2>2. CASE o = f
      BY <1>1, <1>2, <1>3, <1>4, <2>2, Zenon DEF CallsOf
    <2>3. CASE o # f
      BY <1>3, <1>4, <2>1, <2>3, Zenon DEF CallsOf
    <2> QED BY <2>2, <2>3, Zenon
  <1> QED BY <1>5, <1>6, Zenon

\* A step that leaves every operation where it is keeps the places,
LEMMA FramePlaces ==
  ASSUME PlacesInv, UNCHANGED <<work, attempts, todo, clean>>
  PROVE  PlacesInv'
  <1>1. \A o : ActionOf(o)' = ActionOf(o)
    BY Zenon DEF ActionOf, Kind
  <1> QED BY <1>1, Zenon DEF PlacesInv

\* and who may call back, if no thread begins anew.
LEMMA FrameCalls ==
  ASSUME CallsInv, UNCHANGED <<work, attempts, calls, todo, clean>>,
         \A o \in Ops : att'[o].cancelled = att[o].cancelled,
         \A o \in Ops : (pc'[o] = "idle" => pc[o] = "idle") /\ (pc[o] = "end" => pc'[o] = "end")
  PROVE  CallsInv'
  <1> SUFFICES ASSUME NEW o \in Ops PROVE CallsOf(o)'
    BY Zenon DEF CallsInv
  <1>1. CallsOf(o) /\ (Queued(o)' <=> Queued(o)) /\ Kind(o)' = Kind(o)
    BY Zenon DEF CallsInv, Queued, Kind
  <1> QED BY <1>1, Zenon DEF CallsOf

\* A step after which a flush is due, if one was, keeps the blocked blocked.
LEMMA FrameBlocked ==
  ASSUME NoStrandedAttempt, UNCHANGED <<flavor, work, closed, queue, attempts, att>>,
         Flushing => Flushing'
  PROVE  NoStrandedAttempt'
  BY Zenon DEF NoStrandedAttempt, EnqueueBlocked, DequeueBlocked, Available, Kind

\* What an operation still needs, and what it holds, change: it is an attempt
\* still, and cancelled or not as before.
LEMMA AttemptFields ==
  ASSUME NEW r \in Attempt
  PROVE  /\ \A n \in Int :
              LET u == [r EXCEPT !.left = n]
              IN  u \in Attempt /\ u.cancelled = r.cancelled /\ u.left = n
         /\ \A tuple \in Seq(Elements) :
              LET u == [r EXCEPT !.tuple = tuple]
              IN  u \in Attempt /\ u.cancelled = r.cancelled /\ u.left = r.left
         /\ LET u == [r EXCEPT !.cancelled = TRUE]
            IN  u \in Attempt /\ u.cancelled /\ u.left = r.left
  BY Zenon DEF Attempt

\* An operation queues its attempt.
LEMMA EmplaceIInv ==
  ASSUME IInv, NEW o \in Ops, pc[o] = "idle", mu = Free, Emplace(o),
         Kind(o) # "closeCancel", Kind(o) \in DequeueKinds => work[o].n > 0,
         UNCHANGED <<config, closed, queue, calls, flushVars, todo, clean>>
  PROVE  IInv'
  <1>1. PICK act \in Actions : act = ActionOf(o)
    BY Zenon DEF ActionOf, Actions
  <1>2. TInv /\ attempts[act] \in Seq(Ops) /\ o \in Threads
    BY Zenon DEF IInv, TInv, Threads
  <1>3. ~Queued(o) /\ o \notin SeqSet(attempts[act]) /\ CallsOf(o) /\ Uniq(attempts[act])
    BY <1>1, Zenon DEF IInv, CallsInv, CallsOf, Queued, PlacesInv
  <1>4. /\ Append(attempts[act], o) \in Seq(Ops) /\ Uniq(Append(attempts[act], o))
        /\ SeqSet(Append(attempts[act], o)) = SeqSet(attempts[act]) \union {o}
    BY <1>2, <1>3, AppendFacts
  <1>5. /\ attempts' = [attempts EXCEPT ![act] = Append(attempts[act], o)]
        /\ att' = [att EXCEPT ![o].left = work[o].n] /\ pc' = [pc EXCEPT ![o] = "flush"]
        /\ work' = work /\ flavor' = flavor /\ mu' = mu
    BY <1>1, Zenon DEF Emplace, Goto, config, flushVars
  <1>6. TInv'
    <2>1. attempts' \in [Actions -> Seq(Ops)] /\ pc' \in [Threads -> Labels]
      BY <1>2, <1>4, <1>5, Zenon DEF TInv, Labels
    <2>2. att' \in [Ops -> Attempt]
      <3>1. work[o].n \in Int /\ att[o] \in Attempt
        BY <1>2 DEF TInv
      <3>2. [att[o] EXCEPT !.left = work[o].n] \in Attempt
        BY <3>1, AttemptFields, Zenon
      <3> QED BY <1>2, <1>5, <3>2, Zenon DEF TInv
    <2> QED BY <1>2, <2>1, <2>2, Zenon DEF TInv, config, flushVars
  <1>7. /\ \A p \in Ops : att'[p].cancelled = att[p].cancelled
        /\ \A p \in Ops : p # o => att'[p] = att[p]
        /\ att'[o].left = work[o].n
        /\ SeqSet(attempts'[act]) = SeqSet(attempts[act]) \union {o}
        /\ Uniq(attempts'[act])
        /\ \A b \in Actions : b # act => attempts'[b] = attempts[b]
        /\ pc'[o] = "flush" /\ \A t \in Threads : t # o => pc'[t] = pc[t]
        /\ \A p : ActionOf(p)' = ActionOf(p) /\ Kind(p)' = Kind(p)
    <2>1. /\ \A p \in Ops : att'[p].cancelled = att[p].cancelled
          /\ \A p \in Ops : p # o => att'[p] = att[p]
          /\ att'[o].left = work[o].n
      BY <1>2, <1>5, Zenon DEF TInv, Attempt
    <2>2. /\ attempts'[act] = Append(attempts[act], o)
          /\ \A b \in Actions : b # act => attempts'[b] = attempts[b]
      BY <1>2, <1>5, Zenon DEF TInv
    <2>3. pc'[o] = "flush" /\ \A t \in Threads : t # o => pc'[t] = pc[t]
      BY <1>2, <1>5, Zenon DEF TInv
    <2>4. \A p : ActionOf(p)' = ActionOf(p) /\ Kind(p)' = Kind(p)
      BY <1>5, Zenon DEF ActionOf, Kind
    <2> QED BY <1>4, <2>1, <2>2, <2>3, <2>4, Zenon
  <1>8. RoomInv' /\ WakeInv' /\ NoStrandedAttempt'
    BY <1>2, <1>5, <1>7, Zenon DEF IInv, RoomInv, WakeInv, NoStrandedAttempt, Flushing
  <1>9. PcInv'
    BY <1>5, <1>7, QueueConstants, Zenon DEF IInv, PcInv
  <1>10. LeftInv'
    <2> SUFFICES ASSUME NEW p \in SeqSet(attempts'["dequeue"]) PROVE att'[p].left > 0
      BY Zenon DEF LeftInv
    <2>1. "dequeue" \in Actions /\ (act = "dequeue" => Kind(o) \in DequeueKinds)
      BY <1>1, Zenon DEF Actions, ActionOf
    <2>2. CASE p = o
      BY <1>3, <1>7, <2>1, <2>2, Zenon DEF Queued
    <2>3. CASE p # o
      <3>1. p \in SeqSet(attempts["dequeue"])
        BY <1>7, <2>1, <2>3
      <3>2. p \in Ops /\ att[p].left > 0
        BY <1>2, <2>1, <3>1, EmptySet, Zenon DEF IInv, LeftInv, TInv
      <3> QED BY <1>7, <2>3, <3>2, Zenon
    <2> QED BY <2>2, <2>3, Zenon
  <1>11. PlacesInv'
    BY <1>1, <1>7 DEF IInv, PlacesInv
  <1>12. CallsInv'
    <2> SUFFICES ASSUME NEW p \in Ops PROVE CallsOf(p)'
      BY Zenon DEF CallsInv
    <2>1. CallsOf(p)
      BY Zenon DEF IInv, CallsInv
    <2>2. CASE p = o
      BY <1>3, <1>7, <2>2, Zenon DEF CallsOf, Threads
    <2>3. CASE p # o
      <3>1. Queued(p)' <=> Queued(p)
        BY <1>7, <2>3, Zenon DEF Queued
      <3> QED BY <1>7, <2>1, <2>3, <3>1, Zenon DEF CallsOf, Threads
    <2> QED BY <2>2, <2>3, Zenon
  <1> QED BY <1>6, <1>8, <1>9, <1>10, <1>11, <1>12, Zenon DEF IInv

\* An operation that never got into the queue calls back by itself.
LEMMA CallsItselfIInv ==
  ASSUME IInv, NEW o \in Ops, mu = Free, pc[o] = "idle" \/ pc[o] = "done",
         calls' = [calls EXCEPT ![o] = @ + 1], Goto(o, "end"),
         UNCHANGED <<config, closed, queue, attempts, att, flushVars, todo, clean>>
  PROVE  IInv'
  <1>1. /\ TInv /\ o \in Threads /\ CallsOf(o) /\ PcInv
        /\ work' = work /\ flavor' = flavor /\ mu' = mu /\ pc' = [pc EXCEPT ![o] = "end"]
    BY Zenon DEF IInv, CallsInv, Threads, config, flushVars, Goto
  <1>2. calls[o] = 0 /\ ~att[o].cancelled /\ ~Queued(o)
        /\ \A t \in Threads : o \notin SeqSet(clean[t]) /\ o \notin todo[t]
    BY <1>1, Zenon DEF CallsOf, PcInv
  <1>3. TInv'
    BY <1>1 DEF TInv, config, flushVars, Labels
  <1>4. /\ pc'[o] = "end" /\ \A t \in Threads : t # o => pc'[t] = pc[t]
        /\ calls'[o] = 1 /\ \A p \in Ops : p # o => calls'[p] = calls[p]
    BY <1>1, <1>2 DEF TInv
  <1>5. RoomInv' /\ LeftInv' /\ WakeInv'
    BY <1>1, Zenon DEF IInv, RoomInv, LeftInv, WakeInv
  <1>6. NoStrandedAttempt'
    <2>1. Flushing => Flushing'
      BY <1>1, <1>4, Zenon DEF Flushing
    <2> QED BY <1>1, <2>1, FrameBlocked, Zenon DEF IInv
  <1>7. PcInv'
    BY <1>1, <1>4, QueueConstants, Zenon DEF PcInv, Kind
  <1>8. PlacesInv'
    BY <1>1, FramePlaces, Zenon DEF IInv
  <1>9. CallsInv'
    <2> SUFFICES ASSUME NEW p \in Ops PROVE CallsOf(p)'
      BY Zenon DEF CallsInv
    <2>1. CallsOf(p) /\ (Queued(p)' <=> Queued(p)) /\ Kind(p)' = Kind(p)
      BY <1>1, Zenon DEF IInv, CallsInv, Queued, Kind
    <2>2. CASE p = o
      BY <1>2, <1>4, <2>1, <2>2, Zenon DEF CallsOf
    <2>3. CASE p # o
      BY <1>4, <2>1, <2>3, Zenon DEF CallsOf, Threads
    <2> QED BY <2>2, <2>3, Zenon
  <1> QED BY <1>3, <1>5, <1>6, <1>7, <1>8, <1>9, Zenon DEF IInv

\* A step that only moves a thread on: it starts a flush, or it is one of the
\* cancellation manager.
LEMMA MovesIInv ==
  ASSUME IInv, NEW t \in Threads, NEW label \in Labels, Goto(t, label), mu = Free,
         UNCHANGED <<config, attVars, calls, flushVars, todo, clean>>,
         pc[t] \notin {"flush", "call", "end"}, label \notin {"idle", "clean", "done"}
  PROVE  IInv'
  <1>1. /\ TInv /\ work' = work /\ flavor' = flavor /\ mu' = mu /\ attempts' = attempts
        /\ queue' = queue /\ closed' = closed /\ att' = att
        /\ pc' = [pc EXCEPT ![t] = label]
    BY Zenon DEF IInv, config, flushVars, attVars, Goto
  <1>2. TInv'
    BY <1>1, Zenon DEF TInv, flushVars
  <1>3. pc'[t] = label /\ \A u \in Threads : u # t => pc'[u] = pc[u]
    BY <1>1, Zenon DEF TInv
  <1>4. RoomInv' /\ LeftInv' /\ WakeInv'
    BY <1>1, Zenon DEF IInv, RoomInv, LeftInv, WakeInv
  <1>5. NoStrandedAttempt'
    <2>1. Flushing => Flushing'
      BY <1>1, <1>3, Zenon DEF Flushing
    <2> QED BY <1>1, <2>1, FrameBlocked, Zenon DEF IInv
  <1>6. PcInv'
    BY <1>1, <1>3, QueueConstants, Zenon DEF IInv, PcInv, Kind
  <1>7. PlacesInv'
    BY <1>1, FramePlaces, Zenon DEF IInv
  <1>8. CallsInv'
    <2>1. \A o \in Ops : (pc'[o] = "idle" => pc[o] = "idle") /\ (pc[o] = "end" => pc'[o] = "end")
      BY <1>3, Zenon DEF Threads
    <2> QED BY <1>1, <2>1, FrameCalls, Zenon DEF IInv
  <1> QED BY <1>2, <1>4, <1>5, <1>6, <1>7, <1>8, Zenon DEF IInv

\* FlushUnlocked takes mu_.
LEMMA BeginFlushIInv ==
  ASSUME IInv, NEW t \in Threads, BeginFlush(t)
  PROVE  IInv'
  <1>1. /\ TInv /\ work' = work /\ flavor' = flavor /\ attempts' = attempts
        /\ queue' = queue /\ closed' = closed /\ att' = att /\ pc' = pc /\ calls' = calls
        /\ todo' = todo /\ clean' = clean /\ pc[t] = "flush" /\ mu = Free
        /\ mu' = t /\ action' = "enqueue" /\ result' = "start" /\ changed' = FALSE
    BY Zenon DEF IInv, BeginFlush, config, threadVars, attVars
  <1>2. TInv'
    BY <1>1, Zenon DEF TInv, Actions
  <1>3. RoomInv' /\ LeftInv' /\ WakeInv' /\ NoStrandedAttempt'
    BY <1>1, QueueConstants, Zenon DEF IInv, RoomInv, LeftInv, WakeInv, NoStrandedAttempt, Flushing
  <1>4. PcInv'
    BY <1>1, Zenon DEF IInv, PcInv, Kind
  <1>5. PlacesInv' /\ CallsInv'
    BY <1>1, FramePlaces, FrameCalls, Zenon DEF IInv
  <1> QED BY <1>2, <1>3, <1>4, <1>5, Zenon DEF IInv

\* Cancel and CloseAndCancel mark pending attempts and take their callbacks.
LEMMA CancelsIInv ==
  ASSUME IInv, NEW t \in Threads, NEW P \in SUBSET Ops, NEW label \in {"call", "flush"},
         mu = Free, pc[t] # "end", Goto(t, label),
         \A p \in P : Queued(p) /\ ~att[p].cancelled,
         att' \in [Ops -> Attempt],
         \A p \in Ops : att'[p] = IF p \in P THEN [att[p] EXCEPT !.cancelled = TRUE] ELSE att[p],
         todo' = [todo EXCEPT ![t] = P],
         closed' \in BOOLEAN, closed => closed',
         UNCHANGED <<config, queue, attempts, calls, flushVars, clean>>
  PROVE  IInv'
  <1>1. /\ TInv /\ work' = work /\ flavor' = flavor /\ mu' = mu /\ attempts' = attempts
        /\ queue' = queue /\ pc' = [pc EXCEPT ![t] = label] /\ att \in [Ops -> Attempt]
        /\ todo' = [todo EXCEPT ![t] = P]
        /\ \A p : Queued(p)' = Queued(p) /\ Kind(p)' = Kind(p) /\ ActionOf(p)' = ActionOf(p)
    BY Zenon DEF IInv, TInv, config, flushVars, Goto, Queued, Kind, ActionOf
  <1>2. TInv'
    BY <1>1, Zenon DEF TInv, flushVars, Labels
  <1>3. /\ pc'[t] = label /\ \A u \in Threads : u # t => pc'[u] = pc[u]
        /\ todo'[t] = P /\ \A u \in Threads : u # t => todo'[u] = todo[u]
    BY <1>1, Zenon DEF TInv
  <1>4. \A p \in Ops : /\ att'[p].left = att[p].left
                       /\ att'[p].cancelled <=> p \in P \/ att[p].cancelled
    <2> SUFFICES ASSUME NEW p \in Ops
                 PROVE  /\ att'[p].left = att[p].left
                        /\ att'[p].cancelled <=> p \in P \/ att[p].cancelled
      BY Zenon
    <2>1. att[p] \in Attempt
      BY <1>1, Zenon
    <2> QED BY <2>1, AttemptFields, Zenon
  <1>5. RoomInv' /\ WakeInv' /\ NoStrandedAttempt'
    BY <1>1, <1>3, Zenon DEF IInv, RoomInv, WakeInv, NoStrandedAttempt, Flushing
  <1>6. LeftInv'
    <2>1. SeqSet(attempts["dequeue"]) \subseteq Ops
      BY <1>1, EmptySet, Zenon DEF TInv, Actions
    <2> QED BY <1>1, <1>4, <2>1, Zenon DEF IInv, LeftInv
  <1>7. PcInv'
    BY <1>1, <1>3, QueueConstants, Zenon DEF IInv, PcInv
  <1>8. PlacesInv'
    <2>1. \A u \in Threads : u # t => P \cap todo[u] = {}
      BY Zenon DEF IInv, CallsInv, CallsOf
    <2>2. \A u, v \in Threads : u # v => todo'[u] \cap todo'[v] = {}
      BY <1>3, <2>1 DEF IInv, PlacesInv
    <2> QED BY <1>1, <2>2, Zenon DEF IInv, PlacesInv
  <1>9. CallsInv'
    <2> SUFFICES ASSUME NEW p \in Ops PROVE CallsOf(p)'
      BY Zenon DEF CallsInv
    <2>1. CallsOf(p)
      BY Zenon DEF IInv, CallsInv
    <2>2. CASE p \in P
      <3>1. Queued(p) /\ calls[p] = 0 /\ att'[p].cancelled /\ pc[p] # "idle"
            /\ Kind(p) # "closeCancel" /\ \A u \in Threads : p \notin SeqSet(clean[u])
        BY <1>4, <2>1, <2>2, Zenon DEF CallsOf
      <3>2. pc'[p] # "idle"
        BY <1>3, <3>1, Zenon DEF Threads
      <3> QED BY <1>1, <3>1, <3>2, Zenon DEF CallsOf
    <2>3. CASE p \notin P
      <3>1. att'[p].cancelled = att[p].cancelled
        BY <2>3, Zenon
      <3>2. \A u \in Threads : p \in todo'[u] => p \in todo[u]
        BY <1>3, <2>3, Zenon
      <3>3. (pc'[p] = "idle" => pc[p] = "idle") /\ (pc[p] = "end" => pc'[p] = "end")
        BY <1>3, Zenon DEF Threads
      <3> QED BY <1>1, <2>1, <3>1, <3>2, <3>3, Zenon DEF CallsOf
    <2> QED BY <2>2, <2>3, Zenon
  <1> QED BY <1>2, <1>5, <1>6, <1>7, <1>8, <1>9, Zenon DEF IInv

\* CloseAndCancel cancels every enqueue and close that is pending.
LEMMA CloseAndCancelIInv ==
  ASSUME IInv, NEW o \in Ops, CloseAndCancel(o)
  PROVE  IInv'
  <1>1. PICK P \in SUBSET Ops : P = {p \in SeqSet(attempts["enqueue"]) : ~att[p].cancelled}
    <2>1. SeqSet(attempts["enqueue"]) \subseteq Ops
      BY EmptySet, Zenon DEF IInv, TInv, Actions
    <2> QED BY <2>1, Zenon
  <1>2. PICK label \in {"call", "flush"} : label = IF P = {} THEN "flush" ELSE "call"
    BY Zenon
  <1>3. /\ o \in Threads /\ mu = Free /\ pc[o] # "end" /\ Goto(o, label) /\ closed'
        /\ att' = [p \in Ops |-> IF p \in P THEN [att[p] EXCEPT !.cancelled = TRUE] ELSE att[p]]
        /\ todo' = [todo EXCEPT ![o] = P]
        /\ UNCHANGED <<config, queue, attempts, calls, flushVars, clean>>
    BY <1>1, <1>2, Zenon DEF CloseAndCancel, Threads
  <1>4. \A p \in P : Queued(p) /\ ~att[p].cancelled
    BY <1>1, Zenon DEF Queued, Actions
  <1>5. closed' = TRUE
    BY Zenon DEF CloseAndCancel
  <1>6. att' \in [Ops -> Attempt]
    <2>1. \A p \in Ops : att[p] \in Attempt /\ [att[p] EXCEPT !.cancelled = TRUE] \in Attempt
      BY AttemptFields, Zenon DEF IInv, TInv
    <2> QED BY <1>3, <2>1, Zenon
  <1> QED BY <1>3, <1>4, <1>5, <1>6, CancelsIInv, Zenon

\* QueueBase::Cancel, for an attempt that is pending and for one that is not.
LEMMA CancelIInv ==
  ASSUME IInv, NEW s \in Steps, NEW o \in Ops, Cancel(s, o)
  PROVE  IInv'
  <1>1. s \in Threads /\ mu = Free /\ pc[s] = "cancel" /\ closed' = closed
        /\ UNCHANGED <<config, queue, attempts, entered, delivered, calls, flushVars, clean>>
    BY Zenon DEF Cancel, Threads
  <1>2. CASE o \in SeqSet(attempts[ActionOf(o)]) /\ ~att[o].cancelled
    <2>1. /\ att' = [att EXCEPT ![o] = [att[o] EXCEPT !.cancelled = TRUE]]
          /\ todo' = [todo EXCEPT ![s] = {o}] /\ Goto(s, "call")
      BY <1>2, Zenon DEF Cancel
    <2>2. att \in [Ops -> Attempt] /\ [att[o] EXCEPT !.cancelled = TRUE] \in Attempt
      BY AttemptFields, Zenon DEF IInv, TInv
    <2>3. /\ att' \in [Ops -> Attempt]
          /\ \A p \in Ops : att'[p] = IF p \in {o} THEN [att[p] EXCEPT !.cancelled = TRUE]
                                                   ELSE att[p]
      BY <2>1, <2>2, Zenon
    <2>4. Queued(o) /\ closed \in BOOLEAN
      BY <1>2, Zenon DEF Queued, ActionOf, Actions, IInv, TInv
    <2> QED BY <1>1, <1>2, <2>1, <2>3, <2>4, CancelsIInv, Zenon
  <1>3. CASE ~(o \in SeqSet(attempts[ActionOf(o)]) /\ ~att[o].cancelled)
    <2>1. att' = att /\ todo' = todo /\ pc' = pc /\ work' = work /\ flavor' = flavor /\ mu' = mu
          /\ attempts' = attempts /\ queue' = queue
      BY <1>1, <1>3, Zenon DEF Cancel, config, flushVars
    <2>2. TInv' /\ RoomInv' /\ LeftInv' /\ WakeInv' /\ PcInv'
      BY <1>1, <2>1, QueueConstants, Zenon
         DEF IInv, TInv, RoomInv, LeftInv, WakeInv, PcInv, flushVars, Kind
    <2>3. NoStrandedAttempt'
      BY <1>1, <2>1, FrameBlocked, Zenon DEF IInv, Flushing
    <2>4. PlacesInv' /\ CallsInv'
      BY <1>1, <2>1, FramePlaces, FrameCalls, Zenon DEF IInv
    <2> QED BY <2>2, <2>3, <2>4, Zenon DEF IInv
  <1> QED BY <1>2, <1>3, Zenon

\* A callback that was taken is called.
LEMMA CallBackIInv ==
  ASSUME IInv, NEW t \in Threads, CallBack(t)
  PROVE  IInv'
  <1>1. PICK o \in todo[t] :
          /\ calls' = [calls EXCEPT ![o] = @ + 1] /\ todo' = [todo EXCEPT ![t] = @ \ {o}]
          /\ IF todo[t] = {o} THEN Goto(t, "flush") ELSE UNCHANGED pc
    BY Zenon DEF CallBack
  <1>2. /\ TInv /\ work' = work /\ flavor' = flavor /\ mu' = mu /\ mu = Free
        /\ attempts' = attempts /\ queue' = queue /\ closed' = closed /\ att' = att
        /\ clean' = clean /\ pc[t] = "call" /\ o \in Ops
        /\ UNCHANGED <<action, result, changed>>
    BY Zenon DEF IInv, TInv, CallBack, config, flushVars, attVars
  <1>3. /\ pc' \in [Threads -> Labels] /\ pc'[t] \in {"flush", "call"}
        /\ \A u \in Threads : u # t => pc'[u] = pc[u]
    BY <1>1, <1>2, Zenon DEF TInv, Goto, Labels
  <1>4. /\ CallsOf(o) /\ calls[o] = 0 /\ att[o].cancelled /\ pc[o] # "idle"
        /\ Kind(o) # "closeCancel" /\ \A u \in Threads : o \notin SeqSet(clean[u])
    BY <1>2, Zenon DEF IInv, CallsInv, CallsOf
  <1>5. /\ todo'[t] = todo[t] \ {o} /\ \A u \in Threads : u # t => todo'[u] = todo[u]
        /\ calls'[o] = 1 /\ \A p \in Ops : p # o => calls'[p] = calls[p]
        /\ calls' \in [Ops -> Nat] /\ todo' \in [Threads -> SUBSET Ops]
    BY <1>1, <1>2, <1>4 DEF TInv
  <1>6. TInv'
    BY <1>2, <1>3, <1>5, Zenon DEF TInv
  <1>7. RoomInv' /\ LeftInv' /\ WakeInv' /\ NoStrandedAttempt'
    BY <1>2, <1>3, Zenon DEF IInv, RoomInv, LeftInv, WakeInv, NoStrandedAttempt, Flushing
  <1>8. PcInv'
    BY <1>2, <1>3, QueueConstants, Zenon DEF IInv, PcInv, Kind
  <1>9. PlacesInv'
    <2>1. \A p : ActionOf(p)' = ActionOf(p)
      BY <1>2, Zenon DEF ActionOf, Kind
    <2>2. \A u, v \in Threads : u # v => todo'[u] \cap todo'[v] = {}
      BY <1>5, Zenon DEF IInv, PlacesInv
    <2> QED BY <1>2, <2>1, <2>2, Zenon DEF IInv, PlacesInv
  <1>10. CallsInv'
    <2> SUFFICES ASSUME NEW p \in Ops PROVE CallsOf(p)'
      BY Zenon DEF CallsInv
    <2>1. CallsOf(p) /\ (Queued(p)' <=> Queued(p)) /\ Kind(p)' = Kind(p)
      BY <1>2, Zenon DEF IInv, CallsInv, Queued, Kind
    <2>2. (pc'[p] = "idle" => pc[p] = "idle") /\ (pc[p] = "end" => pc'[p] = "end")
      BY <1>2, <1>3, Zenon DEF Threads
    <2>3. CASE p = o
      <3>1. \A u \in Threads : o \notin todo'[u]
        BY <1>1, <1>5, Zenon DEF IInv, PlacesInv
      <3> QED BY <1>2, <1>4, <1>5, <2>1, <2>2, <2>3, <3>1, Zenon DEF CallsOf
    <2>4. CASE p # o
      <3>1. \A u \in Threads : p \in todo'[u] => p \in todo[u]
        BY <1>5, Zenon
      <3> QED BY <1>2, <1>5, <2>1, <2>2, <2>4, <3>1, Zenon DEF CallsOf
    <2> QED BY <2>3, <2>4, Zenon
  <1> QED BY <1>6, <1>7, <1>8, <1>9, <1>10, Zenon DEF IInv

\* Where a thread goes after a flush.
LEMMA AfterFlushFacts ==
  ASSUME NEW t \in Threads, NEW cs
  PROVE  /\ AfterFlush(t, cs) \in {"clean", "cancel", "done", "end"}
         /\ AfterFlush(t, cs) = "clean" => cs # <<>>
         /\ AfterFlush(t, cs) = "done" => t \in Ops /\ Kind(t) = "closeCancel"
         /\ t \in Ops /\ Kind(t) = "closeCancel" => AfterFlush(t, cs) # "end"
  <1>1. CASE cs # <<>>
    BY <1>1, QueueConstants, Zenon DEF AfterFlush
  <1>2. CASE cs = <<>> /\ t \in Steps
    BY <1>2, QueueConstants, Zenon DEF AfterFlush, Ops, Steps
  <1>3. CASE cs = <<>> /\ t \in Ops /\ Kind(t) = "closeCancel"
    BY <1>3, QueueConstants, Zenon DEF AfterFlush, Ops, Steps
  <1>4. CASE cs = <<>> /\ t \in Ops /\ Kind(t) # "closeCancel"
    BY <1>4, QueueConstants, Zenon DEF AfterFlush, Ops, Steps
  <1> QED BY <1>1, <1>2, <1>3, <1>4, Zenon DEF Threads

\* A complete operation is deregistered and called back.
LEMMA CleanUpIInv ==
  ASSUME IInv, NEW t \in Threads, CleanUp(t)
  PROVE  IInv'
  <1>1. /\ TInv /\ work' = work /\ flavor' = flavor /\ mu' = mu /\ mu = Free
        /\ attempts' = attempts /\ queue' = queue /\ closed' = closed /\ att' = att
        /\ todo' = todo /\ pc[t] = "clean" /\ clean[t] # <<>> /\ clean[t] \in Seq(Ops)
        /\ Uniq(clean[t]) /\ UNCHANGED <<action, result, changed>>
    BY Zenon DEF IInv, TInv, PcInv, PlacesInv, CleanUp, config, flushVars, attVars
  <1>2. PICK o \in Ops : o = Head(clean[t])
    BY <1>1, TailFacts, Zenon
  <1>3. /\ o \in SeqSet(clean[t]) /\ Tail(clean[t]) \in Seq(Ops) /\ Uniq(Tail(clean[t]))
        /\ SeqSet(Tail(clean[t])) = SeqSet(clean[t]) \ {o}
    BY <1>1, <1>2, TailFacts, Zenon
  <1>4. PICK label \in {"clean", "cancel", "done", "end"} : label = AfterFlush(t, Tail(clean[t]))
    BY AfterFlushFacts, Zenon
  <1>5. /\ calls' = [calls EXCEPT ![o] = @ + 1]
        /\ clean' = [clean EXCEPT ![t] = Tail(clean[t])]
        /\ pc' = [pc EXCEPT ![t] = label]
    BY <1>2, <1>4, Zenon DEF CleanUp, Goto
  <1>6. /\ CallsOf(o) /\ calls[o] = 0 /\ ~att[o].cancelled /\ ~Queued(o) /\ pc[o] # "idle"
        /\ Kind(o) # "closeCancel" /\ \A u \in Threads : o \notin todo[u]
    BY <1>3, Zenon DEF IInv, CallsInv, CallsOf
  <1>7. /\ calls'[o] = 1 /\ \A p \in Ops : p # o => calls'[p] = calls[p]
        /\ clean'[t] = Tail(clean[t]) /\ \A u \in Threads : u # t => clean'[u] = clean[u]
        /\ pc'[t] = label /\ \A u \in Threads : u # t => pc'[u] = pc[u]
    BY <1>1, <1>5, <1>6 DEF TInv
  <1>8. TInv'
    BY <1>1, <1>3, <1>5 DEF TInv, Labels
  <1>9. RoomInv' /\ LeftInv' /\ WakeInv'
    BY <1>1, Zenon DEF IInv, RoomInv, LeftInv, WakeInv
  <1>10. NoStrandedAttempt'
    <2>1. Flushing => Flushing'
      BY <1>1, <1>7, Zenon DEF Flushing
    <2> QED BY <1>1, <2>1, FrameBlocked, Zenon DEF IInv
  <1>11. PcInv'
    <2>1. /\ label = "clean" => clean'[t] # <<>>
          /\ label = "done" => t \in Ops /\ Kind(t) = "closeCancel"
      BY <1>4, <1>7, AfterFlushFacts, Zenon
    <2> QED BY <1>1, <1>7, <2>1, QueueConstants, Zenon DEF IInv, PcInv, Kind
  <1>12. PlacesInv'
    <2>1. \A p : ActionOf(p)' = ActionOf(p)
      BY <1>1, Zenon DEF ActionOf, Kind
    <2>2. \A u \in Threads : Uniq(clean'[u])
      BY <1>3, <1>7, Zenon DEF IInv, PlacesInv
    <2>3. \A u, v \in Threads : u # v => SeqSet(clean'[u]) \cap SeqSet(clean'[v]) = {}
      BY <1>3, <1>7 DEF IInv, PlacesInv
    <2> QED BY <1>1, <2>1, <2>2, <2>3, Zenon DEF IInv, PlacesInv
  <1>13. CallsInv'
    <2> SUFFICES ASSUME NEW p \in Ops PROVE CallsOf(p)'
      BY Zenon DEF CallsInv
    <2>1. CallsOf(p) /\ (Queued(p)' <=> Queued(p)) /\ Kind(p)' = Kind(p)
      BY <1>1, Zenon DEF IInv, CallsInv, Queued, Kind
    <2>2. pc'[p] = "idle" => pc[p] = "idle"
      BY <1>1, <1>7, Zenon DEF Threads
    <2>3. \A u \in Threads : p \in SeqSet(clean'[u]) => p \in SeqSet(clean[u]) /\ p # o
      BY <1>3, <1>7 DEF IInv, PlacesInv
    <2>4. CASE p = o
      BY <1>1, <1>6, <1>7, <2>1, <2>2, <2>3, <2>4, Zenon DEF CallsOf
    <2>5. CASE p # o
      <3>1. Kind(p) = "closeCancel" /\ pc'[p] # "end" => pc[p] # "end"
        BY <1>1, <1>7, AfterFlushFacts, Zenon DEF Threads
      <3> QED BY <1>1, <1>7, <2>1, <2>2, <2>3, <2>5, <3>1, Zenon DEF CallsOf
    <2> QED BY <2>4, <2>5, Zenon
  <1> QED BY <1>8, <1>9, <1>10, <1>11, <1>12, <1>13, Zenon DEF IInv

\* An attempt that was cancelled is dropped.
LEMMA SkipCancelledIInv ==
  ASSUME IInv, NEW t \in Threads, SkipCancelled(t)
  PROVE  IInv'
  <1>1. /\ TInv /\ work' = work /\ flavor' = flavor /\ mu' = mu /\ mu = t
        /\ queue' = queue /\ closed' = closed /\ att' = att /\ calls' = calls
        /\ todo' = todo /\ clean' = clean /\ pc' = pc
        /\ UNCHANGED <<action, result, changed>>
        /\ attempts' = [attempts EXCEPT ![action] = Tail(attempts[action])]
        /\ action \in Actions /\ attempts[action] \in Seq(Ops) /\ attempts[action] # <<>>
        /\ att[Front].cancelled
    BY Zenon DEF IInv, TInv, SkipCancelled, config, flushVars, threadVars
  <1>2. /\ Tail(attempts[action]) \in Seq(Ops)
        /\ SeqSet(Tail(attempts[action])) \subseteq SeqSet(attempts[action])
        /\ Uniq(attempts[action]) => Uniq(Tail(attempts[action]))
    BY <1>1, TailFacts, Zenon
  <1>3. /\ attempts' \in [Actions -> Seq(Ops)]
        /\ attempts'[action] = Tail(attempts[action])
        /\ \A a \in Actions : a # action => attempts'[a] = attempts[a]
    BY <1>1, <1>2, Zenon DEF TInv
  <1>4. \A a \in Actions : SeqSet(attempts'[a]) \subseteq SeqSet(attempts[a])
    BY <1>2, <1>3, Zenon
  <1>5. TInv'
    BY <1>1, <1>3, Zenon DEF TInv
  <1>6. RoomInv' /\ NoStrandedAttempt' /\ PcInv'
    BY <1>1, QueueConstants, Zenon DEF IInv, RoomInv, NoStrandedAttempt, Flushing, PcInv, Kind
  <1>7. LeftInv'
    BY <1>1, <1>4, Zenon DEF IInv, LeftInv, Actions
  <1>8. WakeInv'
    <2>1. action # "enqueue" => attempts'["enqueue"] = attempts["enqueue"]
      BY <1>3, Zenon DEF Actions
    <2>2. result = "start"
      BY <1>1, QueueConstants, Zenon DEF IInv, WakeInv, TInv
    <2> QED BY <1>1, <2>1, <2>2, Zenon DEF IInv, WakeInv, EnqueueBlocked, Kind
  <1>9. PlacesInv'
    <2>1. \A p : ActionOf(p)' = ActionOf(p)
      BY <1>1, Zenon DEF ActionOf, Kind
    <2>2. \A a \in Actions : Uniq(attempts'[a])
      BY <1>2, <1>3, Zenon DEF IInv, PlacesInv
    <2> QED BY <1>1, <1>4, <2>1, <2>2, Zenon DEF IInv, PlacesInv
  <1>10. CallsInv'
    <2> SUFFICES ASSUME NEW p \in Ops PROVE CallsOf(p)'
      BY Zenon DEF CallsInv
    <2>1. CallsOf(p) /\ (Queued(p)' => Queued(p)) /\ Kind(p)' = Kind(p)
      BY <1>1, <1>4, Zenon DEF IInv, CallsInv, Queued, Kind
    <2> QED BY <1>1, <2>1, Zenon DEF CallsOf
  <1> QED BY <1>5, <1>6, <1>7, <1>8, <1>9, <1>10, Zenon DEF IInv

\* A flush goes on to the dequeues, to another round, or to its end: it may only
\* end when both fronts are blocked.
LEMMA NextActionIInv ==
  ASSUME IInv, NEW t \in Threads, NEW progress \in BOOLEAN, mu = t, NextAction(t, progress),
         action = "enqueue" => EnqueueBlocked,
         action = "dequeue" /\ ~progress => result = "start" /\ DequeueBlocked
  PROVE  IInv'
  <1>1. /\ TInv /\ work' = work /\ flavor' = flavor /\ attempts' = attempts
        /\ queue' = queue /\ closed' = closed /\ att' = att /\ calls' = calls
        /\ todo' = todo /\ clean' = clean /\ pc[t] = "flush" /\ result' = "start"
    BY Zenon DEF IInv, PcInv, NextAction, config, attVars
  <1>2. RoomInv' /\ LeftInv' /\ PlacesInv'
    BY <1>1, FramePlaces, Zenon DEF IInv, RoomInv, LeftInv
  <1>3. (EnqueueBlocked => EnqueueBlocked') /\ (DequeueBlocked => DequeueBlocked')
    BY <1>1, Zenon DEF EnqueueBlocked, DequeueBlocked, Available, Kind
  <1>4. CASE action = "enqueue" \/ changed \/ progress
    <2>1. /\ mu' = mu /\ pc' = pc /\ action' \in Actions /\ changed' \in BOOLEAN
          /\ action' = "dequeue" => EnqueueBlocked
      BY <1>1, <1>4, Zenon DEF NextAction, TInv, Actions
    <2>2. TInv'
      BY <1>1, <2>1, Zenon DEF TInv
    <2>3. PcInv' /\ WakeInv' /\ NoStrandedAttempt'
      BY <1>1, <1>3, <2>1, QueueConstants, Zenon
         DEF IInv, PcInv, WakeInv, NoStrandedAttempt, Flushing, Kind
    <2>4. CallsInv'
      BY <1>1, <2>1, FrameCalls, Zenon DEF IInv
    <2> QED BY <1>2, <2>2, <2>3, <2>4, Zenon DEF IInv
  <1>5. CASE action = "dequeue" /\ ~changed /\ ~progress
    <2>1. PICK label \in {"clean", "cancel", "done", "end"} : label = AfterFlush(t, clean[t])
      BY AfterFlushFacts, Zenon
    <2>2. mu' = Free /\ action' = "enqueue" /\ changed' = FALSE /\ pc' = [pc EXCEPT ![t] = label]
      BY <1>5, <2>1, Zenon DEF NextAction, Goto
    <2>3. TInv'
      BY <1>1, <2>2, Zenon DEF TInv, Labels, Actions
    <2>4. pc'[t] = label /\ \A u \in Threads : u # t => pc'[u] = pc[u]
      BY <1>1, <2>2, Zenon DEF TInv
    <2>5. EnqueueBlocked /\ DequeueBlocked
      BY <1>5, QueueConstants, Zenon DEF IInv, WakeInv
    <2>6. WakeInv' /\ NoStrandedAttempt'
      BY <1>3, <2>2, <2>5, Zenon DEF WakeInv, NoStrandedAttempt
    <2>7. PcInv'
      <3>1. /\ label = "clean" => clean[t] # <<>>
            /\ label = "done" => t \in Ops /\ Kind(t) = "closeCancel"
        BY <2>1, AfterFlushFacts, Zenon
      <3> QED BY <1>1, <2>2, <2>4, <3>1, QueueConstants, Zenon DEF IInv, PcInv, Kind
    <2>8. CallsInv'
      <3>1. \A o \in Ops : (pc'[o] = "idle" => pc[o] = "idle") /\ (pc[o] = "end" => pc'[o] = "end")
        BY <1>1, <2>4, Zenon DEF Threads
      <3> QED BY <1>1, <3>1, FrameCalls, Zenon DEF IInv
    <2> QED BY <1>2, <2>3, <2>6, <2>7, <2>8, Zenon DEF IInv
  <1> QED BY <1>4, <1>5, Zenon DEF IInv, TInv, Actions

\* The three ways in which TryAttemptLocked is done with an action.
LEMMA AttemptsDoneIInv ==
  ASSUME IInv, NEW t \in Threads, AttemptsDone(t)
  PROVE  IInv'
  <1>1. TInv /\ LeftInv
    BY Zenon DEF IInv
  <1>2. CASE mu = t /\ attempts[action] = <<>> /\ NextAction(t, FALSE)
    <2>1. result = "start"
      BY <1>1, <1>2, QueueConstants, Zenon DEF IInv, WakeInv, TInv
    <2>2. (action = "enqueue" => EnqueueBlocked) /\ (action = "dequeue" => DequeueBlocked)
      BY <1>2, Zenon DEF EnqueueBlocked, DequeueBlocked
    <2> QED BY <1>2, <2>1, <2>2, NextActionIInv, Zenon
  <1>3. CASE EnqueueFull(t) /\ NextAction(t, result = "progress")
    <2>1. mu = t /\ action = "enqueue" /\ EnqueueBlocked
      BY <1>3, Zenon DEF EnqueueFull, Runs, EnqueueBlocked, Front
    <2> QED BY <1>3, <2>1, NextActionIInv, Zenon
  <1>4. CASE /\ Runs(t, "dequeue") /\ ~DequeueExhausted /\ DequeueWaits
             /\ NextAction(t, result = "progress")
    <2>1. /\ mu = t /\ action = "dequeue" /\ attempts[action] # <<>>
          /\ Front = Head(attempts["dequeue"])
      BY <1>4, Zenon DEF Runs, Front
    <2>2. Front \in Ops /\ att[Front].left \in Int /\ att[Front].left > 0
      BY <1>1, <2>1, FrontFacts, Zenon DEF LeftInv, TInv, Attempt
    <2>3. Len(queue) \in Nat /\ flavor \in Flavors
      BY <1>1 DEF TInv
    <2>4. ASSUME result = "start" PROVE DequeueBlocked
      <3>1. CASE closed
        BY <1>4, <2>2, <2>3, <2>4, <3>1, Zenon DEF DequeueExhausted, DequeueWaits, Available
      <3>2. CASE ~closed
        BY <1>4, <2>1, <2>2, <2>3, <2>4, <3>2, Zenon DEF DequeueWaits, DequeueBlocked
      <3> QED BY <3>1, <3>2, Zenon
    <2>5. result # "progress" => result = "start"
      BY <1>1, Zenon DEF TInv
    <2> QED BY <1>4, <2>1, <2>4, <2>5, NextActionIInv, Zenon
  <1> QED BY <1>2, <1>3, <1>4, Zenon DEF AttemptsDone

\* A run callback that returns kComplete.
LEMMA CompletesIInv ==
  ASSUME IInv, NEW t \in Threads, NEW act, NEW s, Runs(t, act), Complete(t, s),
         UNCHANGED <<config, calls, pc, todo>>,
         queue' \in Seq(Elements), closed' \in BOOLEAN, RoomInv',
         att' \in [Ops -> Attempt], \A p \in Ops : p # Front => att'[p] = att[p],
         att'[Front].cancelled = att[Front].cancelled
  PROVE  IInv'
  <1>1. /\ TInv /\ PlacesInv /\ CallsInv /\ LeftInv /\ PcInv
        /\ work' = work /\ flavor' = flavor /\ act \in Actions
    BY Zenon DEF IInv, config, Runs, TInv
  <1>2. /\ attempts' \in [Actions -> Seq(Ops)] /\ clean' \in [Threads -> Seq(Ops)]
        /\ mu = t /\ action' = action /\ mu' = mu /\ changed' = TRUE /\ result' = "start"
        /\ Front \in Ops /\ Front \in SeqSet(attempts[act])
        /\ SeqSet(attempts'[act]) = SeqSet(attempts[act]) \ {Front}
        /\ \A a \in Actions : a # act => attempts'[a] = attempts[a]
        /\ clean'[t] # <<>> /\ \A u \in Threads : u # t => clean'[u] = clean[u]
    BY <1>1, CompleteFacts, Zenon
  <1>3. TInv'
    BY <1>1, <1>2, Zenon DEF TInv
  <1>4. WakeInv' /\ NoStrandedAttempt'
    BY <1>2, QueueConstants, Zenon DEF WakeInv, NoStrandedAttempt, Flushing
  <1>5. PcInv'
    BY <1>1, <1>2, Zenon DEF PcInv, Kind
  <1>6. LeftInv'
    <2> SUFFICES ASSUME NEW p \in SeqSet(attempts'["dequeue"]) PROVE att'[p].left > 0
      BY Zenon DEF LeftInv
    <2>1. p \in SeqSet(attempts["dequeue"]) /\ p # Front
      BY <1>1, <1>2, Zenon DEF PlacesInv, Actions
    <2>2. p \in Ops
      BY <1>1, <2>1, EmptySet, Zenon DEF TInv, Actions
    <2> QED BY <1>1, <2>1, <2>2, Zenon DEF LeftInv
  <1>7. PlacesInv' /\ CallsInv'
    <2>1. \A o \in Ops : att'[o].cancelled = att[o].cancelled
      BY Zenon
    <2> QED BY <1>1, <2>1, CompletePlaces, Zenon
  <1> QED BY <1>3, <1>4, <1>5, <1>6, <1>7, Zenon DEF IInv

\* A run callback that goes on with its batch.
LEMMA ProgressIInv ==
  ASSUME IInv, NEW t \in Threads, NEW act, Runs(t, act),
         UNCHANGED <<config, closed, attempts, calls, pc, todo, clean, mu, action, changed>>,
         queue' \in Seq(Elements), RoomInv',
         result' = "progress" \/ (closed /\ result' = result /\ result = "start"),
         att' \in [Ops -> Attempt], \A p \in Ops : p # Front => att'[p] = att[p],
         att'[Front].cancelled = att[Front].cancelled,
         act = "dequeue" => att'[Front].left > 0
  PROVE  IInv'
  <1>1. /\ TInv /\ PlacesInv /\ CallsInv /\ LeftInv /\ PcInv /\ WakeInv
        /\ work' = work /\ flavor' = flavor /\ act \in Actions /\ action = act /\ mu = t
        /\ attempts[act] # <<>> /\ ~att[Front].cancelled
    BY Zenon DEF IInv, config, Runs, TInv
  <1>2. PICK f \in Ops : f = Front /\ f \in SeqSet(attempts[act])
    BY <1>1, FrontFacts, Zenon
  <1>3. TInv'
    BY <1>1, Zenon DEF TInv
  <1>4. Front' = Front /\ \A o \in Ops : att'[o].cancelled = att[o].cancelled
    BY Zenon DEF Front
  <1>5. NoStrandedAttempt' /\ PcInv'
    BY <1>1, QueueConstants, Zenon DEF NoStrandedAttempt, Flushing, PcInv, Kind
  <1>6. WakeInv'
    <2>1. CASE result' = "progress"
      BY <1>1, <1>4, <2>1, Zenon DEF WakeInv
    <2>2. CASE closed /\ result' = result /\ result = "start"
      <3>1. attempts["enqueue"] # <<>> => Head(attempts["enqueue"]) \in Ops
        BY <1>1, TailFacts, Zenon DEF TInv, Actions
      <3>2. EnqueueBlocked => EnqueueBlocked'
        BY <1>4, <2>2, <3>1, Zenon DEF EnqueueBlocked
      <3> QED BY <1>1, <2>2, <3>2, Zenon DEF WakeInv
    <2> QED BY <2>1, <2>2, Zenon
  <1>7. LeftInv'
    <2> SUFFICES ASSUME NEW p \in SeqSet(attempts["dequeue"]) PROVE att'[p].left > 0
      BY Zenon DEF LeftInv
    <2>1. p \in Ops /\ att[p].left > 0
      BY <1>1, EmptySet, Zenon DEF TInv, Actions, LeftInv
    <2>2. p = Front => act = "dequeue"
      BY <1>1, <1>2, Zenon DEF PlacesInv, Actions
    <2> QED BY <2>1, <2>2, Zenon
  <1>8. PlacesInv' /\ CallsInv'
    BY <1>1, <1>4, FramePlaces, FrameCalls, Zenon
  <1> QED BY <1>3, <1>5, <1>6, <1>7, <1>8, Zenon DEF IInv

\* f is att with the needs and the tuple of the front attempt replaced.
UpdatesFront(f, left) ==
    /\ f \in [Ops -> Attempt] /\ \A p \in Ops : p # Front => f[p] = att[p]
    /\ f[Front].cancelled = att[Front].cancelled /\ f[Front].left = left

\* An update of these two fields is such a replacement.
LEMMA FrontUpdate ==
  ASSUME TInv, attempts[action] # <<>>
  PROVE  /\ \A n \in Int : UpdatesFront([att EXCEPT ![Front].left = n], n)
         /\ \A tuple \in Seq(Elements) :
              UpdatesFront([att EXCEPT ![Front].tuple = tuple], att[Front].left)
         /\ \A n \in Int, tuple \in Seq(Elements) :
              UpdatesFront([att EXCEPT ![Front].left = n, ![Front].tuple = tuple], n)
         /\ \A n \in Int, tuple \in Seq(Elements) :
              UpdatesFront([att EXCEPT ![Front].tuple = tuple, ![Front].left = n], n)
         /\ UpdatesFront(att, att[Front].left)
  <1>1. Front \in Ops /\ att \in [Ops -> Attempt] /\ att[Front] \in Attempt
    BY FrontFacts, Zenon DEF TInv
  <1> QED BY <1>1, Zenon DEF Attempt, UpdatesFront

\* The run callbacks of Close and of an enqueue that comes too late.
LEMMA ClosingIInv ==
  ASSUME IInv, NEW t \in Threads, RunClose(t) \/ EnqueueClosed(t)
  PROVE  IInv'
  <1>1. PICK s : Complete(t, s)
    BY Zenon DEF RunClose, EnqueueClosed
  <1>2. /\ TInv /\ Runs(t, "enqueue") /\ attempts[action] # <<>> /\ queue' = queue /\ att' = att
        /\ UNCHANGED <<config, calls, pc, todo>> /\ closed' \in BOOLEAN /\ (closed => closed')
    BY Zenon DEF RunClose, EnqueueClosed, Runs, IInv, TInv
  <1>3. queue' \in Seq(Elements) /\ RoomInv'
    BY <1>2, Zenon DEF IInv, RoomInv, TInv
  <1>4. UpdatesFront(att', att[Front].left)
    BY <1>2, FrontUpdate, Zenon
  <1> QED BY <1>1, <1>2, <1>3, <1>4, CompletesIInv, Zenon DEF UpdatesFront

\* One element enters the queue.
LEMMA EnqueueElementIInv ==
  ASSUME IInv, NEW t \in Threads, EnqueueElement(t)
  PROVE  IInv'
  <1> DEFINE left == att[Front].left
             e == Element(Front, work[Front].n - left + 1)
  <1>1. /\ TInv /\ Runs(t, "enqueue") /\ attempts[action] # <<>> /\ ~closed
        /\ Len(queue) < Capacity /\ queue' = Append(queue, e)
        /\ att' = [att EXCEPT ![Front].left = left - 1]
        /\ UNCHANGED <<config, closed, calls, pc, todo>>
    BY Zenon DEF EnqueueElement, Runs, IInv
  <1>2. Front \in Ops /\ left \in Int /\ e \in Elements /\ queue \in Seq(Elements)
    <2>1. Front \in Ops
      BY <1>1, FrontFacts, Zenon
    <2>2. left \in Int /\ work[Front].n \in Int /\ queue \in Seq(Elements)
      BY <1>1, <2>1 DEF TInv, Attempt
    <2> QED BY <2>1, <2>2 DEF Element, Elements
  <1>3. queue' \in Seq(Elements) /\ Len(queue') = Len(queue) + 1
    BY <1>1, <1>2, AppendFacts, Zenon
  <1>4. RoomInv'
    BY <1>1, <1>2, <1>3, QueueConstants DEF RoomInv
  <1>5. UpdatesFront(att', left - 1)
    <2>1. left - 1 \in Int
      BY <1>2
    <2> QED BY <1>1, <2>1, FrontUpdate, Zenon
  <1>6. CASE left = 1
    <2>1. Complete(t, "OK") /\ closed' \in BOOLEAN
      BY <1>1, <1>6, Zenon DEF EnqueueElement, TInv
    <2> QED BY <1>1, <1>3, <1>4, <1>5, <2>1, CompletesIInv, Zenon DEF UpdatesFront
  <1>7. CASE left # 1
    <2>1. result' = "progress" /\ UNCHANGED <<attempts, clean, mu, action, changed>>
      BY <1>7, Zenon DEF EnqueueElement
    <2> QED BY <1>1, <1>3, <1>4, <1>5, <2>1, ProgressIInv, Zenon DEF UpdatesFront
  <1> QED BY <1>6, <1>7, Zenon

\* A dequeue of a closed queue gives up.
LEMMA DequeueTooFewIInv ==
  ASSUME IInv, NEW t \in Threads, DequeueTooFew(t)
  PROVE  IInv'
  <1>1. /\ TInv /\ Runs(t, "dequeue") /\ attempts[action] # <<>> /\ closed
        /\ Complete(t, "OutOfRange") /\ UNCHANGED <<config, closed, calls, pc, todo>>
    BY Zenon DEF DequeueTooFew, DequeueExhausted, OutOfRange, Runs, IInv
  <1>2. queue' = queue \/ queue' = Restored
    BY Zenon DEF DequeueTooFew
  <1>3. queue' \in Seq(Elements) /\ closed' \in BOOLEAN /\ RoomInv'
    BY <1>1, <1>2, FrontFacts, RestoredFacts, Zenon DEF TInv, RoomInv
  <1>4. UpdatesFront(att', att[Front].left)
    <2>1. att' = att \/ att' = [att EXCEPT ![Front].tuple = <<>>]
      BY Zenon DEF DequeueTooFew
    <2>2. <<>> \in Seq(Elements)
      OBVIOUS
    <2> QED BY <1>1, <2>1, <2>2, FrontUpdate, Zenon
  <1> QED BY <1>1, <1>3, <1>4, CompletesIInv, Zenon DEF UpdatesFront

\* A small batch asks for what is left.
LEMMA DequeueSmallBatchIInv ==
  ASSUME IInv, NEW t \in Threads, DequeueSmallBatch(t)
  PROVE  IInv'
  <1>1. /\ TInv /\ Runs(t, "dequeue") /\ attempts[action] # <<>> /\ closed
        /\ result = "start" /\ result' = result
        /\ UNCHANGED <<config, closed, attempts, calls, pc, todo, clean, mu, action, changed>>
        /\ queue' = Restored /\ Restored # <<>>
        /\ att' = [att EXCEPT ![Front].tuple = <<>>, ![Front].left = Len(Restored)]
    BY Zenon DEF DequeueSmallBatch, DequeueExhausted, Runs, IInv, flushVars, threadVars
  <1>2. Restored \in Seq(Elements) /\ Len(Restored) \in Int /\ Len(Restored) > 0
    <2>1. Restored \in Seq(Elements)
      BY <1>1, FrontFacts, RestoredFacts, Zenon
    <2> QED BY <1>1, <2>1
  <1>3. RoomInv'
    BY <1>1, Zenon DEF RoomInv
  <1>4. UpdatesFront(att', Len(Restored))
    <2>1. <<>> \in Seq(Elements)
      OBVIOUS
    <2> QED BY <1>1, <1>2, <2>1, FrontUpdate, Zenon
  <1> QED BY <1>1, <1>2, <1>3, <1>4, ProgressIInv, Zenon DEF UpdatesFront

\* One element leaves the queue for a batch, never more than may be taken.
LEMMA DequeueElementFacts ==
  ASSUME TInv, NEW t \in Threads, DequeueElement(t)
  PROVE  /\ queue' \in Seq(Elements) /\ Len(queue') = Len(queue) - 1
         /\ flavor = "shuffle" /\ ~closed => Len(queue) > MinAfterDequeue
         /\ \E e \in Elements :
              IF att[Front].left = 1
              THEN Complete(t, "OK") /\ att' = [att EXCEPT ![Front].left = 0, ![Front].tuple = <<>>]
              ELSE /\ result' = "progress"
                   /\ att' = [att EXCEPT ![Front].left = att[Front].left - 1,
                                         ![Front].tuple = Append(att[Front].tuple, e)]
                   /\ UNCHANGED <<attempts, clean, mu, action, changed>>
  <1>1. PICK i \in Choices :
          /\ queue' = Without(queue, i)
          /\ IF att[Front].left = 1
             THEN Complete(t, "OK") /\ att' = [att EXCEPT ![Front].left = 0, ![Front].tuple = <<>>]
             ELSE /\ result' = "progress"
                  /\ att' = [att EXCEPT ![Front].left = att[Front].left - 1,
                                        ![Front].tuple = Append(att[Front].tuple, queue[i])]
                  /\ UNCHANGED <<attempts, clean, mu, action, changed>>
    BY Zenon DEF DequeueElement
  <1>2. queue \in Seq(Elements) /\ Len(queue) \in Nat /\ DOMAIN queue = 1..Len(queue)
    BY DEF TInv
  <1>3. Available # 0
    BY Zenon DEF DequeueElement, DequeueWaits
  <1>4. Len(queue) > 0 /\ (flavor = "shuffle" /\ ~closed => Len(queue) > MinAfterDequeue)
    <2>1. MinAfterDequeue \in Nat
      BY QueueConstants, Zenon
    <2>2. CASE flavor = "shuffle" /\ ~closed
      <3>1. Available = IF Len(queue) > MinAfterDequeue THEN Len(queue) - MinAfterDequeue ELSE 0
        BY <2>2, Zenon DEF Available
      <3>2. Len(queue) > MinAfterDequeue
        BY <1>3, <3>1, Zenon
      <3> QED BY <1>2, <2>1, <3>2
    <2>3. CASE ~(flavor = "shuffle" /\ ~closed)
      <3>1. Available = Len(queue)
        BY <2>3, Zenon DEF Available
      <3>2. Len(queue) > 0
        BY <1>2, <1>3, <3>1
      <3> QED BY <2>3, <3>2, Zenon
    <2> QED BY <2>2, <2>3, Zenon
  <1>5. i \in 1..Len(queue)
    <2>1. flavor \in {"fifo", "shuffle", "priority"}
      BY Zenon DEF TInv, Flavors
    <2> QED BY <1>1, <1>2, <1>4, <2>1 DEF Choices
  <1>6. queue[i] \in Elements
    BY <1>2, <1>5
  <1>7. queue' \in Seq(Elements) /\ Len(queue') = Len(queue) - 1
    BY <1>1, <1>2, <1>5, WithoutFacts, Zenon
  <1> QED BY <1>1, <1>4, <1>6, <1>7, Zenon

\* A dequeue takes one element.
LEMMA DequeueElementIInv ==
  ASSUME IInv, NEW t \in Threads, DequeueElement(t)
  PROVE  IInv'
  <1>1. /\ TInv /\ Runs(t, "dequeue") /\ attempts[action] # <<>>
        /\ UNCHANGED <<config, closed, calls, pc, todo>> /\ action = "dequeue"
    BY Zenon DEF DequeueElement, Runs, IInv
  <1>2. queue' \in Seq(Elements) /\ Len(queue') = Len(queue) - 1 /\ closed' \in BOOLEAN
    BY <1>1, DequeueElementFacts, Zenon DEF TInv
  <1>3. RoomInv'
    BY <1>1, <1>2, QueueConstants DEF IInv, RoomInv, TInv
  <1>4. /\ Front \in Ops /\ att[Front].tuple \in Seq(Elements)
        /\ att[Front].left \in Int /\ att[Front].left > 0
    BY <1>1, FrontFacts, Zenon DEF IInv, LeftInv, TInv, Attempt
  <1>5. CASE att[Front].left = 1
    <2>1. Complete(t, "OK") /\ att' = [att EXCEPT ![Front].left = 0, ![Front].tuple = <<>>]
      BY <1>1, <1>5, DequeueElementFacts, Zenon
    <2>2. UpdatesFront(att', 0)
      <3>1. 0 \in Int /\ <<>> \in Seq(Elements)
        OBVIOUS
      <3> QED BY <1>1, <2>1, <3>1, FrontUpdate, Zenon
    <2> QED BY <1>1, <1>2, <1>3, <2>1, <2>2, CompletesIInv, Zenon DEF UpdatesFront
  <1>6. CASE att[Front].left # 1
    <2>1. PICK e \in Elements :
            /\ result' = "progress"
            /\ att' = [att EXCEPT ![Front].left = att[Front].left - 1,
                                  ![Front].tuple = Append(att[Front].tuple, e)]
            /\ UNCHANGED <<attempts, clean, mu, action, changed>>
      BY <1>1, <1>6, DequeueElementFacts, Zenon
    <2>2. /\ Append(att[Front].tuple, e) \in Seq(Elements)
          /\ att[Front].left - 1 \in Int /\ att[Front].left - 1 > 0
      <3>1. Append(att[Front].tuple, e) \in Seq(Elements)
        BY <1>4, AppendFacts, Zenon
      <3>2. \A n \in Int : n > 0 /\ n # 1 => n - 1 \in Int /\ n - 1 > 0
        OBVIOUS
      <3> QED BY <1>4, <1>6, <3>1, <3>2, Zenon
    <2>3. UpdatesFront(att', att[Front].left - 1)
      BY <1>1, <2>1, <2>2, FrontUpdate, Zenon
    <2> QED BY <1>1, <1>2, <1>3, <2>1, <2>2, <2>3, ProgressIInv, Zenon DEF UpdatesFront
  <1> QED BY <1>5, <1>6, Zenon

\* Every action preserves the invariant.
LEMMA NextIInv ==
  ASSUME IInv, [Next]_vars
  PROVE  IInv'
  <1>1. ASSUME NEW o \in Ops, Start(o) PROVE IInv'
    <2>1. CASE TryAttempt(o)
      <3>1. /\ pc[o] = "idle" /\ mu = Free /\ Emplace(o) /\ work[o].n > 0
            /\ Kind(o) \in EnqueueKinds \union DequeueKinds
            /\ UNCHANGED <<config, closed, queue, calls, flushVars, todo, clean>>
        BY <2>1, Zenon DEF TryAttempt
      <3>2. Kind(o) # "closeCancel"
        BY <3>1, Zenon DEF EnqueueKinds, DequeueKinds
      <3> QED BY <3>1, <3>2, EmplaceIInv, Zenon
    <2>2. CASE AlreadyCancelled(o) \/ EmptyBatch(o)
      BY <2>2, CallsItselfIInv, Zenon DEF AlreadyCancelled, EmptyBatch
    <2>3. CASE Close(o)
      <3>1. /\ pc[o] = "idle" /\ mu = Free /\ Emplace(o) /\ Kind(o) = "close"
            /\ UNCHANGED <<config, closed, queue, calls, flushVars, todo, clean>>
        BY <2>3, Zenon DEF Close
      <3>2. Kind(o) # "closeCancel" /\ Kind(o) \notin DequeueKinds
        BY <3>1, Zenon DEF DequeueKinds
      <3> QED BY <3>1, <3>2, EmplaceIInv, Zenon
    <2>4. CASE CloseAndCancel(o)
      BY <2>4, CloseAndCancelIInv, Zenon
    <2> QED BY <1>1, <2>1, <2>2, <2>3, <2>4, Zenon DEF Start
  <1>2. ASSUME NEW s \in Steps, StartCancel(s) \/ CancelDone(s) PROVE IInv'
    <2>1. /\ s \in Threads /\ mu = Free /\ pc[s] \in {"idle", "cancel"}
          /\ Goto(s, "cancel") \/ Goto(s, "end")
          /\ UNCHANGED <<config, attVars, calls, flushVars, todo, clean>>
      BY <1>2, Zenon DEF StartCancel, CancelDone, Threads
    <2>2. "cancel" \in Labels /\ "end" \in Labels
      BY Zenon DEF Labels
    <2> QED BY <2>1, <2>2, MovesIInv, Zenon
  <1>3. ASSUME NEW t \in Threads, Run(t) PROVE IInv'
    <2>1. CASE CloseDone(t)
      <3>1. t \in Ops
        BY <2>1, Zenon DEF CloseDone, IInv, PcInv
      <3> QED BY <2>1, <3>1, CallsItselfIInv, Zenon DEF CloseDone
    <2>2. CASE BeginFlush(t) \/ SkipCancelled(t) \/ AttemptsDone(t) \/ CleanUp(t) \/ CallBack(t)
      BY <2>2, BeginFlushIInv, SkipCancelledIInv, AttemptsDoneIInv, CleanUpIInv, CallBackIInv, Zenon
    <2>3. CASE RunClose(t) \/ EnqueueClosed(t) \/ EnqueueElement(t)
      BY <2>3, ClosingIInv, EnqueueElementIInv, Zenon
    <2>4. CASE DequeueTooFew(t) \/ DequeueSmallBatch(t) \/ DequeueElement(t)
      BY <2>4, DequeueTooFewIInv, DequeueSmallBatchIInv, DequeueElementIInv, Zenon
    <2> QED BY <1>3, <2>1, <2>2, <2>3, <2>4, Zenon DEF Run
  <1>4. CASE UNCHANGED vars
    <2>1. /\ UNCHANGED <<flavor, work, closed, queue, attempts, att, calls, mu, action,
                        result, changed, pc, todo, clean>>
      BY <1>4, Zenon DEF vars, config, attVars, flushVars, threadVars
    <2>2. TInv' /\ RoomInv' /\ LeftInv' /\ PcInv'
      BY <2>1, Zenon DEF IInv, TInv, RoomInv, LeftInv, PcInv, Kind
    <2>3. WakeInv' /\ NoStrandedAttempt'
      BY <2>1, FrameBlocked, Zenon DEF IInv, WakeInv, EnqueueBlocked, Front, Flushing, Kind
    <2>4. PlacesInv' /\ CallsInv'
      BY <2>1, FramePlaces, FrameCalls, Zenon DEF IInv
    <2> QED BY <2>2, <2>3, <2>4, Zenon DEF IInv
  <1> QED BY <1>1, <1>2, <1>3, <1>4, CancelIInv, Zenon DEF Next, RunCancel

\* The invariant holds throughout.
LEMMA Invariance == Spec => []IInv
  <1>1. Init => IInv
    BY InitIInv, Zenon
  <1>2. IInv /\ [Next]_vars => IInv'
    BY NextIInv, Zenon
  <1> QED BY <1>1, <1>2, PTL DEF Spec

-----------------------------------------------------------------------------
(* Theorems.                                                               *)

\* For any operations and steps, however the threads, the closes and the
\* cancellations interleave, FlushUnlocked, Cancel and CloseAndCancel call the
\* done callback of an operation at most once and leave no attempt that could
\* still run with its context.
THEOREM CallsBackOnce == Spec => []CalledBackOnce
  <1>1. IInv => CalledBackOnce
    <2> SUFFICES ASSUME IInv, NEW o \in Ops
                 PROVE  calls[o] <= 1 /\ (calls[o] = 1 => ~Live(o))
      BY Zenon DEF CalledBackOnce
    <2>1. CallsOf(o)
      BY Zenon DEF IInv, CallsInv
    <2>2. Live(o) => Queued(o) /\ ~att[o].cancelled
      BY Zenon DEF Live, Queued, Actions
    <2>3. calls[o] \in {0, 1} /\ (Live(o) => calls[o] = 0)
      BY <2>1, <2>2, Zenon DEF CallsOf
    <2> QED BY <2>3
  <1> QED BY <1>1, Invariance, PTL

\* FlushUnlocked never ends too early: for any capacity and any operations, when
\* no flush is running or due, what is at the two fronts is blocked, so that no
\* attempt waits for a wake-up nobody will give.
THEOREM NoLostWakeUp == Spec => []NoStrandedAttempt
  <1>1. IInv => NoStrandedAttempt
    BY Zenon DEF IInv
  <1> QED BY <1>1, Invariance, PTL

\* Only a dequeue takes elements from an open queue, and it takes one that may
\* be taken.
LEMMA LimitsStep ==
  ASSUME IInv, [Next]_vars
  PROVE  /\ Len(queue') > Capacity => closed'
         /\ flavor = "shuffle" /\ ~closed /\ Len(queue') < Len(queue)
              => Len(queue') >= MinAfterDequeue
  <1>1. IInv' /\ TInv /\ TInv' /\ RoomInv'
    BY NextIInv, Zenon DEF IInv
  <1>2. Len(queue) \in Nat /\ Len(queue') \in Nat
    BY <1>1 DEF TInv
  <1>3. Len(queue') > Capacity => closed'
    BY <1>1, <1>2, QueueConstants DEF RoomInv
  <1>4. ASSUME ~closed, Len(queue') < Len(queue)
        PROVE  \E t \in Threads : DequeueElement(t)
    <2>1. queue' # queue
      BY <1>2, <1>4
    <2>2. PICK t \in Threads : \/ EnqueueElement(t) \/ DequeueElement(t)
                               \/ DequeueTooFew(t) \/ DequeueSmallBatch(t)
      <3>1. \A o \in Ops : ~Start(o)
        BY <2>1, Zenon DEF Start, TryAttempt, AlreadyCancelled, EmptyBatch, Close, CloseAndCancel
      <3>2. \A s \in Steps : ~StartCancel(s) /\ ~RunCancel(s)
        BY <2>1, Zenon DEF StartCancel, RunCancel, CancelDone, Cancel, attVars
      <3>3. ~UNCHANGED vars
        BY <2>1, Zenon DEF vars, attVars
      <3>4. PICK t \in Threads : Run(t)
        BY <3>1, <3>2, <3>3, Zenon DEF Next
      <3>5. /\ ~BeginFlush(t) /\ ~SkipCancelled(t) /\ ~AttemptsDone(t) /\ ~RunClose(t)
            /\ ~EnqueueClosed(t) /\ ~CleanUp(t) /\ ~CloseDone(t) /\ ~CallBack(t)
        BY <2>1, Zenon DEF BeginFlush, SkipCancelled, AttemptsDone, NextAction, RunClose,
                    EnqueueClosed, CleanUp, CloseDone, CallBack, attVars
      <3> QED BY <3>4, <3>5, Zenon DEF Run
    <2>3. ~DequeueTooFew(t) /\ ~DequeueSmallBatch(t)
      BY <1>4, Zenon DEF DequeueTooFew, DequeueSmallBatch, DequeueExhausted
    <2>4. ~EnqueueElement(t)
      <3> SUFFICES ASSUME EnqueueElement(t) PROVE FALSE
        BY Zenon
      <3>1. PICK e : queue' = Append(queue, e)
        BY Zenon DEF EnqueueElement
      <3>2. Len(queue') = Len(queue) + 1
        BY <1>1, <3>1 DEF TInv
      <3> QED BY <1>2, <1>4, <3>2
    <2> QED BY <2>2, <2>3, <2>4, Zenon
  <1>5. ASSUME flavor = "shuffle", ~closed, Len(queue') < Len(queue)
        PROVE  Len(queue') >= MinAfterDequeue
    <2>1. PICK t \in Threads : DequeueElement(t)
      BY <1>4, <1>5, Zenon
    <2>2. Len(queue') = Len(queue) - 1 /\ Len(queue) > MinAfterDequeue
      BY <1>1, <1>5, <2>1, DequeueElementFacts, Zenon
    <2>3. MinAfterDequeue \in Nat
      BY QueueConstants, Zenon
    <2> QED BY <1>2, <2>2, <2>3
  <1> QED BY <1>3, <1>5, Zenon

\* For any capacity and any min_after_dequeue: TryEnqueueMany fills no open
\* queue beyond its capacity, and no dequeue takes from an open shuffle queue
\* what it has to keep.
THEOREM KeepsLimits == Spec => LimitsRespected
  <1>1. IInv /\ [Next]_vars => [/\ Len(queue') > Capacity => closed'
                                /\ flavor = "shuffle" /\ ~closed /\ Len(queue') < Len(queue)
                                     => Len(queue') >= MinAfterDequeue]_vars
    BY LimitsStep, Zenon
  <1> QED BY <1>1, Invariance, PTL DEF Spec, LimitsRespected

-----------------------------------------------------------------------------
(* Where the elements are, and in which order.                             *)

Statuses == {"none", "OK", "Cancelled", "OutOfRange"}

\* The history, the status of the operations, and the size of a TryDequeue.
HistoryInv ==
    /\ entered \in Seq(Elements) /\ delivered \in Seq(Elements)
    /\ status \in [Ops -> Statuses]
    /\ \A o \in Ops : Kind(o) = "dequeue" => work[o].n = 1

\* An element that entered is in one place, and once.
ElementsInv ==
    /\ Uniq(entered) /\ Uniq(queue) /\ Uniq(delivered)
    /\ SeqSet(queue) \cap SeqSet(delivered) = {}
    /\ \A o \in Ops : /\ Uniq(att[o].tuple)
                      /\ TakenBy(o) \cap SeqSet(queue) = {}
                      /\ TakenBy(o) \cap SeqSet(delivered) = {}
    /\ \A o, p \in Ops : o # p => TakenBy(o) \cap TakenBy(p) = {}
    /\ \A e : e \in SeqSet(entered) <=>
                e \in SeqSet(queue) \/ e \in SeqSet(delivered) \/ \E o \in Ops : e \in TakenBy(o)

\* How far operation o is: what it holds and still needs is no more than its
\* batch, the elements that have entered are the first ones of its batch, and it
\* holds elements only while it can still run, or for having been cancelled.
WorkOf(o) ==
    /\ att[o].left >= 0 /\ Len(att[o].tuple) + att[o].left <= work[o].n
    /\ o \in SeqSet(attempts["enqueue"]) /\ Kind(o) = "enqueue" => att[o].left > 0
    /\ pc[o] = "idle" \/ Kind(o) \notin DequeueKinds => att[o].tuple = <<>>
    /\ \A i \in Int : <<o, i>> \in SeqSet(entered) =>
         pc[o] # "idle" /\ Kind(o) = "enqueue" /\ i <= work[o].n - att[o].left
    /\ att[o].cancelled => status[o] = "Cancelled"
    /\ flavor # "priority" /\ att[o].tuple # <<>> => Live(o) \/ status[o] = "Cancelled"

WorkInv == \A o \in Ops : WorkOf(o)

\* Of the pending dequeues only the first holds elements.
LineInv ==
    \A o \in SeqSet(attempts["dequeue"]) :
      o # Head(attempts["dequeue"]) => att[o].tuple = <<>>

\* Sequences of elements in the order of w, and sets one before the other.
Place(w, e) == CHOOSE i \in DOMAIN w : w[i] = e
Ordered(w, s) == \A i, j \in DOMAIN s : i < j => Place(w, s[i]) < Place(w, s[j])
Before(w, X, Y) == \A x \in X, y \in Y : Place(w, x) < Place(w, y)
InOrder(w, d, h, q) ==
    /\ Ordered(w, d) /\ Ordered(w, h) /\ Ordered(w, q)
    /\ Before(w, SeqSet(d), SeqSet(h)) /\ Before(w, SeqSet(d), SeqSet(q))
    /\ Before(w, SeqSet(h), SeqSet(q))

\* What the dequeue at the front holds for its batch.
HeldNow ==
    IF attempts["dequeue"] # <<>> /\ ~att[Head(attempts["dequeue"])].cancelled
    THEN att[Head(attempts["dequeue"])].tuple ELSE <<>>

\* No more is there than has entered.
CountInv == Len(delivered) + Len(HeldNow) + Len(queue) <= Len(entered)

OrderInv == CountInv /\ (flavor = "fifo" => InOrder(entered, delivered, HeldNow, queue))

EInv == HistoryInv /\ ElementsInv /\ WorkInv /\ LineInv /\ OrderInv

\* One sequence after another.
LEMMA ConcatFacts ==
  ASSUME NEW S, NEW s \in Seq(S), NEW u \in Seq(S)
  PROVE  /\ s \o u \in Seq(S) /\ Len(s \o u) = Len(s) + Len(u)
         /\ \A i \in 1..Len(s) : i \in DOMAIN (s \o u) /\ (s \o u)[i] = s[i]
         /\ \A i \in DOMAIN (s \o u) :
              i \in 1..Len(s) \/ (i - Len(s) \in 1..Len(u) /\ (s \o u)[i] = u[i - Len(s)])
         /\ SeqSet(s \o u) = SeqSet(s) \union SeqSet(u)
         /\ Uniq(s) /\ Uniq(u) /\ SeqSet(s) \cap SeqSet(u) = {} => Uniq(s \o u)
  <1> DEFINE c == s \o u
  <1>1. /\ Len(s) \in Nat /\ Len(u) \in Nat /\ DOMAIN s = 1..Len(s) /\ DOMAIN u = 1..Len(u)
        /\ c \in Seq(S) /\ Len(c) = Len(s) + Len(u) /\ DOMAIN c = 1..(Len(s) + Len(u))
    OBVIOUS
  <1>2. \A i \in 1..Len(s) : i \in DOMAIN c /\ c[i] = s[i]
    BY <1>1
  <1>3. \A i \in 1..Len(u) : i + Len(s) \in DOMAIN c /\ c[i + Len(s)] = u[i]
    BY <1>1
  <1>4. \A i \in DOMAIN c : i \in 1..Len(s) \/ (i - Len(s) \in 1..Len(u) /\ c[i] = u[i - Len(s)])
    BY <1>1
  <1> HIDE DEF c
  <1>5. SeqSet(c) = SeqSet(s) \union SeqSet(u)
    <2>1. \A x \in SeqSet(s) : x \in SeqSet(c)
      BY <1>1, <1>2, Zenon DEF SeqSet
    <2>2. \A x \in SeqSet(u) : x \in SeqSet(c)
      BY <1>1, <1>3, Zenon DEF SeqSet
    <2>3. \A x \in SeqSet(c) : x \in SeqSet(s) \/ x \in SeqSet(u)
      BY <1>1, <1>2, <1>4 DEF SeqSet
    <2> QED BY <2>1, <2>2, <2>3, Zenon
  <1>6. ASSUME Uniq(s), Uniq(u), SeqSet(s) \cap SeqSet(u) = {} PROVE Uniq(c)
    <2> SUFFICES ASSUME NEW i \in DOMAIN c, NEW j \in DOMAIN c, c[i] = c[j] PROVE i = j
      BY Zenon DEF Uniq
    <2>1. i \in Int /\ j \in Int
      BY <1>1
    <2>2. \A k \in 1..Len(s), l \in 1..Len(u) : s[k] # u[l]
      BY <1>1, <1>6, Zenon DEF SeqSet
    <2>3. CASE i \in 1..Len(s) /\ j \in 1..Len(s)
      BY <1>1, <1>2, <1>6, <2>3, Zenon DEF Uniq
    <2>4. CASE i \notin 1..Len(s) /\ j \notin 1..Len(s)
      <3>1. i - Len(s) = j - Len(s)
        BY <1>1, <1>4, <1>6, <2>4, Zenon DEF Uniq
      <3> QED BY <1>1, <2>1, <3>1
    <2> QED BY <1>2, <1>4, <2>2, <2>3, <2>4
  <1> QED BY <1>1, <1>2, <1>4, <1>5, <1>6, Zenon DEF c

\* Turned around.
LEMMA ReverseFacts ==
  ASSUME NEW S, NEW u \in Seq(S), NEW r, r = [i \in 1..Len(u) |-> u[Len(u) + 1 - i]]
  PROVE  /\ r \in Seq(S) /\ Len(r) = Len(u) /\ SeqSet(r) = SeqSet(u)
         /\ Uniq(u) => Uniq(r)
  <1>1. Len(u) \in Nat /\ DOMAIN u = 1..Len(u) /\ DOMAIN r = 1..Len(u)
    OBVIOUS
  <1>2. \A i \in 1..Len(u) : Len(u) + 1 - i \in 1..Len(u) /\ r[i] = u[Len(u) + 1 - i]
                             /\ u[i] = r[Len(u) + 1 - i] /\ u[i] \in S
    BY <1>1
  <1>3. r \in Seq(S) /\ Len(r) = Len(u)
    BY <1>1, <1>2
  <1>4. SeqSet(r) = SeqSet(u)
    <2>1. \A x \in SeqSet(r) : x \in SeqSet(u)
      BY <1>1, <1>2, Zenon DEF SeqSet
    <2>2. \A i \in DOMAIN u : u[i] \in SeqSet(r)
      BY <1>1, <1>2, Zenon DEF SeqSet
    <2> QED BY <2>1, <2>2, Zenon DEF SeqSet
  <1>5. ASSUME Uniq(u), NEW i \in DOMAIN r, NEW j \in DOMAIN r, r[i] = r[j] PROVE i = j
    <2>1. Len(u) + 1 - i = Len(u) + 1 - j
      BY <1>1, <1>2, <1>5, Zenon DEF Uniq
    <2> QED BY <1>1, <2>1
  <1> QED BY <1>3, <1>4, <1>5, Zenon DEF Uniq

\* DequeueLocked takes out the element it returns and no other.
LEMMA WithoutElements ==
  ASSUME NEW S, NEW q \in Seq(S), NEW i \in 1..Len(q), Uniq(q)
  PROVE  /\ Uniq(Without(q, i)) /\ SeqSet(Without(q, i)) = SeqSet(q) \ {q[i]}
         /\ flavor = "fifo" /\ i = 1 => Without(q, i) = Tail(q)
  <1> DEFINE w == Without(q, i)
  <1>1. Len(q) \in Nat /\ DOMAIN q = 1..Len(q) /\ w \in Seq(S) /\ DOMAIN w = 1..(Len(q) - 1)
        /\ Len(w) = Len(q) - 1
    BY WithoutFacts
  <1>2. CASE flavor = "shuffle"
    <2> DEFINE r == [q EXCEPT ![i] = q[Len(q)]]
    <2>1. r \in Seq(S) /\ Len(r) = Len(q) /\ \A j \in 1..Len(q) : r[j] = IF j = i THEN q[Len(q)] ELSE q[j]
      BY <1>1
    <2>2. w = SubSeq(r, 1, Len(q) - 1)
      BY <1>2, Zenon DEF Without
    <2> HIDE DEF r
    <2>3. \A j \in 1..(Len(q) - 1) : w[j] = r[j]
      BY <1>1, <2>1, <2>2
    <2> HIDE DEF w
    <2>4. \A j \in DOMAIN w : j \in DOMAIN q /\ w[j] = IF j = i THEN q[Len(q)] ELSE q[j]
      BY <1>1, <2>1, <2>3
    <2>5. Uniq(w)
      BY <1>1, <2>4 DEF Uniq
    <2>6. \A j \in DOMAIN w : w[j] \in SeqSet(q) /\ w[j] # q[i]
      BY <1>1, <2>4 DEF Uniq, SeqSet
    <2>7. \A j \in DOMAIN q : q[j] # q[i] => q[j] \in SeqSet(w)
      <3> SUFFICES ASSUME NEW j \in DOMAIN q, q[j] # q[i] PROVE q[j] \in SeqSet(w)
        BY Zenon
      <3>1. j # i
        BY Zenon
      <3>2. CASE j = Len(q)
        <4>0. i \in 1..(Len(q) - 1)
          BY <3>1, <3>2
        <4>1. i \in DOMAIN w
          BY <1>1, <4>0, Zenon
        <4>2. w[i] = q[j]
          BY <2>4, <3>2, <4>1, Zenon
        <4> QED BY <4>1, <4>2, Zenon DEF SeqSet
      <3>3. CASE j # Len(q)
        <4>1. j \in DOMAIN w /\ w[j] = q[j]
          BY <1>1, <2>4, <3>1, <3>3
        <4> QED BY <4>1, Zenon DEF SeqSet
      <3> QED BY <3>2, <3>3, Zenon
    <2>8. SeqSet(w) = SeqSet(q) \ {q[i]}
      BY <2>6, <2>7, Zenon DEF SeqSet
    <2> QED BY <1>2, <2>5, <2>8, Zenon DEF w
  <1>3. CASE flavor # "shuffle"
    <2> DEFINE a == SubSeq(q, 1, i - 1)
               b == SubSeq(q, i + 1, Len(q))
    <2>1. a \in Seq(S) /\ Len(a) = i - 1 /\ b \in Seq(S) /\ Len(b) = Len(q) - i
      OBVIOUS
    <2>11. \A j \in 1..(i - 1) : a[j] = q[j]
      OBVIOUS
    <2>12. \A j \in 1..(Len(q) - i) : b[j] = q[j + i]
      OBVIOUS
    <2>2. w = a \o b
      BY <1>3, Zenon DEF Without
    <2> HIDE DEF a, b
    <2>3. \A j \in 1..(Len(q) - 1) : w[j] = IF j < i THEN q[j] ELSE q[j + 1]
      <3> SUFFICES ASSUME NEW j \in 1..(Len(q) - 1)
                   PROVE  w[j] = IF j < i THEN q[j] ELSE q[j + 1]
        BY Zenon
      <3>1. CASE j < i
        <4>1. j \in 1..(i - 1)
          BY <3>1
        <4> QED BY <2>1, <2>11, <2>2, <3>1, <4>1
      <3>2. CASE ~(j < i)
        <4>1. j - (i - 1) \in 1..(Len(q) - i) /\ (j - (i - 1)) + i = j + 1
          BY <3>2
        <4>2. w[j] = b[j - (i - 1)]
          BY <2>1, <2>2, <3>2
        <4> QED BY <2>12, <3>2, <4>1, <4>2, Zenon
      <3> QED BY <3>1, <3>2, Zenon
    <2> HIDE DEF w
    <2>4. \A j \in DOMAIN w : \E k \in DOMAIN q : k = (IF j < i THEN j ELSE j + 1) /\ k # i /\ w[j] = q[k]
      BY <1>1, <2>3
    <2>5. Uniq(w)
      BY <1>1, <2>4 DEF Uniq
    <2>6. \A j \in DOMAIN w : w[j] \in SeqSet(q) /\ w[j] # q[i]
      BY <1>1, <2>4 DEF Uniq, SeqSet
    <2>7. \A j \in DOMAIN q : q[j] # q[i] => q[j] \in SeqSet(w)
      <3> SUFFICES ASSUME NEW j \in DOMAIN q, q[j] # q[i] PROVE q[j] \in SeqSet(w)
        BY Zenon
      <3>1. j < i \/ j > i
        BY <1>1
      <3>2. CASE j < i
        <4>1. j \in DOMAIN w /\ w[j] = q[j]
          BY <1>1, <2>3, <3>2
        <4> QED BY <4>1, Zenon DEF SeqSet
      <3>3. CASE j > i
        <4>1. j - 1 \in DOMAIN w /\ w[j - 1] = q[j]
          BY <1>1, <2>3, <3>3
        <4> QED BY <4>1, Zenon DEF SeqSet
      <3> QED BY <3>1, <3>2, <3>3, Zenon
    <2>8. SeqSet(w) = SeqSet(q) \ {q[i]}
      BY <2>6, <2>7, Zenon DEF SeqSet
    <2>9. ASSUME i = 1 PROVE w = Tail(q)
      <3>1. \A j \in 1..(Len(q) - 1) : w[j] = q[j + 1] /\ Tail(q)[j] = q[j + 1]
        BY <1>1, <2>3, <2>9
      <3>2. Tail(q) \in Seq(S) /\ Len(Tail(q)) = Len(q) - 1 /\ w \in Seq(S) /\ Len(w) = Len(q) - 1
        BY <1>1, <2>9
      <3> QED BY <3>1, <3>2
    <2> QED BY <2>5, <2>8, <2>9, Zenon DEF w
  <1> QED BY <1>2, <1>3, Zenon

\* A batch that is given up goes back whole.
LEMMA RestoredElements ==
  ASSUME TInv, Front \in Ops
  PROVE  /\ Restored \in Seq(Elements) /\ Len(Restored) = Len(att[Front].tuple) + Len(queue)
         /\ SeqSet(Restored) = SeqSet(queue) \union TakenBy(Front)
         /\ Uniq(queue) /\ Uniq(att[Front].tuple) /\ TakenBy(Front) \cap SeqSet(queue) = {}
              => Uniq(Restored)
         /\ flavor = "fifo" => Restored = att[Front].tuple \o queue
  <1>1. PICK u \in Seq(Elements) : u = att[Front].tuple
    BY Zenon DEF TInv, Attempt
  <1>2. PICK r : r = [i \in 1..Len(u) |-> u[Len(u) + 1 - i]]
    BY Zenon
  <1>3. r \in Seq(Elements) /\ Len(r) = Len(u) /\ SeqSet(r) = SeqSet(u) /\ (Uniq(u) => Uniq(r))
    BY <1>2, ReverseFacts, Zenon
  <1>6. /\ TakenBy(Front) = SeqSet(u) /\ queue \in Seq(Elements)
        /\ Restored = IF flavor = "fifo" THEN u \o queue ELSE queue \o r
    BY <1>1, <1>2, Zenon DEF TakenBy, Restored, TInv
  <1>4. /\ u \o queue \in Seq(Elements) /\ Len(u \o queue) = Len(u) + Len(queue)
        /\ SeqSet(u \o queue) = SeqSet(queue) \union SeqSet(u)
        /\ Uniq(queue) /\ Uniq(u) /\ SeqSet(u) \cap SeqSet(queue) = {} => Uniq(u \o queue)
    BY <1>6, ConcatFacts
  <1>5. /\ queue \o r \in Seq(Elements) /\ Len(queue \o r) = Len(u) + Len(queue)
        /\ SeqSet(queue \o r) = SeqSet(queue) \union SeqSet(u)
        /\ Uniq(queue) /\ Uniq(u) /\ SeqSet(u) \cap SeqSet(queue) = {} => Uniq(queue \o r)
    <2>1. Len(queue) \in Nat /\ Len(u) \in Nat /\ SeqSet(queue) \cap SeqSet(r) = SeqSet(u) \cap SeqSet(queue)
      BY <1>3, <1>6
    <2>2. /\ queue \o r \in Seq(Elements) /\ Len(queue \o r) = Len(queue) + Len(r)
          /\ SeqSet(queue \o r) = SeqSet(queue) \union SeqSet(r)
          /\ Uniq(queue) /\ Uniq(r) /\ SeqSet(queue) \cap SeqSet(r) = {} => Uniq(queue \o r)
      <3>1. r \in Seq(Elements) /\ queue \in Seq(Elements)
        BY <1>3, <1>6, Zenon
      <3>2. \A a, b \in Seq(Elements) :
              /\ a \o b \in Seq(Elements) /\ Len(a \o b) = Len(a) + Len(b)
              /\ SeqSet(a \o b) = SeqSet(a) \union SeqSet(b)
              /\ Uniq(a) /\ Uniq(b) /\ SeqSet(a) \cap SeqSet(b) = {} => Uniq(a \o b)
        BY ConcatFacts
      <3> QED BY <3>1, <3>2, Zenon
    <2> QED BY <1>3, <2>1, <2>2
  <1> QED BY <1>1, <1>4, <1>5, <1>6, Zenon

\* The place of an element in a sequence without repetitions.
LEMMA PlaceIs ==
  ASSUME NEW w, Uniq(w), NEW i \in DOMAIN w
  PROVE  Place(w, w[i]) = i
  <1>1. Place(w, w[i]) \in DOMAIN w /\ w[Place(w, w[i])] = w[i]
    BY Zenon DEF Place
  <1> QED BY <1>1, Zenon DEF Uniq

\* What enters comes after what is there.
LEMMA PlaceAppend ==
  ASSUME NEW S, NEW w \in Seq(S), Uniq(w), NEW x \in S, x \notin SeqSet(w)
  PROVE  \A e \in SeqSet(w) : /\ Place(Append(w, x), e) = Place(w, e)
                              /\ Place(w, e) < Place(Append(w, x), x)
  <1> DEFINE a == Append(w, x)
  <1>1. /\ Len(w) \in Nat /\ DOMAIN w = 1..Len(w) /\ DOMAIN a = 1..(Len(w) + 1)
        /\ a[Len(w) + 1] = x /\ \A i \in 1..Len(w) : a[i] = w[i]
    OBVIOUS
  <1>2. Uniq(a)
    BY AppendFacts, Zenon
  <1> HIDE DEF a
  <1>3. Place(a, x) = Len(w) + 1
    <2>1. Len(w) + 1 \in DOMAIN a
      BY <1>1
    <2> QED BY <1>1, <1>2, <2>1, PlaceIs, Zenon
  <1>4. ASSUME NEW i \in DOMAIN w PROVE Place(a, w[i]) = Place(w, w[i]) /\ Place(w, w[i]) < Place(a, x)
    <2>1. i \in DOMAIN a /\ a[i] = w[i] /\ i < Len(w) + 1
      BY <1>1
    <2>2. Place(w, w[i]) = i /\ Place(a, a[i]) = i
      BY <1>2, <2>1, PlaceIs, Zenon
    <2> QED BY <1>3, <2>1, <2>2, Zenon
  <1> QED BY <1>4, Zenon DEF SeqSet, a

\* An ordered sequence after another.
LEMMA OrderedConcat ==
  ASSUME NEW w, NEW S, NEW s \in Seq(S), NEW u \in Seq(S),
         Ordered(w, s), Ordered(w, u), Before(w, SeqSet(s), SeqSet(u))
  PROVE  Ordered(w, s \o u)
  <1> DEFINE c == s \o u
  <1>1. /\ \A i \in 1..Len(s) : i \in DOMAIN c /\ c[i] = s[i]
        /\ \A i \in DOMAIN c : i \in 1..Len(s) \/ (i - Len(s) \in 1..Len(u) /\ c[i] = u[i - Len(s)])
        /\ c \in Seq(S)
    BY ConcatFacts
  <1> HIDE DEF c
  <1>2. Len(s) \in Nat /\ Len(u) \in Nat /\ DOMAIN s = 1..Len(s) /\ DOMAIN u = 1..Len(u)
        /\ DOMAIN c \subseteq Int
    BY <1>1
  <1> SUFFICES ASSUME NEW i \in DOMAIN c, NEW j \in DOMAIN c, i < j
               PROVE  Place(w, c[i]) < Place(w, c[j])
    BY Zenon DEF Ordered, c
  <1>3. CASE i \in 1..Len(s) /\ j \in 1..Len(s)
    BY <1>1, <1>2, <1>3, Zenon DEF Ordered
  <1>4. CASE i \in 1..Len(s) /\ j \notin 1..Len(s)
    <2>1. c[i] \in SeqSet(s) /\ c[j] \in SeqSet(u)
      BY <1>1, <1>2, <1>4, Zenon DEF SeqSet
    <2> QED BY <2>1, Zenon DEF Before
  <1>5. CASE i \notin 1..Len(s)
    <2>1. j \notin 1..Len(s)
      BY <1>2, <1>5
    <2>2. i - Len(s) \in DOMAIN u /\ j - Len(s) \in DOMAIN u /\ i - Len(s) < j - Len(s)
          /\ c[i] = u[i - Len(s)] /\ c[j] = u[j - Len(s)]
      BY <1>1, <1>2, <1>5, <2>1
    <2> QED BY <2>2, Zenon DEF Ordered
  <1> QED BY <1>3, <1>4, <1>5, Zenon

\* An element is appended to the history and to the queue.
LEMMA EntersInOrder ==
  ASSUME NEW S, NEW w \in Seq(S), Uniq(w), NEW x \in S, x \notin SeqSet(w),
         NEW d \in Seq(S), NEW h \in Seq(S), NEW q \in Seq(S), SeqSet(d) \subseteq SeqSet(w),
         SeqSet(h) \subseteq SeqSet(w), SeqSet(q) \subseteq SeqSet(w), InOrder(w, d, h, q)
  PROVE  InOrder(Append(w, x), d, h, Append(q, x))
  <1> DEFINE a == Append(w, x)
             c == Append(q, x)
  <1>1. \A e \in SeqSet(w) : Place(a, e) = Place(w, e) /\ Place(w, e) < Place(a, x)
    BY PlaceAppend, Zenon
  <1>2. SeqSet(c) = SeqSet(q) \union {x}
    BY AppendFacts
  <1>3. /\ Len(q) \in Nat /\ DOMAIN q = 1..Len(q) /\ DOMAIN c = 1..(Len(q) + 1)
        /\ c[Len(q) + 1] = x /\ \A i \in 1..Len(q) : c[i] = q[i]
    OBVIOUS
  <1> HIDE DEF a, c
  <1>4. Ordered(a, d) /\ Ordered(a, h)
    <2>1. \A i \in DOMAIN d : d[i] \in SeqSet(w)
      BY Zenon DEF SeqSet
    <2>2. \A i \in DOMAIN h : h[i] \in SeqSet(w)
      BY Zenon DEF SeqSet
    <2> QED BY <1>1, <2>1, <2>2, Zenon DEF InOrder, Ordered
  <1>5. Ordered(a, c)
    <2> SUFFICES ASSUME NEW i \in DOMAIN c, NEW j \in DOMAIN c, i < j
                 PROVE  Place(a, c[i]) < Place(a, c[j])
      BY Zenon DEF Ordered
    <2>1. i \in DOMAIN q /\ c[i] = q[i] /\ q[i] \in SeqSet(w)
      <3>1. i \in 1..Len(q)
        BY <1>3
      <3> QED BY <1>3, <3>1, Zenon DEF SeqSet
    <2>2. CASE j = Len(q) + 1
      BY <1>1, <1>3, <2>1, <2>2, Zenon
    <2>3. CASE j # Len(q) + 1
      <3>1. j \in DOMAIN q /\ c[j] = q[j] /\ q[j] \in SeqSet(w)
        <4>1. j \in 1..Len(q)
          BY <1>3, <2>3
        <4> QED BY <1>3, <4>1, Zenon DEF SeqSet
      <3> QED BY <1>1, <2>1, <3>1, Zenon DEF InOrder, Ordered
    <2> QED BY <2>2, <2>3, Zenon
  <1>6. Before(a, SeqSet(d), SeqSet(h)) /\ Before(a, SeqSet(d), SeqSet(c))
        /\ Before(a, SeqSet(h), SeqSet(c))
    BY <1>1, <1>2, Zenon DEF InOrder, Before
  <1> QED BY <1>4, <1>5, <1>6, Zenon DEF InOrder, a, c

\* An ordered queue without its first element, and the batch that takes it.
LEMMA TakesInOrder ==
  ASSUME NEW S, NEW w, NEW d \in Seq(S), NEW h \in Seq(S), NEW q \in Seq(S), q # <<>>,
         InOrder(w, d, h, q)
  PROVE  InOrder(w, d, Append(h, q[1]), Tail(q))
  <1>1. /\ Len(q) \in Nat /\ DOMAIN q = 1..Len(q) /\ 1 \in DOMAIN q /\ q[1] \in S
        /\ DOMAIN Tail(q) = 1..(Len(q) - 1)
        /\ \A i \in 1..(Len(q) - 1) : Tail(q)[i] = q[i + 1] /\ i + 1 \in DOMAIN q
    OBVIOUS
  <1>2. q[1] \in SeqSet(q) /\ SeqSet(Tail(q)) \subseteq SeqSet(q)
    BY <1>1, Zenon DEF SeqSet
  <1>3. Ordered(w, Tail(q))
    <2> SUFFICES ASSUME NEW i \in DOMAIN Tail(q), NEW j \in DOMAIN Tail(q), i < j
                 PROVE  Place(w, Tail(q)[i]) < Place(w, Tail(q)[j])
      BY Zenon DEF Ordered
    <2>1. i + 1 < j + 1 /\ i + 1 \in DOMAIN q /\ j + 1 \in DOMAIN q
      BY <1>1
    <2> QED BY <1>1, <2>1, Zenon DEF InOrder, Ordered
  <1>4. Before(w, {q[1]}, SeqSet(Tail(q)))
    <2> SUFFICES ASSUME NEW i \in DOMAIN Tail(q) PROVE Place(w, q[1]) < Place(w, Tail(q)[i])
      BY Zenon DEF Before, SeqSet
    <2>1. 1 < i + 1 /\ i + 1 \in DOMAIN q /\ Tail(q)[i] = q[i + 1]
      BY <1>1
    <2> QED BY <1>1, <2>1, Zenon DEF InOrder, Ordered
  <1>5. Append(h, q[1]) = h \o <<q[1]>> /\ <<q[1]>> \in Seq(S) /\ SeqSet(<<q[1]>>) = {q[1]}
    BY <1>1 DEF SeqSet
  <1>6. Ordered(w, Append(h, q[1]))
    <2>1. Ordered(w, <<q[1]>>)
      BY DEF Ordered
    <2>2. Before(w, SeqSet(h), {q[1]})
      BY <1>2, Zenon DEF Before, InOrder
    <2> QED BY <1>5, <2>1, <2>2, OrderedConcat, Zenon DEF InOrder
  <1>7. SeqSet(Append(h, q[1])) = SeqSet(h) \union {q[1]}
    BY <1>1, AppendFacts
  <1> QED BY <1>2, <1>3, <1>4, <1>6, <1>7, Zenon DEF InOrder, Before

\* What is held is delivered, goes back, or is dropped.
LEMMA HeldInOrder ==
  ASSUME NEW S, NEW w, NEW d \in Seq(S), NEW h \in Seq(S), NEW q \in Seq(S), InOrder(w, d, h, q)
  PROVE  /\ InOrder(w, d \o h, <<>>, q) /\ InOrder(w, d, <<>>, h \o q) /\ InOrder(w, d, <<>>, q)
         /\ Ordered(w, d \o (h \o q))
  <1>1. Ordered(w, d \o h) /\ Ordered(w, h \o q)
    BY OrderedConcat, Zenon DEF InOrder
  <1>2. SeqSet(d \o h) = SeqSet(d) \union SeqSet(h) /\ SeqSet(h \o q) = SeqSet(h) \union SeqSet(q)
        /\ h \o q \in Seq(S)
    BY ConcatFacts
  <1>3. Ordered(w, <<>>) /\ SeqSet(<<>>) = {}
    BY DEF Ordered, SeqSet
  <1>4. Before(w, SeqSet(d), SeqSet(h \o q)) /\ Before(w, SeqSet(d \o h), SeqSet(q))
    BY <1>2, Zenon DEF InOrder, Before
  <1>5. Ordered(w, d \o (h \o q))
    BY <1>1, <1>2, <1>4, OrderedConcat, Zenon DEF InOrder
  <1> QED BY <1>1, <1>3, <1>4, <1>5, Zenon DEF InOrder, Before

\* What the dequeue at the front holds is a sequence of elements that entered.
LEMMA HeldFacts ==
  ASSUME IInv, ElementsInv
  PROVE  /\ HeldNow \in Seq(Elements) /\ SeqSet(HeldNow) \subseteq SeqSet(entered)
         /\ SeqSet(queue) \subseteq SeqSet(entered) /\ SeqSet(delivered) \subseteq SeqSet(entered)
  <1>1. \A o \in Ops : att[o].tuple \in Seq(Elements) /\ SeqSet(att[o].tuple) \subseteq SeqSet(entered)
    <2>1. \A o \in Ops : TakenBy(o) \subseteq SeqSet(entered)
      BY Zenon DEF ElementsInv
    <2> QED BY <2>1 DEF IInv, TInv, Attempt, TakenBy
  <1>2. attempts["dequeue"] # <<>> => Head(attempts["dequeue"]) \in Ops
    BY TailFacts, Zenon DEF IInv, TInv, Actions
  <1>3. <<>> \in Seq(Elements) /\ SeqSet(<<>>) \subseteq SeqSet(entered)
    BY DEF SeqSet
  <1>4. SeqSet(queue) \subseteq SeqSet(entered) /\ SeqSet(delivered) \subseteq SeqSet(entered)
    BY DEF ElementsInv
  <1> QED BY <1>1, <1>2, <1>3, <1>4 DEF HeldNow

\* A step that moves no element, but may drop what the front holds.
LEMMA FrameElements ==
  ASSUME IInv, HistoryInv, ElementsInv, OrderInv,
         UNCHANGED <<config, queue, entered, delivered>>, status' \in [Ops -> Statuses],
         \A o \in Ops : att'[o].tuple = att[o].tuple,
         HeldNow' = HeldNow \/ HeldNow' = <<>>
  PROVE  HistoryInv' /\ ElementsInv' /\ OrderInv'
  <1>1. work' = work /\ flavor' = flavor /\ \A o \in Ops : TakenBy(o)' = TakenBy(o)
    BY DEF config, TakenBy
  <1>2. HistoryInv'
    BY <1>1, Zenon DEF HistoryInv, Kind
  <1>3. ElementsInv'
    <2>1. queue' = queue /\ entered' = entered /\ delivered' = delivered
      BY Zenon
    <2>2. \A e : e \in SeqSet(entered') <=> e \in SeqSet(queue') \/ e \in SeqSet(delivered')
                                             \/ \E o \in Ops : e \in TakenBy(o)'
      <3>1. \A e : e \in SeqSet(entered) <=> e \in SeqSet(queue) \/ e \in SeqSet(delivered)
                                             \/ \E o \in Ops : e \in TakenBy(o)
        BY Zenon DEF ElementsInv
      <3> QED BY <1>1, <2>1, <3>1, Zenon
    <2>3. \A o \in Ops : /\ Uniq(att'[o].tuple)
                         /\ TakenBy(o)' \cap SeqSet(queue') = {}
                         /\ TakenBy(o)' \cap SeqSet(delivered') = {}
      BY <1>1, <2>1, Zenon DEF ElementsInv
    <2>4. \A o, p \in Ops : o # p => TakenBy(o)' \cap TakenBy(p)' = {}
      BY <1>1, Zenon DEF ElementsInv
    <2> QED BY <2>1, <2>2, <2>3, <2>4, Zenon DEF ElementsInv
  <1>4. OrderInv'
    <2>1. flavor = "fifo" => /\ InOrder(entered, delivered, HeldNow, queue)
                             /\ InOrder(entered, delivered, <<>>, queue)
      BY HeldFacts, HeldInOrder, Zenon DEF OrderInv, HistoryInv, IInv, TInv
    <2>2. CountInv'
      <3>1. /\ HeldNow \in Seq(Elements) /\ queue \in Seq(Elements) /\ delivered \in Seq(Elements)
            /\ entered \in Seq(Elements) /\ CountInv
        BY HeldFacts, Zenon DEF OrderInv, HistoryInv, IInv, TInv
      <3>2. PICK n \in Nat : n = Len(HeldNow)
        BY <3>1
      <3>3. Len(HeldNow') = n \/ Len(HeldNow') = 0
        BY <3>2
      <3> QED BY <3>1, <3>2, <3>3 DEF CountInv
    <2> QED BY <1>1, <2>1, <2>2, Zenon DEF OrderInv
  <1> QED BY <1>2, <1>3, <1>4, Zenon

\* A step that leaves the batches as they are.
LEMMA FrameWork ==
  ASSUME WorkInv, UNCHANGED <<config, entered>>,
         \A o \in Ops : /\ att'[o].tuple = att[o].tuple /\ att'[o].left = att[o].left
                        /\ pc'[o] = "idle" => pc[o] = "idle"
                        /\ att'[o].cancelled => status'[o] = "Cancelled"
                        /\ /\ flavor # "priority" /\ att[o].tuple # <<>>
                           /\ Live(o) \/ status[o] = "Cancelled"
                           => Live(o)' \/ status'[o] = "Cancelled",
         SeqSet(attempts'["enqueue"]) \subseteq SeqSet(attempts["enqueue"])
  PROVE  WorkInv'
  <1> SUFFICES ASSUME NEW o \in Ops PROVE WorkOf(o)'
    BY Zenon DEF WorkInv
  <1>1. WorkOf(o) /\ work' = work /\ flavor' = flavor /\ Kind(o)' = Kind(o)
    BY Zenon DEF WorkInv, config, Kind
  <1> QED BY <1>1, Zenon DEF WorkOf

\* A step that touches neither the attempts nor a status that matters.
LEMMA QuietEInv ==
  ASSUME IInv, EInv, UNCHANGED <<config, queue, entered, delivered, attempts, att>>,
         status' \in [Ops -> Statuses],
         \A o \in Ops : /\ pc'[o] = "idle" => pc[o] = "idle"
                        /\ status'[o] = status[o] \/ (att[o].tuple = <<>> /\ ~att[o].cancelled)
  PROVE  EInv'
  <1>1. /\ work' = work /\ flavor' = flavor
        /\ HistoryInv /\ ElementsInv /\ WorkInv /\ LineInv /\ OrderInv
    BY Zenon DEF EInv, config
  <1>2. HeldNow' = HeldNow /\ LineInv' /\ \A o \in Ops : Live(o)' <=> Live(o)
    BY <1>1, Zenon DEF HeldNow, LineInv, Live
  <1>3. \A o \in Ops : att[o].cancelled => status[o] = "Cancelled"
    BY <1>1, Zenon DEF WorkInv, WorkOf
  <1>4. WorkInv'
    BY <1>1, <1>2, <1>3, FrameWork, Zenon
  <1>5. HistoryInv' /\ ElementsInv' /\ OrderInv'
    BY <1>1, <1>2, FrameElements, Zenon
  <1> QED BY <1>2, <1>4, <1>5, Zenon DEF EInv

\* An operation queues its attempt.
LEMMA EmplaceEInv ==
  ASSUME IInv, EInv, NEW o \in Ops, pc[o] = "idle", Emplace(o),
         Kind(o) = "enqueue" => work[o].n > 0,
         UNCHANGED <<config, queue, entered, delivered, status>>
  PROVE  EInv'
  <1>1. PICK act \in Actions : act = ActionOf(o)
    BY Zenon DEF ActionOf, Actions
  <1>2. /\ HistoryInv /\ ElementsInv /\ WorkInv /\ LineInv /\ OrderInv /\ WorkOf(o) /\ TInv
        /\ work' = work /\ flavor' = flavor /\ status' = status /\ entered' = entered
        /\ att' = [att EXCEPT ![o].left = work[o].n] /\ pc' = [pc EXCEPT ![o] = "flush"]
        /\ attempts' = [attempts EXCEPT ![act] = Append(attempts[act], o)]
    BY <1>1, Zenon DEF EInv, config, WorkInv, IInv, Emplace, Goto
  <1>3. /\ att[o].tuple = <<>> /\ ~att[o].cancelled /\ CallsOf(o)
        /\ \A i \in Int : <<o, i>> \notin SeqSet(entered)
    BY <1>2, Zenon DEF WorkOf, IInv, CallsInv, CallsOf
  <1>4. /\ \A p \in Ops : att'[p].tuple = att[p].tuple /\ att'[p].cancelled = att[p].cancelled
        /\ \A p \in Ops : p # o => att'[p] = att[p] /\ pc'[p] = pc[p]
        /\ att'[o].left = work[o].n /\ pc'[o] = "flush"
    BY <1>2, Zenon DEF TInv, Attempt, Threads
  <1>5. /\ \A a \in Actions : attempts[a] \in Seq(Ops) /\ SeqSet(attempts[a]) \subseteq Ops
        /\ attempts'[act] = Append(attempts[act], o)
        /\ \A a \in Actions : a # act => attempts'[a] = attempts[a]
        /\ SeqSet(attempts'[act]) = SeqSet(attempts[act]) \union {o}
    BY <1>2, AppendFacts, EmptySet DEF TInv
  <1>6. \A a \in Actions : /\ SeqSet(attempts[a]) \subseteq SeqSet(attempts'[a])
                           /\ SeqSet(attempts'[a]) \subseteq SeqSet(attempts[a]) \union {o}
    BY <1>5, Zenon
  <1>7. ASSUME act # "dequeue" \/ attempts["dequeue"] # <<>>
        PROVE  (HeldNow' = HeldNow \/ HeldNow' = <<>>) /\ LineInv'
    <2>1. /\ (attempts'["dequeue"] # <<>>) <=> (attempts["dequeue"] # <<>>)
          /\ attempts["dequeue"] # <<>> => Head(attempts'["dequeue"]) = Head(attempts["dequeue"])
                                           /\ Head(attempts["dequeue"]) \in Ops
      BY <1>5, <1>7, AppendFacts, TailFacts DEF Actions
    <2>2. HeldNow' = HeldNow
      BY <1>4, <2>1, Zenon DEF HeldNow
    <2>3. LineInv'
      <3> SUFFICES ASSUME NEW p \in SeqSet(attempts'["dequeue"]), p # Head(attempts'["dequeue"])
                   PROVE  att'[p].tuple = <<>>
        BY Zenon DEF LineInv
      <3>1. p = o \/ p \in SeqSet(attempts["dequeue"])
        BY <1>6, Zenon DEF Actions
      <3>2. CASE p = o
        BY <1>3, <1>4, <3>2, Zenon
      <3>3. CASE p \in SeqSet(attempts["dequeue"])
        <4>1. attempts["dequeue"] # <<>> /\ p \in Ops
          BY <1>5, <3>3, EmptySet, Zenon DEF Actions
        <4> QED BY <1>2, <1>4, <2>1, <3>3, <4>1, Zenon DEF LineInv
      <3> QED BY <3>1, <3>2, <3>3, Zenon
    <2> QED BY <1>2, <1>4, <2>2, <2>3, Zenon
  <1>8. ASSUME act = "dequeue", attempts["dequeue"] = <<>>
        PROVE  (HeldNow' = HeldNow \/ HeldNow' = <<>>) /\ LineInv'
    <2>1. SeqSet(attempts'["dequeue"]) = {o} /\ attempts'["dequeue"] = Append(<<>>, o)
      BY <1>5, <1>8, EmptySet, Zenon
    <2>2. Head(attempts'["dequeue"]) = o
      BY <2>1
    <2>3. HeldNow' = <<>> /\ LineInv'
      BY <1>3, <1>4, <2>1, <2>2, Zenon DEF HeldNow, LineInv
    <2> QED BY <2>3, Zenon
  <1>9. (HeldNow' = HeldNow \/ HeldNow' = <<>>) /\ LineInv'
    BY <1>7, <1>8, Zenon
  <1>10. HistoryInv' /\ ElementsInv' /\ OrderInv'
    BY <1>2, <1>4, <1>9, FrameElements, Zenon DEF HistoryInv
  <1>11. WorkInv'
    <2> SUFFICES ASSUME NEW p \in Ops PROVE WorkOf(p)'
      BY Zenon DEF WorkInv
    <2>1. WorkOf(p) /\ Kind(p)' = Kind(p) /\ (Live(p) => Live(p)')
      BY <1>2, <1>4, <1>6, Zenon DEF WorkInv, Kind, Live, Actions
    <2>2. CASE p = o
      <3>1. work[o].n \in Nat /\ Len(<<>>) = 0
        BY <1>2 DEF TInv
      <3> QED BY <1>2, <1>3, <1>4, <2>1, <2>2, <3>1 DEF WorkOf
    <2>3. CASE p # o
      <3>1. p \in SeqSet(attempts'["enqueue"]) => p \in SeqSet(attempts["enqueue"])
        BY <1>6, <2>3, Zenon DEF Actions
      <3> QED BY <1>2, <1>4, <2>1, <2>3, <3>1 DEF WorkOf
    <2> QED BY <2>2, <2>3, Zenon
  <1> QED BY <1>9, <1>10, <1>11, Zenon DEF EInv

\* Cancel and CloseAndCancel mark pending attempts.
LEMMA CancelsEInv ==
  ASSUME IInv, EInv, NEW P \in SUBSET Ops,
         \A p \in Ops : att'[p] = IF p \in P THEN [att[p] EXCEPT !.cancelled = TRUE] ELSE att[p],
         status' = [p \in Ops |-> IF p \in P THEN "Cancelled" ELSE status[p]],
         \A p \in Ops : pc'[p] = "idle" => pc[p] = "idle",
         UNCHANGED <<config, queue, entered, delivered, attempts>>
  PROVE  EInv'
  <1>1. /\ HistoryInv /\ ElementsInv /\ WorkInv /\ LineInv /\ OrderInv /\ TInv
        /\ work' = work /\ flavor' = flavor
    BY Zenon DEF EInv, config, IInv
  <1>2. \A p \in Ops : /\ att'[p].tuple = att[p].tuple /\ att'[p].left = att[p].left
                       /\ att[p].cancelled => att'[p].cancelled
                       /\ att'[p].cancelled => p \in P \/ att[p].cancelled
    <2> SUFFICES ASSUME NEW p \in Ops
                 PROVE  /\ att'[p].tuple = att[p].tuple /\ att'[p].left = att[p].left
                        /\ att[p].cancelled => att'[p].cancelled
                        /\ att'[p].cancelled => p \in P \/ att[p].cancelled
      BY Zenon
    <2>1. att[p] \in Attempt
      BY <1>1, Zenon DEF TInv
    <2> QED BY <2>1, Zenon DEF Attempt
  <1>3. /\ attempts["dequeue"] # <<>> => Head(attempts["dequeue"]) \in Ops
        /\ SeqSet(attempts["dequeue"]) \subseteq Ops
    BY <1>1, TailFacts, EmptySet, Zenon DEF TInv, Actions
  <1>4. (HeldNow' = HeldNow \/ HeldNow' = <<>>) /\ LineInv'
    <2>1. HeldNow' = HeldNow \/ HeldNow' = <<>>
      BY <1>2, <1>3, Zenon DEF HeldNow
    <2>2. LineInv'
      BY <1>1, <1>2, <1>3, Zenon DEF LineInv
    <2> QED BY <2>1, <2>2, Zenon
  <1>5. status' \in [Ops -> Statuses] /\ \A p \in Ops : status'[p] = IF p \in P THEN "Cancelled" ELSE status[p]
    BY <1>1, Zenon DEF HistoryInv, Statuses
  <1>6. HistoryInv' /\ ElementsInv' /\ OrderInv'
    BY <1>1, <1>2, <1>4, <1>5, FrameElements, Zenon
  <1>7. WorkInv'
    <2>1. \A p \in Ops : att'[p].cancelled => status'[p] = "Cancelled"
      BY <1>1, <1>2, <1>5, Zenon DEF WorkInv, WorkOf
    <2>2. \A p \in Ops : Live(p) \/ status[p] = "Cancelled" => Live(p)' \/ status'[p] = "Cancelled"
      BY <1>1, <1>2, <1>5, Zenon DEF Live
    <2> QED BY <1>1, <1>2, <2>1, <2>2, FrameWork, Zenon
  <1> QED BY <1>4, <1>6, <1>7, Zenon DEF EInv

\* The line of the dequeues as it was.
LEMMA SameHeld ==
  ASSUME attempts'["dequeue"] = attempts["dequeue"], att' = att
  PROVE  HeldNow' = HeldNow
  BY Zenon DEF HeldNow

\* The first dequeue leaves the line: the others hold nothing.
LEMMA PopLine ==
  ASSUME TInv, PlacesInv, LineInv, attempts["dequeue"] # <<>>,
         attempts'["dequeue"] = Tail(attempts["dequeue"]),
         \A o \in Ops : o # Head(attempts["dequeue"]) => att'[o].tuple = att[o].tuple
  PROVE  LineInv' /\ HeldNow' = <<>>
  <1> DEFINE d == attempts["dequeue"]
  <1>1. d \in Seq(Ops) /\ Uniq(d) /\ d # <<>>
    BY Zenon DEF TInv, PlacesInv, Actions
  <1>2. Tail(d) \in Seq(Ops) /\ SeqSet(Tail(d)) = SeqSet(d) \ {Head(d)} /\ SeqSet(d) \subseteq Ops
    BY <1>1, TailFacts, EmptySet, Zenon
  <1>3. \A o \in SeqSet(Tail(d)) : att'[o].tuple = <<>>
    BY <1>2, Zenon DEF LineInv
  <1>4. Tail(d) # <<>> => Head(Tail(d)) \in SeqSet(Tail(d))
    BY <1>2, TailFacts, Zenon
  <1> QED BY <1>3, <1>4, Zenon DEF LineInv, HeldNow

\* The attempt at the front is popped.
LEMMA PopFacts ==
  ASSUME IInv, attempts[action] # <<>>,
         attempts' = [attempts EXCEPT ![action] = Tail(attempts[action])]
  PROVE  /\ Front \in Ops /\ Front \in SeqSet(attempts[action]) /\ action \in Actions
         /\ \A a \in Actions : /\ SeqSet(attempts'[a]) = SeqSet(attempts[a]) \ {Front}
                               /\ a # action => attempts'[a] = attempts[a]
         /\ attempts'[action] = Tail(attempts[action])
  <1>1. /\ attempts \in [Actions -> Seq(Ops)] /\ action \in Actions /\ attempts[action] \in Seq(Ops)
        /\ Front \in Ops /\ Front \in SeqSet(attempts[action]) /\ Front = Head(attempts[action])
        /\ Uniq(attempts[action])
    BY FrontFacts, Zenon DEF IInv, TInv, PlacesInv, Front
  <1>2. /\ attempts'[action] = Tail(attempts[action])
        /\ \A a \in Actions : a # action => attempts'[a] = attempts[a]
    BY <1>1, Zenon
  <1>3. SeqSet(attempts'[action]) = SeqSet(attempts[action]) \ {Front}
    BY <1>1, <1>2, TailFacts, Zenon
  <1>4. \A a \in Actions : a # action => Front \notin SeqSet(attempts[a])
    BY <1>1, Zenon DEF IInv, PlacesInv
  <1> QED BY <1>1, <1>2, <1>3, <1>4, Zenon

\* An attempt leaves the front with nothing moved: it was cancelled, or it holds
\* nothing, or it is a dequeue of a priority queue.
LEMMA PopEInv ==
  ASSUME IInv, EInv, attempts[action] # <<>>,
         attempts' = [attempts EXCEPT ![action] = Tail(attempts[action])],
         UNCHANGED <<config, queue, entered, delivered, att, pc>>, status' \in [Ops -> Statuses],
         \A o \in Ops : o # Front => status'[o] = status[o],
         \/ att[Front].cancelled /\ status' = status
         \/ ~att[Front].cancelled /\ (att[Front].tuple = <<>> \/ flavor = "priority")
  PROVE  EInv'
  <1>1. /\ HistoryInv /\ ElementsInv /\ WorkInv /\ LineInv /\ OrderInv /\ TInv /\ PlacesInv
        /\ work' = work /\ flavor' = flavor /\ att' = att /\ pc' = pc
    BY Zenon DEF EInv, config, IInv
  <1>2. /\ Front \in Ops /\ Front \in SeqSet(attempts[action]) /\ action \in Actions
        /\ \A a \in Actions : /\ SeqSet(attempts'[a]) = SeqSet(attempts[a]) \ {Front}
                              /\ a # action => attempts'[a] = attempts[a]
        /\ attempts'[action] = Tail(attempts[action])
    BY PopFacts, Zenon
  <1>3. (HeldNow' = HeldNow \/ HeldNow' = <<>>) /\ LineInv'
    <2>1. CASE action = "dequeue"
      BY <1>1, <1>2, <2>1, PopLine, Zenon
    <2>2. CASE action # "dequeue"
      <3>1. attempts'["dequeue"] = attempts["dequeue"]
        BY <1>2, <2>2, Zenon DEF Actions
      <3>2. HeldNow' = HeldNow
        <4>1. att' = att
          BY <1>1, Zenon
        <4> QED BY <3>1, <4>1, SameHeld, Zenon
      <3> QED BY <1>1, <3>1, <3>2, Zenon DEF LineInv
    <2> QED BY <2>1, <2>2, Zenon
  <1>4. HistoryInv' /\ ElementsInv' /\ OrderInv'
    BY <1>1, <1>3, FrameElements, Zenon
  <1>5. WorkInv'
    <2>1. \A o \in Ops : att[o].cancelled => status[o] = "Cancelled"
      BY <1>1, Zenon DEF WorkInv, WorkOf
    <2>2. \A o \in Ops : att'[o].cancelled => status'[o] = "Cancelled"
      BY <1>1, <2>1, Zenon
    <2>3. \A o \in Ops : o # Front => (Live(o)' <=> Live(o))
      BY <1>1, <1>2, Zenon DEF Live, Actions
    <2>4. \A o \in Ops : flavor # "priority" /\ att[o].tuple # <<>>
                         /\ (Live(o) \/ status[o] = "Cancelled")
                           => Live(o)' \/ status'[o] = "Cancelled"
      BY <2>1, <2>3, Zenon
    <2>5. SeqSet(attempts'["enqueue"]) \subseteq SeqSet(attempts["enqueue"])
      BY <1>2, Zenon DEF Actions
    <2> QED BY <1>1, <2>2, <2>4, <2>5, FrameWork, Zenon
  <1> QED BY <1>3, <1>4, <1>5, Zenon DEF EInv

\* TryAttemptLocked drops a cancelled attempt.
LEMMA SkipCancelledEInv ==
  ASSUME IInv, EInv, NEW t \in Threads, SkipCancelled(t)
  PROVE  EInv'
  <1>1. status' = status /\ status \in [Ops -> Statuses]
    BY Zenon DEF SkipCancelled, EInv, HistoryInv
  <1> QED BY <1>1, PopEInv, Zenon DEF SkipCancelled, threadVars

\* A run callback sets the status of the attempt at the front.
LEMMA CompleteStatus ==
  ASSUME IInv, HistoryInv, NEW t \in Threads, NEW act, NEW s \in Statuses, Runs(t, act), Complete(t, s)
  PROVE  /\ Front \in Ops /\ action = act /\ attempts[action] # <<>> /\ ~att[Front].cancelled
         /\ attempts' = [attempts EXCEPT ![action] = Tail(attempts[action])]
         /\ status' \in [Ops -> Statuses] /\ status'[Front] = s
         /\ \A o \in Ops : o # Front => status'[o] = status[o]
  <1>1. /\ action = act /\ attempts[action] # <<>> /\ ~att[Front].cancelled
        /\ attempts' = [attempts EXCEPT ![action] = Tail(attempts[action])]
        /\ status' = [status EXCEPT ![Front] = s]
    BY Zenon DEF Runs, Complete
  <1>2. Front \in Ops /\ status \in [Ops -> Statuses]
    BY <1>1, FrontFacts, Zenon DEF IInv, HistoryInv
  <1> QED BY <1>1, <1>2, Zenon

\* The run callbacks of Close and of an enqueue that comes too late.
LEMMA ClosingEInv ==
  ASSUME IInv, EInv, NEW t \in Threads, RunClose(t) \/ EnqueueClosed(t)
  PROVE  EInv'
  <1>1. PICK s \in Statuses : Complete(t, s)
    BY Zenon DEF RunClose, EnqueueClosed, Statuses
  <1>2. /\ Runs(t, "enqueue") /\ Kind(Front) \in {"close", "enqueue"} /\ HistoryInv
        /\ UNCHANGED <<config, queue, entered, delivered, att, pc>>
    BY Zenon DEF RunClose, EnqueueClosed, EInv
  <1>3. /\ Front \in Ops /\ attempts[action] # <<>> /\ ~att[Front].cancelled
        /\ attempts' = [attempts EXCEPT ![action] = Tail(attempts[action])]
        /\ status' \in [Ops -> Statuses] /\ \A o \in Ops : o # Front => status'[o] = status[o]
    BY <1>1, <1>2, CompleteStatus, Zenon
  <1>4. att[Front].tuple = <<>>
    BY <1>2, <1>3, Zenon DEF EInv, WorkInv, WorkOf, DequeueKinds
  <1> QED BY <1>2, <1>3, <1>4, PopEInv, Zenon

\* The attempt at the front keeps its tuple when only its needs change.
LEMMA FrontTuple ==
  ASSUME TInv, attempts[action] # <<>>
  PROVE  /\ Front \in Ops /\ att \in [Ops -> Attempt] /\ att[Front] \in Attempt
         /\ \A n : [att EXCEPT ![Front].left = n][Front].tuple = att[Front].tuple
  <1>1. Front \in Ops /\ att \in [Ops -> Attempt] /\ att[Front] \in Attempt
    BY FrontFacts, Zenon DEF TInv
  <1> QED BY <1>1, Zenon DEF Attempt

\* An element enters the queue.
LEMMA EnterElements ==
  ASSUME ElementsInv, HistoryInv, TInv, NEW e \in Elements, e \notin SeqSet(entered),
         queue' = Append(queue, e), entered' = Append(entered, e), delivered' = delivered,
         \A o \in Ops : att'[o].tuple = att[o].tuple
  PROVE  ElementsInv'
  <1>1. /\ queue \in Seq(Elements) /\ entered \in Seq(Elements)
        /\ \A o \in Ops : TakenBy(o)' = TakenBy(o)
    BY Zenon DEF TInv, HistoryInv, TakenBy
  <1>2. /\ Uniq(entered) /\ Uniq(queue) /\ Uniq(delivered)
        /\ e \notin SeqSet(queue) /\ e \notin SeqSet(delivered) /\ \A o \in Ops : e \notin TakenBy(o)
    BY Zenon DEF ElementsInv
  <1>3. /\ Uniq(entered') /\ Uniq(queue') /\ SeqSet(entered') = SeqSet(entered) \union {e}
        /\ SeqSet(queue') = SeqSet(queue) \union {e}
    BY <1>1, <1>2, AppendFacts
  <1>4. /\ SeqSet(queue') \cap SeqSet(delivered') = {}
        /\ \A o \in Ops : /\ Uniq(att'[o].tuple) /\ TakenBy(o)' \cap SeqSet(queue') = {}
                          /\ TakenBy(o)' \cap SeqSet(delivered') = {}
        /\ \A o, p \in Ops : o # p => TakenBy(o)' \cap TakenBy(p)' = {}
    BY <1>1, <1>2, <1>3 DEF ElementsInv
  <1>5. \A x : x \in SeqSet(entered') <=>
                 x \in SeqSet(queue') \/ x \in SeqSet(delivered') \/ \E o \in Ops : x \in TakenBy(o)'
    <2>1. \A x : x \in SeqSet(entered) <=>
                   x \in SeqSet(queue) \/ x \in SeqSet(delivered) \/ \E o \in Ops : x \in TakenBy(o)
      BY Zenon DEF ElementsInv
    <2> QED BY <1>1, <1>3, <2>1
  <1> QED BY <1>2, <1>3, <1>4, <1>5, Zenon DEF ElementsInv

\* Elements move between the queue, the batch of f and what is delivered: nothing
\* is lost or doubled.
LEMMA MoveElements ==
  ASSUME ElementsInv, NEW f \in Ops, entered' = entered,
         Uniq(queue'), Uniq(delivered'), Uniq(att'[f].tuple),
         \A o \in Ops : o # f => att'[o].tuple = att[o].tuple,
         SeqSet(queue') \cap SeqSet(delivered') = {},
         TakenBy(f)' \cap SeqSet(queue') = {}, TakenBy(f)' \cap SeqSet(delivered') = {},
         SeqSet(queue') \union SeqSet(delivered') \union TakenBy(f)'
           = SeqSet(queue) \union SeqSet(delivered) \union TakenBy(f)
  PROVE  ElementsInv'
  <1>1. \A o \in Ops : o # f => TakenBy(o)' = TakenBy(o)
    BY Zenon DEF TakenBy
  <1>2. \A x : x \in SeqSet(queue') \/ x \in SeqSet(delivered') \/ x \in TakenBy(f)'
            <=> x \in SeqSet(queue) \/ x \in SeqSet(delivered) \/ x \in TakenBy(f)
    BY Zenon
  <1>3. \A o \in Ops : Uniq(att'[o].tuple)
    BY Zenon DEF ElementsInv
  <1>4. \A o \in Ops : TakenBy(o)' \cap SeqSet(queue') = {} /\ TakenBy(o)' \cap SeqSet(delivered') = {}
    <2> SUFFICES ASSUME NEW o \in Ops, o # f, NEW x \in TakenBy(o)
                 PROVE  x \notin SeqSet(queue') /\ x \notin SeqSet(delivered')
      BY <1>1, Zenon
    <2>1. x \notin SeqSet(queue) /\ x \notin SeqSet(delivered) /\ x \notin TakenBy(f)
      BY Zenon DEF ElementsInv
    <2> QED BY <1>2, <2>1, Zenon
  <1>5. \A o, p \in Ops : o # p => TakenBy(o)' \cap TakenBy(p)' = {}
    <2>1. \A o \in Ops : o # f => TakenBy(o)' \cap TakenBy(f)' = {}
      <3> SUFFICES ASSUME NEW o \in Ops, o # f, NEW x \in TakenBy(o) PROVE x \notin TakenBy(f)'
        BY <1>1, Zenon
      <3>1. x \notin SeqSet(queue) /\ x \notin SeqSet(delivered) /\ x \notin TakenBy(f)
        BY Zenon DEF ElementsInv
      <3> QED BY <1>2, <3>1, Zenon
    <2>2. \A o, p \in Ops : o # p => TakenBy(o) \cap TakenBy(p) = {}
      BY Zenon DEF ElementsInv
    <2> SUFFICES ASSUME NEW o \in Ops, NEW p \in Ops, o # p
                 PROVE  TakenBy(o)' \cap TakenBy(p)' = {}
      BY Zenon
    <2>3. CASE o = f
      BY <2>1, <2>3, Zenon
    <2>4. CASE p = f
      BY <2>1, <2>4, Zenon
    <2>5. CASE o # f /\ p # f
      BY <1>1, <2>2, <2>5, Zenon
    <2> QED BY <2>3, <2>4, <2>5, Zenon
  <1>6. \A x : x \in SeqSet(entered') <=>
                 x \in SeqSet(queue') \/ x \in SeqSet(delivered') \/ \E o \in Ops : x \in TakenBy(o)'
    <2> SUFFICES ASSUME NEW x
                 PROVE  x \in SeqSet(entered) <=>
                          x \in SeqSet(queue') \/ x \in SeqSet(delivered') \/ \E o \in Ops : x \in TakenBy(o)'
      BY Zenon
    <2>1. x \in SeqSet(entered) <=>
            x \in SeqSet(queue) \/ x \in SeqSet(delivered) \/ \E o \in Ops : x \in TakenBy(o)
      BY Zenon DEF ElementsInv
    <2>2. (\E o \in Ops : x \in TakenBy(o)) <=> x \in TakenBy(f) \/ \E o \in Ops : o # f /\ x \in TakenBy(o)
      BY Zenon
    <2>3. (\E o \in Ops : x \in TakenBy(o)') <=> x \in TakenBy(f)' \/ \E o \in Ops : o # f /\ x \in TakenBy(o)
      BY <1>1, Zenon
    <2> QED BY <1>2, <2>1, <2>2, <2>3, Zenon
  <1> QED BY <1>3, <1>4, <1>5, <1>6, Zenon DEF ElementsInv

\* The state of the front attempt changes: what it needs and holds, and perhaps
\* its status.
LEMMA FrontWork ==
  ASSUME IInv, WorkInv, NEW f \in Ops, NEW n \in Int, UNCHANGED <<config, pc>>,
         \A o \in Ops : o # f => att'[o] = att[o] /\ status'[o] = status[o],
         att'[f].left = n, n >= 0, Len(att'[f].tuple) + n <= work[f].n,
         att'[f].cancelled = att[f].cancelled, ~att[f].cancelled, pc[f] # "idle",
         Kind(f) \notin DequeueKinds => att'[f].tuple = <<>>,
         f \in SeqSet(attempts'["enqueue"]) /\ Kind(f) = "enqueue" => n > 0,
         \A i \in Int : <<f, i>> \in SeqSet(entered') => Kind(f) = "enqueue" /\ i <= work[f].n - n,
         \A o \in Ops, i \in Int : o # f /\ <<o, i>> \in SeqSet(entered') => <<o, i>> \in SeqSet(entered),
         att'[f].tuple # <<>> => Live(f)',
         \A a \in Actions : SeqSet(attempts[a]) \subseteq SeqSet(attempts'[a]) \union {f},
         \A a \in Actions : SeqSet(attempts'[a]) \subseteq SeqSet(attempts[a])
  PROVE  WorkInv'
  <1> SUFFICES ASSUME NEW o \in Ops PROVE WorkOf(o)'
    BY Zenon DEF WorkInv
  <1>1. /\ WorkOf(o) /\ work' = work /\ flavor' = flavor /\ pc' = pc
        /\ Kind(o)' = Kind(o) /\ Kind(f)' = Kind(f)
    BY Zenon DEF WorkInv, config, Kind
  <1>2. CASE o = f
    BY <1>1, <1>2, Zenon DEF WorkOf
  <1>3. CASE o # f
    <2>1. att'[o] = att[o] /\ status'[o] = status[o] /\ (Live(o) => Live(o)')
      BY <1>3, Zenon DEF Live, Actions
    <2>2. o \in SeqSet(attempts'["enqueue"]) => o \in SeqSet(attempts["enqueue"])
      BY Zenon DEF Actions
    <2>3. \A i \in Int : <<o, i>> \in SeqSet(entered') => <<o, i>> \in SeqSet(entered)
      BY <1>3, Zenon
    <2> QED BY <1>1, <2>1, <2>2, <2>3, Zenon DEF WorkOf
  <1> QED BY <1>2, <1>3, Zenon

\* One element enters the queue: it has not entered before, and comes last.
LEMMA EnqueueElementEInv ==
  ASSUME IInv, EInv, NEW t \in Threads, EnqueueElement(t)
  PROVE  EInv'
  <1>1. /\ HistoryInv /\ ElementsInv /\ WorkInv /\ LineInv /\ OrderInv /\ TInv /\ PlacesInv
        /\ work' = work /\ flavor' = flavor /\ delivered' = delivered /\ pc' = pc
        /\ Runs(t, "enqueue") /\ action = "enqueue" /\ attempts[action] # <<>> /\ ~att[Front].cancelled
        /\ Kind(Front) = "enqueue" /\ UNCHANGED config
    BY Zenon DEF EInv, IInv, EnqueueElement, Runs, config
  <1>2. PICK f \in Ops : f = Front /\ f \in SeqSet(attempts["enqueue"])
    BY <1>1, FrontFacts, Zenon
  <1>3. PICK left \in Int : left = att[f].left
    BY <1>1, Zenon DEF TInv, Attempt
  <1>4. PICK e : e = <<f, work[f].n - left + 1>>
    BY Zenon
  <1>5. /\ WorkOf(f) /\ left > 0 /\ work[f].n \in Nat /\ att[f].tuple = <<>> /\ left <= work[f].n
        /\ pc[f] # "idle" /\ e \in Elements /\ e \notin SeqSet(entered)
    <2>1. WorkOf(f) /\ left > 0 /\ work[f].n \in Nat /\ att[f].tuple = <<>>
      BY <1>1, <1>2, <1>3, Zenon DEF WorkInv, WorkOf, DequeueKinds, TInv
    <2>2. pc[f] # "idle"
      BY <1>2, Zenon DEF IInv, CallsInv, CallsOf, Queued, Actions
    <2>3. left <= work[f].n
      BY <1>3, <2>1 DEF WorkOf
    <2>4. e \in Elements
      BY <1>4, <2>1 DEF Elements
    <2>5. e \notin SeqSet(entered)
      <3>1. ~(work[f].n - left + 1 <= work[f].n - left) /\ work[f].n - left + 1 \in Int
        BY <2>1
      <3> QED BY <1>3, <1>4, <2>1, <3>1, Zenon DEF WorkOf
    <2> QED BY <2>1, <2>2, <2>3, <2>4, <2>5, Zenon
  <1>6. /\ queue' = Append(queue, e) /\ entered' = Append(entered, e)
        /\ att' = [att EXCEPT ![Front].left = left - 1]
    BY <1>2, <1>3, <1>4, Zenon DEF EnqueueElement, Element
  <1>7. /\ att'[f].left = left - 1 /\ att'[f].cancelled = att[f].cancelled
        /\ att'[f].tuple = att[f].tuple /\ \A o \in Ops : o # f => att'[o] = att[o]
    <2>1. UpdatesFront(att', left - 1)
      <3>1. left - 1 \in Int
        OBVIOUS
      <3> QED BY <1>1, <1>6, <3>1, FrontUpdate, Zenon
    <2>2. att'[f].tuple = att[f].tuple
      BY <1>1, <1>2, <1>6, FrontTuple, Zenon
    <2> QED BY <1>2, <2>1, <2>2, Zenon DEF UpdatesFront
  <1>8. /\ status' \in [Ops -> Statuses] /\ \A o \in Ops : o # f => status'[o] = status[o]
        /\ attempts'["dequeue"] = attempts["dequeue"]
        /\ \A a \in Actions : /\ SeqSet(attempts[a]) \subseteq SeqSet(attempts'[a]) \union {f}
                              /\ SeqSet(attempts'[a]) \subseteq SeqSet(attempts[a])
        /\ f \in SeqSet(attempts'["enqueue"]) => left # 1
    <2>1. CASE left = 1
      <3>1. Complete(t, "OK") /\ "OK" \in Statuses
        BY <1>2, <1>3, <2>1, Zenon DEF EnqueueElement, Statuses
      <3>2. /\ status' \in [Ops -> Statuses] /\ \A o \in Ops : o # Front => status'[o] = status[o]
            /\ attempts' = [attempts EXCEPT ![action] = Tail(attempts[action])]
        BY <1>1, <3>1, CompleteStatus, Zenon
      <3>3. \A a \in Actions : /\ SeqSet(attempts'[a]) = SeqSet(attempts[a]) \ {Front}
                               /\ a # action => attempts'[a] = attempts[a]
        BY <1>1, <3>2, PopFacts, Zenon
      <3> QED BY <1>1, <1>2, <3>2, <3>3, Zenon DEF Actions
    <2>2. CASE left # 1
      <3>1. status' = status /\ attempts' = attempts
        BY <1>2, <1>3, <2>2, Zenon DEF EnqueueElement
      <3> QED BY <1>1, <2>2, <3>1, Zenon DEF HistoryInv
    <2> QED BY <2>1, <2>2, Zenon
  <1>9. \A o \in Ops : att'[o].tuple = att[o].tuple /\ att'[o].cancelled = att[o].cancelled
    BY <1>7, Zenon
  <1>10. HistoryInv'
    BY <1>1, <1>5, <1>6, <1>8, AppendFacts DEF HistoryInv, Kind
  <1>11. ElementsInv'
    BY <1>1, <1>5, <1>6, <1>9, EnterElements
  <1>12. LineInv' /\ HeldNow' = HeldNow
    <2>1. /\ attempts["dequeue"] # <<>> => Head(attempts["dequeue"]) \in Ops
          /\ SeqSet(attempts["dequeue"]) \subseteq Ops
      BY <1>1, TailFacts, EmptySet, Zenon DEF TInv, Actions
    <2>2. LineInv'
      BY <1>1, <1>8, <1>9, <2>1, Zenon DEF LineInv
    <2>3. HeldNow' = HeldNow
      BY <1>8, <1>9, <2>1, Zenon DEF HeldNow
    <2> QED BY <2>2, <2>3, Zenon
  <1>13. OrderInv'
    <2>1. ASSUME flavor = "fifo" PROVE InOrder(entered', delivered, HeldNow, queue')
      <3>1. /\ entered \in Seq(Elements) /\ delivered \in Seq(Elements) /\ queue \in Seq(Elements)
            /\ Uniq(entered) /\ InOrder(entered, delivered, HeldNow, queue)
        BY <1>1, <2>1, Zenon DEF HistoryInv, TInv, ElementsInv, OrderInv
      <3> QED BY <1>1, <1>5, <1>6, <3>1, HeldFacts, EntersInOrder, Zenon
    <2>2. CountInv'
      <3>1. /\ HeldNow \in Seq(Elements) /\ queue \in Seq(Elements) /\ delivered \in Seq(Elements)
            /\ entered \in Seq(Elements) /\ CountInv
        BY <1>1, HeldFacts, Zenon DEF OrderInv, HistoryInv, TInv
      <3>2. Len(queue') = Len(queue) + 1 /\ Len(entered') = Len(entered) + 1
        BY <1>5, <1>6, <3>1
      <3>3. Len(HeldNow) \in Nat /\ Len(queue) \in Nat /\ Len(delivered) \in Nat /\ Len(entered) \in Nat
        BY <3>1
      <3> QED BY <1>1, <1>12, <3>1, <3>2, <3>3 DEF CountInv
    <2> QED BY <1>1, <1>12, <2>1, <2>2, Zenon DEF OrderInv
  <1>14. WorkInv'
    <2>1. SeqSet(entered') = SeqSet(entered) \union {e}
      BY <1>1, <1>5, <1>6, AppendFacts DEF HistoryInv
    <2>2. \A i \in Int : <<f, i>> \in SeqSet(entered') =>
             Kind(f) = "enqueue" /\ i <= work[f].n - (left - 1)
      <3> SUFFICES ASSUME NEW i \in Int, <<f, i>> \in SeqSet(entered')
                   PROVE  Kind(f) = "enqueue" /\ i <= work[f].n - (left - 1)
        BY Zenon
      <3>1. CASE <<f, i>> \in SeqSet(entered)
        <4>1. i <= work[f].n - left
          BY <1>3, <1>5, <3>1, Zenon DEF WorkOf
        <4> QED BY <1>1, <1>2, <1>5, <4>1
      <3>2. CASE <<f, i>> = e
        <4>1. i = work[f].n - left + 1
          BY <1>4, <3>2
        <4> QED BY <1>1, <1>2, <1>5, <4>1
      <3> QED BY <2>1, <3>1, <3>2
    <2>3. \A o \in Ops, i \in Int : o # f /\ <<o, i>> \in SeqSet(entered') => <<o, i>> \in SeqSet(entered)
      BY <1>4, <2>1, Zenon
    <2>4. /\ left - 1 \in Int /\ left - 1 >= 0 /\ (left # 1 => left - 1 > 0)
          /\ Len(att'[f].tuple) + (left - 1) <= work[f].n
      BY <1>5, <1>7
    <2>5. UNCHANGED <<config, pc>>
      BY <1>1, Zenon
    <2>6. \A o \in Ops : o # f => att'[o] = att[o] /\ status'[o] = status[o]
      BY <1>7, <1>8, Zenon
    <2> QED BY <1>1, <1>2, <1>5, <1>7, <1>8, <2>2, <2>3, <2>4, <2>5, <2>6, FrontWork, Zenon
  <1> QED BY <1>10, <1>11, <1>12, <1>13, <1>14 DEF EInv

\* The attempt a dequeue runs.
LEMMA DequeueFront ==
  ASSUME IInv, EInv, NEW t \in Threads, Runs(t, "dequeue")
  PROVE  /\ action = "dequeue" /\ attempts[action] # <<>> /\ attempts["dequeue"] # <<>>
         /\ Front = Head(attempts["dequeue"]) /\ Front \in Ops /\ ~att[Front].cancelled
         /\ Front \in SeqSet(attempts["dequeue"]) /\ Kind(Front) \in DequeueKinds
         /\ pc[Front] # "idle" /\ HeldNow = att[Front].tuple
         /\ att[Front].tuple \in Seq(Elements) /\ att[Front].left \in Int /\ att[Front].left > 0
         /\ work[Front].n \in Nat /\ Len(att[Front].tuple) + att[Front].left <= work[Front].n
         /\ \A i \in Int : <<Front, i>> \notin SeqSet(entered)
  <1>1. /\ TInv /\ PlacesInv /\ LeftInv /\ CallsInv /\ WorkInv /\ action = "dequeue"
        /\ attempts[action] # <<>> /\ ~att[Front].cancelled
    BY Zenon DEF IInv, EInv, Runs
  <1>2. PICK f \in Ops : f = Front /\ f = Head(attempts["dequeue"]) /\ f \in SeqSet(attempts["dequeue"])
    BY <1>1, FrontFacts, Zenon DEF Front
  <1>3. ActionOf(f) = "dequeue" /\ pc[f] # "idle"
    BY <1>1, <1>2, Zenon DEF PlacesInv, CallsInv, CallsOf, Queued, Actions
  <1>4. Kind(f) \in DequeueKinds
    BY <1>3, Zenon DEF ActionOf
  <1>5. Kind(f) # "enqueue"
    BY <1>4, Zenon DEF DequeueKinds
  <1>6. /\ att[f].tuple \in Seq(Elements) /\ att[f].left \in Int /\ att[f].left > 0 /\ work[f].n \in Nat
        /\ WorkOf(f)
    BY <1>1, <1>2, Zenon DEF TInv, Attempt, LeftInv, WorkInv
  <1>7. HeldNow = att[f].tuple
    BY <1>1, <1>2, Zenon DEF HeldNow
  <1>8. Len(att[f].tuple) + att[f].left <= work[f].n /\ \A i \in Int : <<f, i>> \notin SeqSet(entered)
    BY <1>5, <1>6, Zenon DEF WorkOf
  <1> QED BY <1>1, <1>2, <1>3, <1>4, <1>6, <1>7, <1>8, Zenon

\* What a dequeue takes.
LEMMA TakesFacts ==
  ASSUME TInv, NEW t \in Threads, DequeueElement(t)
  PROVE  \E i \in 1..Len(queue) :
           /\ flavor = "fifo" => i = 1
           /\ queue' = Without(queue, i)
           /\ IF att[Front].left = 1
              THEN /\ Complete(t, "OK")
                   /\ delivered' = delivered \o Append(att[Front].tuple, queue[i])
                   /\ att' = [att EXCEPT ![Front].left = 0, ![Front].tuple = <<>>]
              ELSE /\ result' = "progress"
                   /\ att' = [att EXCEPT ![Front].left = att[Front].left - 1,
                                         ![Front].tuple = Append(att[Front].tuple, queue[i])]
                   /\ UNCHANGED <<attempts, clean, status, mu, action, changed, delivered>>
  <1>1. PICK i \in Choices :
          /\ queue' = Without(queue, i)
          /\ IF att[Front].left = 1
             THEN /\ Complete(t, "OK")
                  /\ delivered' = delivered \o Append(att[Front].tuple, queue[i])
                  /\ att' = [att EXCEPT ![Front].left = 0, ![Front].tuple = <<>>]
             ELSE /\ result' = "progress"
                  /\ att' = [att EXCEPT ![Front].left = att[Front].left - 1,
                                        ![Front].tuple = Append(att[Front].tuple, queue[i])]
                  /\ UNCHANGED <<attempts, clean, status, mu, action, changed, delivered>>
    BY Zenon DEF DequeueElement
  <1>2. queue \in Seq(Elements) /\ Len(queue) \in Nat /\ DOMAIN queue = 1..Len(queue)
    BY DEF TInv
  <1>3. Len(queue) > 0
    <2>1. queue' \in Seq(Elements) /\ Len(queue') = Len(queue) - 1
      BY DequeueElementFacts, Zenon
    <2> QED BY <1>2, <2>1
  <1>4. i \in 1..Len(queue) /\ (flavor = "fifo" => i = 1)
    <2>1. flavor \in {"fifo", "shuffle", "priority"}
      BY Zenon DEF TInv, Flavors
    <2> QED BY <1>1, <1>2, <1>3, <2>1 DEF Choices
  <1> QED BY <1>1, <1>4, Zenon

\* A dequeue takes an element for its batch, which is not yet full.
LEMMA TakeEInv ==
  ASSUME IInv, EInv, NEW t \in Threads, DequeueElement(t), att[Front].left # 1
  PROVE  EInv'
  <1>1. /\ HistoryInv /\ ElementsInv /\ WorkInv /\ LineInv /\ OrderInv /\ TInv /\ UNCHANGED <<config, pc>>
        /\ work' = work /\ flavor' = flavor /\ entered' = entered /\ Runs(t, "dequeue")
    BY DEF EInv, IInv, DequeueElement, config
  <1>2. PICK i \in 1..Len(queue) :
          /\ flavor = "fifo" => i = 1
          /\ queue' = Without(queue, i)
          /\ att' = [att EXCEPT ![Front].left = att[Front].left - 1,
                                ![Front].tuple = Append(att[Front].tuple, queue[i])]
          /\ UNCHANGED <<attempts, status, delivered>>
    BY <1>1, TakesFacts, Zenon
  <1>3. PICK f \in Ops : /\ f = Front /\ f = Head(attempts["dequeue"]) /\ attempts["dequeue"] # <<>>
                         /\ attempts[action] # <<>> /\ ~att[f].cancelled
                         /\ f \in SeqSet(attempts["dequeue"]) /\ Kind(f) \in DequeueKinds
                         /\ pc[f] # "idle" /\ HeldNow = att[f].tuple
                         /\ att[f].tuple \in Seq(Elements) /\ att[f].left \in Int /\ att[f].left > 0
                         /\ work[f].n \in Nat /\ Len(att[f].tuple) + att[f].left <= work[f].n
                         /\ \A k \in Int : <<f, k>> \notin SeqSet(entered)
    BY <1>1, DequeueFront, Zenon
  <1>4. PICK x \in Elements : x = queue[i] /\ x \in SeqSet(queue)
    <2>1. queue \in Seq(Elements)
      BY <1>1, Zenon DEF TInv
    <2> QED BY <2>1 DEF SeqSet
  <1>5. PICK u \in Seq(Elements) : u = att[f].tuple
    BY <1>3, Zenon
  <1>6. PICK n \in Int : n = att[f].left
    BY <1>3, Zenon
  <1>7. /\ Append(u, x) \in Seq(Elements) /\ SeqSet(Append(u, x)) = SeqSet(u) \union {x}
        /\ Len(Append(u, x)) = Len(u) + 1
        /\ Uniq(u) /\ x \notin SeqSet(u) => Uniq(Append(u, x))
    BY AppendFacts
  <1>8. /\ queue' \in Seq(Elements) /\ Uniq(queue') /\ SeqSet(queue') = SeqSet(queue) \ {x}
        /\ flavor = "fifo" => queue' = Tail(queue) /\ x = queue[1]
    <2>1. queue \in Seq(Elements) /\ Uniq(queue)
      BY <1>1, Zenon DEF TInv, ElementsInv
    <2> QED BY <1>2, <1>4, <2>1, WithoutFacts, WithoutElements, Zenon
  <1>9. /\ att'[f].left = n - 1 /\ att'[f].tuple = Append(u, x) /\ att'[f].cancelled = att[f].cancelled
        /\ \A o \in Ops : o # f => att'[o] = att[o]
    <2>1. n - 1 \in Int /\ att' = [att EXCEPT ![Front].left = n - 1, ![Front].tuple = Append(u, x)]
      BY <1>2, <1>3, <1>4, <1>5, <1>6
    <2>2. UpdatesFront(att', n - 1)
      BY <1>1, <1>3, <1>7, <2>1, FrontUpdate, Zenon
    <2>3. att'[Front].tuple = Append(u, x)
      <3>1. Front \in Ops /\ att \in [Ops -> Attempt] /\ att[Front] \in Attempt
        BY <1>1, <1>3, FrontTuple, Zenon
      <3> QED BY <2>1, <3>1, Zenon DEF Attempt
    <2> QED BY <1>3, <2>2, <2>3, Zenon DEF UpdatesFront
  <1>10. HistoryInv'
    BY <1>1, <1>2, Zenon DEF HistoryInv, Kind
  <1>11. ElementsInv'
    <2>1. /\ TakenBy(f) = SeqSet(u) /\ TakenBy(f)' = SeqSet(u) \union {x} /\ delivered' = delivered
          /\ Uniq(u) /\ Uniq(delivered) /\ SeqSet(u) \cap SeqSet(queue) = {}
          /\ SeqSet(u) \cap SeqSet(delivered) = {} /\ SeqSet(queue) \cap SeqSet(delivered) = {}
      BY <1>1, <1>2, <1>5, <1>7, <1>9, Zenon DEF TakenBy, ElementsInv
    <2>2. Uniq(att'[f].tuple)
      BY <1>4, <1>7, <1>9, <2>1, Zenon
    <2>3. /\ SeqSet(queue') \cap SeqSet(delivered') = {} /\ TakenBy(f)' \cap SeqSet(queue') = {}
          /\ TakenBy(f)' \cap SeqSet(delivered') = {}
          /\ SeqSet(queue') \union SeqSet(delivered') \union TakenBy(f)'
               = SeqSet(queue) \union SeqSet(delivered) \union TakenBy(f)
      BY <1>4, <1>8, <2>1, Zenon
    <2>4. \A o \in Ops : o # f => att'[o].tuple = att[o].tuple
      BY <1>9
    <2> QED BY <1>1, <1>8, <2>1, <2>2, <2>3, <2>4, MoveElements, Zenon
  <1>12. LineInv' /\ HeldNow' = Append(u, x)
    <2>1. SeqSet(attempts["dequeue"]) \subseteq Ops /\ attempts' = attempts
      BY <1>1, <1>2, EmptySet, Zenon DEF TInv, Actions
    <2>2. LineInv'
      BY <1>1, <1>3, <1>9, <2>1, Zenon DEF LineInv
    <2>3. HeldNow' = Append(u, x)
      BY <1>3, <1>9, <2>1, Zenon DEF HeldNow
    <2> QED BY <2>2, <2>3, Zenon
  <1>13. OrderInv'
    <2>1. ASSUME flavor = "fifo" PROVE InOrder(entered, delivered, Append(u, x), queue')
      <3>1. /\ delivered \in Seq(Elements) /\ queue \in Seq(Elements) /\ queue # <<>>
            /\ InOrder(entered, delivered, u, queue)
        BY <1>1, <1>3, <1>4, <1>5, <2>1, EmptySet, Zenon DEF HistoryInv, TInv, OrderInv
      <3>2. InOrder(entered, delivered, Append(u, queue[1]), Tail(queue))
        BY <3>1, TakesInOrder, Zenon
      <3> QED BY <1>8, <2>1, <3>2, Zenon
    <2>2. CountInv'
      <3>1. /\ HeldNow = u /\ queue \in Seq(Elements) /\ delivered \in Seq(Elements)
            /\ entered \in Seq(Elements) /\ CountInv
        BY <1>1, <1>3, <1>5, Zenon DEF OrderInv, HistoryInv, TInv
      <3>2. Len(queue') = Len(queue) - 1
        BY <1>2, <3>1, WithoutFacts
      <3>3. Len(u) \in Nat /\ Len(queue) \in Nat /\ Len(delivered) \in Nat /\ Len(entered) \in Nat
        BY <3>1
      <3> QED BY <1>1, <1>2, <1>7, <1>12, <3>1, <3>2, <3>3 DEF CountInv
    <2> QED BY <1>1, <1>2, <1>12, <2>1, <2>2, Zenon DEF OrderInv
  <1>14. WorkInv'
    <2>1. /\ n - 1 \in Int /\ n - 1 >= 0 /\ Len(att'[f].tuple) + (n - 1) <= work[f].n
      <3>1. /\ Len(u) \in Nat /\ n > 0 /\ n # 1 /\ Len(u) + n <= work[f].n /\ work[f].n \in Nat
            /\ Len(att'[f].tuple) = Len(u) + 1
        <4>1. Len(att'[f].tuple) = Len(u) + 1
          BY <1>7, <1>9, Zenon
        <4>2. Len(u) + n <= work[f].n /\ work[f].n \in Nat /\ n > 0
          BY <1>3, <1>5, <1>6, Zenon
        <4>3. n # 1 /\ Len(u) \in Nat
          BY <1>3, <1>6
        <4> QED BY <4>1, <4>2, <4>3, Zenon
      <3> QED BY <3>1
    <2>2. Live(f)' /\ ~(Kind(f) = "enqueue")
      BY <1>2, <1>3, <1>9, Zenon DEF Live, DequeueKinds
    <2>3. \A o \in Ops : o # f => att'[o] = att[o] /\ status'[o] = status[o]
      BY <1>2, <1>9, Zenon
    <2>4. attempts' = attempts /\ entered' = entered
      BY <1>1, <1>2, Zenon
    <2> QED BY <1>1, <1>3, <1>9, <2>1, <2>2, <2>3, <2>4, FrontWork, Zenon
  <1> QED BY <1>10, <1>11, <1>12, <1>13, <1>14, Zenon DEF EInv

\* A dequeue takes the last element of its batch, which is delivered.
LEMMA DeliverEInv ==
  ASSUME IInv, EInv, NEW t \in Threads, DequeueElement(t), att[Front].left = 1
  PROVE  EInv'
  <1>1. /\ HistoryInv /\ ElementsInv /\ WorkInv /\ LineInv /\ OrderInv /\ TInv /\ UNCHANGED <<config, pc>>
        /\ work' = work /\ flavor' = flavor /\ entered' = entered /\ Runs(t, "dequeue") /\ PlacesInv
    BY Zenon DEF EInv, IInv, DequeueElement, config
  <1>2. PICK i \in 1..Len(queue) :
          /\ flavor = "fifo" => i = 1
          /\ queue' = Without(queue, i)
          /\ Complete(t, "OK")
          /\ delivered' = delivered \o Append(att[Front].tuple, queue[i])
          /\ att' = [att EXCEPT ![Front].left = 0, ![Front].tuple = <<>>]
    BY <1>1, TakesFacts, Zenon
  <1>3. PICK f \in Ops : /\ f = Front /\ f = Head(attempts["dequeue"]) /\ attempts["dequeue"] # <<>>
                         /\ attempts[action] # <<>> /\ ~att[f].cancelled /\ action = "dequeue"
                         /\ f \in SeqSet(attempts["dequeue"]) /\ Kind(f) \in DequeueKinds
                         /\ pc[f] # "idle" /\ HeldNow = att[f].tuple
                         /\ att[f].tuple \in Seq(Elements) /\ work[f].n \in Nat
                         /\ \A k \in Int : <<f, k>> \notin SeqSet(entered)
    BY <1>1, DequeueFront, Zenon
  <1>4. PICK x \in Elements : x = queue[i] /\ x \in SeqSet(queue)
    <2>1. queue \in Seq(Elements)
      BY <1>1, Zenon DEF TInv
    <2> QED BY <2>1 DEF SeqSet
  <1>5. PICK u \in Seq(Elements) : u = att[f].tuple
    BY <1>3, Zenon
  <1>6. PICK v \in Seq(Elements) : /\ v = Append(u, x) /\ SeqSet(v) = SeqSet(u) \union {x}
                                   /\ Uniq(u) /\ x \notin SeqSet(u) => Uniq(v)
    BY AppendFacts, Zenon
  <1>7. /\ queue' \in Seq(Elements) /\ Uniq(queue') /\ SeqSet(queue') = SeqSet(queue) \ {x}
        /\ flavor = "fifo" => queue' = Tail(queue) /\ x = queue[1]
    <2>1. queue \in Seq(Elements) /\ Uniq(queue)
      BY <1>1 DEF TInv, ElementsInv
    <2> QED BY <1>2, <1>4, <2>1, WithoutFacts, WithoutElements, Zenon
  <1>8. /\ att'[f].left = 0 /\ att'[f].tuple = <<>> /\ att'[f].cancelled = att[f].cancelled
        /\ \A o \in Ops : o # f => att'[o] = att[o]
    <2>1. Front \in Ops /\ att \in [Ops -> Attempt] /\ att[Front] \in Attempt
      BY <1>1, <1>3, FrontTuple, Zenon
    <2> QED BY <1>2, <1>3, <2>1, Zenon DEF Attempt
  <1>9. /\ status' \in [Ops -> Statuses] /\ \A o \in Ops : o # f => status'[o] = status[o]
        /\ attempts' = [attempts EXCEPT ![action] = Tail(attempts[action])]
    <2>1. "OK" \in Statuses
      BY Zenon DEF Statuses
    <2> QED BY <1>1, <1>2, <1>3, <2>1, CompleteStatus, Zenon
  <1>10. /\ \A a \in Actions : SeqSet(attempts'[a]) = SeqSet(attempts[a]) \ {f}
         /\ attempts'["dequeue"] = Tail(attempts["dequeue"])
    BY <1>3, <1>9, PopFacts, Zenon
  <1>11. LineInv' /\ HeldNow' = <<>>
    <2>1. \A o \in Ops : o # Head(attempts["dequeue"]) => att'[o].tuple = att[o].tuple
      BY <1>3, <1>8, Zenon
    <2> QED BY <1>1, <1>3, <1>10, <2>1, PopLine
  <1>12. delivered' = delivered \o v /\ delivered \in Seq(Elements)
    BY <1>1, <1>2, <1>3, <1>4, <1>5, <1>6, Zenon DEF HistoryInv
  <1>13. /\ delivered' \in Seq(Elements) /\ SeqSet(delivered') = SeqSet(delivered) \union SeqSet(v)
         /\ Uniq(delivered) /\ Uniq(v) /\ SeqSet(delivered) \cap SeqSet(v) = {} => Uniq(delivered')
    BY <1>12, ConcatFacts
  <1>14. HistoryInv'
    BY <1>1, <1>9, <1>13, Zenon DEF HistoryInv, Kind
  <1>15. ElementsInv'
    <2>1. /\ TakenBy(f) = SeqSet(u) /\ TakenBy(f)' = {} /\ Uniq(att'[f].tuple)
          /\ Uniq(u) /\ Uniq(delivered) /\ SeqSet(u) \cap SeqSet(queue) = {}
          /\ SeqSet(u) \cap SeqSet(delivered) = {} /\ SeqSet(queue) \cap SeqSet(delivered) = {}
      <3>1. SeqSet(<<>>) = {} /\ Uniq(<<>>)
        BY DEF SeqSet, Uniq
      <3> QED BY <1>1, <1>5, <1>8, <3>1, Zenon DEF TakenBy, ElementsInv
    <2>2. Uniq(v) /\ SeqSet(delivered) \cap SeqSet(v) = {}
      BY <1>4, <1>6, <2>1, Zenon
    <2>3. /\ SeqSet(queue') \cap SeqSet(delivered') = {} /\ TakenBy(f)' \cap SeqSet(queue') = {}
          /\ TakenBy(f)' \cap SeqSet(delivered') = {}
          /\ SeqSet(queue') \union SeqSet(delivered') \union TakenBy(f)'
               = SeqSet(queue) \union SeqSet(delivered) \union TakenBy(f)
      <3>1. SeqSet(delivered') = SeqSet(delivered) \union (SeqSet(u) \union {x})
        BY <1>6, <1>13, Zenon
      <3>2. SeqSet(queue') \cap SeqSet(delivered') = {}
        BY <1>4, <1>7, <2>1, <3>1, Zenon
      <3>3. TakenBy(f)' \cap SeqSet(queue') = {} /\ TakenBy(f)' \cap SeqSet(delivered') = {}
        BY <2>1, Zenon
      <3>4. SeqSet(queue') \union SeqSet(delivered') \union TakenBy(f)'
              = SeqSet(queue) \union SeqSet(delivered) \union TakenBy(f)
        BY <1>4, <1>7, <2>1, <3>1, Zenon
      <3> QED BY <3>2, <3>3, <3>4, Zenon
    <2>4. \A o \in Ops : o # f => att'[o].tuple = att[o].tuple
      BY <1>8, Zenon
    <2> QED BY <1>1, <1>7, <1>13, <2>1, <2>2, <2>3, <2>4, MoveElements, Zenon
  <1>16. OrderInv'
    <2>1. ASSUME flavor = "fifo" PROVE InOrder(entered, delivered', <<>>, queue')
      <3>1. /\ queue \in Seq(Elements) /\ queue # <<>> /\ InOrder(entered, delivered, u, queue)
        BY <1>1, <1>3, <1>4, <1>5, <2>1, EmptySet, Zenon DEF TInv, OrderInv
      <3>2. InOrder(entered, delivered, Append(u, queue[1]), Tail(queue))
        BY <1>12, <3>1, TakesInOrder
      <3>3. InOrder(entered, delivered, v, queue')
        BY <1>6, <1>7, <2>1, <3>2, Zenon
      <3> QED BY <1>7, <1>12, <3>3, HeldInOrder, Zenon
    <2>2. CountInv'
      <3>1. /\ HeldNow = u /\ queue \in Seq(Elements) /\ entered \in Seq(Elements) /\ CountInv
        BY <1>1, <1>3, <1>5, Zenon DEF OrderInv, HistoryInv, TInv
      <3>2. Len(queue') = Len(queue) - 1
        BY <1>2, <3>1, WithoutFacts, Zenon
      <3>3. Len(delivered') = Len(delivered) + Len(v) /\ Len(v) = Len(u) + 1
        BY <1>6, <1>12
      <3>4. Len(u) \in Nat /\ Len(queue) \in Nat /\ Len(delivered) \in Nat /\ Len(entered) \in Nat
        BY <1>12, <3>1
      <3>5. Len(HeldNow') = 0
        BY <1>11, Zenon
      <3> QED BY <1>1, <3>1, <3>2, <3>3, <3>4, <3>5 DEF CountInv
    <2> QED BY <1>1, <1>11, <2>1, <2>2, Zenon DEF OrderInv
  <1>17. WorkInv'
    <2>1. 0 \in Int /\ 0 >= 0 /\ Len(att'[f].tuple) + 0 <= work[f].n
      BY <1>3, <1>8
    <2>2. ~(Kind(f) = "enqueue")
      BY <1>3, Zenon DEF DequeueKinds
    <2>3. \A o \in Ops : o # f => att'[o] = att[o] /\ status'[o] = status[o]
      BY <1>8, <1>9, Zenon
    <2>4. \A a \in Actions : /\ SeqSet(attempts[a]) \subseteq SeqSet(attempts'[a]) \union {f}
                             /\ SeqSet(attempts'[a]) \subseteq SeqSet(attempts[a])
      BY <1>10, Zenon
    <2> QED BY <1>1, <1>3, <1>8, <2>1, <2>2, <2>3, <2>4, FrontWork, Zenon
  <1> QED BY <1>11, <1>14, <1>15, <1>16, <1>17 DEF EInv

\* What a batch holds goes back to the queue; its dequeue is still pending, or
\* gives up.
LEMMA GiveBackEInv ==
  ASSUME IInv, EInv, NEW t \in Threads, Runs(t, "dequeue"), NEW n \in Int, n >= 0, n <= work[Front].n,
         UNCHANGED <<config, entered, delivered, pc>>, queue' = Restored,
         att'[Front].left = n, att'[Front].tuple = <<>>, att'[Front].cancelled = att[Front].cancelled,
         \A o \in Ops : o # Front => att'[o] = att[o] /\ status'[o] = status[o],
         status' \in [Ops -> Statuses],
         \/ attempts' = attempts
         \/ attempts' = [attempts EXCEPT ![action] = Tail(attempts[action])]
  PROVE  EInv'
  <1>1. /\ HistoryInv /\ ElementsInv /\ WorkInv /\ LineInv /\ OrderInv /\ TInv /\ PlacesInv
        /\ work' = work /\ flavor' = flavor /\ entered' = entered /\ delivered' = delivered
    BY Zenon DEF EInv, IInv, config
  <1>2. PICK f \in Ops : /\ f = Front /\ f = Head(attempts["dequeue"]) /\ attempts["dequeue"] # <<>>
                         /\ attempts[action] # <<>> /\ ~att[f].cancelled /\ action = "dequeue"
                         /\ f \in SeqSet(attempts["dequeue"]) /\ Kind(f) \in DequeueKinds
                         /\ pc[f] # "idle" /\ HeldNow = att[f].tuple
                         /\ att[f].tuple \in Seq(Elements) /\ work[f].n \in Nat
                         /\ \A k \in Int : <<f, k>> \notin SeqSet(entered)
    BY DequeueFront, Zenon
  <1>3. /\ queue' \in Seq(Elements) /\ SeqSet(queue') = SeqSet(queue) \union TakenBy(f)
        /\ Uniq(queue) /\ Uniq(att[f].tuple) /\ TakenBy(f) \cap SeqSet(queue) = {} => Uniq(queue')
        /\ flavor = "fifo" => queue' = att[f].tuple \o queue
    BY <1>1, <1>2, RestoredElements, Zenon
  <1>4. HistoryInv'
    BY <1>1, Zenon DEF HistoryInv, Kind
  <1>5. ElementsInv'
    <2>1. /\ TakenBy(f)' = {} /\ Uniq(att'[f].tuple) /\ Uniq(queue') /\ Uniq(delivered)
          /\ TakenBy(f) \cap SeqSet(delivered) = {} /\ SeqSet(queue) \cap SeqSet(delivered) = {}
      <3>1. SeqSet(<<>>) = {} /\ Uniq(<<>>)
        BY DEF SeqSet, Uniq
      <3> QED BY <1>1, <1>2, <1>3, <3>1, Zenon DEF TakenBy, ElementsInv
    <2>2. /\ SeqSet(queue') \cap SeqSet(delivered') = {} /\ TakenBy(f)' \cap SeqSet(queue') = {}
          /\ TakenBy(f)' \cap SeqSet(delivered') = {}
          /\ SeqSet(queue') \union SeqSet(delivered') \union TakenBy(f)'
               = SeqSet(queue) \union SeqSet(delivered) \union TakenBy(f)
      BY <1>1, <1>3, <2>1, Zenon
    <2>3. \A o \in Ops : o # f => att'[o].tuple = att[o].tuple
      BY <1>2, Zenon
    <2> QED BY <1>1, <2>1, <2>2, <2>3, MoveElements, Zenon
  <1>6. LineInv' /\ HeldNow' = <<>>
    <2>1. CASE attempts' = attempts
      <3>1. SeqSet(attempts["dequeue"]) \subseteq Ops
        BY <1>1, EmptySet, Zenon DEF TInv, Actions
      <3>2. LineInv'
        BY <1>1, <1>2, <2>1, <3>1, Zenon DEF LineInv
      <3>3. HeldNow' = <<>>
        BY <1>2, <2>1, Zenon DEF HeldNow
      <3> QED BY <3>2, <3>3, Zenon
    <2>2. CASE attempts' = [attempts EXCEPT ![action] = Tail(attempts[action])]
      <3>1. attempts'["dequeue"] = Tail(attempts["dequeue"])
        BY <1>2, <2>2, PopFacts, Zenon
      <3>2. \A o \in Ops : o # Head(attempts["dequeue"]) => att'[o].tuple = att[o].tuple
        BY <1>2, Zenon
      <3> QED BY <1>1, <1>2, <3>1, <3>2, PopLine, Zenon
    <2> QED BY <2>1, <2>2, Zenon
  <1>7. OrderInv'
    <2>1. ASSUME flavor = "fifo" PROVE InOrder(entered, delivered, <<>>, queue')
      <3>1. /\ queue \in Seq(Elements) /\ delivered \in Seq(Elements)
            /\ InOrder(entered, delivered, att[f].tuple, queue)
        BY <1>1, <1>2, <2>1, Zenon DEF TInv, OrderInv, HistoryInv
      <3>2. InOrder(entered, delivered, <<>>, att[f].tuple \o queue)
        BY <1>2, <3>1, HeldInOrder, Zenon
      <3> QED BY <1>3, <2>1, <3>2, Zenon
    <2>2. CountInv'
      <3>1. /\ HeldNow = att[f].tuple /\ queue \in Seq(Elements) /\ delivered \in Seq(Elements)
            /\ entered \in Seq(Elements) /\ CountInv
        BY <1>1, <1>2, Zenon DEF OrderInv, HistoryInv, TInv
      <3>2. Len(queue') = Len(att[f].tuple) + Len(queue)
        BY <1>1, <1>2, RestoredElements, Zenon
      <3>3. Len(att[f].tuple) \in Nat /\ Len(queue) \in Nat /\ Len(delivered) \in Nat /\ Len(entered) \in Nat
        BY <1>2, <3>1
      <3>4. Len(HeldNow') = 0
        BY <1>6, Zenon
      <3> QED BY <1>1, <3>1, <3>2, <3>3, <3>4 DEF CountInv
    <2> QED BY <1>1, <1>6, <2>1, <2>2, Zenon DEF OrderInv
  <1>8. WorkInv'
    <2>1. Len(att'[f].tuple) + n <= work[f].n
      BY <1>2
    <2>2. ~(Kind(f) = "enqueue")
      BY <1>2, Zenon DEF DequeueKinds
    <2>3. \A a \in Actions : /\ SeqSet(attempts[a]) \subseteq SeqSet(attempts'[a]) \union {f}
                             /\ SeqSet(attempts'[a]) \subseteq SeqSet(attempts[a])
      <3>1. CASE attempts' = attempts
        BY <3>1, Zenon
      <3>2. CASE attempts' = [attempts EXCEPT ![action] = Tail(attempts[action])]
        <4>1. \A a \in Actions : SeqSet(attempts'[a]) = SeqSet(attempts[a]) \ {f}
          BY <1>2, <3>2, PopFacts, Zenon
        <4> QED BY <4>1, Zenon
      <3> QED BY <3>1, <3>2, Zenon
    <2> QED BY <1>1, <1>2, <2>1, <2>2, <2>3, FrontWork, Zenon
  <1> QED BY <1>4, <1>5, <1>6, <1>7, <1>8, Zenon DEF EInv

\* A dequeue of a closed queue gives up: what it holds goes back, unless the
\* queue is a priority queue.
LEMMA DequeueTooFewEInv ==
  ASSUME IInv, EInv, NEW t \in Threads, DequeueTooFew(t)
  PROVE  EInv'
  <1>1. /\ TInv /\ HistoryInv /\ WorkInv /\ Runs(t, "dequeue") /\ Complete(t, "OutOfRange")
        /\ UNCHANGED <<config, entered, delivered, pc>> /\ "OutOfRange" \in Statuses
    BY Zenon DEF DequeueTooFew, OutOfRange, IInv, EInv, Statuses
  <1>2. /\ Front \in Ops /\ attempts[action] # <<>> /\ ~att[Front].cancelled
        /\ attempts' = [attempts EXCEPT ![action] = Tail(attempts[action])]
        /\ status' \in [Ops -> Statuses] /\ \A o \in Ops : o # Front => status'[o] = status[o]
    BY <1>1, CompleteStatus, Zenon
  <1>3. /\ Kind(Front) \in DequeueKinds /\ att[Front].left \in Int /\ att[Front].left > 0
        /\ work[Front].n \in Nat /\ Len(att[Front].tuple) + att[Front].left <= work[Front].n
        /\ att[Front].tuple \in Seq(Elements)
    BY <1>1, DequeueFront, Zenon
  <1>4. CASE flavor = "priority" \/ ~Batch(Front)
    <2>1. queue' = queue /\ att' = att
      BY <1>4, Zenon DEF DequeueTooFew
    <2>2. ASSUME ~Batch(Front) PROVE att[Front].tuple = <<>>
      <3>1. Kind(Front) = "dequeue"
        BY <1>3, <2>2, Zenon DEF Batch, DequeueKinds
      <3>2. work[Front].n = 1
        BY <1>1, <1>2, <3>1, Zenon DEF HistoryInv
      <3>3. Len(att[Front].tuple) = 0
        BY <1>3, <3>2
      <3> QED BY <1>3, <3>3
    <2> QED BY <1>1, <1>2, <1>4, <2>1, <2>2, PopEInv, Zenon
  <1>5. CASE ~(flavor = "priority" \/ ~Batch(Front))
    <2>1. queue' = Restored /\ att' = [att EXCEPT ![Front].tuple = <<>>]
      BY <1>5, Zenon DEF DequeueTooFew
    <2>2. /\ att'[Front].left = att[Front].left /\ att'[Front].tuple = <<>>
          /\ att'[Front].cancelled = att[Front].cancelled /\ \A o \in Ops : o # Front => att'[o] = att[o]
      <3>1. Front \in Ops /\ att \in [Ops -> Attempt] /\ att[Front] \in Attempt
        BY <1>1, <1>2, FrontTuple, Zenon
      <3> QED BY <2>1, <3>1, Zenon DEF Attempt
    <2>3. PICK n \in Int : n = att[Front].left /\ n >= 0 /\ n <= work[Front].n
      BY <1>3
    <2> QED BY <1>1, <1>2, <2>1, <2>2, <2>3, GiveBackEInv, Zenon
  <1> QED BY <1>4, <1>5, Zenon

\* A small batch gives back what it holds and asks for what there is.
LEMMA DequeueSmallBatchEInv ==
  ASSUME IInv, EInv, NEW t \in Threads, DequeueSmallBatch(t)
  PROVE  EInv'
  <1>1. /\ TInv /\ HistoryInv /\ Runs(t, "dequeue") /\ DequeueExhausted /\ flavor # "priority"
        /\ UNCHANGED <<config, entered, delivered, pc>> /\ queue' = Restored
        /\ attempts' = attempts /\ status' = status
        /\ att' = [att EXCEPT ![Front].tuple = <<>>, ![Front].left = Len(Restored)]
    BY Zenon DEF DequeueSmallBatch, IInv, EInv, threadVars
  <1>2. /\ Front \in Ops /\ att[Front].left \in Int /\ attempts[action] # <<>>
        /\ work[Front].n \in Nat /\ Len(att[Front].tuple) + att[Front].left <= work[Front].n
        /\ att[Front].tuple \in Seq(Elements)
    BY <1>1, DequeueFront, Zenon
  <1>3. Restored \in Seq(Elements) /\ Len(Restored) = Len(att[Front].tuple) + Len(queue)
    BY <1>1, <1>2, RestoredElements, Zenon
  <1>4. Len(queue) < att[Front].left
    BY <1>1, Zenon DEF DequeueExhausted
  <1>5. PICK n \in Int : n = Len(Restored) /\ n >= 0 /\ n <= work[Front].n
    <2>1. Len(queue) \in Nat /\ Len(att[Front].tuple) \in Nat /\ Len(Restored) \in Nat
      BY <1>1, <1>2, <1>3 DEF TInv
    <2> QED BY <1>2, <1>3, <1>4, <2>1
  <1>6. /\ att'[Front].left = n /\ att'[Front].tuple = <<>>
        /\ att'[Front].cancelled = att[Front].cancelled /\ \A o \in Ops : o # Front => att'[o] = att[o]
    <2>1. Front \in Ops /\ att \in [Ops -> Attempt] /\ att[Front] \in Attempt
      BY <1>1, <1>2, FrontTuple, Zenon
    <2> QED BY <1>1, <1>5, <2>1, Zenon DEF Attempt
  <1>7. status' \in [Ops -> Statuses] /\ \A o \in Ops : o # Front => att'[o] = att[o] /\ status'[o] = status[o]
    BY <1>1, <1>6, Zenon DEF HistoryInv
  <1> QED BY <1>1, <1>5, <1>6, <1>7, GiveBackEInv, Zenon

\* Nothing has entered at first.
LEMMA InitEInv == Init => EInv
  <1> SUFFICES ASSUME Init PROVE EInv
    BY Zenon
  <1>1. /\ entered = <<>> /\ delivered = <<>> /\ queue = <<>> /\ attempts["dequeue"] = <<>>
        /\ attempts["enqueue"] = <<>>
        /\ \A o \in Ops : /\ att[o].tuple = <<>> /\ att[o].left = 0 /\ ~att[o].cancelled
                          /\ work[o].n \in Nat
        /\ SeqSet(<<>>) = {} /\ Uniq(<<>>)
    BY DEF Init, EmptyAttempt, SeqSet, Uniq
  <1>2. HistoryInv
    BY DEF Init, HistoryInv, Statuses
  <1>3. ElementsInv
    BY <1>1, Zenon DEF ElementsInv, TakenBy
  <1>4. WorkInv
    BY <1>1 DEF WorkInv, WorkOf
  <1>5. LineInv /\ OrderInv
    BY <1>1 DEF LineInv, OrderInv, CountInv, HeldNow, InOrder, Ordered, Before
  <1> QED BY <1>2, <1>3, <1>4, <1>5, Zenon DEF EInv

\* The steps that start or end a thread's work outside the lock.
LEMMA StartEInv ==
  ASSUME IInv, EInv, NEW o \in Ops, Start(o)
  PROVE  EInv'
  <1>1. CASE TryAttempt(o)
    BY <1>1, EmplaceEInv, Zenon DEF TryAttempt
  <1>2. CASE Close(o)
    <2>1. Kind(o) # "enqueue"
      BY <1>2, Zenon DEF Close
    <2> QED BY <1>2, <2>1, EmplaceEInv, Zenon DEF Close
  <1>3. CASE AlreadyCancelled(o) \/ EmptyBatch(o)
    <2>1. PICK s \in Statuses : status' = [status EXCEPT ![o] = s]
      BY <1>3, Zenon DEF AlreadyCancelled, EmptyBatch, Statuses
    <2>2. /\ UNCHANGED <<config, queue, entered, delivered, attempts, att>>
          /\ pc[o] = "idle" /\ pc' = [pc EXCEPT ![o] = "end"]
      BY <1>3, Zenon DEF AlreadyCancelled, EmptyBatch, Goto
    <2>3. att[o].tuple = <<>> /\ ~att[o].cancelled
      BY <2>2, Zenon DEF EInv, WorkInv, WorkOf, IInv, CallsInv, CallsOf
    <2>4. /\ status' \in [Ops -> Statuses] /\ \A p \in Ops : p # o => status'[p] = status[p]
      BY <2>1, Zenon DEF EInv, HistoryInv
    <2>5. \A p \in Ops : pc'[p] = "idle" => pc[p] = "idle"
      BY <2>2, Zenon DEF IInv, TInv, Threads
    <2> QED BY <2>2, <2>3, <2>4, <2>5, QuietEInv, Zenon
  <1>4. CASE CloseAndCancel(o)
    <2>1. PICK P \in SUBSET Ops : P = {p \in SeqSet(attempts["enqueue"]) : ~att[p].cancelled}
      <3>1. SeqSet(attempts["enqueue"]) \subseteq Ops
        BY EmptySet, Zenon DEF IInv, TInv, Actions
      <3> QED BY <3>1, Zenon
    <2>2. /\ att' = [p \in Ops |-> IF p \in P THEN [att[p] EXCEPT !.cancelled = TRUE] ELSE att[p]]
          /\ status' = [p \in Ops |-> IF p \in P THEN "Cancelled" ELSE status[p]]
          /\ UNCHANGED <<config, queue, entered, delivered, attempts>>
          /\ pc' = [pc EXCEPT ![o] = IF P = {} THEN "flush" ELSE "call"]
      BY <1>4, <2>1, Zenon DEF CloseAndCancel, Goto
    <2>3. \A p \in Ops : pc'[p] = "idle" => pc[p] = "idle"
      BY <2>2, Zenon DEF IInv, TInv, Threads
    <2>4. \A p \in Ops : att'[p] = IF p \in P THEN [att[p] EXCEPT !.cancelled = TRUE] ELSE att[p]
      BY <2>2, Zenon
    <2> QED BY <2>2, <2>3, <2>4, CancelsEInv, Zenon
  <1> QED BY <1>1, <1>2, <1>3, <1>4, Zenon DEF Start

\* QueueBase::Cancel.
LEMMA CancelEInv ==
  ASSUME IInv, EInv, NEW s \in Steps, NEW o \in Ops, Cancel(s, o)
  PROVE  EInv'
  <1>1. UNCHANGED <<config, queue, attempts, entered, delivered>> /\ s \in Threads
    BY Zenon DEF Cancel, Threads
  <1>2. CASE o \in SeqSet(attempts[ActionOf(o)]) /\ ~att[o].cancelled
    <2>1. /\ att' = [att EXCEPT ![o].cancelled = TRUE] /\ status' = [status EXCEPT ![o] = "Cancelled"]
          /\ pc' = [pc EXCEPT ![s] = "call"]
      BY <1>2, Zenon DEF Cancel, Goto
    <2>2. att \in [Ops -> Attempt] /\ status \in [Ops -> Statuses] /\ pc \in [Threads -> Labels]
      BY Zenon DEF IInv, TInv, EInv, HistoryInv
    <2>3. \A p \in Ops : att'[p] = IF p \in {o} THEN [att[p] EXCEPT !.cancelled = TRUE] ELSE att[p]
      BY <2>1, <2>2, Zenon
    <2>4. status' = [p \in Ops |-> IF p \in {o} THEN "Cancelled" ELSE status[p]]
      BY <2>1, <2>2, Zenon
    <2>5. \A p \in Ops : pc'[p] = "idle" => pc[p] = "idle"
      BY <2>1, <2>2, Zenon DEF Threads
    <2>6. {o} \in SUBSET Ops
      BY Zenon
    <2> QED BY <1>1, <2>3, <2>4, <2>5, <2>6, CancelsEInv, Zenon
  <1>3. CASE ~(o \in SeqSet(attempts[ActionOf(o)]) /\ ~att[o].cancelled)
    <2>1. att' = att /\ status' = status /\ pc' = pc
      BY <1>3, Zenon DEF Cancel
    <2>2. status \in [Ops -> Statuses]
      BY Zenon DEF EInv, HistoryInv
    <2> QED BY <1>1, <2>1, <2>2, QuietEInv, Zenon
  <1> QED BY <1>2, <1>3, Zenon

\* The steps of a thread that touch no attempt.
LEMMA RestEInv ==
  ASSUME IInv, EInv, NEW t \in Threads,
         \/ BeginFlush(t) \/ AttemptsDone(t) \/ CleanUp(t) \/ CallBack(t)
         \/ t \in Steps /\ (StartCancel(t) \/ CancelDone(t))
  PROVE  EInv'
  <1>1. UNCHANGED <<config, queue, entered, delivered, attempts, att, status>>
    BY Zenon DEF BeginFlush, AttemptsDone, NextAction, CleanUp, CallBack, StartCancel, CancelDone, attVars
  <1>2. \E label \in Labels \ {"idle"} : pc' = pc \/ pc' = [pc EXCEPT ![t] = label]
    <2>1. CASE BeginFlush(t) \/ CallBack(t) \/ StartCancel(t) \/ CancelDone(t)
      BY <2>1, Zenon DEF BeginFlush, CallBack, StartCancel, CancelDone, Goto, Labels, threadVars
    <2>2. \A cs : AfterFlush(t, cs) \in Labels \ {"idle"}
      BY AfterFlushFacts, Zenon DEF Labels
    <2>3. CASE CleanUp(t)
      BY <2>2, <2>3, Zenon DEF CleanUp, Goto
    <2>4. CASE AttemptsDone(t)
      <3>1. pc' = pc \/ pc' = [pc EXCEPT ![t] = AfterFlush(t, clean[t])]
        BY <2>4, Zenon DEF AttemptsDone, NextAction, Goto
      <3> QED BY <2>2, <3>1, Zenon
    <2> QED BY <2>1, <2>3, <2>4, Zenon
  <1>3. \A p \in Ops : pc'[p] = "idle" => pc[p] = "idle"
    BY <1>2, Zenon DEF IInv, TInv, Threads
  <1>4. status' \in [Ops -> Statuses]
    BY <1>1, Zenon DEF EInv, HistoryInv
  <1> QED BY <1>1, <1>3, <1>4, QuietEInv, Zenon

\* Every action keeps the elements together and in order.
LEMMA NextEInv ==
  ASSUME IInv, EInv, [Next]_vars
  PROVE  EInv'
  <1>1. ASSUME NEW t \in Threads, Run(t) PROVE EInv'
    <2>1. CASE CloseDone(t)
      <3>1. t \in Ops /\ Kind(t) = "closeCancel"
        BY <2>1, Zenon DEF CloseDone, IInv, PcInv
      <3>2. att[t].tuple = <<>> /\ ~att[t].cancelled
        BY <3>1, Zenon DEF EInv, WorkInv, WorkOf, DequeueKinds, IInv, CallsInv, CallsOf
      <3>3. /\ UNCHANGED <<config, queue, entered, delivered, attempts, att>>
            /\ status' = [status EXCEPT ![t] = "OK"] /\ pc' = [pc EXCEPT ![t] = "end"]
        BY <2>1, Zenon DEF CloseDone, Goto
      <3>4. status' \in [Ops -> Statuses] /\ \A p \in Ops : p # t => status'[p] = status[p]
        BY <3>3, Zenon DEF EInv, HistoryInv, Statuses
      <3>5. \A p \in Ops : pc'[p] = "idle" => pc[p] = "idle"
        BY <3>3, Zenon DEF IInv, TInv, Threads
      <3> QED BY <3>2, <3>3, <3>4, <3>5, QuietEInv, Zenon
    <2>2. CASE BeginFlush(t) \/ AttemptsDone(t) \/ CleanUp(t) \/ CallBack(t)
      BY <2>2, RestEInv, Zenon
    <2>3. CASE SkipCancelled(t) \/ RunClose(t) \/ EnqueueClosed(t) \/ EnqueueElement(t)
      BY <2>3, SkipCancelledEInv, ClosingEInv, EnqueueElementEInv, Zenon
    <2>4. CASE DequeueTooFew(t) \/ DequeueSmallBatch(t) \/ DequeueElement(t)
      BY <2>4, DequeueTooFewEInv, DequeueSmallBatchEInv, TakeEInv, DeliverEInv, Zenon
    <2> QED BY <1>1, <2>1, <2>2, <2>3, <2>4 DEF Run
  <1>2. ASSUME NEW s \in Steps, StartCancel(s) \/ CancelDone(s) PROVE EInv'
    BY <1>2, RestEInv, Zenon DEF Threads
  <1>3. CASE UNCHANGED vars
    <2>1. UNCHANGED <<config, queue, entered, delivered, attempts, att, status, pc>>
      BY <1>3, Zenon DEF vars, attVars, threadVars
    <2> QED BY <2>1, QuietEInv, Zenon DEF EInv, HistoryInv
  <1> QED BY <1>1, <1>2, <1>3, StartEInv, CancelEInv DEF Next, RunCancel

\* The managers keep their type.
LEMMA NextCM ==
  ASSUME IInv, CMTypeOK, [Next]_vars
  PROVE  CMTypeOK'
  <1>1. ASSUME NEW m \in Managers, NEW t \in Tokens,
               \/ BeginCancel(m) \/ TakeCallback(m, t) \/ EndCancel(m) \/ RegisterCallback(m, t)
               \/ DeregisterCallback(m, t)
        PROVE  CMTypeOK'
    BY <1>1 DEF CMTypeOK, BeginCancel, TakeCallback, EndCancel, RegisterCallback, DeregisterCallback
  <1>2. ASSUME UNCHANGED cmVars PROVE CMTypeOK'
    BY <1>2, Zenon DEF CMTypeOK, cmVars
  <1>3. \A o \in Ops : StepOf(o) \in Managers
    BY Zenon DEF IInv, TInv, StepOf, Steps
  <1>4. ASSUME NEW o \in Ops, Start(o) PROVE CMTypeOK'
    BY <1>1, <1>2, <1>3, <1>4, Zenon
       DEF Start, TryAttempt, AlreadyCancelled, EmptyBatch, Close, CloseAndCancel, Ops
  <1>5. ASSUME NEW s \in Steps, StartCancel(s) \/ RunCancel(s) PROVE CMTypeOK'
    <2>1. CASE StartCancel(s)
      <3>1. BeginCancel(s)
        BY <2>1, Zenon DEF StartCancel
      <3> QED BY <3>1, Zenon DEF CMTypeOK, BeginCancel, Steps
    <2>2. CASE CancelDone(s)
      <3>1. EndCancel(s)
        BY <2>2, Zenon DEF CancelDone
      <3> QED BY <3>1, Zenon DEF CMTypeOK, EndCancel, Steps
    <2>3. ASSUME NEW o \in Ops, Cancel(s, o) PROVE CMTypeOK'
      BY <1>1, <2>3, Zenon DEF Cancel, Ops, Steps
    <2> QED BY <1>5, <2>1, <2>2, <2>3 DEF RunCancel
  <1>6. ASSUME NEW t \in Threads, Run(t) PROVE CMTypeOK'
    <2>1. CASE CleanUp(t)
      <3>1. Head(clean[t]) \in Ops
        BY <2>1, TailFacts DEF CleanUp, IInv, PcInv, TInv
      <3> QED BY <1>1, <1>2, <1>3, <2>1, <3>1 DEF CleanUp, Ops
    <2>2. CASE ~CleanUp(t)
      <3>1. UNCHANGED cmVars
        BY <1>6, <2>2, Zenon
           DEF Run, BeginFlush, SkipCancelled, AttemptsDone, NextAction, RunClose, EnqueueClosed,
               EnqueueElement, DequeueTooFew, OutOfRange, DequeueSmallBatch, DequeueElement,
               CloseDone, CallBack
      <3> QED BY <1>2, <3>1, Zenon
    <2> QED BY <2>1, <2>2, Zenon
  <1>7. CASE UNCHANGED vars
    BY <1>2, <1>7, Zenon DEF vars
  <1> QED BY <1>4, <1>5, <1>6, <1>7 DEF Next

\* Both invariants hold throughout.
LEMMA ElementsInvariance == Spec => [](IInv /\ EInv /\ CMTypeOK)
  <1>1. Init => IInv /\ EInv /\ CMTypeOK
    <2>1. Init => CMTypeOK
      BY DEF Init, CMInit, CMTypeOK
    <2> QED BY <2>1, InitIInv, InitEInv, Zenon
  <1>2. IInv /\ EInv /\ CMTypeOK /\ [Next]_vars => (IInv /\ EInv /\ CMTypeOK)'
    BY NextIInv, NextEInv, NextCM, Zenon
  <1> QED BY <1>1, <1>2, PTL DEF Spec

\* For any operations, batch sizes and capacity, and however the flushes, closes
\* and cancellations interleave: every element TryEnqueueMany put into the queue
\* is in exactly one place.  A batch that TryDequeueMany fills piecemeal neither
\* loses nor doubles an element when it is handed back or delivered, and only the
\* batch of a cancelled dequeue is dropped.
THEOREM ConservesElements == Spec => []ElementsConserved
  <1>1. IInv /\ EInv /\ CMTypeOK => ElementsConserved
    <2> SUFFICES ASSUME IInv, EInv, CMTypeOK PROVE ElementsConserved
      BY Zenon
    <2>1. TInv /\ HistoryInv /\ ElementsInv /\ WorkInv
      BY Zenon DEF IInv, EInv
    <2>2. TypeOK
      <3>1. \A o \in Ops :
              /\ status[o] \in {"none", "OK", "Cancelled", "OutOfRange"} /\ calls[o] \in Nat
              /\ SeqSet(att[o].tuple) \subseteq SeqSet(entered)
        <4>1. \A o \in Ops : TakenBy(o) \subseteq SeqSet(entered)
          BY <2>1, Zenon DEF ElementsInv
        <4> QED BY <2>1, <4>1, Zenon DEF HistoryInv, Statuses, TInv, TakenBy
      <3>2. \A o \in Ops : att[o].left \in 0..work[o].n
        <4> SUFFICES ASSUME NEW o \in Ops PROVE att[o].left \in 0..work[o].n
          BY Zenon
        <4>1. att[o].tuple \in Seq(Elements) /\ att[o].left \in Int /\ work[o].n \in Nat
          BY <2>1, Zenon DEF TInv, Attempt
        <4>2. att[o].left >= 0 /\ Len(att[o].tuple) + att[o].left <= work[o].n
          BY <2>1, Zenon DEF WorkInv, WorkOf
        <4>3. Len(att[o].tuple) \in Nat
          BY <4>1
        <4> QED BY <4>1, <4>2, <4>3
      <3>3. /\ flavor \in Flavors /\ closed \in BOOLEAN /\ mu \in Threads \union {Free}
            /\ action \in {"enqueue", "dequeue"} /\ result \in {"start", "progress"}
            /\ changed \in BOOLEAN
            /\ \A t \in Threads :
                 pc[t] \in {"idle", "flush", "call", "clean", "cancel", "done", "end"}
        BY <2>1, Zenon DEF TInv, Actions, Labels
      <3> QED BY <3>1, <3>2, <3>3, Zenon DEF TypeOK
    <2> DEFINE held == UNION {TakenBy(o) : o \in Ops}
    <2>3. /\ SeqSet(entered) = SeqSet(queue) \union held \union SeqSet(delivered)
          /\ SeqSet(queue) \cap held = {} /\ SeqSet(queue) \cap SeqSet(delivered) = {}
          /\ held \cap SeqSet(delivered) = {}
      <3>1. \A e : e \in SeqSet(entered) <=>
                     e \in SeqSet(queue) \/ e \in SeqSet(delivered) \/ \E o \in Ops : e \in TakenBy(o)
        BY <2>1, Zenon DEF ElementsInv
      <3>2. \A e : e \in held <=> \E o \in Ops : e \in TakenBy(o)
        BY Zenon
      <3>3. /\ SeqSet(queue) \cap SeqSet(delivered) = {}
            /\ \A o \in Ops : TakenBy(o) \cap SeqSet(queue) = {} /\ TakenBy(o) \cap SeqSet(delivered) = {}
        BY <2>1, Zenon DEF ElementsInv
      <3> HIDE DEF held
      <3>4. \A e : e \in held => e \notin SeqSet(queue) /\ e \notin SeqSet(delivered)
        BY <3>2, <3>3, Zenon
      <3>5. \A e : e \in SeqSet(entered) <=> e \in SeqSet(queue) \/ e \in held \/ e \in SeqSet(delivered)
        BY <3>1, <3>2, Zenon
      <3> QED BY <3>3, <3>4, <3>5, Zenon
    <2>4. Len(queue) + Len(delivered) <= Len(entered)
      <3>1. /\ queue \in Seq(Elements) /\ delivered \in Seq(Elements) /\ entered \in Seq(Elements)
            /\ HeldNow \in Seq(Elements) /\ CountInv
        BY <2>1, HeldFacts, Zenon DEF TInv, HistoryInv, EInv, OrderInv
      <3>2. Len(HeldNow) \in Nat /\ Len(queue) \in Nat /\ Len(delivered) \in Nat /\ Len(entered) \in Nat
        BY <3>1
      <3> QED BY <3>1, <3>2 DEF CountInv
    <2>5. flavor # "priority" => \A o \in Ops : TakenBy(o) # {} => Live(o) \/ status[o] = "Cancelled"
      <3>1. \A o \in Ops : TakenBy(o) # {} => att[o].tuple # <<>>
        BY DEF TakenBy, SeqSet
      <3> QED BY <2>1, <3>1, Zenon DEF WorkInv, WorkOf
    <2> HIDE DEF held
    <2>6. ElementsConserved <=>
            TypeOK /\ (flavor # "priority" =>
              /\ SeqSet(entered) = SeqSet(queue) \union held \union SeqSet(delivered)
              /\ SeqSet(queue) \cap held = {} /\ SeqSet(queue) \cap SeqSet(delivered) = {}
              /\ held \cap SeqSet(delivered) = {}
              /\ Len(queue) + Len(delivered) <= Len(entered)
              /\ \A o \in Ops : TakenBy(o) # {} => Live(o) \/ status[o] = "Cancelled")
      BY Zenon DEF ElementsConserved, held
    <2> QED BY <2>2, <2>3, <2>4, <2>5, <2>6, Zenon
  <1> QED BY <1>1, ElementsInvariance, PTL

\* A FIFOQueue is first in, first out for any number of operations: what is
\* delivered, held by the dequeue at the front and queued, in this order, is in
\* the order in which it entered, whatever was handed back by push_front on a
\* close or dropped with a cancelled batch.
THEOREM KeepsOrder == Spec => []FirstInFirstOut
  <1>1. IInv /\ EInv => FirstInFirstOut
    <2> SUFFICES ASSUME IInv, EInv, flavor = "fifo" PROVE FirstInFirstOut
      BY Zenon DEF FirstInFirstOut
    <2>1. /\ InOrder(entered, delivered, HeldNow, queue) /\ HeldNow \in Seq(Elements)
          /\ delivered \in Seq(Elements) /\ queue \in Seq(Elements)
      BY HeldFacts, Zenon DEF EInv, OrderInv, HistoryInv, IInv, TInv
    <2>2. Ordered(entered, delivered \o (HeldNow \o queue))
      BY <2>1, HeldInOrder, Zenon
    <2>3. <<>> \o queue = queue
      BY <2>1
    <2> DEFINE d == attempts["dequeue"]
               held == IF d # <<>> THEN att[Head(d)].tuple ELSE <<>>
               rest == IF d # <<>> /\ att[Head(d)].cancelled THEN queue ELSE held \o queue
    <2>4. rest = HeldNow \o queue
      BY <2>3, Zenon DEF HeldNow
    <2>5. PICK r : r = rest
      BY Zenon
    <2>6. Ordered(entered, delivered \o r)
      BY <2>2, <2>4, <2>5, Zenon
    <2>7. \A i, j \in DOMAIN (delivered \o r) :
            i < j => Position((delivered \o r)[i]) < Position((delivered \o r)[j])
      BY <2>6, Zenon DEF Ordered, Place, Position
    <2> QED BY <2>5, <2>7, Zenon DEF FirstInFirstOut
  <1> QED BY <1>1, ElementsInvariance, PTL
=============================================================================
