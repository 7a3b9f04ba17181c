----------------------- MODULE LocalRendezvous_proofs -----------------------
(***************************************************************************)
(* What LocalRendezvousImpl promises, for any keys, values and receivers.  *)
(***************************************************************************)
EXTENDS LocalRendezvous, TLAPS

\* What is in the table: nothing once aborted, and values that were sent.
TableInv ==
    /\ Aborted(local) => \A k \in Keys : local.table[k] = NoItem
    /\ \A k \in Keys : local.table[k] # NoItem /\ local.table[k].value \in Values
                       => <<k, local.table[k].value>> \in sent
    /\ \A k \in Keys : local.table[k] # NoItem /\ local.table[k].waiter # NoReceiver
                       => KeyOf[local.table[k].waiter] = k

\* The inductive invariant.
IInv == TypeOK /\ TableInv /\ NobodyForgotten /\ RightValue

\* It holds in the empty rendezvous.
LEMMA InitIInv == ASSUME ConstantsOK PROVE Init => IInv
  BY DEF ConstantsOK, Init, IInv, TypeOK, TableInv, NobodyForgotten, RightValue,
         NewLocalRendezvous, Aborted, Waiters, Items

\* The item of one key is replaced: the others keep theirs.
LEMMA PutTable ==
  ASSUME TypeOK, NEW k \in Keys, NEW item \in Items \union {NoItem},
         local' = Put(local, k, item)
  PROVE  /\ local' \in [status : {"ok", "aborted"}, table : [Keys -> Items \union {NoItem}]]
         /\ local'.status = local.status
         /\ local'.table[k] = item
         /\ \A l \in Keys \ {k} : local'.table[l] = local.table[l]
  BY DEF TypeOK, Put

\* A call is one of the six actions.
LEMMA NextCases ==
  ASSUME Next
  PROVE  \/ \E k \in Keys, v \in Values : SendFirst(k, v)
         \/ \E k \in Keys, v \in Values : SendToWaiter(k, v)
         \/ \E r \in Receivers : RecvWaits(r)
         \/ \E r \in Receivers : RecvStored(r)
         \/ \E r \in Receivers : RecvRefused(r)
         \/ StartAbort
  BY DEF Next

\* Send stores a value nobody waits for.
LEMMA SendFirstIInv ==
  ASSUME ConstantsOK, IInv, NEW k \in Keys, NEW v \in Values, SendFirst(k, v)
  PROVE  IInv'
  <1> DEFINE item == Item(NoReceiver, v, FALSE)
  <1>1. item \in Items /\ item # NoItem /\ item.waiter = NoReceiver /\ item.value = v
    <2>1. item \in Items /\ item.waiter = NoReceiver /\ item.value = v
      BY DEF Items, Item
    <2> QED BY <2>1 DEF ConstantsOK
  <1>2. local.table[k] = NoItem /\ ~Aborted(local) /\ local' = Put(local, k, item)
    BY DEF SendFirst, Vacant, Store
  <1> HIDE DEF item
  <1>3. /\ local' \in [status : {"ok", "aborted"}, table : [Keys -> Items \union {NoItem}]]
        /\ local'.status = local.status /\ local'.table[k] = item
        /\ \A l \in Keys \ {k} : local'.table[l] = local.table[l]
    BY <1>1, <1>2, PutTable DEF IInv
  <1>4. TypeOK'
    BY <1>3 DEF IInv, TypeOK, SendFirst
  <1>5. TableInv'
    BY <1>1, <1>2, <1>3 DEF IInv, TableInv, SendFirst, Aborted
  <1>6. NobodyForgotten'
    BY <1>1, <1>2, <1>3 DEF IInv, NobodyForgotten, Waiters, SendFirst, ConstantsOK
  <1>7. RightValue'
    BY DEF IInv, RightValue, SendFirst
  <1> QED BY <1>4, <1>5, <1>6, <1>7 DEF IInv

\* Send hands a value over to the receiver that waits for it.
LEMMA SendToWaiterIInv ==
  ASSUME ConstantsOK, IInv, NEW k \in Keys, NEW v \in Values, SendToWaiter(k, v)
  PROVE  IInv'
  <1> DEFINE item == Item(NoReceiver, IF TolerateDupRecv THEN v ELSE NoValue, TRUE)
             r == local.table[k].waiter
  <1>1. /\ item \in Items /\ item # NoItem /\ item.waiter = NoReceiver
        /\ item.value \in Values => item.value = v
    <2>1. /\ item \in Items /\ item.waiter = NoReceiver
          /\ item.value \in Values => item.value = v
      BY DEF Items, Item, ConstantsOK
    <2> QED BY <2>1 DEF ConstantsOK
  <1>2. /\ local.table[k] # NoItem /\ r # NoReceiver /\ ~Aborted(local)
        /\ local' = Put(local, k, item) /\ got' = [got EXCEPT ![r] = v]
        /\ sent' = sent \union {<<k, v>>}
    BY DEF SendToWaiter, Awaited, HandOver
  <1>3. r \in Receivers /\ KeyOf[r] = k
    BY <1>2 DEF IInv, TypeOK, TableInv, Items
  <1> HIDE DEF item, r
  <1>4. /\ local' \in [status : {"ok", "aborted"}, table : [Keys -> Items \union {NoItem}]]
        /\ local'.status = local.status /\ local'.table[k] = item
        /\ \A l \in Keys \ {k} : local'.table[l] = local.table[l]
    BY <1>1, <1>2, PutTable DEF IInv
  <1>5. TypeOK'
    BY <1>2, <1>3, <1>4 DEF IInv, TypeOK
  <1>6. TableInv'
    BY <1>1, <1>2, <1>4 DEF IInv, TableInv, Aborted
  <1>7. NobodyForgotten'
    <2> SUFFICES ASSUME NEW s \in Receivers PROVE (got[s] = "waiting" <=> s \in Waiters(local))'
      BY DEF NobodyForgotten
    <2>1. got[s] = "waiting" <=> s \in Waiters(local)
      BY DEF IInv, NobodyForgotten
    <2>2. CASE s = r
      BY <1>1, <1>2, <1>3, <1>4, <2>2 DEF IInv, TypeOK, Waiters, ConstantsOK
    <2>3. CASE s # r
      <3>1. got'[s] = got[s]
        BY <1>2, <2>3 DEF IInv, TypeOK
      <3>2. s \in Waiters(local') <=> s \in Waiters(local)
        BY <1>1, <1>2, <1>3, <1>4, <2>3 DEF Waiters, ConstantsOK, r
      <3> QED BY <2>1, <3>1, <3>2 DEF Waiters
    <2> QED BY <2>2, <2>3
  <1>8. RightValue'
    BY <1>2, <1>3 DEF IInv, TypeOK, RightValue
  <1> QED BY <1>5, <1>6, <1>7, <1>8 DEF IInv

\* A receiver that comes first waits in the table.
LEMMA RecvWaitsIInv ==
  ASSUME ConstantsOK, IInv, NEW r \in Receivers, RecvWaits(r)
  PROVE  IInv'
  <1> DEFINE k == KeyOf[r]
             item == Item(r, NoValue, FALSE)
  <1>1. item \in Items /\ item # NoItem /\ item.waiter = r /\ item.value = NoValue
    <2>1. item \in Items /\ item.waiter = r /\ item.value = NoValue
      BY DEF Items, Item
    <2> QED BY <2>1 DEF ConstantsOK
  <1>2. /\ local.table[k] = NoItem /\ ~Aborted(local) /\ local' = Put(local, k, item)
        /\ got' = [got EXCEPT ![r] = "waiting"] /\ sent' = sent /\ k \in Keys
    BY DEF RecvWaits, Vacant, Wait, ConstantsOK
  <1> HIDE DEF item
  <1>3. /\ local' \in [status : {"ok", "aborted"}, table : [Keys -> Items \union {NoItem}]]
        /\ local'.status = local.status /\ local'.table[k] = item
        /\ \A l \in Keys \ {k} : local'.table[l] = local.table[l]
    BY <1>1, <1>2, PutTable DEF IInv
  <1>4. TypeOK'
    BY <1>2, <1>3 DEF IInv, TypeOK
  <1>5. TableInv'
    BY <1>1, <1>2, <1>3 DEF IInv, TableInv, Aborted, ConstantsOK
  <1>6. NobodyForgotten'
    <2> SUFFICES ASSUME NEW s \in Receivers PROVE (got[s] = "waiting" <=> s \in Waiters(local))'
      BY DEF NobodyForgotten
    <2>1. CASE s = r
      BY <1>1, <1>2, <1>3, <2>1 DEF IInv, TypeOK, Waiters
    <2>2. CASE s # r
      <3>1. got'[s] = got[s]
        BY <1>2, <2>2 DEF IInv, TypeOK
      <3>2. s \in Waiters(local') <=> s \in Waiters(local)
        BY <1>1, <1>2, <1>3, <2>2 DEF Waiters, ConstantsOK
      <3> QED BY <3>1, <3>2 DEF IInv, NobodyForgotten, Waiters
    <2> QED BY <2>1, <2>2
  <1>7. RightValue'
    BY <1>2 DEF IInv, TypeOK, RightValue, ConstantsOK
  <1> QED BY <1>4, <1>5, <1>6, <1>7 DEF IInv

\* A receiver takes what is stored under its key.
LEMMA RecvStoredIInv ==
  ASSUME ConstantsOK, IInv, NEW r \in Receivers, RecvStored(r)
  PROVE  IInv'
  <1> DEFINE k == KeyOf[r]
             old == local.table[k]
             item == Item(old.waiter, IF TolerateDupRecv THEN old.value ELSE NoValue, TRUE)
  <1>1. /\ old # NoItem /\ ~Aborted(local) /\ local' = Put(local, k, item)
        /\ got[r] = "idle" /\ got' = [got EXCEPT ![r] = old.value] /\ sent' = sent
        /\ k \in Keys
    BY DEF RecvStored, Served, Consume, ConstantsOK
  <1>2. old \in Items
    BY <1>1 DEF IInv, TypeOK
  <1>3. /\ item \in Items /\ item # NoItem /\ item.waiter = old.waiter
        /\ item.value \in Values => item.value = old.value
    <2>1. /\ item \in Items /\ item.waiter = old.waiter
          /\ item.value \in Values => item.value = old.value
      BY <1>2 DEF Items, Item, ConstantsOK
    <2> QED BY <2>1 DEF ConstantsOK
  <1> HIDE DEF item
  <1>4. /\ local' \in [status : {"ok", "aborted"}, table : [Keys -> Items \union {NoItem}]]
        /\ local'.status = local.status /\ local'.table[k] = item
        /\ \A l \in Keys \ {k} : local'.table[l] = local.table[l]
    BY <1>1, <1>3, PutTable DEF IInv
  <1>5. old.value \in Values \union {NoValue}
    BY <1>2 DEF Items
  <1>6. TypeOK'
    BY <1>1, <1>4, <1>5 DEF IInv, TypeOK
  <1>7. TableInv'
    BY <1>1, <1>3, <1>4 DEF IInv, TableInv, Aborted
  <1>8. NobodyForgotten'
    <2> SUFFICES ASSUME NEW s \in Receivers PROVE (got[s] = "waiting" <=> s \in Waiters(local))'
      BY DEF NobodyForgotten
    <2>1. s \in Waiters(local') <=> s \in Waiters(local)
      BY <1>1, <1>3, <1>4 DEF Waiters, ConstantsOK
    <2>2. got'[s] = "waiting" <=> got[s] = "waiting"
      BY <1>1, <1>5 DEF IInv, TypeOK, ConstantsOK
    <2> QED BY <2>1, <2>2 DEF IInv, NobodyForgotten, Waiters
  <1>9. RightValue'
    BY <1>1 DEF IInv, TypeOK, TableInv, RightValue
  <1> QED BY <1>6, <1>7, <1>8, <1>9 DEF IInv

\* A receiver is refused, and nothing else changes.
LEMMA RecvRefusedIInv ==
  ASSUME ConstantsOK, IInv, NEW r \in Receivers, RecvRefused(r)
  PROVE  IInv'
  <1>1. /\ got[r] = "idle" /\ got' = [got EXCEPT ![r] = "error"]
        /\ local' = local /\ sent' = sent
    BY DEF RecvRefused
  <1>2. TypeOK' /\ TableInv'
    BY <1>1 DEF IInv, TypeOK, TableInv, Aborted
  <1>3. NobodyForgotten'
    BY <1>1 DEF IInv, TypeOK, NobodyForgotten, Waiters
  <1>4. RightValue'
    BY <1>1 DEF IInv, TypeOK, RightValue, ConstantsOK
  <1> QED BY <1>2, <1>3, <1>4 DEF IInv

\* An abort takes the whole table, and calls back whoever waits in it.
LEMMA StartAbortIInv ==
  ASSUME ConstantsOK, IInv, StartAbort
  PROVE  IInv'
  <1>1. /\ local' = [status |-> "aborted", table |-> [k \in Keys |-> NoItem]]
        /\ got' = [r \in Receivers |-> IF r \in Waiters(local) THEN "error" ELSE got[r]]
        /\ sent' = sent
    BY DEF StartAbort, Clear
  <1>2. TypeOK'
    BY <1>1 DEF IInv, TypeOK
  <1>3. TableInv'
    BY <1>1 DEF TableInv
  <1>4. NobodyForgotten'
    BY <1>1 DEF IInv, NobodyForgotten, Waiters, ConstantsOK
  <1>5. RightValue'
    BY <1>1 DEF IInv, RightValue, ConstantsOK
  <1> QED BY <1>2, <1>3, <1>4, <1>5 DEF IInv

\* Every call preserves it.
LEMMA NextIInv == ASSUME ConstantsOK, IInv, [Next]_vars PROVE IInv'
  <1>1. CASE UNCHANGED vars
    BY <1>1 DEF vars, IInv, TypeOK, TableInv, NobodyForgotten, RightValue, Aborted, Waiters
  <1>2. CASE Next
    BY <1>2, NextCases, SendFirstIInv, SendToWaiterIInv, RecvWaitsIInv, RecvStoredIInv,
       RecvRefusedIInv, StartAbortIInv
  <1> QED BY <1>1, <1>2

\* Whatever the order of Send, RecvAsync and StartAbort: a receiver that waits is
\* found by the next Send under its key or by the abort, none waits in an
\* aborted rendezvous, and what a receiver is given was sent under its key.
THEOREM Meeting ==
  ASSUME ConstantsOK
  PROVE  Spec => [](TypeOK /\ NobodyForgotten /\ AbortLeavesNobody /\ RightValue)
  <1>1. Init => IInv
    BY InitIInv
  <1>2. IInv /\ [Next]_vars => IInv'
    BY NextIInv
  <1>3. IInv => TypeOK /\ NobodyForgotten /\ AbortLeavesNobody /\ RightValue
    BY DEF IInv, TableInv, NobodyForgotten, AbortLeavesNobody, Waiters, ConstantsOK
  <1> QED BY <1>1, <1>2, <1>3, PTL DEF Spec

\* A receiver's callback runs at most once: Send, RecvAsync and StartAbort never
\* give a receiver a second result.
THEOREM NoSecondCallback ==
  ASSUME ConstantsOK
  PROVE  Spec => CalledBackOnce
  <1>1. Init => IInv
    BY InitIInv
  <1>2. IInv /\ [Next]_vars => IInv'
    BY NextIInv
  <1>3. ASSUME IInv, [Next]_vars
        PROVE  [\A r \in Receivers : got[r] \notin {"idle", "waiting"} => got'[r] = got[r]]_vars
    <2> SUFFICES ASSUME Next, NEW r \in Receivers, got[r] \notin {"idle", "waiting"}
                 PROVE  got'[r] = got[r]
      BY <1>3
    <2>1. CASE \E k \in Keys, v \in Values : SendFirst(k, v)
      BY <2>1 DEF SendFirst
    <2>2. CASE \E k \in Keys, v \in Values : SendToWaiter(k, v)
      <3> PICK k \in Keys, v \in Values : SendToWaiter(k, v)
        BY <2>2
      <3> DEFINE w == local.table[k].waiter
      <3>1. w \in Receivers /\ KeyOf[w] = k /\ local.table[k] # NoItem
        BY <1>3 DEF SendToWaiter, Awaited, IInv, TypeOK, TableInv, Items
      <3>2. got[w] = "waiting"
        BY <1>3, <3>1 DEF IInv, NobodyForgotten, Waiters
      <3> QED BY <1>3, <3>2 DEF SendToWaiter, IInv, TypeOK
    <2>3. CASE \E s \in Receivers : RecvWaits(s)
      BY <1>3, <2>3 DEF RecvWaits, IInv, TypeOK
    <2>4. CASE \E s \in Receivers : RecvStored(s)
      BY <1>3, <2>4 DEF RecvStored, IInv, TypeOK
    <2>5. CASE \E s \in Receivers : RecvRefused(s)
      BY <1>3, <2>5 DEF RecvRefused, IInv, TypeOK
    <2>6. CASE StartAbort
      BY <1>3, <2>6 DEF StartAbort, IInv, NobodyForgotten
    <2> QED BY <2>1, <2>2, <2>3, <2>4, <2>5, <2>6, NextCases
  <1> QED BY <1>1, <1>2, <1>3, PTL DEF Spec, CalledBackOnce

\* The item of a key whose value was delivered says so, unless an abort took it.
DeliveredInv ==
    \A r \in Receivers : got[r] \in Values =>
       \/ Aborted(local)
       \/ /\ local.table[KeyOf[r]] # NoItem
          /\ local.table[KeyOf[r]].recvd /\ local.table[KeyOf[r]].waiter = NoReceiver

\* It is preserved when duplicates are refused.
LEMMA NextDelivered ==
  ASSUME ConstantsOK, ~TolerateDupRecv, IInv, DeliveredInv, DeliveredOnce, [Next]_vars
  PROVE  DeliveredInv' /\ DeliveredOnce'
  <1>1. CASE UNCHANGED vars
    BY <1>1 DEF vars, DeliveredInv, DeliveredOnce, Aborted
  <1>2. CASE \E k \in Keys, v \in Values : SendFirst(k, v)
    <2> PICK k \in Keys, v \in Values : SendFirst(k, v)
      BY <1>2
    <2>1. /\ got' = got /\ ~Aborted(local) /\ local.table[k] = NoItem
          /\ local'.status = local.status
          /\ \A l \in Keys \ {k} : local'.table[l] = local.table[l]
      BY DEF SendFirst, Vacant, Store, Put, IInv, TypeOK
    <2> QED BY <2>1 DEF DeliveredInv, DeliveredOnce, Aborted, ConstantsOK
  <1>3. CASE \E k \in Keys, v \in Values : SendToWaiter(k, v)
    <2> PICK k \in Keys, v \in Values : SendToWaiter(k, v)
      BY <1>3
    <2> DEFINE w == local.table[k].waiter
               item == Item(NoReceiver, NoValue, TRUE)
    <2>1. item \in Items /\ item # NoItem /\ item.waiter = NoReceiver /\ item.recvd = TRUE
      <3>1. item \in Items /\ item.waiter = NoReceiver /\ item.recvd = TRUE
        BY DEF Items, Item
      <3> QED BY <3>1 DEF ConstantsOK
    <2>2. /\ w \in Receivers /\ KeyOf[w] = k /\ w # NoReceiver /\ ~Aborted(local)
          /\ got' = [got EXCEPT ![w] = v]
      BY DEF SendToWaiter, Awaited, IInv, TypeOK, TableInv, Items
    <2>3. /\ local'.status = local.status /\ local'.table[k] = item
          /\ \A l \in Keys \ {k} : local'.table[l] = local.table[l]
      BY <2>1, PutTable DEF SendToWaiter, HandOver, IInv
    <2>4. \A s \in Receivers \ {w} : KeyOf[s] = k => got[s] \notin Values /\ got'[s] = got[s]
      BY <2>2 DEF DeliveredInv, IInv, TypeOK
    <2> HIDE DEF item
    <2>5. DeliveredInv'
      BY <2>1, <2>2, <2>3 DEF DeliveredInv, IInv, TypeOK, ConstantsOK, Aborted
    <2>6. DeliveredOnce'
      BY <2>2, <2>4 DEF DeliveredOnce, IInv, TypeOK
    <2> QED BY <2>5, <2>6
  <1>4. CASE \E r \in Receivers : RecvWaits(r)
    <2> PICK r \in Receivers : RecvWaits(r)
      BY <1>4
    <2>1. /\ got' = [got EXCEPT ![r] = "waiting"] /\ ~Aborted(local)
          /\ local.table[KeyOf[r]] = NoItem /\ local'.status = local.status
          /\ \A l \in Keys \ {KeyOf[r]} : local'.table[l] = local.table[l]
      BY DEF RecvWaits, Vacant, Wait, Put, IInv, TypeOK
    <2>2. got'[r] \notin Values /\ \A s \in Receivers \ {r} : got'[s] = got[s]
      BY <2>1 DEF IInv, TypeOK, ConstantsOK
    <2> QED BY <2>1, <2>2 DEF DeliveredInv, DeliveredOnce, Aborted, ConstantsOK
  <1>5. CASE \E r \in Receivers : RecvStored(r)
    <2> PICK r \in Receivers : RecvStored(r)
      BY <1>5
    <2> DEFINE k == KeyOf[r]
               old == local.table[k]
               item == Item(old.waiter, NoValue, TRUE)
    <2>1. /\ old \in Items /\ ~old.recvd /\ old.waiter = NoReceiver /\ ~Aborted(local)
          /\ local' = Put(local, k, item) /\ got' = [got EXCEPT ![r] = old.value] /\ k \in Keys
      BY DEF RecvStored, Served, Consume, IInv, TypeOK, ConstantsOK
    <2>2. item \in Items /\ item # NoItem /\ item.waiter = NoReceiver /\ item.recvd = TRUE
      <3>1. item \in Items /\ item.waiter = NoReceiver /\ item.recvd = TRUE
        BY <2>1 DEF Items, Item
      <3> QED BY <3>1 DEF ConstantsOK
    <2>3. /\ local'.status = local.status /\ local'.table[k] = item
          /\ \A l \in Keys \ {k} : local'.table[l] = local.table[l]
      BY <2>1, <2>2, PutTable DEF IInv
    <2>4. \A s \in Receivers : KeyOf[s] = k => got[s] \notin Values
      BY <2>1 DEF DeliveredInv
    <2> HIDE DEF item
    <2>5. DeliveredInv'
      BY <2>1, <2>2, <2>3 DEF DeliveredInv, IInv, TypeOK, ConstantsOK, Aborted
    <2>6. DeliveredOnce'
      BY <2>1, <2>4 DEF DeliveredOnce, IInv, TypeOK
    <2> QED BY <2>5, <2>6
  <1>6. CASE \E r \in Receivers : RecvRefused(r)
    BY <1>6 DEF RecvRefused, DeliveredInv, DeliveredOnce, IInv, TypeOK, Aborted, ConstantsOK
  <1>7. CASE StartAbort
    BY <1>7 DEF StartAbort, Clear, DeliveredInv, DeliveredOnce, Aborted, ConstantsOK
  <1> QED BY <1>1, <1>2, <1>3, <1>4, <1>5, <1>6, <1>7, NextCases

\* Of the receivers of one key at most one is given the value, unless the
\* rendezvous was made to tolerate duplicates.
THEOREM OneDelivery ==
  ASSUME ConstantsOK, ~TolerateDupRecv
  PROVE  Spec => []DeliveredOnce
  <1>1. Init => IInv /\ DeliveredInv /\ DeliveredOnce
    BY InitIInv DEF Init, DeliveredInv, DeliveredOnce, ConstantsOK
  <1>2. IInv /\ DeliveredInv /\ DeliveredOnce /\ [Next]_vars
        => (IInv /\ DeliveredInv /\ DeliveredOnce)'
    BY NextIInv, NextDelivered
  <1> QED BY <1>1, <1>2, PTL DEF Spec
=============================================================================
