--------------------------- MODULE LocalRendezvous ---------------------------
(***************************************************************************)
(* LocalRendezvousImpl (framework/rendezvous.cc): the table in which a     *)
(* value sent under a key and the callback that receives it meet.          *)
(*                                                                         *)
(* Each call works under mu_ and calls back after it has released it.  By  *)
(* then what it calls back has left the table and belongs to that call     *)
(* alone, so that a call is one step here.  The device contexts, which are *)
(* only reference counted, and the hash of the key are left out.           *)
(***************************************************************************)
EXTENDS Integers

CONSTANTS Keys, Values, Receivers,
          KeyOf,            \* the key each receiver asks for
          TolerateDupRecv,  \* tolerate_dup_recv_
          NoReceiver, NoValue, NoItem

Items == [waiter : Receivers \union {NoReceiver}, value : Values \union {NoValue},
          recvd : BOOLEAN]

\* What the proofs need of the constants.
ConstantsOK ==
    /\ KeyOf \in [Receivers -> Keys]
    /\ TolerateDupRecv \in BOOLEAN
    /\ NoReceiver \notin Receivers /\ NoValue \notin Values
    /\ NoItem \notin Items
    /\ {"idle", "waiting", "error"} \cap (Values \union {NoValue}) = {}

VARIABLES local,  \* status_ and table_
          got,    \* what each receiver's callback was given
          sent    \* history: what Send has accepted

vars == <<local, got, sent>>

Item(waiter, value, recvd) == [waiter |-> waiter, value |-> value, recvd |-> recvd]
NewLocalRendezvous == [status |-> "ok", table |-> [k \in Keys |-> NoItem]]

\* The cases of Send and of RecvAsync, for a table in any state.
Aborted(l) == l.status # "ok"
Vacant(l, k) == ~Aborted(l) /\ l.table[k] = NoItem
Awaited(l, k) ==
    ~Aborted(l) /\ l.table[k] # NoItem /\ l.table[k].waiter # NoReceiver
\* The message is there, or, if duplicates are tolerated, an item is there.
Served(l, k) ==
    /\ ~Aborted(l) /\ l.table[k] # NoItem
    /\ TolerateDupRecv \/ (~l.table[k].recvd /\ l.table[k].waiter = NoReceiver)
Refused(l, k) == Aborted(l) \/ (l.table[k] # NoItem /\ ~Served(l, k))

Put(l, k, item) == [status |-> l.status, table |-> [l.table EXCEPT ![k] = item]]

Store(l, k, v) == Put(l, k, Item(NoReceiver, v, FALSE))

HandOver(l, k, v) ==
    Put(l, k, Item(NoReceiver, IF TolerateDupRecv THEN v ELSE NoValue, TRUE))

Wait(l, k, r) == Put(l, k, Item(r, NoValue, FALSE))

Consume(l, k) ==
    Put(l, k, Item(l.table[k].waiter,
                   IF TolerateDupRecv THEN l.table[k].value ELSE NoValue, TRUE))

Clear(l) == [status |-> "aborted", table |-> [k \in Keys |-> NoItem]]

Waiters(l) == {r \in Receivers : l.table[KeyOf[r]] # NoItem
                                 /\ l.table[KeyOf[r]].waiter = r}

-----------------------------------------------------------------------------
Init ==
    /\ local = NewLocalRendezvous
    /\ got = [r \in Receivers |-> "idle"]
    /\ sent = {}

\* Send fails without any change once aborted, and when the key has had its
\* value already ("Duplicated send").
SendFirst(k, v) ==
    /\ Vacant(local, k)
    /\ local' = Store(local, k, v)
    /\ sent' = sent \union {<<k, v>>}
    /\ UNCHANGED got

SendToWaiter(k, v) ==
    /\ Awaited(local, k)
    /\ got' = [got EXCEPT ![local.table[k].waiter] = v]
    /\ local' = HandOver(local, k, v)
    /\ sent' = sent \union {<<k, v>>}

RecvWaits(r) ==
    /\ got[r] = "idle" /\ Vacant(local, KeyOf[r])
    /\ local' = Wait(local, KeyOf[r], r)
    /\ got' = [got EXCEPT ![r] = "waiting"]
    /\ UNCHANGED sent

RecvStored(r) ==
    /\ got[r] = "idle" /\ Served(local, KeyOf[r])
    /\ got' = [got EXCEPT ![r] = local.table[KeyOf[r]].value]
    /\ local' = Consume(local, KeyOf[r])
    /\ UNCHANGED sent

RecvRefused(r) ==
    /\ got[r] = "idle" /\ Refused(local, KeyOf[r])
    /\ got' = [got EXCEPT ![r] = "error"]
    /\ UNCHANGED <<local, sent>>

StartAbort ==
    /\ ~Aborted(local)
    /\ got' = [r \in Receivers |-> IF r \in Waiters(local) THEN "error" ELSE got[r]]
    /\ local' = Clear(local)
    /\ UNCHANGED sent

Next ==
    \/ \E k \in Keys, v \in Values : SendFirst(k, v) \/ SendToWaiter(k, v)
    \/ \E r \in Receivers : RecvWaits(r) \/ RecvStored(r) \/ RecvRefused(r)
    \/ StartAbort

Spec == Init /\ [][Next]_vars

-----------------------------------------------------------------------------
TypeOK ==
    /\ local \in [status : {"ok", "aborted"}, table : [Keys -> Items \union {NoItem}]]
    /\ got \in [Receivers -> {"idle", "waiting", "error", NoValue} \union Values]
    /\ sent \subseteq Keys \X Values

\* No receiver is forgotten: one that waits is the waiter of its key's item, so
\* that the next Send under its key or an abort calls it back; and nobody else
\* is called back there.
NobodyForgotten ==
    \A r \in Receivers : got[r] = "waiting" <=> r \in Waiters(local)

\* Abort is for good: no receiver waits in an aborted rendezvous, whatever was
\* in flight when StartAbort took the table.
AbortLeavesNobody ==
    Aborted(local) => \A r \in Receivers : got[r] # "waiting"

\* A receiver is given a value that was sent under its key.
RightValue ==
    \A r \in Receivers : got[r] \in Values => <<KeyOf[r], got[r]>> \in sent

\* Of two receivers of one key at most one is given the value.
DeliveredOnce ==
    \A r, s \in Receivers :
       KeyOf[r] = KeyOf[s] /\ got[r] \in Values /\ got[s] \in Values => r = s

\* A callback runs at most once: a receiver's result is never replaced.
CalledBackOnce ==
    [][\A r \in Receivers : got[r] \notin {"idle", "waiting"} => got'[r] = got[r]]_vars
=============================================================================
