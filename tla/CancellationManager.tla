------------------------ MODULE CancellationManager ------------------------
(***************************************************************************)
(* The cancellation manager of a step (core/framework/cancellation.cc).    *)
(* An operation that can block registers a callback under a token; the     *)
(* thread that calls StartCancel takes all the callbacks and runs them one *)
(* by one, without the lock.  DeregisterCallback blocks while that is      *)
(* going on, so that its caller does not free what a callback still uses.  *)
(*                                                                         *)
(* The module has the state of the managers and the pieces of their        *)
(* methods; QueueBase composes them with the operations that use them.     *)
(***************************************************************************)
CONSTANTS Managers,     \* the cancellation managers, one per step
          Tokens        \* the cancellation tokens, one per operation

VARIABLES phase,        \* is_cancelling_ / is_cancelled_ of each manager
          callbacks,    \* callbacks_: the tokens with a registered callback
          toRun         \* callbacks_to_run of the StartCancel in progress

cmVars == <<phase, callbacks, toRun>>

CMTypeOK ==
    /\ phase \in [Managers -> {"open", "cancelling", "cancelled"}]
    /\ callbacks \in [Managers -> SUBSET Tokens]
    /\ toRun \in [Managers -> SUBSET Tokens]

CMInit ==
    /\ phase = [m \in Managers |-> "open"]
    /\ callbacks = [m \in Managers |-> {}]
    /\ toRun = [m \in Managers |-> {}]

\* StartCancel up to the loop.  A second call returns at once.
BeginCancel(m) ==
    /\ phase[m] = "open"
    /\ phase' = [phase EXCEPT ![m] = "cancelling"]
    /\ toRun' = [toRun EXCEPT ![m] = callbacks[m]]
    /\ callbacks' = [callbacks EXCEPT ![m] = {}]

\* The loop goes to the next callback; a FlatMap has no order of its own.
TakeCallback(m, t) ==
    /\ t \in toRun[m]
    /\ toRun' = [toRun EXCEPT ![m] = @ \ {t}]
    /\ UNCHANGED <<phase, callbacks>>

\* After the loop: is_cancelled_ and the notification.
EndCancel(m) ==
    /\ phase[m] = "cancelling"
    /\ toRun[m] = {}
    /\ phase' = [phase EXCEPT ![m] = "cancelled"]
    /\ UNCHANGED <<callbacks, toRun>>

\* RegisterCallback when it returns true; it returns false when ~CanRegister.
CanRegister(m) == phase[m] = "open"

RegisterCallback(m, t) ==
    /\ CanRegister(m)
    /\ callbacks' = [callbacks EXCEPT ![m] = @ \union {t}]
    /\ UNCHANGED <<phase, toRun>>

\* DeregisterCallback returns: the wait for cancelled_notification_ is the
\* guard.
DeregisterCallback(m, t) ==
    /\ phase[m] # "cancelling"
    /\ callbacks' = [callbacks EXCEPT ![m] = @ \ {t}]
    /\ UNCHANGED <<phase, toRun>>
=============================================================================
