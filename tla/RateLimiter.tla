----------------------------- MODULE RateLimiter -----------------------------
(***************************************************************************)
(* RoomRateLimiter::allow for one room: a queue of the instants at which   *)
(* events were let through, the expired ones popped at each call.  The     *)
(* queue is what is left of a log of all of them, from "head" on.          *)
(***************************************************************************)
EXTENDS Naturals, Sequences

CONSTANTS Limit,   \* events let through in one window; 0 for no limit
          Window,  \* length of the window; 0 for no limit
          MaxTime  \* bound: the clock

ASSUME LimiterAssumption == Limit \in Nat /\ Window \in Nat /\ MaxTime \in Nat

VARIABLES now,       \* the monotonic clock
          admitted,  \* the instants of the events let through
          head       \* where the queue begins in "admitted"

limiterVars == <<now, admitted, head>>

(* Every variable holds a value of its kind. *)
LimiterTypeOK ==
  /\ now \in 0..MaxTime
  /\ admitted \in Seq(0..MaxTime)
  /\ head \in 1..(Len(admitted) + 1)

LimiterInit == now = 0 /\ admitted = <<>> /\ head = 1

Unlimited == Limit = 0 \/ Window = 0

Expired_Never(i) == FALSE  \* mutant: nothing is ever popped

Expired_Early(i) == now - admitted[i] >= Window  \* mutant: ">" written as ">="

Expired(i) == now - admitted[i] > Window

(* The loop that pops what expired leaves the queue from "front" on. *)
PopsTo(front) ==
  /\ front \in head..(Len(admitted) + 1)
  /\ \A i \in head..(front - 1): Expired(i)
  /\ front <= Len(admitted) => ~ Expired(front)

Allow ==
  /\ \/ Unlimited /\ UNCHANGED <<admitted, head>>
     \/ /\ ~ Unlimited
        /\ \E front \in head..(Len(admitted) + 1):
             /\ PopsTo(front)
             /\ Len(admitted) + 1 - front < Limit
             /\ head' = front /\ admitted' = Append(admitted, now)
  /\ UNCHANGED now

Refuse ==
  /\ ~ Unlimited
  /\ \E front \in head..(Len(admitted) + 1):
       /\ PopsTo(front)
       /\ Len(admitted) + 1 - front >= Limit
       /\ head' = front
  /\ UNCHANGED <<now, admitted>>

Tick ==
  /\ now < MaxTime
  /\ now' = now + 1
  /\ UNCHANGED <<admitted, head>>

(* The queue is in memory only. *)
Forget == admitted' = <<>> /\ head' = 1 /\ UNCHANGED now

LimiterNext == Allow \/ Refuse \/ Tick \/ Forget

LimiterSpec == LimiterInit /\ [][LimiterNext]_limiterVars

-----------------------------------------------------------------------------
(* Of any Limit + 1 events of a room let through one after the other, the   *)
(* first and the last are more than a window apart: no window, wherever it  *)
(* begins, sees more than Limit of them.                                    *)
WithinLimit ==
  ~ Unlimited => \A i \in 1..Len(admitted): i + Limit <= Len(admitted) =>
                   admitted[i + Limit] - admitted[i] > Window

(* The events let through that a window ending now still counts. *)
Recent == {i \in 1..Len(admitted): now - admitted[i] <= Window}
=============================================================================
