---------------------------- MODULE MatrixPolicy ----------------------------
(***************************************************************************)
(* MatrixDelivery with the rate limiter of the room: handle_message_event  *)
(* first drops what comes from the bridge itself, commands and blocked     *)
(* types, then asks the limiter, and only then looks up the room.  An      *)
(* event that is pushed again asks the limiter again.  One run of the      *)
(* process: a restart only empties the limiter.                            *)
(***************************************************************************)
EXTENDS MatrixDelivery, RateLimiter

policyVars == <<vars, limiterVars>>

PolicyInit == Init /\ LimiterInit

(* Sent by the bot or by a ghost, a command, a blocked type. *)
Screened(h) == Dropped(h) /\ UNCHANGED limiterVars

RateLimited(h) == Dropped(h) /\ Refuse

(* A room without mapping, or content that cannot be parsed. *)
Unroutable(h) == Dropped(h) /\ Allow

Passed(h) == Allowed(h) /\ Allow

(* A command whose reply fails; a lookup of the room that fails.           *)
PolicyFails(h) ==
  /\ At(h, "policy") /\ EventFails(h)
  /\ Allow \/ UNCHANGED limiterVars

FailsElsewhere(h) == ~ At(h, "policy") /\ EventFails(h) /\ UNCHANGED limiterVars

Moves(h) == Proceed(h) /\ UNCHANGED limiterVars

PolicyStep(h) ==
  \/ Moves(h) \/ Screened(h) \/ RateLimited(h) \/ Unroutable(h) \/ Passed(h)
  \/ PolicyFails(h) \/ FailsElsewhere(h)

PolicyPush(h) == Push(h) /\ UNCHANGED limiterVars

PolicyAnswer(h) == Answer(h) /\ UNCHANGED limiterVars

PolicyAnswerLost(h) == AnswerLost(h) /\ UNCHANGED limiterVars

ClockTicks == Tick /\ UNCHANGED vars

PolicyNext ==
  \/ \E h \in Handlers: PolicyPush(h) \/ PolicyStep(h) \/ PolicyAnswer(h) \/ PolicyAnswerLost(h)
  \/ ClockTicks

PolicySpec == PolicyInit /\ [][PolicyNext]_policyVars

(* As in MatrixDelivery; nothing waits for the clock. *)
PolicyFairSpec ==
  /\ PolicySpec
  /\ WF_policyVars(\E h \in Handlers: PolicyPush(h))
  /\ WF_policyVars(\E h \in Handlers: PolicyStep(h))
  /\ SF_policyVars(\E h \in Handlers: PolicyAnswer(h))

-----------------------------------------------------------------------------
(* The limiter decides by the window that ends now and by nothing else: an  *)
(* event is dropped for the rate only when the room really had that many    *)
(* events let through in it, and goes on only when it had fewer.  What      *)
(* expired never counts, what was popped never should have, and an event    *)
(* handled by two pushes counts for both (RoomRateLimiter::allow).          *)
DecidedByWindow ==
  [][\A h \in Handlers:
       /\ RateLimited(h) => Cardinality(Recent) >= Limit
       /\ Passed(h) \/ Unroutable(h) => Unlimited \/ Cardinality(Recent) < Limit]_policyVars
=============================================================================
