----------------------------- MODULE Directory -----------------------------
(***************************************************************************)
(* What the user mappings promise, whatever caches hold and cleanups take  *)
(* away: a user has one entry at a time, an entry keeps its user, its id   *)
(* never comes back, and who asks for a user is answered with no entry, or *)
(* with one that was that user's and is nobody else's since.               *)
(***************************************************************************)
EXTENDS Naturals

CONSTANTS Users, Askers, None

VARIABLES entries,  \* the entries there are: ids with their users
          fresh,    \* ids from here on were never used
          replies   \* asker -> for whom it asked, and the entry it was given

directoryVars == <<entries, fresh, replies>>

Init == entries = {} /\ fresh = 1 /\ replies = [a \in Askers |-> None]

Enroll(u) ==
  /\ fresh' = fresh + 1
  /\ \A e \in entries: e.user # u
  /\ entries' = entries \cup {[id |-> fresh, user |-> u]}
  /\ UNCHANGED replies

Drop ==
  /\ UNCHANGED <<fresh, replies>>
  /\ entries' \subseteq entries

(* An entry that was the user's once; it may be gone. *)
GivenTo(u) ==
  {[id |-> i, user |-> u]: i \in {j \in 1..(fresh - 1): \A e \in entries: e.id = j => e.user = u}}

Reply(a, u) ==
  /\ UNCHANGED <<fresh, entries>>
  /\ replies[a] = None
  /\ \E entry \in GivenTo(u) \cup {None}:
       replies' = [replies EXCEPT ![a] = [for |-> u, entry |-> entry]]

Used(a) ==
  /\ replies' = [replies EXCEPT ![a] = None]
  /\ UNCHANGED <<fresh, entries>>

(* A restart forgets the replies. *)
Forget ==
  /\ replies' = [a \in Askers |-> None]
  /\ UNCHANGED <<entries, fresh>>

Next ==
  \/ Drop
  \/ \E a \in Askers: Used(a) \/ \E u \in Users: Reply(a, u)
  \/ \E u \in Users: Enroll(u)
  \/ Forget

Spec == Init /\ [][Next]_directoryVars
=============================================================================
