----------------------------- MODULE RoomLinks -----------------------------
(***************************************************************************)
(* What the bridge promises about room mappings, whatever its caches and   *)
(* its concurrent handlers do: the links between Matrix rooms and Feishu   *)
(* chats form a one-to-one relation, a link is made whole and removed      *)
(* whole, and the identity of a removed link never names another one.      *)
(***************************************************************************)
EXTENDS Naturals

CONSTANTS Rooms,  \* Matrix room ids
          Chats,  \* Feishu chat ids
          Ids     \* primary keys of room_mappings

VARIABLES links,  \* the links in force
          ever    \* every link that was ever in force

Link == [id: Ids, room: Rooms, chat: Chats]

Free(l) == \A k \in links: k.room # l.room /\ k.chat # l.chat

Fresh(l) == \A k \in ever: k.id # l.id

Init == links = {} /\ ever = {}

(* A room and a chat that are both free are linked under a fresh identity. *)
Connect(l) ==
  /\ Free(l) /\ Fresh(l)
  /\ links' = links \cup {l}
  /\ ever' = ever \cup {l}

(* One link is removed; the others stay as they are. *)
Disconnect(l) ==
  /\ links' = links \ {l}
  /\ UNCHANGED ever

Next == \/ \E l \in Link: Connect(l)
        \/ \E l \in links: Disconnect(l)

Spec == Init /\ [][Next]_<<links, ever>>
=============================================================================
