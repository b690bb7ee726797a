------------------------------ MODULE ConnLedger ------------------------------
(***************************************************************************)
(* What the connection table promises, without slots, descriptors, threads *)
(* or a mutex: each connection is opened, listed under a new ID, taken off *)
(* the list and closed, each once and in this order.  An opened connection *)
(* may stay unlisted for ever, when the table is full.                     *)
(***************************************************************************)
EXTENDS Naturals

CONSTANT Conn

VARIABLES standing,   \* connection -> how far it has come
          id,         \* connection -> the ID it was listed under, or 0
          last        \* the last ID given out

Init == /\ standing = [k \in Conn |-> "unseen"]
        /\ id = [k \in Conn |-> 0]
        /\ last = 0

Move(k, from, to) == /\ standing[k] = from
                     /\ standing' = [standing EXCEPT ![k] = to]

Open(k)  == Move(k, "unseen", "held") /\ UNCHANGED <<id, last>>
Enter(k) == /\ Move(k, "held", "listed")
            /\ last' = last + 1
            /\ id' = [id EXCEPT ![k] = last']
Leave(k) == Move(k, "listed", "leaving") /\ UNCHANGED <<id, last>>
Close(k) == Move(k, "leaving", "closed") /\ UNCHANGED <<id, last>>

Next == \E k \in Conn : Open(k) \/ Enter(k) \/ Leave(k) \/ Close(k)

Spec == Init /\ [][Next]_<<standing, id, last>>
=============================================================================
