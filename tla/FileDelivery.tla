---------------------------- MODULE FileDelivery ----------------------------
(***************************************************************************)
(* What a transfer promises its two users, without the server, the         *)
(* connections or the disk: nothing leaves the sender before the receiving *)
(* user has agreed; the sender is told of success only when every          *)
(* announced byte has arrived, and the receiver only when what it keeps is *)
(* the announced file; and an outcome, once told, is final.                *)
(***************************************************************************)
EXTENDS Integers, Sequences

VARIABLES size,      \* bytes that were announced
          consent,   \* what the receiving user answered
          left,      \* bytes that have left the sender
          arrived,   \* bytes that have arrived at the receiver
          kept,      \* what the receiver keeps of them
          sender,    \* what the sending user is told
          receiver   \* what the receiving user is told

vars == <<size, consent, left, arrived, kept, sender, receiver>>

Announced == [i \in 1 .. size |-> i]

Init ==
    /\ size \in Nat
    /\ consent = "none"
    /\ left = 0
    /\ arrived = 0
    /\ kept = <<>>
    /\ sender = "pending"
    /\ receiver = "pending"

\* The receiving user is asked once.
Agree ==
    /\ consent = "none"
    /\ receiver = "pending"
    /\ consent' = "y"
    /\ UNCHANGED <<size, left, arrived, kept, sender, receiver>>

Decline ==
    /\ consent = "none"
    /\ receiver = "pending"
    /\ consent' = "n"
    /\ receiver' = "failed"
    /\ UNCHANGED <<size, left, arrived, kept, sender>>

\* Bytes leave the sender. It may fail right afterwards.
Leave ==
    /\ consent = "y"
    /\ sender = "pending"
    /\ left' > left
    /\ sender' \in {"pending", "failed"}
    /\ UNCHANGED <<size, consent, arrived, kept, receiver>>

\* Bytes arrive, never more than were announced. Some may get lost on the disk.
Arrive ==
    /\ consent = "y"
    /\ receiver = "pending"
    /\ arrived' > arrived
    /\ arrived' <= size
    /\ Len(kept') - Len(kept) \in 0 .. arrived' - arrived
    /\ SubSeq(kept', 1, Len(kept)) = kept
    /\ UNCHANGED <<size, consent, left, sender, receiver>>

SenderSucceeds ==
    /\ consent = "y"
    /\ sender = "pending"
    /\ arrived = size
    /\ sender' = "sent"
    /\ UNCHANGED <<size, consent, left, arrived, kept, receiver>>

ReceiverSucceeds ==
    /\ consent = "y"
    /\ receiver = "pending"
    /\ arrived = size
    /\ kept = Announced
    /\ receiver' = "received"
    /\ UNCHANGED <<size, consent, left, arrived, kept, sender>>

SenderFails ==
    /\ sender = "pending"
    /\ sender' = "failed"
    /\ UNCHANGED <<size, consent, left, arrived, kept, receiver>>

ReceiverFails ==
    /\ receiver = "pending"
    /\ receiver' = "failed"
    /\ UNCHANGED <<size, consent, left, arrived, kept, sender>>

Next ==
    \/ Agree \/ Decline
    \/ Leave \/ Arrive
    \/ SenderSucceeds \/ SenderFails
    \/ ReceiverSucceeds \/ ReceiverFails

Spec == Init /\ [][Next]_vars
=============================================================================
