----------------------------- MODULE Rendezvous -----------------------------
(***************************************************************************)
(* What the sessions manager promises, without its map, its clock or its   *)
(* thread: a sender is on offer under one code at a time; a receiver meets *)
(* the sender on offer under the very code it entered, and is refused only *)
(* when there is none; nobody meets a sender that was met or withdrawn     *)
(* before, and such a sender is never on offer again.                      *)
(***************************************************************************)
CONSTANTS Sessions,   \* connections that register as senders
          Receivers,  \* connections that enter a code
          Codes,      \* the values a session code can take
          None,       \* no code, no answer yet
          Unknown     \* the answer "Unknown session code."

VARIABLES offer,  \* the code a sender can be met under now
          entered,\* the code each receiver entered
          met,    \* the answer it got
          gone    \* senders that were met or withdrawn

vars == <<offer, entered, met, gone>>

Offered(c) == \E s \in Sessions : offer[s] = c

Init ==
    /\ offer = [s \in Sessions |-> None]
    /\ entered = [r \in Receivers |-> None]
    /\ met = [r \in Receivers |-> None]
    /\ gone = {}

Offer(s, c) ==
    /\ offer[s] = None
    /\ s \notin gone
    /\ ~Offered(c)
    /\ offer' = [offer EXCEPT ![s] = c]
    /\ UNCHANGED <<entered, met, gone>>

\* Receiver r enters a code, which is answered at once: the code is the one s
\* is on offer under, or it is nobody's.
Meet(r, s, c) ==
    /\ met[r] = None
    /\ offer[s] = c
    /\ entered' = [entered EXCEPT ![r] = c]
    /\ met' = [met EXCEPT ![r] = s]
    /\ offer' = [offer EXCEPT ![s] = None]
    /\ gone' = gone \cup {s}

Refuse(r, c) ==
    /\ met[r] = None
    /\ ~Offered(c)
    /\ entered' = [entered EXCEPT ![r] = c]
    /\ met' = [met EXCEPT ![r] = Unknown]
    /\ UNCHANGED <<offer, gone>>

Withdraw(W) ==
    /\ \A s \in W : offer[s] # None
    /\ offer' = [s \in Sessions |-> IF s \in W THEN None ELSE offer[s]]
    /\ gone' = gone \cup W
    /\ UNCHANGED <<entered, met>>

Next ==
    \/ \E s \in Sessions, c \in Codes : Offer(s, c)
    \/ \E r \in Receivers, s \in Sessions, c \in Codes : Meet(r, s, c)
    \/ \E r \in Receivers, c \in Codes : Refuse(r, c)
    \/ \E W \in SUBSET Sessions : Withdraw(W)

Spec == Init /\ [][Next]_vars
=============================================================================
