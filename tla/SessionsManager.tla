-------------------------- MODULE SessionsManager --------------------------
(***************************************************************************)
(* SessionsManager: the map from session codes to waiting sender sessions, *)
(* the calls that add to it and take from it, and the controller thread    *)
(* that removes the senders nobody asked for in time.                      *)
(*                                                                         *)
(* Every access to the map holds the mutex m, so one access is one step.   *)
(* registerSender draws its code before it takes the mutex: drawing and    *)
(* inserting are two steps, and everybody else may act between them.       *)
(* Time is counted in seconds. An entry keeps the time elapsed since its   *)
(* time_point instead of the time_point itself, as the clock the code asks *)
(* sees it (high_resolution_clock, which is the system clock of the build  *)
(* and may be set while a sender waits), and how long it has really been   *)
(* in the map.                                                             *)
(***************************************************************************)
EXTENDS Integers, FiniteSets, Functions

CONSTANTS Sessions,       \* sessions that call registerSender
          Receivers,      \* sessions that call getSenderWithMetadata
          Codes,          \* adjective-noun-number combinations
          CLIENT_TIMEOUT, \* seconds a sender may wait
          CHECK_INTERVAL, \* seconds the controller sleeps between sweeps
          MAX_CLOCK_STEP, \* bound: how far the clock is set, each way
          None,           \* no code, no answer yet
          Unknown         \* SessionsManagerException "Unknown session code."

ASSUME TimeAssumption ==
    /\ CLIENT_TIMEOUT \in Nat
    /\ CHECK_INTERVAL \in Nat \ {0}
    /\ MAX_CLOCK_STEP \in Nat

ASSUME NamesAssumption ==
    /\ None \notin Sessions \cup Codes
    /\ Unknown \notin Sessions
    /\ None # Unknown

VARIABLES senders_sessions, \* the map: code -> waiting sender
          caller,           \* where each session is in registerSender
          session_id,       \* the code registerSender drew for it
          code,             \* the code registerSender returned to it
          asked,            \* the code getSenderWithMetadata was called with
          claim,            \* what getSenderWithMetadata gave each receiver
          terminated,       \* senders the controller removed (its log line)
          controller_sleep, \* seconds until the controller's next sweep
          set_back,         \* by how much the clock has been set back
          set_forward       \* by how much it has been set forward

clockVars == <<set_back, set_forward>>

managerVars == <<senders_sessions, caller, session_id, code, asked, claim,
                 terminated, controller_sleep, clockVars>>

TimedClientSession == [client_session : Sessions, elapsed : Int, age : Nat]

TypeOK ==
    /\ DOMAIN senders_sessions \subseteq Codes
    /\ senders_sessions \in [DOMAIN senders_sessions -> TimedClientSession]
    /\ caller \in [Sessions -> {"out", "generate", "insert", "returned"}]
    /\ session_id \in [Sessions -> Codes \cup {None}]
    /\ code \in [Sessions -> Codes \cup {None}]
    /\ asked \in [Receivers -> Codes \cup {None}]
    /\ claim \in [Receivers -> Sessions \cup {None, Unknown}]
    /\ terminated \subseteq Sessions
    /\ controller_sleep \in 0 .. CHECK_INTERVAL
    /\ set_back \in 0 .. MAX_CLOCK_STEP
    /\ set_forward \in 0 .. MAX_CLOCK_STEP

ManagerInit ==
    /\ senders_sessions = [c \in {} |-> None]
    /\ caller = [s \in Sessions |-> "out"]
    /\ session_id = [s \in Sessions |-> None]
    /\ code = [s \in Sessions |-> None]
    /\ asked = [r \in Receivers |-> None]
    /\ claim = [r \in Receivers |-> None]
    /\ terminated = {}
    /\ controller_sleep = 0
    /\ set_back = 0
    /\ set_forward = 0

-----------------------------------------------------------------------------
(* The map. *)

Contains(c) == c \in DOMAIN senders_sessions

Insert(c, s) ==
    [k \in DOMAIN senders_sessions \cup {c} |->
        IF k = c THEN [client_session |-> s, elapsed |-> 0, age |-> 0]
        ELSE senders_sessions[k]]

\* Mistake: the entry is found but left in the map.
ExtractLeavesEntry(c) == senders_sessions

Extract(c) == Restrict(senders_sessions, DOMAIN senders_sessions \ {c})

\* Every entry is d seconds older to the clock, and a really.
Later(d, a) ==
    [c \in DOMAIN senders_sessions |->
        LET entry == senders_sessions[c]
        IN  [client_session |-> entry.client_session,
             elapsed |-> entry.elapsed + d, age |-> entry.age + a]]

\* Mistake: the controller's interval is added to the timeout.
TimedOutLate(c) ==
    senders_sessions[c].elapsed > CLIENT_TIMEOUT + CHECK_INTERVAL

\* Mistake: a sender is timed out when its last second begins.
TimedOutEarly(c) == senders_sessions[c].elapsed >= CLIENT_TIMEOUT

TimedOut(c) == senders_sessions[c].elapsed > CLIENT_TIMEOUT

currentSessions == Cardinality(DOMAIN senders_sessions)

-----------------------------------------------------------------------------
(* registerSender *)

CallRegisterSender(s) ==
    /\ caller[s] = "out"
    /\ caller' = [caller EXCEPT ![s] = "generate"]
    /\ UNCHANGED <<senders_sessions, session_id, code, asked, claim, terminated,
                   controller_sleep, clockVars>>

GenerateSessionID(s, c) ==
    /\ caller[s] = "generate"
    /\ session_id' = [session_id EXCEPT ![s] = c]
    /\ caller' = [caller EXCEPT ![s] = "insert"]
    /\ UNCHANGED <<senders_sessions, code, asked, claim, terminated,
                   controller_sleep, clockVars>>

\* Mistake: the code is not looked up once the mutex is held.
CodeTakenUnchecked(s) == FALSE

CodeTaken(s) == Contains(session_id[s])

\* The code is taken: continue, and draw again.
RetryTakenCode(s) ==
    /\ caller[s] = "insert"
    /\ CodeTaken(s)
    /\ caller' = [caller EXCEPT ![s] = "generate"]
    /\ UNCHANGED <<senders_sessions, session_id, code, asked, claim, terminated,
                   controller_sleep, clockVars>>

InsertSender(s) ==
    /\ caller[s] = "insert"
    /\ ~CodeTaken(s)
    /\ senders_sessions' = Insert(session_id[s], s)
    /\ code' = [code EXCEPT ![s] = session_id[s]]
    /\ caller' = [caller EXCEPT ![s] = "returned"]
    /\ UNCHANGED <<session_id, asked, claim, terminated, controller_sleep,
                   clockVars>>

-----------------------------------------------------------------------------
(* getSenderWithMetadata *)

\* Mistake: whatever entry is found first.
FindFirst(c) == DOMAIN senders_sessions

\* The iterators find(c) may return, other than end().
Find(c) == {k \in DOMAIN senders_sessions : k = c}

GetSenderWithMetadata(r, c) ==
    /\ claim[r] = None
    /\ asked' = [asked EXCEPT ![r] = c]
    /\ \E it \in Find(c) :
           /\ claim' = [claim EXCEPT ![r] = senders_sessions[it].client_session]
           /\ senders_sessions' = Extract(it)
    /\ UNCHANGED <<caller, session_id, code, terminated, controller_sleep,
                   clockVars>>

ThrowUnknownSessionCode(r, c) ==
    /\ claim[r] = None
    /\ Find(c) = {}
    /\ asked' = [asked EXCEPT ![r] = c]
    /\ claim' = [claim EXCEPT ![r] = Unknown]
    /\ UNCHANGED <<senders_sessions, caller, session_id, code, terminated,
                   controller_sleep, clockVars>>

-----------------------------------------------------------------------------
(* The controller thread: sweep, then sleep for CHECK_INTERVAL. *)

Expired == {c \in DOMAIN senders_sessions : TimedOut(c)}

\* Mistake: the thread sleeps for the other duration of its closure.
SleepForTimeout == CLIENT_TIMEOUT

SleepFor == CHECK_INTERVAL

\* Mistake: every sweep refreshes the time points it looks at.
SweepRefreshes ==
    /\ controller_sleep = 0
    /\ senders_sessions' =
           [c \in DOMAIN senders_sessions |->
               [senders_sessions[c] EXCEPT !.elapsed = 0, !.age = 0]]
    /\ controller_sleep' = SleepFor
    /\ UNCHANGED <<caller, session_id, code, asked, claim, terminated, clockVars>>

TerminateTimeoutClients ==
    /\ controller_sleep = 0
    /\ senders_sessions' =
           Restrict(senders_sessions, DOMAIN senders_sessions \ Expired)
    /\ terminated' = terminated \cup
           {senders_sessions[c].client_session : c \in Expired}
    /\ controller_sleep' = SleepFor
    /\ UNCHANGED <<caller, session_id, code, asked, claim, clockVars>>

\* One second passes. The controller is not late: when its sleep is over it
\* sweeps before the next second ends.
Tick ==
    /\ controller_sleep > 0
    /\ senders_sessions' = Later(1, 1)
    /\ controller_sleep' = controller_sleep - 1
    /\ UNCHANGED <<caller, session_id, code, asked, claim, terminated, clockVars>>

-----------------------------------------------------------------------------
(* The system clock is set; sleep_for does not depend on it. *)

SetBack(d) ==
    /\ set_back + d <= MAX_CLOCK_STEP
    /\ senders_sessions' = Later(-d, 0)
    /\ set_back' = set_back + d
    /\ UNCHANGED <<caller, session_id, code, asked, claim, terminated,
                   controller_sleep, set_forward>>

SetForward(d) ==
    /\ set_forward + d <= MAX_CLOCK_STEP
    /\ senders_sessions' = Later(d, 0)
    /\ set_forward' = set_forward + d
    /\ UNCHANGED <<caller, session_id, code, asked, claim, terminated,
                   controller_sleep, set_back>>

-----------------------------------------------------------------------------
RegisterSender(s) ==
    \/ CallRegisterSender(s)
    \/ \E c \in Codes : GenerateSessionID(s, c)
    \/ RetryTakenCode(s)
    \/ InsertSender(s)

EnterCode(r) ==
    \E c \in Codes : GetSenderWithMetadata(r, c) \/ ThrowUnknownSessionCode(r, c)

Controller == TerminateTimeoutClients \/ Tick

ManagerNext ==
    \/ \E s \in Sessions : RegisterSender(s)
    \/ \E r \in Receivers : EnterCode(r)
    \/ Controller
    \/ \E d \in 1 .. MAX_CLOCK_STEP : SetBack(d) \/ SetForward(d)

\* A caller inside registerSender keeps running, and its random draw produces
\* every code again and again; the controller and the clock never stop.
\* Nobody has to call, to enter a code or to set the clock.
ManagerFairness ==
    /\ \A s \in Sessions :
           /\ WF_managerVars(RetryTakenCode(s) \/ InsertSender(s))
           /\ \A c \in Codes : SF_managerVars(GenerateSessionID(s, c))
    /\ WF_managerVars(TerminateTimeoutClients)
    /\ WF_managerVars(Tick)

ManagerSafetySpec == ManagerInit /\ [][ManagerNext]_managerVars

ManagerSpec == ManagerSafetySpec /\ ManagerFairness

-----------------------------------------------------------------------------
(* Properties. *)

Waiting(s) ==
    \E c \in DOMAIN senders_sessions : senders_sessions[c].client_session = s

Claimed(s) == \E r \in Receivers : claim[r] = s

\* getSenderWithMetadata extracts the entry it returns, under the mutex: two
\* receivers that race for a sender are never both given it, whatever codes
\* they entered and however the sender's code was reused meanwhile.
ExclusiveHandOut ==
    \A r1, r2 \in Receivers :
        claim[r1] \in Sessions /\ claim[r1] = claim[r2] => r1 = r2

\* A sender whose registerSender returned is in exactly one place: waiting in
\* the map, in one receiver's hands, or terminated. registerSender never
\* overwrites a waiting sender, and no sender is both terminated and claimed.
SendersAccounted ==
    /\ \A s \in Sessions :
           caller[s] = "returned" =>
               \/ Waiting(s) /\ ~Claimed(s) /\ s \notin terminated
               \/ ~Waiting(s) /\ Claimed(s) /\ s \notin terminated
               \/ ~Waiting(s) /\ ~Claimed(s) /\ s \in terminated
    /\ currentSessions = Cardinality({s \in Sessions : Waiting(s)})

\* The code a sender was told leads to that sender, and to no other, until it
\* is claimed or terminated, even when the code was somebody else's before.
CodeReachesItsSender ==
    \A s \in Sessions :
        caller[s] = "returned" /\ ~Claimed(s) /\ s \notin terminated =>
            /\ Contains(code[s])
            /\ senders_sessions[code[s]].client_session = s

\* A sender never stays in the map for more than one check interval beyond its
\* timeout, and the sweep that is due then removes it. A clock that is set back
\* gives it that much longer, and no more.
BoundedStay ==
    \A c \in DOMAIN senders_sessions :
        senders_sessions[c].age + controller_sleep
            <= CLIENT_TIMEOUT + CHECK_INTERVAL + set_back

\* The other bound: a sender the controller terminates has waited for its whole
\* timeout, less what the clock was set forward, however the sweeps fall.
KeptForTimeout ==
    [][\A c \in DOMAIN senders_sessions :
           senders_sessions[c].client_session \in terminated' \ terminated
           => senders_sessions[c].age + set_forward > CLIENT_TIMEOUT]_managerVars

OfferOf(s) ==
    IF Waiting(s)
    THEN CHOOSE c \in DOMAIN senders_sessions :
             senders_sessions[c].client_session = s
    ELSE None

R == INSTANCE Rendezvous WITH
         offer <- [s \in Sessions |-> OfferOf(s)],
         entered <- asked,
         met <- claim,
         gone <- {s \in Sessions : Claimed(s)} \cup terminated

\* The manager implements the rendezvous it promises: the code a receiver
\* enters meets the one sender on offer under that code or is refused because
\* there is none, and a sender met or withdrawn never comes back, although
\* senders are swept meanwhile and their codes used again.
ImplementsRendezvous == R!Spec

\* Every waiting sender is handed out or terminated in the end: the controller
\* never forgets an entry.
SenderLeaves == \A s \in Sessions : Waiting(s) ~> ~Waiting(s)

\* registerSender's loop ends, even in the extreme that every code is taken:
\* the controller frees codes while the caller keeps drawing.
RegistrationReturns ==
    \A s \in Sessions : caller[s] = "generate" ~> caller[s] = "returned"

-----------------------------------------------------------------------------
(* The inductive invariant. *)

FiniteMap == IsFiniteSet(DOMAIN senders_sessions)

DrawnCode ==
    \A s \in Sessions : caller[s] = "insert" => session_id[s] \in Codes

EntryOwned ==
    \A c \in DOMAIN senders_sessions :
        LET s == senders_sessions[c].client_session
        IN  /\ caller[s] = "returned"
            /\ code[s] = c
            /\ s \notin terminated
            /\ \A r \in Receivers : claim[r] # s

ClaimOwned ==
    \A r \in Receivers :
        claim[r] \in Sessions =>
            /\ caller[claim[r]] = "returned"
            /\ claim[r] \notin terminated

TerminatedOwned == \A s \in terminated : caller[s] = "returned"

\* What the clock shows of an entry's age is off by what it was set at most.
ClockError ==
    \A c \in DOMAIN senders_sessions :
        /\ senders_sessions[c].age <= senders_sessions[c].elapsed + set_back
        /\ senders_sessions[c].elapsed <= senders_sessions[c].age + set_forward

NoneLost ==
    \A s \in Sessions :
        caller[s] = "returned" => Waiting(s) \/ Claimed(s) \/ s \in terminated

\* Why the properties above hold, and the invariant their proofs rest on: the
\* entry of a session is found under the code registerSender returned to it (so
\* a session has one entry), nobody is in the map and also claimed or
\* terminated, nobody registerSender returned to is missing, and the elapsed
\* time is off by no more than the clock was set.
ManagerInv ==
    /\ TypeOK
    /\ FiniteMap
    /\ DrawnCode
    /\ EntryOwned
    /\ ClaimOwned
    /\ TerminatedOwned
    /\ NoneLost
    /\ ExclusiveHandOut
    /\ BoundedStay
    /\ ClockError
=============================================================================
