----------------------- MODULE SessionsManager_proofs -----------------------
(***************************************************************************)
(* Proofs about SessionsManager, for any sets of sessions, receivers and   *)
(* codes, any timeout and check interval, and a clock that is set by any   *)
(* amount: the type invariant, the safety properties that                  *)
(* SessionsManager.cfg checks on a small instance, and that the manager    *)
(* implements Rendezvous.                                                  *)
(***************************************************************************)
EXTENDS SessionsManager, FiniteSetTheorems, TLAPS

-----------------------------------------------------------------------------
(* The type invariant on its own needs DrawnCode, and nothing else. *)

\* Each step of the manager keeps the types: the map never holds a key that is
\* not a code or an entry that is not a session with a time.
LEMMA TypeStep ==
    TypeOK /\ DrawnCode /\ [ManagerNext]_managerVars => TypeOK' /\ DrawnCode'
<1> SUFFICES ASSUME TypeOK, DrawnCode, [ManagerNext]_managerVars
             PROVE  TypeOK' /\ DrawnCode'
    OBVIOUS
<1> USE DEF TypeOK, DrawnCode, TimedClientSession, clockVars
<1>1. ASSUME NEW s \in Sessions, CallRegisterSender(s)
      PROVE  TypeOK' /\ DrawnCode'
    BY <1>1 DEF CallRegisterSender
<1>2. ASSUME NEW s \in Sessions, NEW c \in Codes, GenerateSessionID(s, c)
      PROVE  TypeOK' /\ DrawnCode'
    BY <1>2 DEF GenerateSessionID
<1>3. ASSUME NEW s \in Sessions, RetryTakenCode(s)
      PROVE  TypeOK' /\ DrawnCode'
    BY <1>3 DEF RetryTakenCode
<1>4. ASSUME NEW s \in Sessions, InsertSender(s)
      PROVE  TypeOK' /\ DrawnCode'
    BY <1>4 DEF InsertSender, Insert
<1>5. ASSUME NEW r \in Receivers, NEW c \in Codes, GetSenderWithMetadata(r, c)
      PROVE  TypeOK' /\ DrawnCode'
    BY <1>5 DEF GetSenderWithMetadata, Find, Extract, Restrict
<1>6. ASSUME NEW r \in Receivers, NEW c \in Codes, ThrowUnknownSessionCode(r, c)
      PROVE  TypeOK' /\ DrawnCode'
    BY <1>6 DEF ThrowUnknownSessionCode
<1>7. CASE TerminateTimeoutClients
    BY <1>7, TimeAssumption DEF TerminateTimeoutClients, Restrict, Expired, SleepFor
<1>8. CASE Tick
    BY <1>8, TimeAssumption DEF Tick, Later
<1>9. ASSUME NEW d \in 1 .. MAX_CLOCK_STEP, SetBack(d) \/ SetForward(d)
      PROVE  TypeOK' /\ DrawnCode'
    BY <1>9, TimeAssumption DEF SetBack, SetForward, Later
<1>10. CASE UNCHANGED managerVars
    BY <1>10 DEF managerVars
<1> QED
    BY <1>1, <1>2, <1>3, <1>4, <1>5, <1>6, <1>7, <1>8, <1>9, <1>10
    DEF ManagerNext, RegisterSender, EnterCode, Controller

\* Type correctness of the manager: the map, the callers, the answers and the
\* controller's clock have their types in every reachable state.
THEOREM TypeCorrect == ManagerSafetySpec => []TypeOK
<1>1. ManagerInit => TypeOK /\ DrawnCode
    BY TimeAssumption
    DEF ManagerInit, TypeOK, DrawnCode, TimedClientSession
<1> QED
    BY <1>1, TypeStep, PTL DEF ManagerSafetySpec

-----------------------------------------------------------------------------
(* The inductive invariant. *)

\* The invariant holds before anybody called.
LEMMA InvInit == ManagerInit => ManagerInv
<1> SUFFICES ASSUME ManagerInit PROVE ManagerInv
    OBVIOUS
<1>1. DOMAIN senders_sessions = {}
    BY DEF ManagerInit
<1>2. FiniteMap
    BY <1>1, FS_EmptySet DEF FiniteMap
<1>3. TypeOK /\ DrawnCode
    BY TimeAssumption DEF ManagerInit, TypeOK, DrawnCode, TimedClientSession
<1>4. EntryOwned /\ BoundedStay /\ ClockError
    BY <1>1 DEF EntryOwned, BoundedStay, ClockError
<1>5. ClaimOwned /\ ExclusiveHandOut
    BY NamesAssumption DEF ManagerInit, ClaimOwned, ExclusiveHandOut
<1>6. TerminatedOwned /\ NoneLost
    BY DEF ManagerInit, TerminatedOwned, NoneLost
<1> QED
    BY <1>2, <1>3, <1>4, <1>5, <1>6 DEF ManagerInv

\* Steps that leave the map and the answers alone keep the invariant: entering
\* registerSender, drawing a code, and finding it taken.
LEMMA InvCaller ==
    ASSUME ManagerInv, NEW s \in Sessions,
           \/ CallRegisterSender(s)
           \/ \E c \in Codes : GenerateSessionID(s, c)
           \/ RetryTakenCode(s)
    PROVE  ManagerInv'
<1>1. /\ UNCHANGED <<senders_sessions, code, claim, terminated,
                     controller_sleep, set_back, set_forward>>
      /\ caller[s] # "returned"
      /\ \E v \in {"generate", "insert"} :
             caller' = [caller EXCEPT ![s] = v]
    BY DEF CallRegisterSender, GenerateSessionID, RetryTakenCode, clockVars
<1>2. TypeOK' /\ DrawnCode'
    BY TypeStep DEF ManagerInv, ManagerNext, RegisterSender
<1>3. \A u \in Sessions : caller'[u] = "returned" <=> caller[u] = "returned"
    BY <1>1 DEF ManagerInv, TypeOK
<1>4. FiniteMap' /\ BoundedStay' /\ ClockError' /\ ExclusiveHandOut'
    BY <1>1 DEF ManagerInv, FiniteMap, BoundedStay, ClockError, ExclusiveHandOut
<1>5. EntryOwned'
    BY <1>1, <1>3 DEF ManagerInv, EntryOwned, TypeOK, TimedClientSession
<1>6. ClaimOwned' /\ TerminatedOwned'
    BY <1>1, <1>3 DEF ManagerInv, ClaimOwned, TerminatedOwned, TypeOK
<1>7. NoneLost'
    BY <1>1, <1>3 DEF ManagerInv, NoneLost, Waiting, Claimed
<1> QED
    BY <1>2, <1>4, <1>5, <1>6, <1>7 DEF ManagerInv

\* Inserting a sender under a free code keeps the invariant.
LEMMA InvInsert ==
    ASSUME ManagerInv, NEW s \in Sessions, InsertSender(s)
    PROVE  ManagerInv'
<1> DEFINE c0 == session_id[s]
<1>1. /\ caller[s] = "insert"
      /\ c0 \in Codes
      /\ c0 \notin DOMAIN senders_sessions
      /\ DOMAIN senders_sessions' = DOMAIN senders_sessions \cup {c0}
      /\ senders_sessions'[c0]
             = [client_session |-> s, elapsed |-> 0, age |-> 0]
      /\ \A c \in DOMAIN senders_sessions :
             senders_sessions'[c] = senders_sessions[c] /\ c # c0
      /\ code' = [code EXCEPT ![s] = c0]
      /\ caller' = [caller EXCEPT ![s] = "returned"]
      /\ UNCHANGED <<claim, terminated, controller_sleep, set_back,
                     set_forward>>
    BY DEF InsertSender, Insert, CodeTaken, Contains, ManagerInv, DrawnCode,
           clockVars
<1>2. TypeOK' /\ DrawnCode'
    BY TypeStep DEF ManagerInv, ManagerNext, RegisterSender
<1>3. FiniteMap'
    BY <1>1, FS_AddElement DEF ManagerInv, FiniteMap
<1>4. \A c \in DOMAIN senders_sessions :
          senders_sessions[c].client_session \in Sessions \ {s}
    BY <1>1 DEF ManagerInv, EntryOwned, TypeOK, TimedClientSession
<1>5. s \notin terminated /\ \A r \in Receivers : claim[r] # s
    BY <1>1 DEF ManagerInv, ClaimOwned, TerminatedOwned
<1>6. EntryOwned'
  <2>1. ASSUME NEW c \in DOMAIN senders_sessions'
        PROVE  LET u == senders_sessions'[c].client_session
               IN  /\ caller'[u] = "returned"
                   /\ code'[u] = c
                   /\ u \notin terminated'
                   /\ \A r \in Receivers : claim'[r] # u
    <3>1. CASE c = c0
        BY <3>1, <1>1, <1>5 DEF ManagerInv, TypeOK
    <3>2. CASE c \in DOMAIN senders_sessions
        BY <3>2, <1>1, <1>4 DEF ManagerInv, TypeOK, EntryOwned
    <3> QED
        BY <3>1, <3>2, <1>1
  <2> QED
    BY <2>1 DEF EntryOwned
<1>7. ClaimOwned' /\ TerminatedOwned'
    BY <1>1, <1>5 DEF ManagerInv, ClaimOwned, TerminatedOwned, TypeOK
<1>8. NoneLost'
    BY <1>1 DEF ManagerInv, NoneLost, Waiting, Claimed, TypeOK
<1>9. ExclusiveHandOut'
    BY <1>1 DEF ManagerInv, ExclusiveHandOut
<1>10. BoundedStay' /\ ClockError'
  <2>1. /\ controller_sleep <= CLIENT_TIMEOUT + CHECK_INTERVAL + set_back
        /\ 0 <= set_back /\ 0 <= set_forward
    BY TimeAssumption DEF ManagerInv, TypeOK
  <2>2. \A c \in DOMAIN senders_sessions' :
            c = c0 \/ c \in DOMAIN senders_sessions
    BY <1>1
  <2>3. senders_sessions'[c0].elapsed = 0 /\ senders_sessions'[c0].age = 0
    BY <1>1
  <2>4. BoundedStay'
    BY <2>1, <2>2, <2>3, <1>1 DEF ManagerInv, BoundedStay, TypeOK
  <2>5. ClockError'
    BY <2>1, <2>2, <2>3, <1>1 DEF ManagerInv, ClockError, TypeOK
  <2> QED
    BY <2>4, <2>5
<1> QED
    BY <1>2, <1>3, <1>6, <1>7, <1>8, <1>9, <1>10 DEF ManagerInv

\* Handing a sender to a receiver keeps the invariant.
LEMMA InvClaim ==
    ASSUME ManagerInv, NEW r \in Receivers, NEW c \in Codes,
           GetSenderWithMetadata(r, c)
    PROVE  ManagerInv'
<1> DEFINE s == senders_sessions[c].client_session
<1>1. /\ claim[r] = None
      /\ c \in DOMAIN senders_sessions
      /\ DOMAIN senders_sessions' = DOMAIN senders_sessions \ {c}
      /\ \A k \in DOMAIN senders_sessions' :
             senders_sessions'[k] = senders_sessions[k]
      /\ claim' = [claim EXCEPT ![r] = s]
      /\ UNCHANGED <<caller, code, terminated, controller_sleep, set_back,
                     set_forward>>
    BY DEF GetSenderWithMetadata, Find, Extract, Restrict, clockVars
<1>2. TypeOK' /\ DrawnCode'
    BY TypeStep DEF ManagerInv, ManagerNext, EnterCode
<1>3. FiniteMap'
    BY <1>1, FS_RemoveElement DEF ManagerInv, FiniteMap
<1>4. /\ s \in Sessions
      /\ caller[s] = "returned"
      /\ code[s] = c
      /\ s \notin terminated
      /\ \A q \in Receivers : claim[q] # s
    BY <1>1 DEF ManagerInv, EntryOwned, TypeOK, TimedClientSession
<1>5. \A q \in Receivers : claim'[q] = IF q = r THEN s ELSE claim[q]
    BY <1>1 DEF ManagerInv, TypeOK
<1>6. \A k \in DOMAIN senders_sessions' :
          senders_sessions[k].client_session # s
    BY <1>1, <1>4 DEF ManagerInv, EntryOwned
<1>7. EntryOwned'
    BY <1>1, <1>5, <1>6 DEF ManagerInv, EntryOwned
<1>8. ClaimOwned' /\ TerminatedOwned' /\ ExclusiveHandOut'
    BY <1>1, <1>4, <1>5
    DEF ManagerInv, ClaimOwned, TerminatedOwned, ExclusiveHandOut
<1>9. NoneLost'
  <2> SUFFICES ASSUME NEW u \in Sessions, caller[u] = "returned"
               PROVE  Waiting(u)' \/ Claimed(u)' \/ u \in terminated
    BY <1>1 DEF NoneLost
  <2>1. CASE u = s
    BY <2>1, <1>5 DEF Claimed
  <2>2. CASE u # s /\ Waiting(u)
    BY <2>2, <1>1 DEF Waiting
  <2>3. CASE Claimed(u)
    BY <2>3, <1>1, <1>5, NamesAssumption DEF Claimed
  <2> QED
    BY <2>1, <2>2, <2>3 DEF ManagerInv, NoneLost
<1>10. BoundedStay' /\ ClockError'
    BY <1>1 DEF ManagerInv, BoundedStay, ClockError
<1> QED
    BY <1>2, <1>3, <1>7, <1>8, <1>9, <1>10 DEF ManagerInv

\* Refusing a code keeps the invariant.
LEMMA InvRefuse ==
    ASSUME ManagerInv, NEW r \in Receivers, NEW c \in Codes,
           ThrowUnknownSessionCode(r, c)
    PROVE  ManagerInv'
<1>1. /\ claim[r] = None
      /\ claim' = [claim EXCEPT ![r] = Unknown]
      /\ UNCHANGED <<senders_sessions, caller, code, terminated,
                     controller_sleep, set_back, set_forward>>
    BY DEF ThrowUnknownSessionCode, clockVars
<1>2. TypeOK' /\ DrawnCode'
    BY TypeStep DEF ManagerInv, ManagerNext, EnterCode
<1>3. \A q \in Receivers : claim'[q] = IF q = r THEN Unknown ELSE claim[q]
    BY <1>1 DEF ManagerInv, TypeOK
<1>4. FiniteMap' /\ TerminatedOwned' /\ BoundedStay' /\ ClockError'
    BY <1>1 DEF ManagerInv, FiniteMap, TerminatedOwned, BoundedStay, ClockError
<1>5. EntryOwned'
    BY <1>1, <1>3, NamesAssumption
    DEF ManagerInv, EntryOwned, TypeOK, TimedClientSession
<1>6. ClaimOwned' /\ ExclusiveHandOut'
    BY <1>1, <1>3, NamesAssumption DEF ManagerInv, ClaimOwned, ExclusiveHandOut
<1>7. NoneLost'
    BY <1>1, <1>3, NamesAssumption DEF ManagerInv, NoneLost, Waiting, Claimed
<1> QED
    BY <1>2, <1>4, <1>5, <1>6, <1>7 DEF ManagerInv

\* A sweep of the controller keeps the invariant: what it removes it has not
\* handed to anybody, and what it leaves has time for one more interval.
LEMMA InvSweep == ManagerInv /\ TerminateTimeoutClients => ManagerInv'
<1> SUFFICES ASSUME ManagerInv, TerminateTimeoutClients PROVE ManagerInv'
    OBVIOUS
<1> DEFINE out == {senders_sessions[c].client_session : c \in Expired}
<1>1. /\ DOMAIN senders_sessions' = DOMAIN senders_sessions \ Expired
      /\ \A k \in DOMAIN senders_sessions' :
             /\ senders_sessions'[k] = senders_sessions[k]
             /\ k \in DOMAIN senders_sessions
             /\ ~TimedOut(k)
      /\ terminated' = terminated \cup out
      /\ controller_sleep' = CHECK_INTERVAL
      /\ UNCHANGED <<caller, code, claim, set_back, set_forward>>
    BY DEF TerminateTimeoutClients, Restrict, Expired, SleepFor, clockVars
<1>2. TypeOK' /\ DrawnCode'
    BY TypeStep DEF ManagerInv, ManagerNext, Controller
<1>3. FiniteMap'
  <2>1. DOMAIN senders_sessions' \in SUBSET DOMAIN senders_sessions
    BY <1>1
  <2> QED
    BY <2>1, FS_Subset DEF ManagerInv, FiniteMap
<1>4. \A u \in out :
          /\ u \in Sessions
          /\ caller[u] = "returned"
          /\ \A r \in Receivers : claim[r] # u
          /\ \A k \in DOMAIN senders_sessions' :
                 senders_sessions'[k].client_session # u
    BY <1>1 DEF ManagerInv, EntryOwned, TypeOK, TimedClientSession, Expired
<1>5. EntryOwned'
    BY <1>1, <1>4 DEF ManagerInv, EntryOwned
<1>6. ClaimOwned' /\ TerminatedOwned' /\ ExclusiveHandOut'
    BY <1>1, <1>4
    DEF ManagerInv, ClaimOwned, TerminatedOwned, ExclusiveHandOut
<1>7. NoneLost'
  <2> SUFFICES ASSUME NEW u \in Sessions, caller[u] = "returned"
               PROVE  Waiting(u)' \/ Claimed(u)' \/ u \in terminated'
    BY <1>1 DEF NoneLost
  <2>1. CASE Waiting(u)
    BY <2>1, <1>1 DEF Waiting
  <2>2. CASE Claimed(u)
    BY <2>2, <1>1 DEF Claimed
  <2>3. CASE u \in terminated
    BY <2>3, <1>1
  <2> QED
    BY <2>1, <2>2, <2>3 DEF ManagerInv, NoneLost
<1>8. ClockError'
    BY <1>1 DEF ManagerInv, ClockError
<1>9. BoundedStay'
    BY <1>1, TimeAssumption
    DEF ManagerInv, BoundedStay, ClockError, TimedOut, TypeOK,
        TimedClientSession
<1> QED
    BY <1>2, <1>3, <1>5, <1>6, <1>7, <1>8, <1>9 DEF ManagerInv

\* Time that passes, and a clock that is set, keep the invariant: they change
\* no entry but for its times.
LEMMA InvTime ==
    ASSUME ManagerInv,
           Tick \/ \E d \in 1 .. MAX_CLOCK_STEP : SetBack(d) \/ SetForward(d)
    PROVE  ManagerInv'
<1>1. /\ DOMAIN senders_sessions' = DOMAIN senders_sessions
      /\ \A k \in DOMAIN senders_sessions :
             senders_sessions'[k].client_session
                 = senders_sessions[k].client_session
      /\ UNCHANGED <<caller, code, claim, terminated>>
    BY DEF Tick, SetBack, SetForward, Later, ManagerInv, TypeOK,
           TimedClientSession
<1>2. TypeOK' /\ DrawnCode'
    BY TypeStep DEF ManagerInv, ManagerNext, Controller
<1>3. FiniteMap' /\ ClaimOwned' /\ TerminatedOwned' /\ ExclusiveHandOut'
    BY <1>1
    DEF ManagerInv, FiniteMap, ClaimOwned, TerminatedOwned, ExclusiveHandOut
<1>4. EntryOwned'
    BY <1>1 DEF ManagerInv, EntryOwned
<1>5. NoneLost'
    BY <1>1 DEF ManagerInv, NoneLost, Waiting, Claimed
<1>6. BoundedStay' /\ ClockError'
  <2> USE DEF ManagerInv, TypeOK, TimedClientSession, Later
  <2>1. CASE Tick
    <3>1. /\ \A k \in DOMAIN senders_sessions :
                 /\ senders_sessions'[k].elapsed
                        = senders_sessions[k].elapsed + 1
                 /\ senders_sessions'[k].age = senders_sessions[k].age + 1
          /\ controller_sleep' = controller_sleep - 1
          /\ UNCHANGED <<set_back, set_forward>>
        BY <2>1 DEF Tick, clockVars
    <3> QED
        BY <3>1, <1>1, TimeAssumption DEF BoundedStay, ClockError
  <2>2. ASSUME NEW d \in 1 .. MAX_CLOCK_STEP, SetBack(d)
        PROVE  BoundedStay' /\ ClockError'
    <3>1. /\ \A k \in DOMAIN senders_sessions :
                 /\ senders_sessions'[k].elapsed
                        = senders_sessions[k].elapsed - d
                 /\ senders_sessions'[k].age = senders_sessions[k].age
          /\ set_back' = set_back + d
          /\ UNCHANGED <<controller_sleep, set_forward>>
        BY <2>2, TimeAssumption DEF SetBack
    <3> QED
        BY <3>1, <1>1, TimeAssumption DEF BoundedStay, ClockError
  <2>3. ASSUME NEW d \in 1 .. MAX_CLOCK_STEP, SetForward(d)
        PROVE  BoundedStay' /\ ClockError'
    <3>1. /\ \A k \in DOMAIN senders_sessions :
                 /\ senders_sessions'[k].elapsed
                        = senders_sessions[k].elapsed + d
                 /\ senders_sessions'[k].age = senders_sessions[k].age
          /\ set_forward' = set_forward + d
          /\ UNCHANGED <<controller_sleep, set_back>>
        BY <2>3, TimeAssumption DEF SetForward
    <3> QED
        BY <3>1, <1>1, TimeAssumption DEF BoundedStay, ClockError
  <2> QED
    BY <2>1, <2>2, <2>3
<1> QED
    BY <1>2, <1>3, <1>4, <1>5, <1>6 DEF ManagerInv

\* Every step of the manager keeps the invariant.
LEMMA InvStep == ManagerInv /\ [ManagerNext]_managerVars => ManagerInv'
<1> SUFFICES ASSUME ManagerInv, [ManagerNext]_managerVars PROVE ManagerInv'
    OBVIOUS
<1>1. ASSUME NEW s \in Sessions, RegisterSender(s) PROVE ManagerInv'
    BY <1>1, InvCaller, InvInsert DEF RegisterSender
<1>2. ASSUME NEW r \in Receivers, EnterCode(r) PROVE ManagerInv'
    BY <1>2, InvClaim, InvRefuse DEF EnterCode
<1>3. CASE Controller
    BY <1>3, InvSweep, InvTime DEF Controller
<1>4. ASSUME NEW d \in 1 .. MAX_CLOCK_STEP, SetBack(d) \/ SetForward(d)
      PROVE  ManagerInv'
    BY <1>4, InvTime
<1>5. CASE UNCHANGED managerVars
    BY <1>5
    DEF managerVars, clockVars, ClockError, ManagerInv, TypeOK, FiniteMap, DrawnCode, EntryOwned,
        ClaimOwned, TerminatedOwned, NoneLost, ExclusiveHandOut, BoundedStay,
        Waiting, Claimed
<1> QED
    BY <1>1, <1>2, <1>3, <1>4, <1>5 DEF ManagerNext

\* The inductive invariant holds in every reachable state of the manager.
THEOREM Invariance == ManagerSafetySpec => []ManagerInv
    BY InvInit, InvStep, PTL DEF ManagerSafetySpec

-----------------------------------------------------------------------------
(* What follows from it. *)

\* There are as many entries in the map as there are waiting senders.
LEMMA OneEntryEach ==
    ManagerInv => currentSessions = Cardinality({s \in Sessions : Waiting(s)})
<1> SUFFICES ASSUME ManagerInv
             PROVE  currentSessions = Cardinality({s \in Sessions : Waiting(s)})
    OBVIOUS
<1> DEFINE D == DOMAIN senders_sessions
           W == {s \in Sessions : Waiting(s)}
           f == [c \in D |-> senders_sessions[c].client_session]
<1>1. f \in [D -> W]
    BY DEF ManagerInv, TypeOK, TimedClientSession, Waiting
<1>2. \A a, b \in D : f[a] = f[b] => a = b
    BY DEF ManagerInv, EntryOwned
<1>3. \A s \in W : \E c \in D : f[c] = s
    BY DEF Waiting
<1>4. f \in Bijection(D, W)
    BY <1>1, <1>2, <1>3 DEF Bijection, Injection, Surjection, IsInjective
<1> QED
    BY <1>4, FS_Bijection
    DEF ExistsBijection, currentSessions, ManagerInv, FiniteMap

\* Two receivers never hold the same sender: getSenderWithMetadata is a
\* one-shot hand-out, for any number of receivers, codes and sessions.
THEOREM HandOutExclusive == ManagerSafetySpec => []ExclusiveHandOut
<1>1. ManagerInv => ExclusiveHandOut
    BY DEF ManagerInv
<1> QED
    BY <1>1, Invariance, PTL

\* No sender is lost, duplicated, overwritten or both claimed and terminated.
THEOREM Accounted == ManagerSafetySpec => []SendersAccounted
<1>1. ASSUME ManagerInv PROVE SendersAccounted
  <2>1. \A s \in Sessions : Waiting(s) => ~Claimed(s) /\ s \notin terminated
    BY <1>1 DEF ManagerInv, EntryOwned, Waiting, Claimed
  <2>2. \A s \in Sessions : Claimed(s) => s \notin terminated
    BY <1>1 DEF ManagerInv, ClaimOwned, Claimed
  <2> QED
    BY <1>1, <2>1, <2>2, OneEntryEach DEF SendersAccounted, ManagerInv, NoneLost
<1> QED
    BY <1>1, Invariance, PTL

\* The code a sender was told keeps leading to it while it waits.
THEOREM CodesReachTheirSenders == ManagerSafetySpec => []CodeReachesItsSender
<1>1. ASSUME ManagerInv PROVE CodeReachesItsSender
    BY <1>1
    DEF ManagerInv, NoneLost, EntryOwned, Waiting, CodeReachesItsSender,
        Contains
<1> QED
    BY <1>1, Invariance, PTL

\* No sender outstays its timeout by more than a check interval and what the
\* clock was set back.
THEOREM StayBounded == ManagerSafetySpec => []BoundedStay
<1>1. ManagerInv => BoundedStay
    BY DEF ManagerInv
<1> QED
    BY <1>1, Invariance, PTL

\* The controller terminates nobody before its timeout, less what the clock
\* was set forward.
THEOREM TimeoutKept == ManagerSafetySpec => KeptForTimeout
<1> DEFINE Kept ==
        \A c \in DOMAIN senders_sessions :
            senders_sessions[c].client_session \in terminated' \ terminated
            => senders_sessions[c].age + set_forward > CLIENT_TIMEOUT
<1>1. ManagerInv /\ [ManagerNext]_managerVars => [Kept]_managerVars
  <2> SUFFICES ASSUME ManagerInv, ManagerNext,
                      NEW c \in DOMAIN senders_sessions,
                      senders_sessions[c].client_session
                          \in terminated' \ terminated
               PROVE  senders_sessions[c].age + set_forward > CLIENT_TIMEOUT
    OBVIOUS
  <2>1. TerminateTimeoutClients
    BY DEF ManagerNext, RegisterSender, EnterCode, Controller,
           CallRegisterSender, GenerateSessionID, RetryTakenCode, InsertSender,
           GetSenderWithMetadata, ThrowUnknownSessionCode, Tick, SetBack,
           SetForward
  <2>2. PICK k \in DOMAIN senders_sessions :
            /\ TimedOut(k)
            /\ senders_sessions[k].client_session
                   = senders_sessions[c].client_session
    BY <2>1 DEF TerminateTimeoutClients, Expired
  <2>3. k = c
    BY <2>2 DEF ManagerInv, EntryOwned
  <2> QED
    BY <2>2, <2>3, TimeAssumption
    DEF TimedOut, ManagerInv, ClockError, TypeOK, TimedClientSession
<1> QED
    BY <1>1, Invariance, PTL DEF ManagerSafetySpec, KeptForTimeout

-----------------------------------------------------------------------------
(* The manager implements Rendezvous. *)

OfferIsCode ==
    \A s \in Sessions : OfferOf(s) = IF Waiting(s) THEN code[s] ELSE None

\* A waiting sender is on offer under the code it was told; others are not.
LEMMA OfferIs == ManagerInv => OfferIsCode
<1> SUFFICES ASSUME ManagerInv, NEW s \in Sessions
             PROVE  OfferOf(s) = IF Waiting(s) THEN code[s] ELSE None
    BY DEF OfferIsCode
<1>1. CASE Waiting(s)
  <2> DEFINE P(c) == senders_sessions[c].client_session = s
  <2>1. \E c \in DOMAIN senders_sessions : P(c)
    BY <1>1 DEF Waiting
  <2>2. \A c \in DOMAIN senders_sessions : P(c) => c = code[s]
    BY DEF ManagerInv, EntryOwned
  <2> HIDE DEF P
  <2>3. (CHOOSE c \in DOMAIN senders_sessions : P(c)) = code[s]
    BY <2>1, <2>2
  <2> QED
    BY <2>3, <1>1 DEF OfferOf, P
<1>2. CASE ~Waiting(s)
    BY <1>2 DEF OfferOf
<1> QED
    BY <1>1, <1>2

\* The initial state of the manager is an initial state of Rendezvous.
LEMMA RefineInit == ManagerInit => R!Init
<1> SUFFICES ASSUME ManagerInit PROVE R!Init
    OBVIOUS
<1>1. DOMAIN senders_sessions = {}
    BY DEF ManagerInit
<1>2. \A s \in Sessions : OfferOf(s) = None
    BY <1>1 DEF OfferOf, Waiting
<1>3. {s \in Sessions : Claimed(s)} \cup terminated = {}
    BY NamesAssumption DEF ManagerInit, Claimed
<1> QED
    BY <1>2, <1>3 DEF R!Init, ManagerInit

\* Every step of the manager is a step of Rendezvous or leaves it unchanged.
LEMMA RefineStep ==
    ManagerInv /\ ManagerInv' /\ [ManagerNext]_managerVars
        => [R!Next]_(R!vars)
<1> SUFFICES ASSUME ManagerInv, ManagerInv', [ManagerNext]_managerVars
             PROVE  [R!Next]_(R!vars)
    OBVIOUS
<1>a. OfferIsCode
    BY OfferIs
<1>b. OfferIsCode'
    BY OfferIs, PTL
<1> DEFINE gone == {s \in Sessions : Claimed(s)} \cup terminated
<1>c. ASSUME \A s \in Sessions : Waiting(s)' <=> Waiting(s),
             \A s \in Sessions : Waiting(s) => code'[s] = code[s],
             UNCHANGED <<asked, claim, terminated>>
      PROVE  UNCHANGED R!vars
  <2>1. \A s \in Sessions : OfferOf(s)' = OfferOf(s)
    BY <1>a, <1>b, <1>c DEF OfferIsCode
  <2>2. \A s \in Sessions : Claimed(s)' <=> Claimed(s)
    BY <1>c DEF Claimed
  <2> QED
    BY <2>1, <2>2, <1>c DEF R!vars
<1>1. ASSUME NEW s \in Sessions,
             \/ CallRegisterSender(s)
             \/ \E c \in Codes : GenerateSessionID(s, c)
             \/ RetryTakenCode(s)
      PROVE  UNCHANGED R!vars
  <2>1. UNCHANGED <<senders_sessions, code, asked, claim, terminated>>
    BY <1>1 DEF CallRegisterSender, GenerateSessionID, RetryTakenCode
  <2> QED
    BY <2>1, <1>c DEF Waiting
<1>2. ASSUME NEW s \in Sessions, InsertSender(s) PROVE R!Next
  <2> DEFINE c0 == session_id[s]
  <2>1. /\ caller[s] = "insert"
        /\ c0 \in Codes
        /\ c0 \notin DOMAIN senders_sessions
        /\ DOMAIN senders_sessions' = DOMAIN senders_sessions \cup {c0}
        /\ senders_sessions'[c0].client_session = s
        /\ \A c \in DOMAIN senders_sessions :
               senders_sessions'[c] = senders_sessions[c]
        /\ code' = [code EXCEPT ![s] = c0]
        /\ UNCHANGED <<asked, claim, terminated>>
    BY <1>2 DEF InsertSender, Insert, CodeTaken, Contains, ManagerInv, DrawnCode
  <2>2. ~Waiting(s) /\ ~Claimed(s) /\ s \notin terminated
    BY <2>1
    DEF ManagerInv, EntryOwned, ClaimOwned, TerminatedOwned, Waiting, Claimed
  <2>3. \A u \in Sessions : Waiting(u)' <=> Waiting(u) \/ u = s
    BY <2>1 DEF Waiting
  <2>4. \A u \in Sessions : OfferOf(u)' = IF u = s THEN c0 ELSE OfferOf(u)
    BY <2>1, <2>2, <2>3, <1>a, <1>b DEF OfferIsCode, ManagerInv, TypeOK
  <2>5. \A u \in Sessions : OfferOf(u) # c0
    BY <2>1, <1>a, NamesAssumption
    DEF OfferIsCode, Waiting, ManagerInv, EntryOwned
  <2>6. OfferOf(s) = None
    BY <2>2 DEF OfferOf
  <2>7. gone' = gone
    BY <2>1 DEF Claimed
  <2>8. R!Offer(s, c0)
    BY <2>1, <2>2, <2>4, <2>5, <2>6, <2>7 DEF R!Offer, R!Offered
  <2> QED
    BY <2>1, <2>8 DEF R!Next
<1>3. ASSUME NEW r \in Receivers, NEW c \in Codes, GetSenderWithMetadata(r, c)
      PROVE  R!Next
  <2> DEFINE s == senders_sessions[c].client_session
  <2>1. /\ claim[r] = None
        /\ c \in DOMAIN senders_sessions
        /\ DOMAIN senders_sessions' = DOMAIN senders_sessions \ {c}
        /\ \A k \in DOMAIN senders_sessions' :
               senders_sessions'[k] = senders_sessions[k]
        /\ asked' = [asked EXCEPT ![r] = c]
        /\ claim' = [claim EXCEPT ![r] = s]
        /\ UNCHANGED <<code, terminated>>
    BY <1>3 DEF GetSenderWithMetadata, Find, Extract, Restrict
  <2>2. /\ s \in Sessions
        /\ Waiting(s)
        /\ \A k \in DOMAIN senders_sessions' :
               senders_sessions[k].client_session # s
    BY <2>1 DEF ManagerInv, EntryOwned, TypeOK, TimedClientSession, Waiting
  <2>3. \A u \in Sessions : Waiting(u)' <=> Waiting(u) /\ u # s
    BY <2>1, <2>2 DEF Waiting
  <2>4. \A u \in Sessions : OfferOf(u)' = IF u = s THEN None ELSE OfferOf(u)
    BY <2>1, <2>3, <1>a, <1>b DEF OfferIsCode
  <2>5. OfferOf(s) = c
    BY <2>1, <2>2, <1>a DEF OfferIsCode, ManagerInv, EntryOwned
  <2>6. \A u \in Sessions : Claimed(u)' <=> Claimed(u) \/ u = s
    BY <2>1, <2>2, NamesAssumption DEF Claimed, ManagerInv, TypeOK
  <2>7. gone' = gone \cup {s}
    BY <2>1, <2>2, <2>6
  <2>8. R!Meet(r, s, c)
    BY <2>1, <2>2, <2>4, <2>5, <2>7 DEF R!Meet
  <2> QED
    BY <2>2, <2>8 DEF R!Next
<1>4. ASSUME NEW r \in Receivers, NEW c \in Codes, ThrowUnknownSessionCode(r, c)
      PROVE  R!Next
  <2>1. /\ claim[r] = None
        /\ c \notin DOMAIN senders_sessions
        /\ asked' = [asked EXCEPT ![r] = c]
        /\ claim' = [claim EXCEPT ![r] = Unknown]
        /\ UNCHANGED <<senders_sessions, code, terminated>>
    BY <1>4 DEF ThrowUnknownSessionCode, Find
  <2>2. \A u \in Sessions : OfferOf(u) # c
    BY <2>1, <1>a, NamesAssumption
    DEF OfferIsCode, Waiting, ManagerInv, EntryOwned
  <2>3. \A u \in Sessions : OfferOf(u)' = OfferOf(u)
    BY <2>1, <1>a, <1>b DEF OfferIsCode, Waiting
  <2>4. \A u \in Sessions : Claimed(u)' <=> Claimed(u)
    BY <2>1, NamesAssumption DEF Claimed, ManagerInv, TypeOK
  <2>5. R!Refuse(r, c)
    BY <2>1, <2>2, <2>3, <2>4 DEF R!Refuse, R!Offered
  <2> QED
    BY <2>5 DEF R!Next
<1>5. CASE TerminateTimeoutClients
  <2> DEFINE W == {senders_sessions[c].client_session : c \in Expired}
  <2>1. /\ DOMAIN senders_sessions' = DOMAIN senders_sessions \ Expired
        /\ \A k \in DOMAIN senders_sessions' :
               senders_sessions'[k] = senders_sessions[k]
        /\ terminated' = terminated \cup W
        /\ UNCHANGED <<code, asked, claim>>
    BY <1>5 DEF TerminateTimeoutClients, Restrict
  <2>2. W \subseteq Sessions /\ \A u \in W : Waiting(u)
    BY DEF ManagerInv, TypeOK, TimedClientSession, Waiting, Expired
  <2>3. \A u \in Sessions : Waiting(u)' <=> Waiting(u) /\ u \notin W
    BY <2>1 DEF Waiting, ManagerInv, EntryOwned, Expired
  <2>4. \A u \in Sessions :
            OfferOf(u)' = IF u \in W THEN None ELSE OfferOf(u)
    BY <2>1, <2>3, <1>a, <1>b DEF OfferIsCode
  <2>5. \A u \in W : OfferOf(u) # None
    BY <2>2, <1>a, NamesAssumption
    DEF OfferIsCode, ManagerInv, EntryOwned, TypeOK, Waiting, Expired
  <2>6. gone' = gone \cup W
    BY <2>1 DEF Claimed
  <2>7. R!Withdraw(W)
    BY <2>1, <2>2, <2>4, <2>5, <2>6 DEF R!Withdraw
  <2> QED
    BY <2>2, <2>7 DEF R!Next
<1>6. ASSUME \/ Tick
             \/ \E d \in 1 .. MAX_CLOCK_STEP : SetBack(d) \/ SetForward(d)
      PROVE  UNCHANGED R!vars
  <2>1. /\ DOMAIN senders_sessions' = DOMAIN senders_sessions
        /\ \A k \in DOMAIN senders_sessions :
               senders_sessions'[k].client_session
                   = senders_sessions[k].client_session
        /\ UNCHANGED <<code, asked, claim, terminated>>
    BY <1>6
    DEF Tick, SetBack, SetForward, Later, ManagerInv, TypeOK,
        TimedClientSession
  <2> QED
    BY <2>1, <1>c DEF Waiting
<1>7. CASE UNCHANGED managerVars
  <2>1. UNCHANGED <<senders_sessions, code, asked, claim, terminated>>
    BY <1>7 DEF managerVars
  <2> QED
    BY <2>1, <1>c DEF Waiting
<1> QED
    BY <1>1, <1>2, <1>3, <1>4, <1>5, <1>6, <1>7
    DEF ManagerNext, RegisterSender, EnterCode, Controller

\* The sessions manager implements the rendezvous it promises: the code a
\* receiver enters meets the one sender on offer under that very code, or is
\* refused because there is none, and a sender that was met or withdrawn is
\* never on offer again.
THEOREM Refinement == ManagerSafetySpec => ImplementsRendezvous
<1>1. ManagerInv /\ ManagerInv' /\ [ManagerNext]_managerVars
          => [R!Next]_(R!vars)
    BY RefineStep
<1> QED
    BY <1>1, RefineInit, Invariance, PTL
    DEF ManagerSafetySpec, ImplementsRendezvous, R!Spec
=============================================================================
