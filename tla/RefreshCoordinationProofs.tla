---------------------- MODULE RefreshCoordinationProofs ----------------------
(***************************************************************************)
(* The tabs of a browser with Web Locks, for any number of tabs, requests   *)
(* and faults: in one generation one request calls the backend (CycleInv),  *)
(* and while no call has been given up nobody is told that a refresh failed *)
(* and no used token is presented (Harmless).                               *)
(***************************************************************************)
EXTENDS RefreshCoordination, TLAPS

Past(r) == request[r].pc \in {"ending", "ended", "gone"}
Underway(r) == call[r].stage \in {"sent", "found", "issued"}

(* With Web Locks, whoever decides, refreshes or listens has the lock.      *)
Working(r) == request[r].pc \in {"deciding", "refreshing", "listening"}

LockHeld ==
    browser.locks => \A r \in Request :
        /\ request[r].pc \notin {"write", "confirm", "blocked"}
        /\ Working(r) => request[r].owns /\ lock.holder = r

(* Only a request that is past its call has stamped a generation.           *)
StampsPast ==
    /\ generation.id # Null => Past(generation.id)
    /\ \A r \in Request :
        /\ request[r].generationBefore # Null => Past(request[r].generationBefore)
        /\ Called(r) => InStep(r, "refreshing") \/ Past(r)

(* A call that is over has left its generation behind.                      *)
CallsBehind ==
    browser.locks => \A r \in Request :
        Called(r) /\ request[r].pc \notin {"refreshing", "gone"} =>
            generation.id # request[r].generationBefore

CycleInv == LockHeld /\ StampsPast /\ CallsBehind /\ OneCallWithLocks

(* While no call has been given up: only good news travels, a call belongs  *)
(* to the request that refreshes, and between calls the cookie is live.     *)
GoodNews ==
    /\ generation.status = "completed"
    /\ \A pair \in Tab \X Tab : \A i \in 1 .. Len(channel[pair]) : channel[pair][i] # Null

OneAtWork ==
    /\ \A r \in Request :
        /\ call[r].stage # "refused"
        /\ Underway(r) => InStep(r, "refreshing")
        /\ call[r].stage \in {"sent", "found"} =>
                call[r].presented = cookie /\ cookie \in live
        /\ call[r].stage = "issued" => r \in live
    /\ (\A r \in Request : ~Underway(r)) => cookie \in live

NotFailed == \A r \in Request : request[r].result # "failed"

Harmless ==
    browser.locks /\ abandoned = {} => GoodNews /\ OneAtWork /\ ~alarm /\ NotFailed
---------------------------------------------------------------------------
(* How a request may end.                                                   *)
Outcome == RefreshToken \cup {Null, "failed", "unheard"}

(* The changes that are made to the variables of a request.                 *)
LEMMA Fields ==
    ASSUME NEW c \in Coordination, NEW step \in RequestStep, NEW b \in BOOLEAN,
           NEW result \in Outcome, NEW before \in RefreshToken \cup {Null},
           NEW id \in Request \cup {Null}
    PROVE  /\ [c EXCEPT !.pc = step] \in Coordination
           /\ [c EXCEPT !.pc = step, !.owns = b] \in Coordination
           /\ [c EXCEPT !.pc = step, !.owns = b, !.result = result] \in Coordination
           /\ [c EXCEPT !.pc = step, !.tokenBefore = before, !.generationBefore = id]
                \in Coordination
BY DEF Coordination, Outcome

LEMMA Outcomes == {Null, "failed", "unheard"} \subseteq Outcome /\ RefreshToken \subseteq Outcome
BY DEF Outcome

LEMMA CallFields ==
    ASSUME TypeOK, NEW r \in Request, NEW stage \in Stage,
           \/ call' = [call EXCEPT ![r].stage = stage]
           \/ call' = [call EXCEPT ![r] = [stage |-> stage, presented |-> cookie]]
    PROVE  call' \in [Request -> [stage : Stage, presented : RefreshToken \cup {Null}]]
<1>1. /\ [call[r] EXCEPT !.stage = stage] \in [stage : Stage, presented : RefreshToken \cup {Null}]
      /\ [stage |-> stage, presented |-> cookie] \in [stage : Stage, presented : RefreshToken \cup {Null}]
  BY DEF TypeOK
<1> QED
  BY <1>1 DEF TypeOK

LEMMA Stages == {"sent", "found", "issued", "refused", "done"} \subseteq Stage
BY DEF Stage

LEMMA Steps ==
    /\ {"waiting", "write", "confirm", "blocked", "deciding"} \subseteq RequestStep
    /\ {"refreshing", "listening", "ending", "ended", "gone"} \subseteq RequestStep
BY DEF RequestStep

(* What Conclude does to the requests and the lock.                         *)
LEMMA ConcludeType ==
    ASSUME TypeOK, NEW rs \in SUBSET Request, NEW t,
           NEW result \in Outcome, Conclude(rs, t, result)
    PROVE  /\ request' \in [Request -> Coordination]
           /\ lock' \in [holder : Request \cup {Null}, stale : BOOLEAN]
<1>1. request' \in [Request -> Coordination]
  <2>1. ASSUME NEW s \in Request
        PROVE  /\ [request[s] EXCEPT !.pc = "ending", !.owns = FALSE, !.result = result]
                    \in Coordination
               /\ [request[s] EXCEPT !.pc = "deciding"] \in Coordination
               /\ request[s] \in Coordination
    <3>1. request[s] \in Coordination /\ FALSE \in BOOLEAN
      BY DEF TypeOK
    <3> QED
      BY <3>1, Fields, Steps
  <2> QED
    BY <2>1 DEF Conclude
<1>2. lock' \in [holder : Request \cup {Null}, stale : BOOLEAN]
  BY DEF Conclude, TypeOK, Free
<1> QED
  BY <1>1, <1>2

LEMMA ConcludeEffect ==
    ASSUME TypeOK, NEW rs \in SUBSET Request, NEW t, NEW result, Conclude(rs, t, result)
    PROVE  /\ \A s \in Request :
                /\ request'[s].tokenBefore = request[s].tokenBefore
                /\ request'[s].generationBefore = request[s].generationBefore
           /\ \A s \in rs : request'[s].pc = "ending" /\ request'[s].result = result
           /\ \A s \in Request \ rs :
                /\ request'[s].result = request[s].result
                /\ request'[s].owns = request[s].owns
                /\ request'[s].pc = request[s].pc
                    \/ (request[s].pc = "blocked" /\ request'[s].pc = "deciding")
           /\ lock' = Free \/ ((\A s \in rs : ~request[s].owns) /\ lock' = lock)
           /\ rs = {} => lock' = lock
<1>1. /\ lock' = Free \/ ((\A s \in rs : ~request[s].owns) /\ lock' = lock)
      /\ rs = {} => lock' = lock
  BY DEF Conclude
<1>2. \A s \in rs : request'[s] =
        [request[s] EXCEPT !.pc = "ending", !.owns = FALSE, !.result = result]
  BY DEF Conclude
<1>3. \A s \in Request \ rs :
        \/ request'[s] = request[s]
        \/ InStep(s, "blocked") /\ request'[s] = [request[s] EXCEPT !.pc = "deciding"]
  BY DEF Conclude
<1>4. \A s \in Request : request[s] \in Coordination
  BY DEF TypeOK
<1>5. \A s \in rs :
        /\ request'[s].tokenBefore = request[s].tokenBefore
        /\ request'[s].generationBefore = request[s].generationBefore
        /\ request'[s].pc = "ending"
        /\ request'[s].result = result
  BY <1>2, <1>4 DEF Coordination
<1>6. \A s \in Request \ rs :
        /\ request'[s].tokenBefore = request[s].tokenBefore
        /\ request'[s].generationBefore = request[s].generationBefore
        /\ request'[s].result = request[s].result
        /\ request'[s].owns = request[s].owns
        /\ request'[s].pc = request[s].pc
            \/ (request[s].pc = "blocked" /\ request'[s].pc = "deciding")
  BY ZenonT(40), <1>3, <1>4 DEF Coordination, InStep
<1> QED
  BY <1>1, <1>5, <1>6

LEMMA ConcludeOneEffect ==
    ASSUME TypeOK, NEW r \in Request, NEW result, ConcludeOne(r, result)
    PROVE  /\ request'[r].pc = "ending" /\ request'[r].result = result
           /\ \A s \in Request : request'[s].generationBefore = request[s].generationBefore
           /\ \A s \in Request \ {r} :
                /\ request'[s].result = request[s].result
                /\ request'[s].pc = request[s].pc
                    \/ (request[s].pc = "blocked" /\ request'[s].pc = "deciding")
                /\ request[s].pc = "refreshing" => request'[s].pc = "refreshing"
<1> DEFINE rs == {r}
<1>1. rs \in SUBSET Request /\ Conclude(rs, TabOf[r], result) /\ r \in rs
      /\ \A s \in Request \ {r} : s \in Request \ rs
  BY DEF ConcludeOne
<1> HIDE DEF rs
<1> QED
  BY <1>1, ConcludeEffect

LEMMA EnterType ==
    ASSUME TypeOK, NEW r \in Request, NEW step \in RequestStep, NEW b \in BOOLEAN,
           NEW before \in RefreshToken \cup {Null}, NEW id \in Request \cup {Null},
           \/ Enter(r, step)
           \/ request' = [request EXCEPT ![r] = [@ EXCEPT !.pc = step, !.owns = b]]
           \/ request' = [request EXCEPT ![r] = [@ EXCEPT !.pc = step,
                    !.tokenBefore = before, !.generationBefore = id]]
    PROVE  request' \in [Request -> Coordination]
<1>1. /\ [request[r] EXCEPT !.pc = step] \in Coordination
      /\ [request[r] EXCEPT !.pc = step, !.owns = b] \in Coordination
      /\ [request[r] EXCEPT !.pc = step, !.tokenBefore = before, !.generationBefore = id]
            \in Coordination
  BY ZenonT(40), Fields, request[r] \in Coordination DEF TypeOK, Outcome
<1> QED
  BY <1>1 DEF Enter, TypeOK

LEMMA PostedType ==
    ASSUME TypeOK, NEW t, NEW message \in RefreshToken \cup {Null}
    PROVE  Posted(t, message) \in [Tab \X Tab -> Seq(RefreshToken \cup {Null})]
BY DEF TypeOK, Posted
---------------------------------------------------------------------------
(* Type correctness                                                         *)
LEMMA InitType == ASSUME RefreshAssumption PROVE Init => TypeOK
<1> SUFFICES ASSUME Init PROVE TypeOK
  OBVIOUS
<1>1. [pc |-> "idle", tokenBefore |-> Null, generationBefore |-> Null,
       owns |-> FALSE, result |-> Null] \in Coordination
  BY DEF Coordination, RequestStep
<1>2. request \in [Request -> Coordination]
  BY <1>1 DEF Init
<1>3. <<>> \in Seq(RefreshToken \cup {Null})
  OBVIOUS
<1>4. channel \in [Tab \X Tab -> Seq(RefreshToken \cup {Null})]
  BY <1>3 DEF Init
<1> QED
  BY <1>2, <1>4 DEF RefreshToken, Init, TypeOK, Free, Stage

LEMMA GiveUpType ==
    ASSUME TypeOK, NEW r \in Request, GiveUp(r)
    PROVE  /\ generation' \in [id : Request \cup {Null}, status : {"completed", "failed"}]
           /\ channel' \in [Tab \X Tab -> Seq(RefreshToken \cup {Null})]
           /\ request' \in [Request -> Coordination]
           /\ lock' \in [holder : Request \cup {Null}, stale : BOOLEAN]
           /\ abandoned' \subseteq Request
           /\ UNCHANGED <<browser, open, token>>
<1>1. /\ request' \in [Request -> Coordination]
      /\ lock' \in [holder : Request \cup {Null}, stale : BOOLEAN]
  BY ConcludeType, Outcomes DEF GiveUp, ConcludeOne
<1>2. channel' \in [Tab \X Tab -> Seq(RefreshToken \cup {Null})]
  BY PostedType DEF GiveUp
<1>3. generation' \in [id : Request \cup {Null}, status : {"completed", "failed"}]
  BY DEF GiveUp, Stamp
<1>4. abandoned' \subseteq Request
  BY DEF GiveUp, Abandon, TypeOK
<1> QED
  BY <1>1, <1>2, <1>3, <1>4 DEF GiveUp

LEMMA TabType ==
    ASSUME RefreshAssumption, TypeOK, NEW r \in Request, Ask(r) \/ Proceed(r)
    PROVE  TypeOK'
<1> USE DEF TypeOK
<1>1. CASE Ask(r)
  <2>1. token[TabOf[r]] \in RefreshToken \cup {Null} /\ generation.id \in Request \cup {Null}
    BY DEF RefreshAssumption
  <2>2. request' \in [Request -> Coordination]
    BY <1>1, <2>1, EnterType, Steps DEF Ask
  <2> QED
    BY <1>1, <2>2 DEF Ask, serverVars
<1>2. CASE AcquireLock(r)
  <2>1. request' \in [Request -> Coordination]
    BY <1>2, EnterType, Steps DEF AcquireLock
  <2> QED
    BY <1>2, <2>1 DEF AcquireLock, serverVars, Free
<1>3. CASE ReadMutex(r)
  <2>1. request' \in [Request -> Coordination]
    BY <1>3, EnterType, Steps DEF ReadMutex
  <2> QED
    BY <1>3, <2>1 DEF ReadMutex, serverVars
<1>4. CASE WriteMutex(r)
  <2>1. request' \in [Request -> Coordination]
    BY <1>4, EnterType, Steps DEF WriteMutex
  <2> QED
    BY <1>4, <2>1 DEF WriteMutex, serverVars, Free
<1>5. CASE ConfirmMutex(r)
  <2>1. request' \in [Request -> Coordination]
    BY <1>5, EnterType, Steps DEF ConfirmMutex, Enter
  <2> QED
    BY <1>5, <2>1 DEF ConfirmMutex, serverVars
<1>6. CASE Decide(r)
  <2>1. UNCHANGED <<browser, open, token, channel, generation, abandoned, cookie, live, alarm>>
    BY <1>6 DEF Decide, serverVars
  <2>2. TabOf[r] \in Tab
    BY DEF RefreshAssumption
  <2>3. \/ /\ Enter(r, "refreshing") \/ Enter(r, "listening")
           /\ UNCHANGED lock
           /\ call' = [call EXCEPT ![r] = [stage |-> "sent", presented |-> cookie]]
                \/ UNCHANGED call
        \/ /\ UNCHANGED call
           /\ \E result \in Outcome : ConcludeOne(r, result)
    <3>1. token[TabOf[r]] \in Outcome
      BY <2>2, Outcomes
    <3>2. ConcludeOne(r, token[TabOf[r]]) => \E result \in Outcome : ConcludeOne(r, result)
      BY <3>1
    <3>3. ConcludeOne(r, "failed") => \E result \in Outcome : ConcludeOne(r, result)
      BY Outcomes
    <3> QED
      BY <1>6, <3>2, <3>3 DEF Decide
  <2>4. CASE \E result \in Outcome :
                UNCHANGED call /\ ConcludeOne(r, result)
    BY <2>1, <2>4, ConcludeType DEF ConcludeOne
  <2>5. CASE /\ Enter(r, "refreshing") \/ Enter(r, "listening")
             /\ UNCHANGED lock
             /\ call' = [call EXCEPT ![r] = [stage |-> "sent", presented |-> cookie]]
                \/ UNCHANGED call
    <3>1. request' \in [Request -> Coordination]
      BY <2>5, EnterType, Steps
    <3>2. call' \in [Request -> [stage : Stage, presented : RefreshToken \cup {Null}]]
      BY <2>5, CallFields, Stages
    <3> QED
      BY <2>1, <2>5, <3>1, <3>2
  <2> QED
    BY <2>3, <2>4, <2>5
<1>7. CASE TimeOut(r)
  BY <1>7, GiveUpType DEF TimeOut, serverVars
<1>8. CASE StopListening(r)
  BY <1>8, ConcludeType, Outcomes DEF StopListening, ConcludeOne, serverVars
<1>9. CASE Return(r)
  <2>1. request' \in [Request -> Coordination]
    BY <1>9, EnterType, Steps DEF Return
  <2>2. token' \in [Tab -> RefreshToken \cup {Null}]
    BY <1>9 DEF Return
  <2>3. channel' \in [Tab \X Tab -> Seq(RefreshToken \cup {Null})]
    BY <1>9, PostedType DEF Return
  <2> QED
    BY <1>9, <2>1, <2>2, <2>3 DEF Return, serverVars
<1> QED
  BY <1>1, <1>2, <1>3, <1>4, <1>5, <1>6, <1>7, <1>8, <1>9 DEF Proceed

LEMMA ServerType ==
    ASSUME RefreshAssumption, TypeOK, NEW r \in Request, Serve(r) \/ Disconnect(r)
    PROVE  TypeOK'
<1> USE DEF TypeOK
<1>1. CASE FindSession(r)
  <2>1. call' \in [Request -> [stage : Stage, presented : RefreshToken \cup {Null}]]
    BY <1>1, CallFields, Stages DEF FindSession
  <2> QED
    BY <1>1, <2>1 DEF FindSession, tabVars
<1>2. CASE RotateSession(r)
  <2>1. call' \in [Request -> [stage : Stage, presented : RefreshToken \cup {Null}]]
    BY <1>2, CallFields, Stages DEF RotateSession
  <2> QED
    BY <1>2, <2>1 DEF RotateSession, tabVars, RefreshToken
<1>3. CASE Answer(r)
  <2>1. call' \in [Request -> [stage : Stage, presented : RefreshToken \cup {Null}]]
    BY <1>3, CallFields, Stages DEF Answer
  <2>2. cookie' \in RefreshToken \cup {Null} /\ token' \in [Tab -> RefreshToken \cup {Null}]
    BY <1>3 DEF Answer, RefreshToken
  <2>3. r \in RefreshToken
    BY DEF RefreshToken
  <2>4. /\ request' \in [Request -> Coordination]
        /\ lock' \in [holder : Request \cup {Null}, stale : BOOLEAN]
    <3>1. CASE ConcludeOne(r, r) \/ ConcludeOne(r, "failed")
      BY <3>1, <2>3, ConcludeType, Outcomes DEF ConcludeOne
    <3> QED
      BY <1>3, <3>1 DEF Answer
  <2>5. channel' \in [Tab \X Tab -> Seq(RefreshToken \cup {Null})]
    <3>1. CASE channel' = Posted(TabOf[r], r) \/ channel' = Posted(TabOf[r], Null)
      BY <3>1, <2>3, PostedType
    <3> QED
      BY <1>3, <3>1 DEF Answer
  <2>6. generation' \in [id : Request \cup {Null}, status : {"completed", "failed"}]
    BY <1>3 DEF Answer, Stamp
  <2> QED
    BY <1>3, <2>1, <2>2, <2>4, <2>5, <2>6 DEF Answer, serverVars
<1>4. CASE Disconnect(r)
  <2>1. call' \in [Request -> [stage : Stage, presented : RefreshToken \cup {Null}]]
    BY <1>4, CallFields, Stages DEF Disconnect
  <2>2. CASE GiveUp(r)
    BY <1>4, <2>1, <2>2, GiveUpType DEF Disconnect, serverVars
  <2>3. CASE UNCHANGED <<tabVars, abandoned>>
    BY <1>4, <2>1, <2>3 DEF Disconnect, serverVars, tabVars
  <2> QED
    BY <1>4, <2>2, <2>3 DEF Disconnect
<1> QED
  BY <1>1, <1>2, <1>3, <1>4 DEF Serve

LEMMA ReceiveType ==
    ASSUME TypeOK, NEW from \in Tab, NEW to \in Tab, Receive(from, to)
    PROVE  TypeOK'
<1> DEFINE message == Head(channel[<<from, to>>])
           listeners == {r \in Request : TabOf[r] = to /\ InStep(r, "listening")}
<1>1. channel[<<from, to>>] \in Seq(RefreshToken \cup {Null}) /\ channel[<<from, to>>] # <<>>
  BY DEF TypeOK, Receive
<1>2. message \in RefreshToken \cup {Null}
  BY <1>1
<1>3. /\ request' \in [Request -> Coordination]
      /\ lock' \in [holder : Request \cup {Null}, stale : BOOLEAN]
  <2>1. Conclude(listeners, to, IF message = Null THEN "failed" ELSE message)
    BY DEF Receive
  <2>2. (IF message = Null THEN "failed" ELSE message)
            \in Outcome
    BY <1>2, Outcomes
  <2> HIDE DEF message
  <2> QED
    BY <2>1, <2>2, ConcludeType
<1>4. channel' \in [Tab \X Tab -> Seq(RefreshToken \cup {Null})]
  BY <1>1 DEF Receive, TypeOK
<1>5. token' \in [Tab -> RefreshToken \cup {Null}]
  BY <1>2 DEF Receive, TypeOK
<1> QED
  BY <1>3, <1>4, <1>5 DEF Receive, TypeOK, serverVars

LEMMA CloseType ==
    ASSUME TypeOK, NEW t \in Tab, CloseTab(t)
    PROVE  TypeOK'
<1>1. request' \in [Request -> Coordination]
  <2>1. ASSUME NEW r \in Request
        PROVE  /\ [request[r] EXCEPT !.pc = "gone", !.owns = FALSE] \in Coordination
               /\ request[r] \in Coordination
    <3>1. request[r] \in Coordination /\ FALSE \in BOOLEAN
      BY DEF TypeOK
    <3> QED
      BY <3>1, Fields, Steps DEF Outcome
  <2> QED
    BY <2>1 DEF CloseTab
<1>2. channel' \in [Tab \X Tab -> Seq(RefreshToken \cup {Null})]
  <2>1. <<>> \in Seq(RefreshToken \cup {Null})
    OBVIOUS
  <2>2. \A pair \in Tab \X Tab : channel[pair] \in Seq(RefreshToken \cup {Null})
    BY DEF TypeOK
  <2> QED
    BY <2>1, <2>2 DEF CloseTab
<1>3. lock' \in [holder : Request \cup {Null}, stale : BOOLEAN]
  BY DEF CloseTab, TypeOK, Free
<1>4. abandoned' \subseteq Request
  BY DEF CloseTab, TypeOK, Abandon
<1> QED
  BY <1>1, <1>2, <1>3, <1>4 DEF CloseTab, TypeOK, serverVars

LEMMA NextType == ASSUME RefreshAssumption, TypeOK, [Next]_vars PROVE TypeOK'
<1>1. CASE MutexGoesStale
  BY <1>1 DEF MutexGoesStale, TypeOK, serverVars
<1>2. CASE UNCHANGED vars
  BY <1>2 DEF vars, tabVars, serverVars, TypeOK
<1> QED
  BY <1>1, <1>2, TabType, ServerType, ReceiveType, CloseType DEF Next

(* Every variable keeps to its type.                                        *)
THEOREM TypeCorrect == Spec => []TypeOK
<1>1. RefreshAssumption
  BY RefreshAssumption
<1> QED
  BY <1>1, InitType, NextType, PTL DEF Spec
---------------------------------------------------------------------------
(* One call per generation                                                  *)
LEMMA InitCycle == ASSUME RefreshAssumption PROVE Init => CycleInv
BY DEF RefreshAssumption, RefreshToken, Init, CycleInv, LockHeld, StampsPast, CallsBehind, Working,
       OneCallWithLocks, OneCallPerCycle, Called, InStep, Past

(* Two requests are not at work at once.                                    *)
LEMMA Alone ==
    ASSUME LockHeld, browser.locks, NEW r \in Request, Working(r),
           NEW s \in Request, Working(s)
    PROVE  r = s
BY DEF LockHeld

(* Some requests at work end: others keep their place, and the lock stays   *)
(* with whoever works.                                                      *)
LEMMA ConcludeKeeps ==
    ASSUME RefreshAssumption, TypeOK, LockHeld, browser' = browser, NEW rs \in SUBSET Request,
           NEW t, NEW result, Conclude(rs, t, result), \A r \in rs : Working(r)
    PROVE  /\ LockHeld'
           /\ \A s \in Request : Past(s) => Past(s)'
           /\ \A s \in rs : Past(s)'
           /\ \A s \in Request \ rs : browser.locks => request'[s].pc = request[s].pc
<1> USE DEF Working
<1>1. /\ \A s \in rs : request'[s].pc = "ending"
      /\ \A s \in Request \ rs :
            /\ request'[s].owns = request[s].owns
            /\ request'[s].pc = request[s].pc
                \/ (request[s].pc = "blocked" /\ request'[s].pc = "deciding")
      /\ lock' = Free \/ ((\A s \in rs : ~request[s].owns) /\ lock' = lock)
      /\ rs = {} => lock' = lock
  BY ConcludeEffect
<1>2. \A s \in Request \ rs : browser.locks => request'[s].pc = request[s].pc
  BY <1>1 DEF LockHeld
<1>3. LockHeld'
  <2> SUFFICES ASSUME browser.locks, NEW s \in Request
               PROVE  /\ request'[s].pc \notin {"write", "confirm", "blocked"}
                      /\ Working(s)' => request'[s].owns /\ lock'.holder = s
    BY DEF LockHeld
  <2>1. CASE s \in rs
    BY <1>1, <2>1
  <2>2. CASE s \notin rs
    <3>1. request'[s].pc = request[s].pc /\ request'[s].owns = request[s].owns
      BY <1>1, <1>2, <2>2
    <3>2. ASSUME Working(s) PROVE rs = {}
      BY <2>2, <3>2, Alone
    <3> QED
      BY <1>1, <3>1, <3>2 DEF LockHeld
  <2> QED
    BY <2>1, <2>2
<1>4. \A s \in Request : Past(s) => Past(s)'
  BY <1>1 DEF Past
<1>5. \A s \in rs : Past(s)'
  BY <1>1 DEF Past
<1> QED
  BY <1>2, <1>3, <1>4, <1>5

(* Nothing is stamped and nobody calls.                                     *)
LEMMA QuietCycle ==
    ASSUME RefreshAssumption, TypeOK, CycleInv, LockHeld',
           UNCHANGED <<browser, generation>>,
           \A s \in Request :
                /\ Called(s)' = Called(s)
                /\ request'[s].generationBefore = request[s].generationBefore
                /\ Past(s) => Past(s)'
                /\ InStep(s, "refreshing") => (InStep(s, "refreshing") \/ InStep(s, "gone"))'
                /\ InStep(s, "gone") => InStep(s, "gone")'
    PROVE  CycleInv'
<1>1. StampsPast'
  BY DEF StampsPast, TypeOK, CycleInv, Past, InStep, Coordination
<1>2. CallsBehind'
  <2> SUFFICES ASSUME browser.locks, NEW r \in Request, Called(r)',
                      request'[r].pc \notin {"refreshing", "gone"}
               PROVE  generation.id # request[r].generationBefore
    BY DEF CallsBehind
  <2>1. request[r].pc \notin {"refreshing", "gone"}
    BY DEF InStep
  <2> QED
    BY <2>1 DEF CycleInv, CallsBehind
<1>3. OneCallWithLocks'
  BY DEF CycleInv, OneCallWithLocks, OneCallPerCycle
<1> QED
  BY <1>1, <1>2, <1>3 DEF CycleInv

(* A request that refreshes ends with its stamp.                            *)
LEMMA StampCycle ==
    ASSUME RefreshAssumption, TypeOK, CycleInv, browser' = browser, NEW r \in Request,
           InStep(r, "refreshing"), NEW status \in {"completed", "failed"}, Stamp(r, status),
           NEW result, ConcludeOne(r, result),
           \A s \in Request : Called(s)' = Called(s)
    PROVE  CycleInv'
<1>1. /\ LockHeld'
      /\ \A s \in Request : Past(s) => Past(s)'
      /\ Past(r)'
      /\ \A s \in Request \ {r} : browser.locks => request'[s].pc = request[s].pc
  BY ZenonT(40), ConcludeKeeps DEF CycleInv, ConcludeOne, Working, InStep
<1>2. /\ \A s \in Request : request'[s].generationBefore = request[s].generationBefore
      /\ \A s \in Request \ {r} : request'[s].pc = request[s].pc
            \/ (request[s].pc = "blocked" /\ request'[s].pc = "deciding")
      /\ request'[r].pc = "ending"
  BY ConcludeOneEffect
<1>3. generation'.id = r
  BY DEF Stamp
<1>4. \A s \in Request : request[s].generationBefore # r
  BY RefreshAssumption DEF CycleInv, StampsPast, Past, InStep, RefreshToken
<1>5. StampsPast'
  <2>1. \A s \in Request : request[s].generationBefore \in Request \cup {Null}
    BY DEF TypeOK, Coordination
  <2>2. \A s \in Request : Called(s)' => InStep(s, "refreshing")' \/ Past(s)'
    BY <1>1, <1>2 DEF CycleInv, StampsPast, InStep, Past
  <2>3. ASSUME NEW s \in Request, request'[s].generationBefore # Null
        PROVE  request'[request'[s].generationBefore].pc \in {"ending", "ended", "gone"}
    <3>1. request'[s].generationBefore = request[s].generationBefore
      BY <1>2
    <3>2. request[s].generationBefore \in Request /\ Past(request[s].generationBefore)
      BY <2>1, <2>3, <3>1 DEF CycleInv, StampsPast
    <3> QED
      BY <1>1, <3>1, <3>2 DEF Past
  <2>4. request'[generation'.id].pc \in {"ending", "ended", "gone"}
    BY <1>2, <1>3
  <2> QED
    BY <2>2, <2>3, <2>4 DEF StampsPast, Past
<1>6. CallsBehind'
  BY <1>2, <1>3, <1>4 DEF CallsBehind
<1>7. OneCallWithLocks'
  <2> SUFFICES ASSUME browser.locks, NEW q \in Request, NEW s \in Request, q # s,
                      Called(q), Called(s),
                      request[q].generationBefore = request[s].generationBefore
               PROVE  request'[q].pc = "gone" \/ request'[s].pc = "gone"
    BY <1>2 DEF OneCallWithLocks, OneCallPerCycle, InStep
  <2>1. request[q].pc = "gone" \/ request[s].pc = "gone"
    BY DEF CycleInv, OneCallWithLocks, OneCallPerCycle, InStep
  <2> QED
    BY <1>2, <2>1 DEF InStep
<1> QED
  BY <1>1, <1>5, <1>6, <1>7 DEF CycleInv

(* A request at work ends without having called.                            *)
LEMMA ConcludeCycle ==
    ASSUME RefreshAssumption, TypeOK, CycleInv, UNCHANGED <<browser, generation, call>>,
           NEW rs \in SUBSET Request, \A r \in rs : Working(r) /\ ~InStep(r, "refreshing"),
           NEW t, NEW result, Conclude(rs, t, result)
    PROVE  CycleInv'
<1>1. /\ LockHeld'
      /\ \A s \in Request : Past(s) => Past(s)'
  BY ConcludeKeeps DEF CycleInv
<1>2. \A s \in Request : /\ request'[s].generationBefore = request[s].generationBefore
                         /\ InStep(s, "refreshing") => InStep(s, "refreshing")'
                         /\ InStep(s, "gone") => InStep(s, "gone")'
  BY ConcludeEffect DEF InStep, Working
<1>3. \A s \in Request : Called(s)' = Called(s)
  BY DEF Called
<1> QED
  BY <1>1, <1>2, <1>3, QuietCycle

LEMMA AskCycle ==
    ASSUME RefreshAssumption, TypeOK, CycleInv, NEW r \in Request, Ask(r)
    PROVE  CycleInv'
<1>1. /\ request'[r].pc = "waiting"
      /\ request'[r].generationBefore = generation.id
      /\ \A s \in Request \ {r} : request'[s] = request[s]
  <2>1. request[r] \in Coordination
    BY DEF TypeOK
  <2> QED
    BY <2>1 DEF Ask, TypeOK, Coordination
<1>2. UNCHANGED <<browser, generation, call, lock>> /\ request[r].pc = "idle"
  BY DEF Ask, InStep
<1>3. ~Called(r)
  BY <1>2 DEF CycleInv, StampsPast, InStep, Past
<1>4. LockHeld'
  BY <1>1, <1>2 DEF CycleInv, LockHeld, Working
<1>5. StampsPast'
  <2>1. \A s \in Request : Past(s) => s # r /\ request'[s] = request[s]
    BY <1>1, <1>2 DEF Past
  <2>2. generation.id \in Request \cup {Null}
        /\ \A s \in Request : request[s].generationBefore \in Request \cup {Null}
    BY DEF TypeOK, Coordination
  <2>3. \A s \in Request : request'[s].generationBefore # Null =>
            request'[request'[s].generationBefore].pc \in {"ending", "ended", "gone"}
    BY <1>1, <2>1, <2>2 DEF CycleInv, StampsPast, Past
  <2>4. generation'.id # Null => request'[generation'.id].pc \in {"ending", "ended", "gone"}
    BY <1>2, <2>1, <2>2 DEF CycleInv, StampsPast, Past
  <2>5. \A s \in Request : Called(s)' => request'[s].pc = "refreshing"
                            \/ request'[s].pc \in {"ending", "ended", "gone"}
    BY <1>1, <1>2, <1>3 DEF CycleInv, StampsPast, Past, InStep, Called
  <2> QED
    BY <2>3, <2>4, <2>5 DEF StampsPast, Past, InStep
<1>6. CallsBehind'
  BY <1>1, <1>2, <1>3 DEF CycleInv, CallsBehind, Called
<1>7. OneCallWithLocks'
  BY <1>1, <1>2, <1>3 DEF CycleInv, OneCallWithLocks, OneCallPerCycle, Called, InStep
<1> QED
  BY <1>4, <1>5, <1>6, <1>7 DEF CycleInv

(* The one step that begins a call: whoever shares the generation of r and  *)
(* called is gone, because r has the lock and the generation is not newer.  *)
LEMMA CallCycle ==
    ASSUME RefreshAssumption, TypeOK, CycleInv, NEW r \in Request, InStep(r, "deciding"),
           ~NewerGeneration(r), Enter(r, "refreshing"),
           call' = [call EXCEPT ![r] = [stage |-> "sent", presented |-> cookie]],
           UNCHANGED <<browser, generation, lock>>
    PROVE  CycleInv'
<1>1. /\ request'[r].pc = "refreshing"
      /\ \A s \in Request : /\ request'[s].generationBefore = request[s].generationBefore
                            /\ request'[s].owns = request[s].owns
      /\ \A s \in Request \ {r} : request'[s].pc = request[s].pc
  BY DEF Enter, TypeOK, Coordination
<1>2. Called(r)' /\ \A s \in Request \ {r} : Called(s)' = Called(s)
  BY DEF Called, TypeOK
<1>3. LockHeld'
  BY <1>1 DEF CycleInv, LockHeld, Working, InStep
<1>4. StampsPast'
  <2>1. \A s \in Request : Past(s) => Past(s)'
    BY <1>1 DEF Past, InStep
  <2>2. \A s \in Request : request[s].generationBefore \in Request \cup {Null}
    BY DEF TypeOK, Coordination
  <2>3. \A s \in Request : request'[s].generationBefore # Null =>
            request'[request'[s].generationBefore].pc \in {"ending", "ended", "gone"}
    BY <1>1, <2>1, <2>2 DEF CycleInv, StampsPast, Past
  <2>4. generation'.id # Null => request'[generation'.id].pc \in {"ending", "ended", "gone"}
    BY <2>1 DEF CycleInv, StampsPast, Past, TypeOK
  <2>5. \A s \in Request : Called(s)' => InStep(s, "refreshing")' \/ Past(s)'
    BY <1>1, <1>2 DEF CycleInv, StampsPast, Past, InStep
  <2> QED
    BY <2>3, <2>4, <2>5 DEF StampsPast, Past
<1>5. CallsBehind'
  BY <1>1, <1>2 DEF CycleInv, CallsBehind
<1>6. OneCallWithLocks'
  <2> SUFFICES ASSUME browser.locks, NEW q \in Request, NEW s \in Request, q # s,
                      Called(q)', Called(s)',
                      request[q].generationBefore = request[s].generationBefore
               PROVE  request'[q].pc = "gone" \/ request'[s].pc = "gone"
    BY <1>1 DEF OneCallWithLocks, OneCallPerCycle, InStep
  <2>1. ASSUME NEW p \in Request, p # r, Called(p),
               request[p].generationBefore = request[r].generationBefore
        PROVE  request[p].pc = "gone"
    <3>1. request[p].pc # "refreshing"
      BY <2>1, Alone DEF CycleInv, Working, InStep
    <3>2. generation.id = request[p].generationBefore
      BY <2>1 DEF NewerGeneration
    <3> QED
      BY <2>1, <3>1, <3>2 DEF CycleInv, CallsBehind
  <2>2. CASE q = r \/ s = r
    BY <1>1, <1>2, <2>1, <2>2
  <2>3. CASE q # r /\ s # r
    BY <1>1, <1>2, <2>3 DEF CycleInv, OneCallWithLocks, OneCallPerCycle, InStep
  <2> QED
    BY <2>2, <2>3
<1> QED
  BY <1>3, <1>4, <1>5, <1>6 DEF CycleInv

LEMMA GiveUpCycle ==
    ASSUME RefreshAssumption, TypeOK, CycleInv, NEW r \in Request, GiveUp(r),
           \A s \in Request : Called(s)' = Called(s)
    PROVE  CycleInv'
BY StampCycle DEF GiveUp

LEMMA TabCycle ==
    ASSUME RefreshAssumption, TypeOK, CycleInv, NEW r \in Request, Proceed(r)
    PROVE  CycleInv'
<1>1. CASE AcquireLock(r)
  <2>1. /\ request'[r].pc = "deciding" /\ request'[r].owns /\ lock'.holder = r
        /\ \A s \in Request \ {r} : request'[s] = request[s]
        /\ request'[r].generationBefore = request[r].generationBefore
    BY <1>1 DEF AcquireLock, Free, TypeOK, Coordination
  <2>2. \A s \in Request : ~Working(s)
    BY <1>1, RefreshAssumption DEF CycleInv, LockHeld, AcquireLock, Free, RefreshToken
  <2>3. LockHeld'
    <3>1. browser' = browser
      BY <1>1 DEF AcquireLock
    <3> QED
      BY <2>1, <2>2, <3>1 DEF LockHeld, Working, CycleInv
  <2> QED
    BY <1>1, <2>1, <2>3, QuietCycle DEF AcquireLock, Called, Past, InStep
<1>2. CASE ReadMutex(r)
  <2>1. /\ request'[r].pc \in {"write", "blocked"}
        /\ \A s \in Request \ {r} : request'[s] = request[s]
        /\ request'[r].generationBefore = request[r].generationBefore
    BY <1>2 DEF ReadMutex, Enter, TypeOK, Coordination
  <2>2. LockHeld'
    BY <1>2 DEF LockHeld, ReadMutex
  <2> QED
    BY <1>2, <2>1, <2>2, QuietCycle DEF ReadMutex, Called, Past, InStep
<1>3. CASE WriteMutex(r)
  <2>1. /\ request'[r].pc = "confirm"
        /\ \A s \in Request \ {r} : request'[s] = request[s]
        /\ request'[r].generationBefore = request[r].generationBefore
    BY <1>3 DEF WriteMutex, Enter, TypeOK, Coordination
  <2>2. LockHeld'
    BY <1>3 DEF LockHeld, WriteMutex, CycleInv, InStep
  <2> QED
    BY <1>3, <2>1, <2>2, QuietCycle DEF WriteMutex, Called, Past, InStep
<1>4. CASE ConfirmMutex(r)
  <2>1. /\ request'[r].pc \in {"deciding", "waiting"}
        /\ \A s \in Request \ {r} : request'[s] = request[s]
        /\ request'[r].generationBefore = request[r].generationBefore
    BY <1>4 DEF ConfirmMutex, TypeOK, Coordination
  <2>2. LockHeld'
    BY <1>4 DEF LockHeld, ConfirmMutex, CycleInv, InStep
  <2> QED
    BY <1>4, <2>1, <2>2, QuietCycle DEF ConfirmMutex, Called, Past, InStep
<1>5. CASE Decide(r)
  <2>1. UNCHANGED <<browser, generation>> /\ InStep(r, "deciding")
    BY <1>5 DEF Decide
  <2>2. CASE \E result \in {token[TabOf[r]], "failed"} : ConcludeOne(r, result) /\ UNCHANGED call
    BY <2>1, <2>2, ConcludeCycle DEF ConcludeOne, Working, InStep
  <2>3. CASE Enter(r, "listening") /\ UNCHANGED <<lock, call>>
    <3>1. /\ request'[r].pc = "listening" /\ request'[r].owns = request[r].owns
          /\ \A s \in Request \ {r} : request'[s] = request[s]
          /\ request'[r].generationBefore = request[r].generationBefore
      BY <2>3 DEF Enter, TypeOK, Coordination
    <3>2. LockHeld'
      BY <2>1, <2>3, <3>1 DEF LockHeld, Working, CycleInv, InStep
    <3> QED
      BY <2>1, <2>3, <3>1, <3>2, QuietCycle DEF Called, Past, InStep
  <2>4. CASE /\ ~NewerGeneration(r) /\ Enter(r, "refreshing") /\ UNCHANGED lock
             /\ call' = [call EXCEPT ![r] = [stage |-> "sent", presented |-> cookie]]
    BY <2>1, <2>4, CallCycle
  <2> QED
    BY <1>5, <2>2, <2>3, <2>4 DEF Decide
<1>6. CASE TimeOut(r)
  BY <1>6, GiveUpCycle DEF TimeOut, Called
<1>7. CASE StopListening(r)
  BY <1>7, ConcludeCycle DEF StopListening, ConcludeOne, Working, InStep
<1>8. CASE Return(r)
  <2>1. /\ request[r].pc = "ending" /\ request'[r].pc = "ended"
        /\ \A s \in Request \ {r} : request'[s] = request[s]
        /\ request'[r].generationBefore = request[r].generationBefore
    BY <1>8 DEF Return, Enter, TypeOK, Coordination, InStep
  <2>2. LockHeld'
    BY <1>8, <2>1 DEF LockHeld, Working, CycleInv, Return
  <2> QED
    BY <1>8, <2>1, <2>2, QuietCycle DEF Return, Called, Past, InStep
<1> QED
  BY <1>1, <1>2, <1>3, <1>4, <1>5, <1>6, <1>7, <1>8 DEF Proceed

(* Nothing a tab knows changes.                                             *)
LEMMA SameTabs ==
    ASSUME RefreshAssumption, TypeOK, CycleInv,
           UNCHANGED <<browser, generation, lock, request>>,
           \A s \in Request : Called(s)' = Called(s)
    PROVE  CycleInv'
<1>1. LockHeld'
  BY DEF CycleInv, LockHeld, Working
<1> QED
  BY <1>1, QuietCycle DEF Past, InStep

(* A call keeps going or is over: it was made all the same.                 *)
LEMMA StillCalled ==
    ASSUME TypeOK, NEW r \in Request, Called(r), NEW stage, stage # "none",
           call' = [call EXCEPT ![r].stage = stage]
    PROVE  \A s \in Request : Called(s)' = Called(s)
BY DEF Called, TypeOK

LEMMA ServerCycle ==
    ASSUME RefreshAssumption, TypeOK, CycleInv, NEW r \in Request, Serve(r) \/ Disconnect(r)
    PROVE  CycleInv'
<1>1. CASE FindSession(r)
  <2>1. \A s \in Request : Called(s)' = Called(s)
    BY <1>1, StillCalled DEF FindSession, Called
  <2> QED
    BY <1>1, <2>1, SameTabs DEF FindSession, tabVars
<1>2. CASE RotateSession(r)
  <2>1. \A s \in Request : Called(s)' = Called(s)
    BY <1>2, StillCalled DEF RotateSession, Called
  <2> QED
    BY <1>2, <2>1, SameTabs DEF RotateSession, tabVars
<1>3. CASE Answer(r)
  <2>1. \A s \in Request : Called(s)' = Called(s)
    BY <1>3, StillCalled DEF Answer, Called
  <2>2. CASE UNCHANGED <<generation, channel, request, lock>>
    BY <1>3, <2>1, <2>2, SameTabs DEF Answer
  <2>3. CASE InStep(r, "refreshing") /\ Stamp(r, "completed") /\ ConcludeOne(r, r)
    BY <1>3, <2>1, <2>3, StampCycle DEF Answer
  <2>4. CASE InStep(r, "refreshing") /\ Stamp(r, "failed") /\ ConcludeOne(r, "failed")
    BY <1>3, <2>1, <2>4, StampCycle DEF Answer
  <2> QED
    BY <1>3, <2>2, <2>3, <2>4 DEF Answer
<1>4. CASE Disconnect(r)
  <2>1. \A s \in Request : Called(s)' = Called(s)
    BY <1>4, StillCalled DEF Disconnect, Called
  <2>2. CASE GiveUp(r)
    BY <2>1, <2>2, GiveUpCycle
  <2>3. CASE UNCHANGED tabVars
    BY <2>1, <2>3, SameTabs DEF tabVars
  <2> QED
    BY <1>4, <2>2, <2>3 DEF Disconnect
<1> QED
  BY <1>1, <1>2, <1>3, <1>4 DEF Serve

LEMMA CloseCycle ==
    ASSUME RefreshAssumption, TypeOK, CycleInv, NEW t \in Tab, CloseTab(t)
    PROVE  CycleInv'
<1> DEFINE stopped == {r \in Request : TabOf[r] = t /\ ~InStep(r, "ended")}
<1>1. /\ UNCHANGED <<browser, generation, call>>
      /\ lock' = IF browser.locks /\ lock.holder \in stopped THEN Free ELSE lock
  BY DEF CloseTab
<1>2. \A s \in Request :
        \/ s \notin stopped /\ request'[s] = request[s]
        \/ /\ s \in stopped /\ request'[s].pc = "gone"
           /\ request'[s].generationBefore = request[s].generationBefore
  <2>1. \A s \in Request : request[s] \in Coordination
    BY DEF TypeOK
  <2> QED
    BY <2>1 DEF CloseTab, Coordination
<1> HIDE DEF stopped
<1>3. LockHeld'
  BY <1>1, <1>2 DEF CycleInv, LockHeld, Working
<1> QED
  BY <1>1, <1>2, <1>3, QuietCycle DEF Called, Past, InStep

LEMMA NextCycle ==
    ASSUME RefreshAssumption, TypeOK, CycleInv, [Next]_vars
    PROVE  CycleInv'
<1>1. ASSUME NEW from \in Tab, NEW to \in Tab, Receive(from, to)
      PROVE  CycleInv'
  BY <1>1, ConcludeCycle DEF Receive, Working, InStep
<1>2. CASE MutexGoesStale
  <2>1. LockHeld'
    BY <1>2 DEF MutexGoesStale, LockHeld
  <2> QED
    BY <1>2, <2>1, QuietCycle DEF MutexGoesStale, Called, Past, InStep
<1>3. CASE UNCHANGED vars
  BY <1>3, SameTabs DEF vars, tabVars, Called
<1> QED
  BY <1>1, <1>2, <1>3, AskCycle, TabCycle, ServerCycle, CloseCycle DEF Next

(* With Web Locks, of the requests that began to wait in one generation one *)
(* calls the backend, whatever is lost, late or closed.                     *)
THEOREM OneCall == Spec => []OneCallWithLocks
<1>1. RefreshAssumption
  BY RefreshAssumption
<1>2. Init => CycleInv
  BY <1>1, InitCycle
<1>3. TypeOK /\ CycleInv /\ [Next]_vars => CycleInv'
  BY <1>1, NextCycle
<1>4. CycleInv => OneCallWithLocks
  BY DEF CycleInv
<1> QED
  BY <1>2, <1>3, <1>4, TypeCorrect, PTL DEF Spec
---------------------------------------------------------------------------
(* Nobody is logged out because there are several tabs                      *)

(* The state that Harmless speaks of.                                       *)
Calm == GoodNews /\ OneAtWork /\ ~alarm /\ NotFailed

LEMMA InitHarmless == ASSUME RefreshAssumption PROVE Init => Harmless
<1> SUFFICES ASSUME Init PROVE Calm
  BY DEF Calm, Harmless
<1>1. GoodNews
  BY DEF GoodNews, Init
<1>2. OneAtWork
  BY DEF OneAtWork, Init, Underway
<1>3. ~alarm /\ NotFailed
  BY RefreshAssumption DEF NotFailed, Init, RefreshToken
<1> QED
  BY <1>1, <1>2, <1>3 DEF Calm

(* Posting or receiving news that is good.                                  *)
LEMMA PostedGood ==
    ASSUME TypeOK, GoodNews, NEW t, NEW message \in RefreshToken, Null \notin RefreshToken,
           channel' = Posted(t, message), generation'.status = "completed"
    PROVE  GoodNews'
<1> SUFFICES ASSUME NEW pair \in Tab \X Tab, NEW i \in 1 .. Len(channel'[pair])
             PROVE  channel'[pair][i] # Null
  BY DEF GoodNews
<1>1. channel[pair] \in Seq(RefreshToken \cup {Null})
  BY DEF TypeOK
<1>2. channel'[pair] \in {channel[pair], Append(channel[pair], message)}
  BY DEF Posted
<1>3. \A j \in 1 .. Len(channel[pair]) : channel[pair][j] # Null
  BY DEF GoodNews
<1>4. CASE channel'[pair] = channel[pair]
  BY <1>3, <1>4
<1>5. CASE channel'[pair] = Append(channel[pair], message)
  BY <1>1, <1>3, <1>5
<1> QED
  BY <1>2, <1>4, <1>5

LEMMA SameNews ==
    ASSUME GoodNews, UNCHANGED <<generation, channel>>
    PROVE  GoodNews'
BY DEF GoodNews

(* The backend and the calls rest, and nobody who refreshes stops.          *)
LEMMA SameCalls ==
    ASSUME OneAtWork, UNCHANGED <<call, cookie, live>>,
           \A s \in Request : InStep(s, "refreshing") => InStep(s, "refreshing")'
    PROVE  OneAtWork'
BY DEF OneAtWork, Underway, InStep

LEMMA TabHarmless ==
    ASSUME RefreshAssumption, TypeOK, CycleInv, Calm, browser.locks, abandoned' = {},
           NEW r \in Request, Ask(r) \/ Proceed(r)
    PROVE  Calm'
<1> USE DEF Calm
<1>1. ASSUME UNCHANGED <<generation, channel, call, cookie, live, alarm>>,
             \A s \in Request : /\ request'[s].result = request[s].result
                                /\ request[s].pc = "refreshing" => request'[s].pc = "refreshing"
      PROVE  Calm'
  BY <1>1, SameNews, SameCalls DEF NotFailed, InStep
<1>2. request[r] \in Coordination
  BY DEF TypeOK
<1>3. CASE Ask(r) \/ AcquireLock(r) \/ ReadMutex(r) \/ WriteMutex(r) \/ ConfirmMutex(r)
  <2>1. UNCHANGED <<generation, channel, call, cookie, live, alarm>>
    BY <1>3 DEF Ask, AcquireLock, ReadMutex, WriteMutex, ConfirmMutex, serverVars
  <2>2. /\ request[r].pc # "refreshing"
        /\ request'[r].result = request[r].result
        /\ \A s \in Request \ {r} : request'[s] = request[s]
    <3>1. CASE Ask(r)
      BY <1>2, <3>1 DEF Ask, InStep, TypeOK, Coordination
    <3>2. CASE AcquireLock(r)
      BY <1>2, <3>2 DEF AcquireLock, InStep, TypeOK, Coordination
    <3>3. CASE ReadMutex(r)
      BY <1>2, <3>3 DEF ReadMutex, Enter, InStep, TypeOK, Coordination
    <3>4. CASE WriteMutex(r)
      BY <1>2, <3>4 DEF WriteMutex, Enter, InStep, TypeOK, Coordination
    <3>5. CASE ConfirmMutex(r)
      BY <1>2, <3>5 DEF ConfirmMutex, InStep, TypeOK, Coordination
    <3> QED
      BY <1>3, <3>1, <3>2, <3>3, <3>4, <3>5
  <2> QED
    BY <1>1, <2>1, <2>2
<1>4. ASSUME UNCHANGED <<generation, channel, call, cookie, live, alarm>>,
             ~InStep(r, "refreshing"), NEW result, result # "failed", ConcludeOne(r, result)
      PROVE  Calm'
  <2>1. /\ request'[r].result = result
        /\ \A s \in Request \ {r} :
                /\ request'[s].result = request[s].result
                /\ request[s].pc = "refreshing" => request'[s].pc = "refreshing"
    BY <1>4, ConcludeOneEffect
  <2>2. NotFailed'
    BY <1>4, <2>1 DEF NotFailed
  <2> QED
    BY <1>4, <2>1, <2>2, SameNews, SameCalls DEF InStep
<1>5. CASE Decide(r)
  <2>1. UNCHANGED <<generation, channel, cookie, live, alarm>> /\ InStep(r, "deciding")
    BY <1>5 DEF Decide, serverVars
  <2>2. CASE /\ Enter(r, "refreshing")
             /\ call' = [call EXCEPT ![r] = [stage |-> "sent", presented |-> cookie]]
    <3>1. \A s \in Request : ~InStep(s, "refreshing")
      BY <2>1, Alone DEF CycleInv, Working, InStep
    <3>2. cookie \in live
      BY <3>1 DEF OneAtWork
    <3>3. /\ call'[r] = [stage |-> "sent", presented |-> cookie]
          /\ \A s \in Request \ {r} : call'[s] = call[s]
      BY <2>2 DEF TypeOK
    <3>4. /\ request'[r].pc = "refreshing"
          /\ \A s \in Request : request'[s].result = request[s].result
      BY <2>2 DEF Enter, TypeOK, Coordination
    <3>5. \A s \in Request \ {r} : ~Underway(s)'
      BY <3>1, <3>3 DEF OneAtWork, Underway
    <3>6. OneAtWork'
      BY <2>1, <3>2, <3>3, <3>4, <3>5 DEF OneAtWork, Underway, InStep
    <3>7. NotFailed'
      BY <3>4 DEF NotFailed
    <3> QED
      BY <2>1, <3>6, <3>7, SameNews
  <2>3. CASE UNCHANGED call /\ Enter(r, "listening")
    <3>1. /\ request'[r].result = request[r].result
          /\ \A s \in Request \ {r} : request'[s] = request[s]
      BY <1>2, <2>3 DEF Enter, TypeOK, Coordination
    <3> QED
      BY <1>1, <2>1, <2>3, <3>1 DEF InStep
  <2>4. CASE UNCHANGED call /\ token[TabOf[r]] # Null /\ ConcludeOne(r, token[TabOf[r]])
    <3>1. token[TabOf[r]] # "failed"
      BY <2>4 DEF RefreshAssumption, TypeOK
    <3> QED
      BY <1>4, <2>1, <2>4, <3>1 DEF InStep
  <2>5. generation.status # "failed"
    BY DEF GoodNews
  <2> QED
    BY <1>5, <2>2, <2>3, <2>4, <2>5 DEF Decide
<1>6. CASE TimeOut(r)
  BY <1>6 DEF TimeOut, GiveUp, Abandon
<1>7. CASE StopListening(r)
  BY <1>4, <1>7 DEF StopListening, serverVars, InStep
<1>8. CASE Return(r)
  <2>1. request[r].result # "failed"
    BY DEF NotFailed
  <2>2. UNCHANGED <<generation, channel, call, cookie, live, alarm>> /\ request[r].pc = "ending"
    BY <1>8, <2>1 DEF Return, serverVars, InStep
  <2>3. /\ request'[r].result = request[r].result
        /\ \A s \in Request \ {r} : request'[s] = request[s]
    BY <1>2, <1>8 DEF Return, Enter, TypeOK, Coordination
  <2> QED
    BY <1>1, <2>2, <2>3
<1> QED
  BY <1>3, <1>5, <1>6, <1>7, <1>8 DEF Proceed

LEMMA ServerHarmless ==
    ASSUME RefreshAssumption, TypeOK, CycleInv, Calm, browser.locks, abandoned' = {},
           NEW r \in Request, Serve(r) \/ Disconnect(r)
    PROVE  Calm'
<1> USE DEF Calm
<1>1. ASSUME Underway(r)
      PROVE  InStep(r, "refreshing") /\ \A s \in Request \ {r} : ~Underway(s)
  BY <1>1, Alone DEF OneAtWork, CycleInv, Working, InStep
<1>2. \A s \in Request : call[s] \in [stage : Stage, presented : RefreshToken \cup {Null}]
  BY DEF TypeOK
<1>3. CASE FindSession(r)
  <2>1. call[r].stage = "sent" /\ call[r].presented \in live /\ call[r].presented = cookie
    BY <1>3 DEF FindSession, OneAtWork
  <2>2. /\ call'[r].stage = "found" /\ call'[r].presented = cookie
        /\ \A s \in Request \ {r} : call'[s] = call[s]
    BY <1>2, <1>3, <2>1 DEF FindSession, TypeOK
  <2>3. UNCHANGED <<tabVars, cookie, live>> /\ ~alarm'
    BY <1>3, <2>1 DEF FindSession
  <2>4. Underway(r)
    BY <2>1 DEF Underway
  <2>5. OneAtWork'
    BY <1>1, <2>1, <2>2, <2>3, <2>4 DEF OneAtWork, Underway, InStep, tabVars
  <2> QED
    BY <2>3, <2>5, SameNews DEF tabVars, NotFailed
<1>4. CASE RotateSession(r)
  <2>1. call[r].stage = "found" /\ Underway(r)
    BY <1>4 DEF RotateSession, Underway
  <2>2. /\ call'[r].stage = "issued"
        /\ \A s \in Request \ {r} : call'[s] = call[s]
        /\ r \in live'
    BY <1>2, <1>4 DEF RotateSession, TypeOK
  <2>3. UNCHANGED <<tabVars, cookie, alarm>>
    BY <1>4 DEF RotateSession
  <2>4. OneAtWork'
    BY <1>1, <2>1, <2>2, <2>3 DEF OneAtWork, Underway, InStep, tabVars
  <2> QED
    BY <2>3, <2>4, SameNews DEF tabVars, NotFailed
<1>5. CASE Answer(r)
  <2>1. call[r].stage = "issued" /\ r \in live
    BY <1>5 DEF Answer, OneAtWork
  <2>2. InStep(r, "refreshing") /\ \A s \in Request \ {r} : ~Underway(s)
    BY <1>1, <2>1 DEF Underway
  <2>3. /\ Stamp(r, "completed") /\ channel' = Posted(TabOf[r], r) /\ ConcludeOne(r, r)
        /\ cookie' = r /\ UNCHANGED <<live, alarm>>
    BY <1>5, <2>1, <2>2 DEF Answer, serverVars
  <2>4. /\ call'[r].stage = "done"
        /\ \A s \in Request \ {r} : call'[s] = call[s]
    BY <1>2, <1>5 DEF Answer, TypeOK
  <2>5. OneAtWork'
    BY <2>1, <2>2, <2>3, <2>4 DEF OneAtWork, Underway
  <2>6. GoodNews'
    <3>1. r \in RefreshToken /\ Null \notin RefreshToken
      BY DEF RefreshAssumption, RefreshToken
    <3>2. generation'.status = "completed"
      BY <2>3 DEF Stamp
    <3> QED
      BY <2>3, <3>1, <3>2, PostedGood
  <2>7. NotFailed'
    <3>1. /\ request'[r].result = r
          /\ \A s \in Request \ {r} : request'[s].result = request[s].result
      BY <2>3, ConcludeOneEffect
    <3>2. r # "failed"
      BY DEF RefreshAssumption, RefreshToken
    <3> QED
      BY <3>1, <3>2 DEF NotFailed
  <2> QED
    BY <2>3, <2>5, <2>6, <2>7
<1>6. CASE Disconnect(r)
  <2>1. ~GiveUp(r)
    BY DEF GiveUp, Abandon
  <2>2. Underway(r) /\ ~InStep(r, "refreshing")
    BY <1>6, <2>1 DEF Disconnect, Underway, OneAtWork
  <2> QED
    BY <1>1, <2>2
<1> QED
  BY <1>3, <1>4, <1>5, <1>6 DEF Serve

LEMMA ReceiveHarmless ==
    ASSUME RefreshAssumption, TypeOK, Calm, NEW from \in Tab, NEW to \in Tab, Receive(from, to)
    PROVE  Calm'
<1> DEFINE news == channel[<<from, to>>]
           listeners == {r \in Request : TabOf[r] = to /\ InStep(r, "listening")}
<1>1. news \in Seq(RefreshToken \cup {Null}) /\ news # <<>>
  BY DEF TypeOK, Receive
<1>2. Head(news) \in RefreshToken
  <2>1. \A i \in 1 .. Len(news) : news[i] # Null
    BY DEF Calm, GoodNews
  <2> QED
    BY <1>1, <2>1
<1>3. Conclude(listeners, to, Head(news))
  BY <1>2 DEF Receive, RefreshAssumption
<1>4. GoodNews'
  <2> SUFFICES ASSUME NEW pair \in Tab \X Tab, NEW i \in 1 .. Len(channel'[pair])
               PROVE  channel'[pair][i] # Null
    BY DEF Receive, Calm, GoodNews
  <2>1. \A j \in 1 .. Len(channel[pair]) : channel[pair][j] # Null
    BY DEF Calm, GoodNews
  <2>2. CASE pair = <<from, to>>
    <3>1. channel'[pair] = Tail(news)
      BY <2>2 DEF Receive, TypeOK
    <3> QED
      BY <1>1, <2>1, <2>2, <3>1
  <2>3. CASE pair # <<from, to>>
    BY <2>1, <2>3 DEF Receive, TypeOK
  <2> QED
    BY <2>2, <2>3
<1>5. NotFailed'
  <2>1. Head(news) # "failed"
    BY <1>2 DEF RefreshAssumption
  <2>2. listeners \in SUBSET Request
    OBVIOUS
  <2> HIDE DEF news, listeners
  <2>3. /\ \A s \in listeners : request'[s].result = Head(news)
        /\ \A s \in Request \ listeners : request'[s].result = request[s].result
    BY <1>3, <2>2, ConcludeEffect
  <2> QED
    BY <2>1, <2>3 DEF Calm, NotFailed
<1>6. OneAtWork'
  <2>1. \A s \in listeners : request[s].pc = "listening"
    BY DEF InStep
  <2>2. listeners \in SUBSET Request
    OBVIOUS
  <2> HIDE DEF news, listeners
  <2>3. \A s \in Request : InStep(s, "refreshing") => InStep(s, "refreshing")'
    BY <1>3, <2>1, <2>2, ConcludeEffect DEF InStep
  <2> QED
    BY <2>3, SameCalls DEF Receive, serverVars, Calm
<1> QED
  BY <1>4, <1>5, <1>6 DEF Calm, Receive, serverVars

LEMMA CloseHarmless ==
    ASSUME RefreshAssumption, TypeOK, Calm, abandoned' = {}, NEW t \in Tab, CloseTab(t)
    PROVE  Calm'
<1> DEFINE stopped == {r \in Request : TabOf[r] = t /\ ~InStep(r, "ended")}
<1>1. \A s \in stopped : ~InStep(s, "refreshing")
  BY DEF CloseTab, Abandon
<1>2. \A s \in Request :
        /\ request'[s].result = request[s].result
        /\ s \notin stopped => request'[s] = request[s]
  <2>1. \A s \in Request : request[s] \in Coordination
    BY DEF TypeOK
  <2> QED
    BY <2>1 DEF CloseTab, Coordination
<1>3. OneAtWork'
  BY <1>1, <1>2, SameCalls DEF CloseTab, serverVars, Calm, InStep
<1>4. NotFailed'
  BY <1>2 DEF Calm, NotFailed
<1>5. GoodNews'
  <2> SUFFICES ASSUME NEW pair \in Tab \X Tab, NEW i \in 1 .. Len(channel'[pair])
               PROVE  channel'[pair][i] # Null
    BY DEF CloseTab, Calm, GoodNews
  <2>1. channel'[pair] \in {<<>>, channel[pair]}
    BY DEF CloseTab
  <2>2. channel'[pair] # <<>>
    OBVIOUS
  <2> QED
    BY <2>1, <2>2 DEF Calm, GoodNews
<1> QED
  BY <1>3, <1>4, <1>5 DEF Calm, CloseTab, serverVars

LEMMA NextHarmless ==
    ASSUME RefreshAssumption, TypeOK, CycleInv, Harmless, [Next]_vars
    PROVE  Harmless'
<1>1. browser' = browser
  BY DEF Next, Ask, Proceed, AcquireLock, ReadMutex, WriteMutex, ConfirmMutex, Decide, TimeOut,
     GiveUp, StopListening, Return, Serve, FindSession, RotateSession, Answer, Disconnect,
     Receive, CloseTab, MutexGoesStale, vars, tabVars
<1>2. abandoned \subseteq abandoned'
  BY DEF Next, Ask, Proceed, AcquireLock, ReadMutex, WriteMutex, ConfirmMutex, Decide, TimeOut,
     GiveUp, Abandon, StopListening, Return, Serve, FindSession, RotateSession, Answer,
     Disconnect, Receive, CloseTab, MutexGoesStale, vars
<1> SUFFICES ASSUME browser.locks, abandoned' = {}, Calm PROVE Calm'
  BY <1>1, <1>2 DEF Harmless, Calm
<1>3. CASE MutexGoesStale
  BY <1>3 DEF MutexGoesStale
<1>4. CASE UNCHANGED vars
  BY <1>4, SameNews, SameCalls DEF vars, tabVars, serverVars, Calm, NotFailed, InStep
<1> QED
  BY <1>3, <1>4, TabHarmless, ServerHarmless, ReceiveHarmless, CloseHarmless DEF Next

(* With Web Locks, that there are several tabs never makes a used refresh   *)
(* token appear or a refresh fail: some call was given up unanswered.       *)
THEOREM NoLogout == Spec => []NoLogoutByConcurrency
<1>1. RefreshAssumption
  BY RefreshAssumption
<1>2. Init => CycleInv /\ Harmless
  BY <1>1, InitCycle, InitHarmless
<1>3. TypeOK /\ CycleInv /\ Harmless /\ [Next]_vars => CycleInv' /\ Harmless'
  BY <1>1, NextCycle, NextHarmless
<1>4. Harmless => NoLogoutByConcurrency
  BY DEF Harmless, NoLogoutByConcurrency, NotFailed
<1> QED
  BY <1>2, <1>3, <1>4, TypeCorrect, PTL DEF Spec
==============================================================================
