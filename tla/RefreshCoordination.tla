------------------------- MODULE RefreshCoordination -------------------------
(***************************************************************************)
(* How the tabs of one browser share one refresh of the session             *)
(* (frontend/src/services/auth-coordination.ts, its callers in              *)
(* api-client.ts and use-session-restore.ts, and POST /auth/refresh behind  *)
(* them).                                                                   *)
(*                                                                          *)
(* The tabs share the refresh cookie, which every successful refresh        *)
(* replaces: presenting a replaced one looks like theft and ends every      *)
(* session of the user.  So a tab that needs an access token first takes a  *)
(* lock (Web Locks, or a mutex in localStorage where the browser has none)  *)
(* and then looks in localStorage whether a refresh has finished since it   *)
(* began to wait: the generation.  Results travel over a BroadcastChannel,  *)
(* which is ordered from one tab to another and in no other way.            *)
(*                                                                          *)
(* A request is one use of requestCoordinatedRefresh.  The session and the  *)
(* access token that a refresh issues bear the name of its request.         *)
(***************************************************************************)
EXTENDS Integers, Sequences, FiniteSets

CONSTANTS
    Tab,
    Request,
    TabOf,      \* TabOf[r]: the tab r runs in
    Restoring,  \* the requests made by useSessionRestore; the others met a 401
    Browsers,   \* what is explored: locks is hasWebLocks(), faults are of
                \* "slow": an answer comes after the eight seconds;
                \* "lost": a call or its answer is lost; "close": a tab is closed
    MaxAbandoned,   \* a bound: the calls that are given up in one behaviour
    First,      \* the session, and the expired access token, of before
    Null

RefreshToken == Request \cup {First}

ASSUME RefreshAssumption ==
    /\ TabOf \in [Request -> Tab]
    /\ Restoring \subseteq Request
    /\ Browsers \subseteq [locks : BOOLEAN, faults : SUBSET {"slow", "lost", "close"}]
    /\ First \notin Request
    /\ Null \notin RefreshToken \cup {"failed", "unheard"}
    /\ RefreshToken \cap {"failed", "unheard"} = {}

VARIABLES
    browser,
    open,       \* the tabs that are open
    token,      \* token[t]: accessToken of the store of tab t
    channel,    \* channel[t, u]: posted by t, not yet received by u; Null stands
                \* for "refresh-failed" and "logout", which are received alike
    generation, \* localStorage: the last refresh that finished, and how
    lock,       \* the Web Lock; without Web Locks, the mutex in localStorage
    request,    \* request[r]: the local variables of requestCoordinatedRefresh
    call,       \* call[r]: POST /auth/refresh, its cookie and how far it is
    abandoned,  \* the requests that did not wait for, or get, their answer
    cookie,     \* the refresh cookie of the browser
    live,       \* sessions: the rows that are not revoked
    alarm       \* revokeAllForUser has been called by refreshToken

tabVars == <<browser, open, token, channel, generation, lock, request>>
serverVars == <<live, alarm>>
vars == <<tabVars, call, abandoned, cookie, serverVars>>

Free == [holder |-> Null, stale |-> FALSE]
Stage == {"none", "sent", "found", "issued", "refused", "done"}
RequestStep == {"idle", "waiting", "write", "confirm", "blocked", "deciding",
            "refreshing", "listening", "ending", "ended", "gone"}
Coordination == [
    pc : RequestStep,
    tokenBefore : RefreshToken \cup {Null},
    generationBefore : Request \cup {Null},
    owns : BOOLEAN,     \* it will release the lock
    result : RefreshToken \cup {Null, "failed", "unheard"}]

TypeOK ==
    /\ browser \in Browsers
    /\ open \subseteq Tab
    /\ token \in [Tab -> RefreshToken \cup {Null}]
    /\ channel \in [Tab \X Tab -> Seq(RefreshToken \cup {Null})]
    /\ generation \in [id : Request \cup {Null}, status : {"completed", "failed"}]
    /\ lock \in [holder : Request \cup {Null}, stale : BOOLEAN]
    /\ request \in [Request -> Coordination]
    /\ call \in [Request -> [stage : Stage, presented : RefreshToken \cup {Null}]]
    /\ abandoned \subseteq Request
    /\ cookie \in RefreshToken \cup {Null}
    /\ live \subseteq RefreshToken
    /\ alarm \in BOOLEAN

(* Several tabs of one user who is logged in: those that were reloaded have *)
(* no token, the others have one that has expired.                          *)
Init ==
    /\ browser \in Browsers
    /\ open = Tab
    /\ token = [t \in Tab |-> IF \E r \in Restoring : TabOf[r] = t THEN Null ELSE First]
    /\ channel = [pair \in Tab \X Tab |-> <<>>]
    /\ generation = [id |-> Null, status |-> "completed"]
    /\ lock = Free
    /\ request = [r \in Request |-> [pc |-> "idle", tokenBefore |-> Null,
                    generationBefore |-> Null, owns |-> FALSE, result |-> Null]]
    /\ call = [r \in Request |-> [stage |-> "none", presented |-> Null]]
    /\ abandoned = {}
    /\ cookie = First
    /\ live = {First}
    /\ alarm = FALSE

---------------------------------------------------------------------------
InStep(r, step) == request[r].pc = step
Enter(r, step) == request' = [request EXCEPT ![r].pc = step]

(* publish: to every other open tab.                                        *)
Posted(t, message) ==
    [pair \in Tab \X Tab |->
        IF pair[1] = t /\ pair[2] \in open \ {t}
        THEN Append(channel[pair], message) ELSE channel[pair]]

(* Mutant of Conclude: the lock is released only when there is a token. *)
ConcludeLocked(rs, t, result) ==
    /\ request' = [s \in Request |->
            IF s \in rs
            THEN [request[s] EXCEPT !.pc = "ending", !.owns = FALSE, !.result = result]
            ELSE request[s]]
    /\ lock' = IF result \in RefreshToken /\ \E r \in rs : request[r].owns THEN Free ELSE lock

(* The requests rs of tab t end with one result.  The one that owns the     *)
(* lock releases it; a "storage" event tells those that wait for the mutex, *)
(* but only in other tabs.                                                  *)
Conclude(rs, t, result) ==
    LET releases == \E r \in rs : request[r].owns IN
    /\ request' = [s \in Request |->
            IF s \in rs
            THEN [request[s] EXCEPT !.pc = "ending", !.owns = FALSE, !.result = result]
            ELSE IF releases /\ InStep(s, "blocked") /\ TabOf[s] # t
            THEN [request[s] EXCEPT !.pc = "deciding"]
            ELSE request[s]]
    /\ lock' = IF releases THEN Free ELSE lock

ConcludeOne(r, result) == Conclude({r}, TabOf[r], result)

(* writeGeneration, before anything is posted.                              *)
Stamp(r, status) == generation' = [id |-> r, status |-> status]

(* A 401 arrives, or the page was loaded without a token: what is read      *)
(* before waiting.                                                          *)
Ask(r) ==
    /\ InStep(r, "idle") /\ TabOf[r] \in open
    /\ r \in Restoring => token[TabOf[r]] = Null
    /\ request' = [request EXCEPT ![r] = [@ EXCEPT !.pc = "waiting",
            !.tokenBefore = token[TabOf[r]], !.generationBefore = generation.id]]
    /\ UNCHANGED <<browser, open, token, channel, generation, lock, call, abandoned,
                   cookie, serverVars>>

(* Mutant of AcquireLock: a lock in mode "shared". *)
AcquireShared(r) ==
    /\ browser.locks /\ InStep(r, "waiting")
    /\ lock' = [Free EXCEPT !.holder = r]
    /\ request' = [request EXCEPT ![r] = [@ EXCEPT !.pc = "deciding", !.owns = TRUE]]
    /\ UNCHANGED <<browser, open, token, channel, generation, call, abandoned,
                   cookie, serverVars>>

(* navigator.locks.request                                                  *)
AcquireLock(r) ==
    /\ browser.locks /\ InStep(r, "waiting") /\ lock = Free
    /\ lock' = [Free EXCEPT !.holder = r]
    /\ request' = [request EXCEPT ![r] = [@ EXCEPT !.pc = "deciding", !.owns = TRUE]]
    /\ UNCHANGED <<browser, open, token, channel, generation, call, abandoned,
                   cookie, serverVars>>

(* tryAcquire: read the mutex, write it, read it again.  Other tabs run     *)
(* between any two of these.                                                *)
ReadMutex(r) ==
    /\ ~browser.locks /\ InStep(r, "waiting")
    /\ Enter(r, IF lock.holder = Null \/ lock.stale THEN "write" ELSE "blocked")
    /\ UNCHANGED <<browser, open, token, channel, generation, lock, call, abandoned,
                   cookie, serverVars>>

WriteMutex(r) ==
    /\ InStep(r, "write")
    /\ lock' = [Free EXCEPT !.holder = r]
    /\ Enter(r, "confirm")
    /\ UNCHANGED <<browser, open, token, channel, generation, call, abandoned,
                   cookie, serverVars>>

ConfirmMutex(r) ==
    /\ InStep(r, "confirm")
    /\ request' = [request EXCEPT ![r] =
            IF lock.holder = r THEN [@ EXCEPT !.pc = "deciding", !.owns = TRUE]
                               ELSE [@ EXCEPT !.pc = "waiting"]]
    /\ UNCHANGED <<browser, open, token, channel, generation, lock, call, abandoned,
                   cookie, serverVars>>

(* Ten seconds after it was written, when whoever wrote it is gone.         *)
MutexGoesStale ==
    /\ ~browser.locks /\ lock.holder # Null
    /\ InStep(lock.holder, "gone")
    /\ lock' = [lock EXCEPT !.stale = TRUE]
    /\ UNCHANGED <<browser, open, token, channel, generation, request, call, abandoned,
                   cookie, serverVars>>

(* Mutant of NewerGeneration: the token tells, as it did before T031.08. *)
NewerToken(r) == token[TabOf[r]] # request[r].tokenBefore

(* newerGenerationExists                                                    *)
NewerGeneration(r) == generation.id # request[r].generationBefore

(* resolveOrRefresh, up to its first await.                                 *)
Decide(r) ==
    LET mine == token[TabOf[r]]
        renewed == mine \notin {Null, request[r].tokenBefore}
    IN
    /\ InStep(r, "deciding")
    /\ \/ /\ ~NewerGeneration(r)
          /\ Enter(r, "refreshing")
          /\ call' = [call EXCEPT ![r] = [stage |-> "sent", presented |-> cookie]]
          /\ UNCHANGED lock
       \/ /\ NewerGeneration(r) /\ renewed
          /\ ConcludeOne(r, mine)
          /\ UNCHANGED call
       \/ /\ NewerGeneration(r) /\ ~renewed /\ generation.status = "failed"
          /\ ConcludeOne(r, "failed")
          /\ UNCHANGED call
       \/ /\ NewerGeneration(r) /\ ~renewed /\ generation.status = "completed"
          /\ Enter(r, "listening")
          /\ UNCHANGED <<lock, call>>
    /\ UNCHANGED <<browser, open, token, channel, generation, abandoned, cookie, serverVars>>
---------------------------------------------------------------------------
(* The backend: AuthController.refresh and AuthService.refreshToken.        *)

(* findByTokenHash, and the branches taken on what it finds.                *)
FindSession(r) ==
    LET presented == call[r].presented
        reused == presented \notin live \cup {Null}
    IN
    /\ call[r].stage = "sent"
    /\ call' = [call EXCEPT ![r].stage = IF presented \in live THEN "found" ELSE "refused"]
    /\ live' = IF reused THEN {} ELSE live
    /\ alarm' = (alarm \/ reused)
    /\ UNCHANGED <<tabVars, abandoned, cookie>>

(* revokeById and issueSession, which nothing distinguishes from one step.  *)
RotateSession(r) ==
    /\ call[r].stage = "found"
    /\ call' = [call EXCEPT ![r].stage = "issued"]
    /\ live' = (live \ {call[r].presented}) \cup {r}
    /\ UNCHANGED <<tabVars, abandoned, cookie, alarm>>

(* The answer reaches the browser, which stores or deletes the cookie, and  *)
(* then the tab: the rest of refreshAccessToken and performAndStampRefresh. *)
(* After the eight seconds only refreshAccessToken still runs.              *)
Answer(r) ==
    LET t == TabOf[r]
        issued == call[r].stage = "issued"
    IN
    /\ call[r].stage \in {"issued", "refused"}
    /\ call' = [call EXCEPT ![r].stage = "done"]
    /\ cookie' = IF issued THEN r ELSE IF call[r].presented = Null THEN cookie ELSE Null
    /\ token' = IF issued /\ t \in open THEN [token EXCEPT ![t] = r] ELSE token
    /\ \/ /\ InStep(r, "refreshing") /\ issued
          /\ Stamp(r, "completed")
          /\ channel' = Posted(t, r)
          /\ ConcludeOne(r, r)
       \/ /\ InStep(r, "refreshing") /\ ~issued
          /\ Stamp(r, "failed")
          /\ channel' = Posted(t, Null)
          /\ ConcludeOne(r, "failed")
       \/ /\ ~InStep(r, "refreshing")
          /\ UNCHANGED <<generation, channel, request, lock>>
    /\ UNCHANGED <<browser, open, abandoned, serverVars>>

Abandon(rs) ==
    /\ Cardinality(abandoned \cup rs) <= MaxAbandoned
    /\ abandoned' = abandoned \cup rs

(* The catch of performAndStampRefresh without an answer of the backend.    *)
GiveUp(r) ==
    /\ InStep(r, "refreshing")
    /\ Stamp(r, "failed")
    /\ channel' = Posted(TabOf[r], Null)
    /\ ConcludeOne(r, "failed")
    /\ Abandon({r})
    /\ UNCHANGED <<browser, open, token>>

(* REFRESH_ATTEMPT_TIMEOUT_MS: the call itself goes on.                     *)
TimeOut(r) == "slow" \in browser.faults /\ GiveUp(r) /\ UNCHANGED <<call, cookie, serverVars>>

(* The call does not reach the backend, or its answer not the browser.      *)
Disconnect(r) ==
    /\ "lost" \in browser.faults
    /\ call[r].stage \in {"sent", "issued", "refused"}
    /\ call' = [call EXCEPT ![r].stage = "done"]
    /\ GiveUp(r) \/ (~InStep(r, "refreshing") /\ UNCHANGED <<tabVars, abandoned>>)
    /\ UNCHANGED <<cookie, serverVars>>
---------------------------------------------------------------------------
(* AuthProvider and waitForBroadcastResult receive a message.               *)
Receive(from, to) ==
    LET message == Head(channel[<<from, to>>])
        listeners == {r \in Request : TabOf[r] = to /\ InStep(r, "listening")}
    IN
    /\ to \in open /\ channel[<<from, to>>] # <<>>
    /\ channel' = [channel EXCEPT ![<<from, to>>] = Tail(@)]
    /\ token' = [token EXCEPT ![to] = message]
    /\ Conclude(listeners, to, IF message = Null THEN "failed" ELSE message)
    /\ UNCHANGED <<browser, open, generation, call, abandoned, cookie, serverVars>>

(* BROADCAST_WAIT_TIMEOUT_MS: a message may be later than that.             *)
StopListening(r) ==
    /\ InStep(r, "listening")
    /\ ConcludeOne(r, "unheard")
    /\ UNCHANGED <<browser, open, token, channel, generation, call, abandoned,
                   cookie, serverVars>>

(* The caller goes on: the interceptor of api-client.ts clears the store    *)
(* and logs every tab out unless the result was merely not heard;           *)
(* useSessionRestore stores what it got.                                    *)
Return(r) ==
    LET t == TabOf[r] IN
    /\ InStep(r, "ending")
    /\ Enter(r, "ended")
    /\ \/ /\ r \notin Restoring /\ request[r].result = "failed"
          /\ token' = [token EXCEPT ![t] = Null]
          /\ channel' = Posted(t, Null)
       \/ /\ r \in Restoring /\ request[r].result \in RefreshToken
          /\ token' = [token EXCEPT ![t] = request[r].result]
          /\ UNCHANGED channel
       \/ /\ IF r \in Restoring THEN request[r].result \notin RefreshToken
                                ELSE request[r].result # "failed"
          /\ UNCHANGED <<token, channel>>
    /\ UNCHANGED <<browser, open, generation, lock, call, abandoned, cookie, serverVars>>

(* A tab is closed: the browser releases its Web Lock, nobody its mutex.    *)
CloseTab(t) ==
    LET stopped == {r \in Request : TabOf[r] = t /\ ~InStep(r, "ended")} IN
    /\ "close" \in browser.faults /\ t \in open
    /\ open' = open \ {t}
    /\ token' = [token EXCEPT ![t] = Null]
    /\ channel' = [pair \in Tab \X Tab |-> IF pair[2] = t THEN <<>> ELSE channel[pair]]
    /\ request' = [r \in Request |->
            IF r \in stopped THEN [request[r] EXCEPT !.pc = "gone", !.owns = FALSE]
                             ELSE request[r]]
    /\ lock' = IF browser.locks /\ lock.holder \in stopped THEN Free ELSE lock
    /\ Abandon({r \in stopped : InStep(r, "refreshing")})
    /\ UNCHANGED <<browser, generation, call, cookie, serverVars>>

(* What a tab does by itself, its timers included.                          *)
Proceed(r) ==
    \/ AcquireLock(r) \/ ReadMutex(r) \/ WriteMutex(r) \/ ConfirmMutex(r)
    \/ Decide(r) \/ TimeOut(r) \/ StopListening(r) \/ Return(r)

Serve(r) == FindSession(r) \/ RotateSession(r) \/ Answer(r)

Next ==
    \/ \E r \in Request : Ask(r) \/ Proceed(r) \/ Serve(r) \/ Disconnect(r)
    \/ \E from, to \in Tab : Receive(from, to)
    \/ \E t \in Tab : CloseTab(t)
    \/ MutexGoesStale

Spec == Init /\ [][Next]_vars

(* A call is answered in the end or runs into its timer; of the channel     *)
(* nothing is assumed, the timers of an open tab suffice.                   *)
Fairness == \A r \in Request : WF_vars(Proceed(r) \/ Serve(r))
FairSpec == Spec /\ Fairness
---------------------------------------------------------------------------
(* Properties *)

Called(r) == call[r].stage # "none"

(* Of the requests that began to wait in one generation, one calls the      *)
(* backend (SPEC-T031 FR10).  A tab closed in the middle of its call is     *)
(* replaced by another.                                                     *)
OneCallPerCycle ==
    \A r, s \in Request :
        /\ r # s /\ Called(r) /\ Called(s)
        /\ request[r].generationBefore = request[s].generationBefore
        => InStep(r, "gone") \/ InStep(s, "gone")

(* The same where the browser has Web Locks, whatever is lost, late or      *)
(* closed.                                                                  *)
OneCallWithLocks == browser.locks => OneCallPerCycle

(* With Web Locks, that there are several tabs is never the reason why a    *)
(* used refresh token is presented or a request told that the refresh       *)
(* failed: some call was given up before its answer.                        *)
NoLogoutByConcurrency ==
    browser.locks /\ abandoned = {} =>
        ~alarm /\ \A r \in Request : request[r].result # "failed"

(* With Web Locks, every request ends, or its tab is closed: the lock is    *)
(* never held for good.  As a request is made once, it is enough that there *)
(* is always a later time when none is under way.                           *)
EveryRequestEnds ==
    []<>(browser.locks => \A r \in Request : request[r].pc \in {"idle", "ended", "gone"})
==============================================================================
