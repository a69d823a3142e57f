----------------------------- MODULE AuthService -----------------------------
(***************************************************************************)
(* Logins, sessions and logouts. A login takes a time stamp, is counted    *)
(* against fixed windows of its source and of its user name, reads the     *)
(* account, has the password verified by the one verification thread, and  *)
(* issues a session in two database commands. Logouts authenticate first   *)
(* and revoke later; sessions expire.                                      *)
(*                                                                         *)
(* A handler whose client leaves is dropped at its await. The database     *)
(* takes or refuses each command as a whole. The clock is one for windows  *)
(* and sessions and does not run backwards, but stamps reach the windows   *)
(* in any order, as they are taken before the lock.                        *)
(***************************************************************************)
EXTENDS Integers, Sequences, FiniteSetsExt

CONSTANTS Logins,            \* login requests; each names the token it may issue
          Logouts,           \* logout requests
          Sources,           \* client_key: what a login is counted under
          Usernames,         \* user names that are tried
          Keys,              \* bound: the <<source, user name>> a login may come with
          IpMax, IpWindow,             \* IP_POLICY
          UsernameMax, UsernameWindow, \* USERNAME_POLICY
          MaxKeys,           \* MAX_KEYS of each window table
          VerifyInflight,    \* VERIFY_INFLIGHT
          MaxActiveSessions, \* MAX_ACTIVE_SESSIONS
          Lifetime,          \* MAX_AGE_SECONDS
          MaxTime,           \* bound: the clock stops here
          None               \* no login

ASSUME AuthConstantsOK ==
    /\ Keys \in [Logins -> SUBSET (Sources \X Usernames)]
    /\ {IpMax, IpWindow, UsernameMax, UsernameWindow} \subseteq Nat \ {0}
    /\ {MaxKeys, VerifyInflight, MaxActiveSessions, Lifetime} \subseteq Nat \ {0}
    /\ VerifyInflight > 1 \* the queue of the thread has room
    /\ MaxTime \in Nat
    /\ None \notin Logins

VARIABLES
    now,      \* the clock
    ips,      \* window table of the sources: key to start and count
    usernames,\* window table of the user names
    lapsed,   \* history: a table dropped a live key or saw an older stamp
    login,    \* login requests; which answer ended them is not kept
    thread,   \* whether the verification thread could be started
    jobs,     \* its channel, logins waiting for a verdict
    running,  \* the login it verifies, or None
    sessions, \* table sessions: token to expiry
    logout    \* logout requests

gate == <<ips, usernames, lapsed>>
pool == <<jobs, running>>
authVars == <<now, gate, login, thread, pool, sessions, logout>>

----------------------------------------------------------------------------
(* Windowed: a table of fixed windows *)

IpPolicy == [max |-> IpMax, window |-> IpWindow]
UsernamePolicy == [max |-> UsernameMax, window |-> UsernameWindow]

\* The sets of the n keys of f with the greatest values, ties in any order.
Greatest(f, n) ==
    {K \in SUBSET DOMAIN f :
        /\ Cardinality(K) = Min({Cardinality(DOMAIN f), n})
        /\ \A k \in K, j \in DOMAIN f \ K : f[j] <= f[k]}

Only(f, K) == [k \in K |-> f[k]]

InWindow(hit, policy, t) == hit.started <= t /\ t - hit.started < policy.window

\* The count may pass the limit by one, a mutant.
Exceeded(count, policy) == count > policy.max
Exhausted(count, policy) == count >= policy.max

Blocked(hits, key, policy, t) ==
    /\ key \in DOMAIN hits
    /\ InWindow(hits[key], policy, t) /\ Exhausted(hits[key].count, policy)

Record(hits, key, policy, t) ==
    LET old == key \in DOMAIN hits /\ InWindow(hits[key], policy, t)
        hit == IF old THEN [hits[key] EXCEPT !.count = @ + 1] ELSE [started |-> t, count |-> 1]
    IN [k \in DOMAIN hits \cup {key} |-> IF k = key THEN hit ELSE hits[k]]

\* Keys whose window has not passed; a window of a later stamp has not.
Unexpired(hits, policy, t) ==
    Only(hits, {k \in DOMAIN hits : t - hits[k].started < policy.window})

RoomForOne == MaxKeys - 1

\* evict: what may be left of a table: at most RoomForOne keys, of the latest starts.
Evicted(hits, policy, t) ==
    LET live == Unexpired(hits, policy, t)
    IN {Only(live, K) : K \in Greatest([k \in DOMAIN live |-> live[k].started], RoomForOne)}

----------------------------------------------------------------------------
(* login *)

AuthInit ==
    /\ now = 0
    /\ ips = <<>> /\ usernames = <<>> /\ lapsed = FALSE
    /\ login = [l \in Logins |-> [at |-> "new", source |-> None, name |-> None, stamp |-> 0,
                                  admitted |-> FALSE, verdict |-> "none"]]
    /\ thread \in BOOLEAN
    /\ jobs = <<>> /\ running = None
    /\ sessions = <<>>
    /\ logout = [o \in Logouts |-> [at |-> "new", token |-> None]]

Goto(l, at) == login' = [login EXCEPT ![l].at = at]

\* The Origin check is passed and Instant::now() taken.
Arrive(l) ==
    /\ login[l].at = "new"
    /\ \E key \in Keys[l] :
         login' = [login EXCEPT ![l].at = "check", ![l].source = key[1],
                                ![l].name = key[2], ![l].stamp = now]
    /\ UNCHANGED <<now, gate, thread, pool, sessions, logout>>

\* A refused login is counted too, a mutant.
CountedAnyway(blocked, hits, key, policy, t) == Record(hits, key, policy, t)
Counted(blocked, hits, key, policy, t) ==
    IF blocked THEN hits ELSE Record(hits, key, policy, t)

Checked == {l \in Logins : login[l].at \notin {"new", "check"}}

\* LoginRateLimiter::check, under its lock.
CheckLimits(l) ==
    LET r == login[l]
        t == r.stamp
    IN
    /\ r.at = "check"
    /\ \E i \in Evicted(ips, IpPolicy, t), u \in Evicted(usernames, UsernamePolicy, t) :
         LET blocked == \/ Blocked(i, r.source, IpPolicy, t)
                        \/ Blocked(u, r.name, UsernamePolicy, t)
         IN /\ ips' = Counted(blocked, i, r.source, IpPolicy, t)
            /\ usernames' = Counted(blocked, u, r.name, UsernamePolicy, t)
            /\ login' = [login EXCEPT ![l].at = IF blocked THEN "ended" ELSE "lookup",
                                      ![l].admitted = ~blocked]
            /\ lapsed' = (\/ lapsed \/ \E m \in Checked : t < login[m].stamp
                          \/ DOMAIN i # DOMAIN Unexpired(ips, IpPolicy, t)
                          \/ DOMAIN u # DOMAIN Unexpired(usernames, UsernamePolicy, t))
    /\ UNCHANGED <<now, thread, pool, sessions, logout>>

Channel == VerifyInflight - 1

\* A thread that could not be started taken for one that will answer, a mutant.
ChannelOpen == TRUE
Started == thread

\* lookup_user answers, or fails, and at once VerifyPool::submit. Without an
\* account the hash submitted is a dummy one, if it can be made.
Submit(l) ==
    /\ login[l].at = "lookup"
    /\ \/ /\ Started /\ Len(jobs) < Channel
          /\ jobs' = Append(jobs, l)
          /\ Goto(l, "wait")
       \/ /\ ~Started \/ Len(jobs) >= Channel
          /\ Goto(l, "ended") /\ UNCHANGED jobs
       \/ Goto(l, "ended") /\ UNCHANGED jobs \* no row or hash to verify against
    /\ UNCHANGED <<now, gate, thread, running, sessions, logout>>

\* The verdict arrives. No account and a hash that cannot be read count as a
\* wrong password.
Receive(l) ==
    /\ login[l].at = "wait" /\ login[l].verdict # "none"
    /\ login' = [login EXCEPT ![l].at = IF login[l].verdict = "right" THEN "purge" ELSE "ended",
                              ![l].verdict = "none"]
    /\ UNCHANGED <<now, gate, thread, pool, sessions, logout>>

\* session::issue, first command: delete expired sessions.
Purge(l) ==
    /\ login[l].at = "purge"
    /\ \/ sessions' = Only(sessions, {s \in DOMAIN sessions : sessions[s] > now})
          /\ Goto(l, "insert")
       \/ Goto(l, "ended") /\ UNCHANGED sessions
    /\ UNCHANGED <<now, gate, thread, pool, logout>>

KeepBefore == MaxActiveSessions - 1
\* The oldest kept, a mutant.
KeepOldest(f, n) == Greatest([k \in DOMAIN f |-> 0 - f[k]], n)
KeepNewest(f, n) == Greatest(f, n)

\* Second command, a transaction: trim to the latest expiries, insert.
InsertSession(l) ==
    /\ login[l].at = "insert"
    /\ \/ \E K \in KeepNewest(sessions, KeepBefore) :
            /\ sessions' = [s \in K \cup {l} |-> IF s = l THEN now + Lifetime ELSE sessions[s]]
            /\ Goto(l, "ended")
       \/ Goto(l, "ended") /\ UNCHANGED sessions
    /\ UNCHANGED <<now, gate, thread, pool, logout>>

\* The client leaves: the handler is dropped at its await.
Leave(l) ==
    /\ login[l].at \in {"lookup", "wait", "purge", "insert"}
    /\ Goto(l, "ended")
    /\ UNCHANGED <<now, gate, thread, pool, sessions, logout>>

----------------------------------------------------------------------------
(* The verification thread *)

Take ==
    /\ thread /\ running = None /\ jobs # <<>>
    /\ running' = Head(jobs) /\ jobs' = Tail(jobs)
    /\ UNCHANGED <<now, gate, login, thread, sessions, logout>>

\* The reply; nobody may be there for it.
Verify ==
    /\ running # None
    /\ \E v \in {"right", "wrong"} : login' = [login EXCEPT ![running].verdict = v]
    /\ running' = None
    /\ UNCHANGED <<now, gate, thread, jobs, sessions, logout>>

----------------------------------------------------------------------------
(* logout *)

Live(s) == sessions[s] > now

\* authenticate reads a live session of the token, then verify_token passes.
Authenticate(o) ==
    /\ logout[o].at = "new"
    /\ \E s \in DOMAIN sessions :
         Live(s) /\ logout' = [logout EXCEPT ![o] = [at |-> "revoke", token |-> s]]
    /\ UNCHANGED <<now, gate, login, thread, pool, sessions>>

\* session::revoke, also of a session that has gone meanwhile.
Revoke(o) ==
    /\ logout[o].at = "revoke"
    /\ \/ sessions' = Only(sessions, DOMAIN sessions \ {logout[o].token})
       \/ UNCHANGED sessions \* refused by the database
    /\ logout' = [logout EXCEPT ![o].at = "ended"]
    /\ UNCHANGED <<now, gate, login, thread, pool>>

----------------------------------------------------------------------------
Tick ==
    /\ now < MaxTime /\ now' = now + 1
    /\ UNCHANGED <<gate, login, thread, pool, sessions, logout>>

Handle(l) ==
    CheckLimits(l) \/ Submit(l) \/ Receive(l) \/ Purge(l) \/ InsertSession(l)

AuthNext ==
    \/ \E l \in Logins : Arrive(l) \/ Handle(l) \/ Leave(l)
    \/ Take \/ Verify
    \/ \E o \in Logouts : Authenticate(o) \/ Revoke(o)
    \/ Tick

\* The runtime polls handlers, the database answers, the thread runs.
AuthSpec == AuthInit /\ [][AuthNext]_authVars
AuthFairSpec == AuthSpec /\ (\A l \in Logins : WF_authVars(Handle(l))) /\ WF_authVars(Take \/ Verify)

----------------------------------------------------------------------------
(* Properties *)

Phases == {"new", "check", "lookup", "wait", "purge", "insert", "ended"}

IsTable(hits, keys, policy) ==
    /\ DOMAIN hits \subseteq keys
    /\ hits \in [DOMAIN hits -> [started : 0 .. MaxTime, count : 1 .. policy.max]]

\* Every variable keeps its shape; no window counts past its limit.
TypeOK ==
    /\ now \in 0 .. MaxTime
    /\ IsTable(ips, Sources, IpPolicy) /\ IsTable(usernames, Usernames, UsernamePolicy)
    /\ lapsed \in BOOLEAN
    /\ login \in [Logins -> [at : Phases, source : Sources \cup {None},
                             name : Usernames \cup {None}, stamp : 0 .. MaxTime,
                             admitted : BOOLEAN, verdict : {"none", "right", "wrong"}]]
    /\ thread \in BOOLEAN
    /\ jobs \in Seq(Logins) /\ running \in Logins \cup {None}
    /\ DOMAIN sessions \subseteq Logins /\ sessions \in [DOMAIN sessions -> Nat]
    /\ logout \in [Logouts -> [at : {"new", "revoke", "ended"}, token : Logins \cup {None}]]

\* The memory a client without a session can make the process hold is bounded,
\* whoever leaves or comes late: keys in both tables and verifications in flight.
GateBounded ==
    /\ Cardinality(DOMAIN ips) <= MaxKeys
    /\ Cardinality(DOMAIN usernames) <= MaxKeys
    /\ Len(jobs) + (IF running = None THEN 0 ELSE 1) <= VerifyInflight

Admitted == {l \in Logins : login[l].admitted}
FromSource(k) == {l \in Admitted : login[l].source = k}
WithName(k) == {l \in Admitted : login[l].name = k}
Near(L, t, window) ==
    {l \in L : login[l].stamp - t < window /\ t - login[l].stamp < window}

\* A login is refused as too frequent only if as many as the limit were admitted
\* less than a window away from it, under its source or its name: refused ones,
\* other keys and old windows do not count, whatever order the stamps arrive in.
RefusedForCause ==
    [][\A l \in Logins :
        login[l].at = "check" /\ login'[l].at = "ended" =>
            LET r == login[l] IN
            \/ Cardinality(Near(FromSource(r.source), r.stamp, IpWindow)) >= IpMax
            \/ Cardinality(Near(WithName(r.name), r.stamp, UsernameWindow)) >= UsernameMax]_authVars

AtMost(L, policy) ==
    \A t \in 0 .. MaxTime :
        Cardinality({l \in L : t <= login[l].stamp /\ login[l].stamp < t + policy.window})
            <= 2 * policy.max - 1

\* In any stretch of time as long as the window fewer than twice the limit are
\* admitted under a key, wherever fixed windows begin, as long as the table had
\* room and the stamps came in order.
WindowLimit ==
    ~lapsed =>
        /\ \A k \in Sources : AtMost(FromSource(k), IpPolicy)
        /\ \A k \in Usernames : AtMost(WithName(k), UsernamePolicy)

\* Every limit holds in every interleaving (rate_limit.rs:1-3, session.rs:95):
\* attempts per window, memory of the gate, and sessions after concurrent logins.
WithinLimits ==
    /\ TypeOK /\ GateBounded /\ WindowLimit
    /\ Cardinality(DOMAIN sessions) <= MaxActiveSessions

\* A session ends because it expired, a logout of it was under way, or a login
\* met the limit and every session left expires no earlier.
SessionEndsForCause ==
    [][\A s \in DOMAIN sessions \ DOMAIN sessions' :
        \/ sessions[s] <= now
        \/ \E o \in Logouts : logout[o] = [at |-> "revoke", token |-> s]
        \/ /\ Cardinality(DOMAIN sessions) = MaxActiveSessions
           /\ \A k \in DOMAIN sessions' : sessions[s] <= sessions'[k]]_authVars

\* Every login ends, also if the verification thread never started, its queue
\* is full, or those ahead of it have left (rate_limit.rs:219): as there are finitely
\* many, in the end none is under way.
LoginsAnswered == <>[](\A l \in Logins : login[l].at \in {"new", "ended"})

============================================================================
