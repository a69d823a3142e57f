------------------------- MODULE StartupAuth_proofs -------------------------
(***************************************************************************)
(* The start of a server and its accounts; logins and sessions.            *)
(*                                                                         *)
(* For every number of servers and commands, every number of migrations    *)
(* and wherever processes die: the version of the file is that of its      *)
(* tables, a user is created by one command, and a server that listens has *)
(* its roots in the table.                                                 *)
(*                                                                         *)
(* A process that migrates has read a version that may be old by now. What *)
(* saves it is that versions only grow: the migration it turns to is the   *)
(* very next, or exists already, and fails unless it is the last.          *)
(*                                                                         *)
(* A server that registers a root has looked its row up in a statement of  *)
(* its own. The row it saw is still that root's when it writes it, unless  *)
(* servers that run at once have different roots: if not, a server which   *)
(* moved the row would be ahead, and have registered this root, or behind, *)
(* and turn to a root that is registered.                                  *)
(*                                                                         *)
(* For every number of logins, sources, names and every limit: tables,     *)
(* queue and sessions keep their limits, a login is refused and a session  *)
(* ends for a cause only. An entry of a table counts logins that were      *)
(* admitted in its window, however stamps come; if they come in order and  *)
(* no live key is dropped it counts all of them, the first began the       *)
(* window, and shortly before it fewer than the limit were admitted.       *)
(***************************************************************************)
EXTENDS Startup, AuthService, FiniteSetTheorems, TLAPS

Stages == {"off", "open", "migrate", "mark", "path", "name", "upsert", "bind", "up",
           "check", "insert"}

\* A process is a record with a place and a position, whatever its other fields.
Placed(r) ==
    r \in [at : Stages, conf : {r.conf}, next : Nat, seen : {r.seen},
           missed : {r.missed}, user : {r.user}]

\* No migration but the last can be repeated.
LastOnly == Repeatable \subseteq {Supported}

\* What the place of a process says of the version.
Fits(r) ==
    /\ r.at = "migrate" => r.next \in 1 .. Supported /\ r.next <= version + 1
    /\ r.at \notin {"off", "open", "migrate"} => version = Supported
    /\ version > Supported => r.at \in {"off", "open"}

SchemaInv ==
    /\ version \in Nat
    /\ DOMAIN proc = Procs /\ proc = [p \in Procs |-> proc[p]]
    /\ \A p \in Procs : Placed(proc[p])
    /\ LastOnly => applied = 1 .. version /\ \A p \in Procs : Fits(proc[p])

----------------------------------------------------------------------------
LEMMA Moved ==
  ASSUME SchemaInv, NEW p \in Procs, NEW r, Becomes(p, r)
  PROVE  /\ DOMAIN proc' = Procs /\ proc' = [q \in Procs |-> proc'[q]]
         /\ proc'[p] = r /\ \A q \in Procs : q # p => proc'[q] = proc[q]
  BY DEF SchemaInv, Becomes

\* A step of one process that leaves the tables alone.
LEMMA SameTables ==
  ASSUME SchemaInv, NEW p \in Procs, NEW r, Becomes(p, r), Placed(r),
         LastOnly => Fits(r), UNCHANGED <<version, applied>>
  PROVE  SchemaInv'
<1>1. /\ DOMAIN proc' = Procs /\ proc' = [q \in Procs |-> proc'[q]]
      /\ proc'[p] = r /\ \A q \in Procs : q # p => proc'[q] = proc[q]
  BY Moved
<1>2. \A q \in Procs : Placed(proc'[q]) /\ (LastOnly => Fits(proc'[q]))
  BY <1>1 DEF SchemaInv
<1> QED
  BY <1>1, <1>2 DEF SchemaInv, Fits, Placed, LastOnly

LEMMA OffOK == Placed(Off) /\ Off.at = "off"
  BY DEF Placed, Off, Stages

LEMMA ExitKeeps ==
  ASSUME SchemaInv, NEW p \in Procs, Exit(p), UNCHANGED <<version, applied>>
  PROVE  SchemaInv'
<1>1. Fits(Off)
  BY OffOK DEF Fits
<1> QED
  BY <1>1, OffOK, SameTables DEF Exit

\* A process that goes from one place to another, both behind the migrations.
PutAt(r, a, n) == [r EXCEPT !.at = a, !.next = n]
SeenAt(r, v, a) == [r EXCEPT !.seen = v, !.at = a]

LEMMA StepPlaced ==
  ASSUME NEW r, Placed(r), NEW a \in Stages, NEW n \in Nat
  PROVE  /\ Placed(PutAt(r, a, n))
         /\ PutAt(r, a, n).at = a /\ PutAt(r, a, n).next = n
  BY DEF Placed, PutAt

LEMMA GoPlaced ==
  ASSUME NEW r, Placed(r), NEW a \in Stages
  PROVE  /\ Placed([r EXCEPT !.at = a]) /\ [r EXCEPT !.at = a].at = a
  BY DEF Placed

LEMMA SawPlaced ==
  ASSUME NEW r, Placed(r), NEW a \in Stages, NEW v
  PROVE  Placed(SeenAt(r, v, a)) /\ SeenAt(r, v, a).at = a
  BY DEF Placed, SeenAt

LEMMA PassedPlaced ==
  ASSUME NEW r, Placed(r), NEW v
  PROVE  Placed([r EXCEPT !.missed = v]) /\ [r EXCEPT !.missed = v].at = r.at
  BY DEF Placed

----------------------------------------------------------------------------
(* The version *)

LEMMA StartKeeps ==
  ASSUME SchemaInv, NEW p \in Procs, Start(p)
  PROVE  SchemaInv'
<1>1. PICK u : Becomes(p, [at |-> "open", conf |-> config, next |-> 0, seen |-> 0,
                           missed |-> {}, user |-> u])
  BY DEF Start
<1> DEFINE r == [at |-> "open", conf |-> config, next |-> 0, seen |-> 0,
                 missed |-> {}, user |-> u]
<1>2. Placed(r) /\ r.at = "open"
  BY DEF Placed, Stages
<1>3. Becomes(p, r)
  BY <1>1
<1> HIDE DEF r
<1>4. Fits(r)
  BY <1>2 DEF Fits
<1> QED
  BY <1>2, <1>3, <1>4, SameTables DEF Start, tables

LEMMA OpenDbKeeps ==
  ASSUME SchemaInv, NEW p \in Procs, OpenDb(p)
  PROVE  SchemaInv'
<1>1. UNCHANGED <<version, applied>>
  BY DEF OpenDb, tables
<1>2. CASE ~Known(version)
  BY <1>1, <1>2, ExitKeeps DEF OpenDb
<1>3. CASE Known(version)
  <2> DEFINE a == IF version = Supported THEN Opened(p) ELSE "migrate"
             n == version + 1
             r == PutAt(proc[p], a, n)
  <2>1. Becomes(p, r)
    BY <1>3 DEF OpenDb, Step, PutAt
  <2>2. a \in Stages /\ n \in Nat /\ Placed(proc[p])
    BY DEF SchemaInv, Opened, Stages
  <2>3. version \in 0 .. Supported
    BY <1>3 DEF Known
  <2>4. a = "migrate" => n \in 1 .. Supported
    BY <2>3, ConstantsOK DEF SchemaInv, Opened
  <2>5. a # "migrate" => version = Supported
    OBVIOUS
  <2> HIDE DEF a
  <2>6. Placed(r) /\ r.at = a /\ r.next = n
    BY <2>2, StepPlaced
  <2> HIDE DEF r
  <2>7. Fits(r)
    BY <2>3, <2>4, <2>5, <2>6, ConstantsOK DEF Fits, SchemaInv
  <2> QED
    BY <1>1, <2>1, <2>6, <2>7, SameTables
<1> QED
  BY <1>2, <1>3

LEMMA MigrateKeeps ==
  ASSUME SchemaInv, NEW p \in Procs, Migrate(p)
  PROVE  SchemaInv'
<1> DEFINE m == proc[p].next
<1>1. CASE m \in applied \ Repeatable
  BY <1>1, ExitKeeps DEF Migrate
<1>2. CASE m \notin applied \ Repeatable
  <2> DEFINE a == IF m = Supported THEN Opened(p) ELSE "migrate"
             n == m + 1
             r == PutAt(proc[p], a, n)
  <2>1. Becomes(p, r) /\ applied' = applied \cup {m} /\ version' = m
    BY <1>2 DEF Migrate, Step, VersionWith, PutAt
  <2>2. Placed(proc[p]) /\ m \in Nat
    BY DEF SchemaInv, Placed
  <2>3. LastOnly => /\ version \in Nat /\ applied = 1 .. version
                    /\ m \in 1 .. Supported /\ m <= version + 1 /\ version <= Supported
    BY ConstantsOK DEF SchemaInv, Fits, Migrate, At
  <2> HIDE DEF m
  <2>4. a \in Stages /\ n \in Nat
    BY <2>2 DEF Opened, Stages
  <2>5. LastOnly /\ a = "migrate" => n \in 1 .. Supported
    BY <2>3, ConstantsOK DEF Opened
  <2>6. a \notin {"off", "open", "migrate"} => m = Supported
    OBVIOUS
  <2> HIDE DEF a
  <2>7. Placed(r) /\ r.at = a /\ r.next = n
    BY <2>2, <2>4, StepPlaced
  <2> HIDE DEF r
  <2>8. /\ DOMAIN proc' = Procs /\ proc' = [q \in Procs |-> proc'[q]]
        /\ proc'[p] = r /\ \A q \in Procs : q # p => proc'[q] = proc[q]
    BY <2>1, Moved
  <2>9. \A q \in Procs : Placed(proc'[q])
    BY <2>7, <2>8 DEF SchemaInv
  <2>10. ASSUME LastOnly PROVE applied' = 1 .. m /\ m >= version
    \* The next migration, or the last once more.
    <3>1. m = version + 1 \/ (m \in applied /\ m = Supported)
      <4>1. m \in applied => m = Supported
        BY <1>2, <2>10 DEF LastOnly
      <4>2. m \notin applied => m = version + 1
        BY <2>3, <2>10, ConstantsOK
      <4> QED
        BY <4>1, <4>2
    <3>2. CASE m = version + 1
      BY <2>1, <2>3, <2>10, <3>2
    <3>3. CASE m \in applied /\ m = Supported
      BY <2>1, <2>3, <2>10, <3>3, ConstantsOK
    <3> QED
      BY <3>1, <3>2, <3>3
  <2>11. ASSUME LastOnly, NEW q \in Procs PROVE Fits(proc[q])'
    <3>1. CASE q = p
      BY <2>1, <2>3, <2>4, <2>5, <2>6, <2>7, <2>8, <2>11, <3>1, ConstantsOK DEF Fits
    <3>2. CASE q # p
      <4>1. Fits(proc[q])
        BY <2>11 DEF SchemaInv
      <4>2. proc[q].at = "migrate" => proc[q].next \in 1 .. Supported /\ proc[q].next <= m + 1
        BY <2>3, <2>10, <2>11, <4>1, ConstantsOK DEF Fits
      <4>3. proc[q].at \notin {"off", "open", "migrate"} => m = Supported
        BY <2>3, <2>10, <2>11, <4>1, ConstantsOK DEF Fits
      <4>4. ~(m > Supported)
        BY <2>3, <2>11, ConstantsOK
      <4> QED
        BY <2>1, <2>8, <3>2, <4>2, <4>3, <4>4 DEF Fits
    <3> QED
      BY <3>1, <3>2
  <2>12. LastOnly => applied' = 1 .. version' /\ \A q \in Procs : Fits(proc[q])'
    BY <2>1, <2>10, <2>11
  <2> HIDE DEF LastOnly
  <2> QED
    BY <2>1, <2>2, <2>8, <2>9, <2>12 DEF SchemaInv, Placed, LastOnly, Fits
<1> QED
  BY <1>1, <1>2

\* A process behind the migrations that stays there.
LEMMA BehindKeeps ==
  ASSUME SchemaInv, NEW p \in Procs, NEW r, Becomes(p, r), Placed(r),
         UNCHANGED <<version, applied>>,
         proc[p].at \notin {"off", "open", "migrate"},
         r.at \notin {"off", "open", "migrate"}
  PROVE  SchemaInv'
<1>1. LastOnly => Fits(r)
  BY ConstantsOK DEF SchemaInv, Fits
<1> QED
  BY <1>1, SameTables

LEMMA GoToKeeps ==
  ASSUME SchemaInv, NEW p \in Procs, NEW a \in Stages, GoTo(p, a),
         UNCHANGED <<version, applied>>,
         proc[p].at \notin {"off", "open", "migrate"},
         a \notin {"off", "open", "migrate"}
  PROVE  SchemaInv'
<1> DEFINE r == [proc[p] EXCEPT !.at = a]
<1>1. Becomes(p, r) /\ Placed(proc[p])
  BY DEF GoTo, SchemaInv
<1>2. Placed(r) /\ r.at = a
  BY <1>1, GoPlaced
<1> HIDE DEF r
<1> QED
  BY <1>1, <1>2, BehindKeeps

LEMMA StepKeeps ==
  ASSUME SchemaInv, NEW p \in Procs, NEW n \in Nat, Becomes(p, Step(p, "path", n)),
         UNCHANGED <<version, applied>>,
         proc[p].at \notin {"off", "open", "migrate"}
  PROVE  SchemaInv'
<1> DEFINE r == PutAt(proc[p], "path", n)
<1>1. Becomes(p, r) /\ Placed(proc[p])
  BY DEF Step, SchemaInv, PutAt
<1>2. "path" \in Stages
  BY DEF Stages
<1>3. Placed(r) /\ r.at = "path"
  BY <1>1, <1>2, StepPlaced
<1> HIDE DEF r
<1> QED
  BY <1>1, <1>3, BehindKeeps

LEMMA SawKeeps ==
  ASSUME SchemaInv, NEW p \in Procs, NEW id, NEW a \in {"name", "upsert"},
         Becomes(p, Saw(p, id, a)),
         UNCHANGED <<version, applied>>,
         proc[p].at \notin {"off", "open", "migrate"}
  PROVE  SchemaInv'
<1> DEFINE r == SeenAt(proc[p], id, a)
<1>1. Becomes(p, r) /\ Placed(proc[p])
  BY DEF Saw, SchemaInv, SeenAt
<1>2. Placed(r) /\ r.at = a
  BY <1>1, SawPlaced DEF Stages
<1> HIDE DEF r
<1> QED
  BY <1>1, <1>2, BehindKeeps

LEMMA Ahead ==
  ASSUME SchemaInv, NEW p \in Procs
  PROVE  proc[p].next \in Nat /\ proc[p].next + 1 \in Nat
<1>1. Placed(proc[p])
  BY DEF SchemaInv
<1>2. proc[p].next \in Nat
  BY <1>1 DEF Placed
<1> QED
  BY <1>2

LEMMA ByPathKeeps ==
  ASSUME SchemaInv, NEW p \in Procs, ByPath(p)
  PROVE  SchemaInv'
<1>1. UNCHANGED <<version, applied>> /\ proc[p].at = "path"
  BY DEF ByPath, tables, At
<1>2. CASE GoTo(p, "bind")
  BY <1>1, <1>2, GoToKeeps DEF Stages
<1>3. CASE Becomes(p, PassedOver(p))
  <2> DEFINE n == proc[p].next + 1
             s == PutAt(proc[p], "path", n)
             v == s.missed \cup {Root(p)}
             r == [s EXCEPT !.missed = v]
  <2>1. Becomes(p, r) /\ Placed(proc[p]) /\ n \in Nat /\ "path" \in Stages
    BY <1>3, Ahead DEF PassedOver, NextRoot, Step, PutAt, SchemaInv, Stages
  <2> HIDE DEF n
  <2>2. Placed(s) /\ s.at = "path"
    BY <2>1, StepPlaced
  <2> HIDE DEF s, v
  <2>3. Placed(r) /\ r.at = "path"
    BY <2>2, PassedPlaced
  <2> HIDE DEF r
  <2> QED
    BY <1>1, <2>1, <2>3, BehindKeeps
<1>4. CASE \E id : \E a \in {"name", "upsert"} : Becomes(p, Saw(p, id, a))
  BY <1>1, <1>4, SawKeeps
<1> QED
  BY <1>2, <1>3, <1>4 DEF ByPath

LEMMA ServerKeeps ==
  ASSUME SchemaInv, NEW p \in Procs, Mark(p) \/ ByName(p) \/ Upsert(p) \/ Bind(p)
  PROVE  SchemaInv'
<1>1. UNCHANGED <<version, applied>>
  BY DEF Mark, ByName, Upsert, Bind, tables
<1>2. proc[p].at \in {"mark", "name", "upsert", "bind"}
  BY DEF Mark, ByName, Upsert, Bind, At
<1>3. CASE Mark(p)
  BY <1>1, <1>2, <1>3, StepKeeps DEF Mark
<1>4. CASE ByName(p)
  BY <1>1, <1>2, <1>4, SawKeeps DEF ByName
<1>5. CASE Upsert(p)
  <2>1. Exit(p) \/ Becomes(p, Step(p, "path", proc[p].next + 1))
    BY <1>5 DEF Upsert, NextRoot
  <2> QED
    BY <1>1, <1>2, <2>1, ExitKeeps, StepKeeps, Ahead
<1>6. CASE Bind(p)
  <2>1. Exit(p) \/ GoTo(p, "up")
    BY <1>6 DEF Bind
  <2> QED
    BY <1>1, <1>2, <2>1, ExitKeeps, GoToKeeps DEF Stages
<1> QED
  BY <1>3, <1>4, <1>5, <1>6

LEMMA AdminKeeps ==
  ASSUME SchemaInv, NEW p \in Procs, Check(p) \/ Insert(p)
  PROVE  SchemaInv'
<1>1. UNCHANGED <<version, applied>>
  BY DEF Check, Insert, tables
<1>2. Exit(p) \/ (proc[p].at = "check" /\ GoTo(p, "insert"))
  BY DEF Check, Insert, At
<1> QED
  BY <1>1, <1>2, ExitKeeps, GoToKeeps DEF Stages

LEMMA SchemaStep ==
  ASSUME SchemaInv, [Next]_vars
  PROVE  SchemaInv'
<1>1. CASE Scan \/ Edit \/ Mount \/ UNCHANGED vars
  <2>1. UNCHANGED <<version, applied, proc>>
    BY <1>1 DEF Scan, Edit, Mount, vars, tables
  <2> QED
    BY <2>1 DEF SchemaInv, Fits, Placed
<1>2. CASE \E p \in Procs : Start(p) \/ OpenDb(p) \/ Migrate(p) \/ Die(p)
  <2>1. PICK p \in Procs : Start(p) \/ OpenDb(p) \/ Migrate(p) \/ Die(p)
    BY <1>2
  <2>2. CASE Die(p)
    BY <2>2, ExitKeeps DEF Die, tables
  <2> QED
    BY <2>1, <2>2, StartKeeps, OpenDbKeeps, MigrateKeeps
<1>3. CASE \E p \in Servers : Mark(p) \/ ByPath(p) \/ ByName(p) \/ Upsert(p) \/ Bind(p)
  BY <1>3, ByPathKeeps, ServerKeeps DEF Procs
<1>4. CASE \E p \in Admins : Check(p) \/ Insert(p)
  BY <1>4, AdminKeeps DEF Procs
<1> QED
  BY <1>1, <1>2, <1>3, <1>4 DEF Next

LEMMA SchemaInit == Init => SchemaInv
<1> SUFFICES ASSUME Init PROVE SchemaInv
  OBVIOUS
<1>1. version \in Nat /\ applied = 1 .. version /\ proc = [p \in Procs |-> Off]
  BY ConstantsOK DEF Init
<1>2. Fits(Off)
  BY OffOK DEF Fits
<1> QED
  BY <1>1, <1>2, OffOK DEF SchemaInv

\* The version of the file says which migrations it has, whichever processes
\* migrate it at once and wherever they die; none goes on before all of them, and a
\* file of a newer program stays as it is (migrate.rs:39). It is so because only
\* the last migration can be repeated, as 002_library_indexes.sql can. A late
\* process that repeated an earlier one would write its version over a later one:
\* MCStartupThird.cfg shows it for a third migration.
THEOREM VersionTellsTheSchema ==
  ASSUME LastOnly
  PROVE  Spec => []SchemaIsItsVersion
<1>2. SchemaInv /\ [Next]_vars => SchemaInv'
  BY SchemaStep
<1>3. SchemaInv => SchemaIsItsVersion
  <2> SUFFICES ASSUME SchemaInv PROVE SchemaIsItsVersion
    OBVIOUS
  <2>1. applied = 1 .. version /\ \A p \in Procs : Fits(proc[p])
    BY DEF SchemaInv
  <2> QED
    BY <2>1 DEF Fits, SchemaIsItsVersion
<1> QED
  BY SchemaInit, <1>2, <1>3, PTL DEF Spec

----------------------------------------------------------------------------
(* Users *)

LEMMA Excepted ==
  ASSUME NEW S, NEW T, NEW f \in [S -> T], NEW x, NEW v \in T,
         NEW g, g = [f EXCEPT ![x] = v]
  PROVE  /\ g \in [S -> T] /\ (x \in S => g[x] = v)
         /\ \A y \in S : y # x => g[y] = f[y]
  OBVIOUS

LEMMA ExceptedOutside ==
  ASSUME NEW S, NEW T, NEW f \in [S -> T], NEW x, x \notin S, NEW v,
         NEW g, g = [f EXCEPT ![x] = v]
  PROVE  g \in [S -> T] /\ \A y \in S : g[y] = f[y]
  OBVIOUS

UsersInv == created \in [UserNames -> 0 .. 2] /\ CreatedOnce

LEMMA InsertKeeps ==
  ASSUME UsersInv, NEW p \in Procs, Insert(p)
  PROVE  UsersInv'
<1> DEFINE u == proc[p].user
<1>1. CASE u \in users
  BY <1>1 DEF Insert, Taken, UsersInv, CreatedOnce
<1>2. CASE u \notin users
  <2>1. /\ users' = users \cup {u}
        /\ created' = [created EXCEPT ![u] = Told(u)]
    BY <1>2 DEF Insert, Taken
  <2> HIDE DEF u
  <2>2. u \in UserNames => created[u] = 0
    BY <1>2 DEF UsersInv, CreatedOnce
  <2>3. CASE u \in UserNames
    <3> DEFINE n == Told(u)
    <3>1. n = 1 /\ n \in 0 .. 2
      BY <2>2, <2>3 DEF Told
    <3>2. created' = [created EXCEPT ![u] = n] /\ created \in [UserNames -> 0 .. 2]
      BY <2>1 DEF UsersInv
    <3> HIDE DEF n
    <3>3. /\ created' \in [UserNames -> 0 .. 2] /\ created'[u] = 1
          /\ \A v \in UserNames : v # u => created'[v] = created[v]
      BY <2>3, <3>1, <3>2, Excepted
    <3> QED
      BY <2>1, <2>3, <3>3 DEF UsersInv, CreatedOnce
  <2>4. CASE u \notin UserNames
    <3> DEFINE n == Told(u)
    <3>1. created' = [created EXCEPT ![u] = n] /\ created \in [UserNames -> 0 .. 2]
      BY <2>1 DEF UsersInv
    <3> HIDE DEF n
    <3>2. /\ created' \in [UserNames -> 0 .. 2]
          /\ \A v \in UserNames : created'[v] = created[v]
      BY <2>4, <3>1, ExceptedOutside
    <3>3. \A v \in UserNames : v \in users' <=> v \in users
      BY <2>1, <2>4
    <3> QED
      BY <3>2, <3>3 DEF UsersInv, CreatedOnce
  <2> QED
    BY <2>3, <2>4
<1> QED
  BY <1>1, <1>2

LEMMA OthersKeepUsers ==
  ASSUME [Next]_vars, ~\E p \in Admins : Insert(p)
  PROVE  UNCHANGED <<users, created>>
<1>1. CASE Scan \/ Edit \/ Mount \/ UNCHANGED vars
  BY <1>1 DEF Scan, Edit, Mount, vars, tables, world
<1>2. CASE \E p \in Procs : Start(p) \/ OpenDb(p) \/ Migrate(p) \/ Die(p)
  BY <1>2 DEF Start, OpenDb, Migrate, Die, tables, world
<1>3. CASE \E p \in Servers : Mark(p) \/ ByPath(p) \/ ByName(p) \/ Upsert(p) \/ Bind(p)
  BY <1>3 DEF Mark, ByPath, ByName, Upsert, Bind, tables, world
<1>4. CASE \E p \in Admins : Check(p)
  BY <1>4 DEF Check, tables, world
<1> QED
  BY <1>1, <1>2, <1>3, <1>4 DEF Next

\* Of all commands that create the same user, one at most says that it did, and
\* just then the user exists (main.rs:120).
THEOREM UserCreatedOnce == Spec => []CreatedOnce
<1>1. Init => UsersInv
  BY DEF Init, UsersInv, CreatedOnce
<1>2. UsersInv /\ [Next]_vars => UsersInv'
  <2> SUFFICES ASSUME UsersInv, [Next]_vars PROVE UsersInv'
    OBVIOUS
  <2>1. CASE \E p \in Admins : Insert(p)
    BY <2>1, InsertKeeps DEF Procs
  <2>2. CASE ~\E p \in Admins : Insert(p)
    BY <2>2, OthersKeepUsers DEF UsersInv, CreatedOnce
  <2> QED
    BY <2>1, <2>2
<1>3. UsersInv => CreatedOnce
  BY DEF UsersInv
<1> QED
  BY <1>1, <1>2, <1>3, PTL DEF Spec

----------------------------------------------------------------------------
(* The roots *)

Registering == {"path", "name", "upsert", "bind", "up"}

\* A root is in the table, under its name, at its directory and enabled.
Registered(root, t) ==
    \E id \in DOMAIN t : t[id] = [name |-> root.name, path |-> root.path, enabled |-> TRUE]

\* What holds of a server r in any case, with the table t.
Sound(r, t) ==
    /\ r.at = "off" => r.missed = {}
    /\ r.at # "off" => r.conf \in Configs
    /\ r.at \in Registering => r.next \in 1 .. Len(r.conf) + 1
    /\ r.at \in {"name", "upsert"} => r.next # Len(r.conf) + 1
    /\ r.at \in {"bind", "up"} => r.next = Len(r.conf) + 1
    /\ r.at = "upsert" => r.seen \in 0 .. Len(t)

Done(r, t) ==
    \A i \in 1 .. r.next - 1 : r.conf[i] \in r.missed \/ Registered(r.conf[i], t)

\* The row a server has seen is still the one its root has to take.
Fresh(r, t) ==
    LET root == r.conf[r.next] IN
    r.seen = 0 \/ t[r.seen].path = root.path \/ t[r.seen].name = root.name

\* What holds of it unless servers crossed.
Kept(r, t) ==
    /\ r.at \in Registering => Done(r, t)
    /\ r.at = "upsert" => Fresh(r, t)

\* Servers that run at once have the same roots, and have passed none over.
Alone(r, q) ==
    r.at # "off" /\ q.at # "off" => r.missed = {} /\ q.missed = {} /\ r.conf = q.conf

RootsInv ==
    /\ config \in Configs /\ IsSequence(rows) /\ Distinct(rows)
    /\ \A s \in Servers : Sound(proc[s], rows)
    /\ ~crossed => /\ \A s \in Servers : Kept(proc[s], rows)
                   /\ \A s, q \in Servers : s # q => Alone(proc[s], proc[q])

----------------------------------------------------------------------------
\* A step of one process that leaves the roots and the configuration alone.
LEMMA OneMoves ==
  ASSUME SchemaInv, RootsInv, NEW p \in Procs, NEW r, Becomes(p, r),
         UNCHANGED <<rows, config>>,
         ~crossed' => ~crossed \/ \A q \in Servers : q # p => proc[q].at = "off",
         p \in Servers => Sound(r, rows),
         p \in Servers /\ ~crossed' => Kept(r, rows),
         p \in Servers /\ ~crossed' =>
             \A q \in Servers : q # p => Alone(r, proc[q])
  PROVE  RootsInv'
<1>1. /\ proc'[p] = r /\ \A q \in Procs : q # p => proc'[q] = proc[q]
  BY Moved
<1>2. \A s \in Servers : Sound(proc'[s], rows)
  BY <1>1 DEF RootsInv, Procs
<1>3. ASSUME ~crossed' PROVE \A s \in Servers : Kept(proc'[s], rows)
  <2>1. \A s \in Servers : proc[s].at = "off" => Kept(proc[s], rows)
    BY DEF Kept, Registering
  <2> QED
    BY <1>1, <1>3, <2>1 DEF RootsInv, Procs
<1>4. ASSUME ~crossed', NEW s \in Servers, NEW q \in Servers, s # q
      PROVE  Alone(proc'[s], proc'[q])
  <2>1. s # p /\ q # p => Alone(proc[s], proc[q])
    BY <1>4 DEF RootsInv, Alone
  <2> QED
    BY <1>1, <1>4, <2>1 DEF Alone, Procs
<1>5. config' \in Configs /\ IsSequence(rows') /\ Distinct(rows')
  BY DEF RootsInv
<1> QED
  BY <1>2, <1>3, <1>4, <1>5 DEF RootsInv

\* A process that is not behind the migrations yet, or not there.
LEMMA Early ==
  ASSUME NEW r, NEW t, r.at \in {"off", "open", "migrate", "mark"},
         r.missed = {}, r.at # "off" => r.conf \in Configs
  PROVE  /\ Sound(r, t) /\ Kept(r, t)
         /\ \A q : q.at = "off" \/ (q.missed = {} /\ r.conf = q.conf) => Alone(r, q)
  BY DEF Sound, Kept, Alone, Registering

LEMMA ExitKeepsRoots ==
  ASSUME SchemaInv, RootsInv, NEW p \in Procs, Exit(p),
         UNCHANGED <<rows, config, crossed>>
  PROVE  RootsInv'
<1>1. Off.at = "off" /\ Off.missed = {}
  BY DEF Off
<1>2. \A t : Sound(Off, t) /\ Kept(Off, t)
  BY <1>1, Early
<1>3. \A q : Alone(Off, q)
  BY <1>1 DEF Alone
<1> QED
  BY <1>2, <1>3, OneMoves DEF Exit

LEMMA StartKeepsRoots ==
  ASSUME SchemaInv, RootsInv, NEW p \in Procs, Start(p)
  PROVE  RootsInv'
<1>1. PICK u : Becomes(p, [at |-> "open", conf |-> config, next |-> 0, seen |-> 0,
                           missed |-> {}, user |-> u])
  BY DEF Start
<1> DEFINE r == [at |-> "open", conf |-> config, next |-> 0, seen |-> 0,
                 missed |-> {}, user |-> u]
<1>2. r.at = "open" /\ r.conf = config /\ r.missed = {}
  OBVIOUS
<1>3. Becomes(p, r)
  BY <1>1
<1> HIDE DEF r
<1>4. UNCHANGED <<rows, config>>
  BY DEF Start, tables
<1>5. config \in Configs
  BY DEF RootsInv
<1>6. /\ Sound(r, rows) /\ Kept(r, rows)
      /\ \A q : q.at = "off" \/ (q.missed = {} /\ config = q.conf) => Alone(r, q)
  BY <1>2, <1>5, Early
<1>7. CASE p \in Servers
  <2>1. ~crossed' => ~crossed \/ \A q \in Servers : q # p => proc[q].at = "off"
    BY <1>7 DEF Start, Crosses, Beside, At
  <2>2. ASSUME ~crossed', NEW q \in Servers, q # p
        PROVE  proc[q].at = "off" \/ (proc[q].missed = {} /\ config = proc[q].conf)
    <3>1. q \notin Beside(p) => proc[q].at = "off"
      BY <2>2 DEF Beside, At
    <3>2. ~Crosses(p)
      BY <1>7, <2>2 DEF Start
    <3> QED
      BY <3>1, <3>2 DEF Crosses
  <2>3. ~crossed' => \A q \in Servers : q # p => Alone(r, proc[q])
    BY <1>6, <2>2
  <2> QED
    BY <1>3, <1>4, <1>6, <2>1, <2>3, OneMoves
<1>8. CASE p \notin Servers
  BY <1>3, <1>4, <1>8, OneMoves DEF Start
<1> QED
  BY <1>7, <1>8

\* Where a server stands, with the facts about it.
LEMMA Standing ==
  ASSUME SchemaInv, RootsInv, NEW p \in Servers
  PROVE  /\ p \in Procs /\ Placed(proc[p]) /\ Sound(proc[p], rows)
         /\ proc[p].next \in Nat
         /\ ~crossed => /\ Kept(proc[p], rows)
                        /\ \A q \in Servers : q # p => Alone(proc[p], proc[q])
<1>1. p \in Procs /\ Placed(proc[p])
  BY DEF Procs, SchemaInv
<1>2. proc[p].next \in Nat
  BY <1>1 DEF Placed
<1> QED
  BY <1>1, <1>2 DEF RootsInv

\* What a change of place and position leaves.
LEMMA PutFields ==
  ASSUME NEW r, Placed(r), NEW a, NEW n
  PROVE  /\ PutAt(r, a, n).at = a /\ PutAt(r, a, n).next = n
         /\ PutAt(r, a, n).conf = r.conf /\ PutAt(r, a, n).missed = r.missed
         /\ PutAt(r, a, n).seen = r.seen
  BY DEF Placed, PutAt

LEMMA SeenFields ==
  ASSUME NEW r, Placed(r), NEW a, NEW v
  PROVE  /\ SeenAt(r, v, a).at = a /\ SeenAt(r, v, a).next = r.next
         /\ SeenAt(r, v, a).conf = r.conf /\ SeenAt(r, v, a).missed = r.missed
         /\ SeenAt(r, v, a).seen = v
  BY DEF Placed, SeenAt

LEMMA MissedFields ==
  ASSUME NEW r, Placed(r), NEW m
  PROVE  LET q == [r EXCEPT !.missed = m] IN
         /\ q.at = r.at /\ q.next = r.next /\ q.conf = r.conf /\ q.missed = m
         /\ q.seen = r.seen
  BY DEF Placed

LEMMA GoFields ==
  ASSUME NEW r, Placed(r), NEW a
  PROVE  LET q == [r EXCEPT !.at = a] IN
         /\ q.at = a /\ q.next = r.next /\ q.conf = r.conf /\ q.missed = r.missed
         /\ q.seen = r.seen
  BY DEF Placed

\* A server goes on: it keeps its configuration and what it has missed.
LEMMA GoesOn ==
  ASSUME SchemaInv, RootsInv, NEW p \in Procs, proc[p].at # "off",
         NEW r, Becomes(p, r), UNCHANGED <<rows, config, crossed>>,
         r.conf = proc[p].conf, r.missed = proc[p].missed, r.at # "off",
         p \in Servers => Sound(r, rows),
         p \in Servers /\ ~crossed => Kept(r, rows)
  PROVE  RootsInv'
<1>1. ASSUME p \in Servers, ~crossed, NEW q \in Servers, q # p PROVE Alone(r, proc[q])
  BY <1>1, Standing DEF Alone
<1> QED
  BY <1>1, OneMoves

LEMMA EarlyGoesOn ==
  ASSUME SchemaInv, RootsInv, NEW p \in Procs, proc[p].at # "off",
         NEW r, Becomes(p, r), UNCHANGED <<rows, config, crossed>>,
         r.conf = proc[p].conf, r.missed = proc[p].missed, r.at # "off",
         p \in Servers => r.at \notin Registering
  PROVE  RootsInv'
<1>1. p \in Servers => Sound(r, rows)
  BY Standing DEF Sound, Registering
<1>2. p \in Servers => Kept(r, rows)
  BY DEF Kept, Registering
<1> QED
  BY <1>1, <1>2, GoesOn

LEMMA MigrationKeepsRoots ==
  ASSUME SchemaInv, RootsInv, NEW p \in Procs, OpenDb(p) \/ Migrate(p)
  PROVE  RootsInv'
<1>1. UNCHANGED <<rows, config, crossed>> /\ proc[p].at # "off" /\ Placed(proc[p])
  BY DEF OpenDb, Migrate, tables, world, At, SchemaInv
<1>2. Exit(p) \/ \E n : \E a \in {"migrate", Opened(p)} : Becomes(p, PutAt(proc[p], a, n))
  BY DEF OpenDb, Migrate, Step, PutAt
<1>3. CASE Exit(p)
  BY <1>1, <1>3, ExitKeepsRoots
<1>4. ASSUME NEW n, NEW a \in {"migrate", Opened(p)}, Becomes(p, PutAt(proc[p], a, n))
      PROVE  RootsInv'
  <2> DEFINE r == PutAt(proc[p], a, n)
  <2>1. r.at = a /\ r.conf = proc[p].conf /\ r.missed = proc[p].missed
    BY <1>1, PutFields
  <2>2. a # "off" /\ (p \in Servers => a \notin Registering)
    BY DEF Opened, Registering
  <2>3. Becomes(p, r)
    BY <1>4
  <2> HIDE DEF r
  <2> QED
    BY <1>1, <2>1, <2>2, <2>3, EarlyGoesOn
<1> QED
  BY <1>2, <1>3, <1>4

LEMMA AdminKeepsRoots ==
  ASSUME SchemaInv, RootsInv, NEW p \in Admins, Check(p) \/ Insert(p)
  PROVE  RootsInv'
<1>1. /\ UNCHANGED <<rows, config, crossed>> /\ proc[p].at # "off"
      /\ p \in Procs /\ p \notin Servers /\ Placed(proc[p])
  BY ConstantsOK DEF Check, Insert, tables, world, At, Procs, SchemaInv
<1>2. Exit(p) \/ GoTo(p, "insert")
  BY DEF Check, Insert
<1>3. CASE Exit(p)
  BY <1>1, <1>3, ExitKeepsRoots
<1>4. CASE GoTo(p, "insert")
  <2> DEFINE r == [proc[p] EXCEPT !.at = "insert"]
  <2>1. Becomes(p, r)
    BY <1>4 DEF GoTo
  <2>2. r.at = "insert" /\ r.conf = proc[p].conf /\ r.missed = proc[p].missed
    BY <1>1, GoFields
  <2> HIDE DEF r
  <2> QED
    BY <1>1, <2>1, <2>2, EarlyGoesOn
<1> QED
  BY <1>2, <1>3, <1>4

LEMMA MarkKeepsRoots ==
  ASSUME SchemaInv, RootsInv, NEW p \in Servers, Mark(p)
  PROVE  RootsInv'
<1>1. /\ UNCHANGED <<rows, config, crossed>> /\ proc[p].at = "mark"
      /\ p \in Procs /\ Placed(proc[p]) /\ Sound(proc[p], rows)
  BY Standing DEF Mark, world, At
<1> DEFINE r == PutAt(proc[p], "path", 1)
<1>2. Becomes(p, r)
  BY DEF Mark, Step, PutAt
<1>3. /\ r.at = "path" /\ r.conf = proc[p].conf /\ r.missed = proc[p].missed
      /\ r.next = 1
  BY <1>1, PutFields
<1> HIDE DEF r
<1>4. proc[p].conf \in Configs /\ Len(proc[p].conf) \in Nat
  BY <1>1, ConfigsOK DEF Sound, IsSequence
<1>5. Sound(r, rows)
  BY <1>1, <1>3, <1>4 DEF Sound
<1>6. Kept(r, rows)
  BY <1>3 DEF Kept, Done
<1> QED
  BY <1>1, <1>2, <1>3, <1>5, <1>6, GoesOn

\* A server at a root of its own configuration c.
LEMMA AtRoot ==
  ASSUME SchemaInv, RootsInv, NEW p \in Servers, proc[p].at \in {"path", "name", "upsert"},
         ~AllRegistered(p), NEW c, c = proc[p].conf
  PROVE  /\ c \in Configs /\ IsSequence(c) /\ Distinct(c)
         /\ proc[p].next \in 1 .. Len(c) /\ Len(c) \in Nat
         /\ DOMAIN c = 1 .. Len(c) /\ Root(p) = c[proc[p].next]
<1>1. c \in Configs /\ proc[p].next \in 1 .. Len(c) + 1 /\ proc[p].next \in Nat
  BY Standing DEF Sound, Registering
<1>2. IsSequence(c) /\ Distinct(c)
  BY <1>1, ConfigsOK
<1>3. Len(c) \in Nat /\ DOMAIN c = 1 .. Len(c)
  BY <1>2 DEF IsSequence
<1>4. proc[p].next <= Len(c)
  BY <1>1, <1>3 DEF AllRegistered
<1> QED
  BY <1>1, <1>2, <1>3, <1>4 DEF Root

\* A server that looks its root up by name or writes it is at one.
LEMMA HasRoot ==
  ASSUME SchemaInv, RootsInv, NEW p \in Servers, proc[p].at \in {"name", "upsert"}
  PROVE  ~AllRegistered(p)
<1> DEFINE c == proc[p].conf
<1>1. /\ c \in Configs /\ proc[p].next \in 1 .. Len(c) + 1
      /\ proc[p].next # Len(c) + 1 /\ proc[p].next \in Nat
  BY Standing DEF Sound, Registering
<1>2. Len(c) \in Nat
  BY <1>1, ConfigsOK DEF IsSequence
<1> QED
  BY <1>1, <1>2 DEF AllRegistered

\* One picks an element, if there is one.
LEMMA OnePicks ==
  ASSUME NEW S
  PROVE  (S = {} /\ One(S) = 0) \/ One(S) \in S
  BY DEF One

LEMMA RowsDomain ==
  ASSUME RootsInv
  PROVE  Len(rows) \in Nat /\ DOMAIN rows = 1 .. Len(rows)
  BY DEF RootsInv, IsSequence

\* A server that looks a root up.
LEMMA LookKeepsRoots ==
  ASSUME SchemaInv, RootsInv, NEW p \in Servers, NEW place \in {"path", "name"},
         proc[p].at = place, ~AllRegistered(p), NEW a \in {"name", "upsert"}, NEW v,
         v # 0 => v \in DOMAIN rows
                    /\ (rows[v].path = Root(p).path \/ rows[v].name = Root(p).name),
         v \in 0 .. Len(rows),
         Becomes(p, Saw(p, v, a)), UNCHANGED <<rows, config, crossed>>
  PROVE  RootsInv'
<1>1. /\ p \in Procs /\ Placed(proc[p]) /\ Sound(proc[p], rows)
      /\ (~crossed => Kept(proc[p], rows))
  BY Standing
<1> DEFINE c == proc[p].conf
<1>2. /\ c \in Configs /\ proc[p].next \in 1 .. Len(c)
      /\ Len(c) \in Nat /\ Root(p) = c[proc[p].next]
  BY AtRoot
<1> DEFINE r == SeenAt(proc[p], v, a)
<1>3. Becomes(p, r)
  BY DEF Saw, SeenAt
<1>4. /\ r.at = a /\ r.next = proc[p].next /\ r.conf = proc[p].conf
      /\ r.missed = proc[p].missed /\ r.seen = v
  BY <1>1, SeenFields
<1> HIDE DEF r
<1>5. Sound(r, rows)
  BY <1>1, <1>2, <1>4 DEF Sound
<1>6. ~crossed => Done(r, rows)
  BY <1>1, <1>4 DEF Kept, Done, Registering
<1>7. Fresh(r, rows)
  BY <1>2, <1>4 DEF Fresh
<1>8. ~crossed => Kept(r, rows)
  BY <1>6, <1>7 DEF Kept
<1> QED
  BY <1>1, <1>3, <1>4, <1>5, <1>8, GoesOn

LEMMA ByNameKeepsRoots ==
  ASSUME SchemaInv, RootsInv, NEW p \in Servers, ByName(p)
  PROVE  RootsInv'
<1> DEFINE S == {i \in DOMAIN rows : rows[i].name = Root(p).name}
           v == One(S)
<1>1. /\ UNCHANGED <<rows, config, crossed>> /\ proc[p].at = "name"
      /\ Becomes(p, Saw(p, v, "upsert"))
  BY DEF ByName, tables, world, At
<1>2. v = 0 \/ v \in S
  BY OnePicks
<1>3. v # 0 => v \in DOMAIN rows /\ rows[v].name = Root(p).name
  BY <1>2
<1> HIDE DEF S, v
<1>4. v \in 0 .. Len(rows)
  BY <1>3, RowsDomain
<1>5. ~AllRegistered(p)
  BY <1>1, HasRoot
<1> QED
  BY <1>1, <1>3, <1>4, <1>5, LookKeepsRoots

LEMMA PassKeepsRoots ==
  ASSUME SchemaInv, RootsInv, NEW p \in Servers, proc[p].at = "path", ~AllRegistered(p),
         Becomes(p, PassedOver(p)), UNCHANGED <<rows, config>>,
         crossed' = (crossed \/ Beside(p) # {})
  PROVE  RootsInv'
<1>1. /\ p \in Procs /\ Placed(proc[p]) /\ Sound(proc[p], rows)
      /\ (~crossed => Kept(proc[p], rows))
  BY Standing
<1> DEFINE c == proc[p].conf
<1>2. /\ c \in Configs /\ proc[p].next \in 1 .. Len(c)
      /\ Len(c) \in Nat /\ Root(p) = c[proc[p].next]
  BY AtRoot
<1> DEFINE n == proc[p].next + 1
           s == PutAt(proc[p], "path", n)
           m == s.missed \cup {Root(p)}
           r == [s EXCEPT !.missed = m]
<1>3. Becomes(p, r)
  BY DEF PassedOver, NextRoot, Step, PutAt
<1>4. n \in Nat /\ "path" \in Stages
  BY <1>2 DEF Stages
<1> HIDE DEF n
<1>5. Placed(s)
  BY <1>1, <1>4, StepPlaced
<1>6. /\ s.at = "path" /\ s.next = n /\ s.conf = proc[p].conf
      /\ s.missed = proc[p].missed
  BY <1>1, PutFields
<1> HIDE DEF s
<1>7. /\ r.at = "path" /\ r.next = n /\ r.conf = proc[p].conf
      /\ r.missed = proc[p].missed \cup {Root(p)}
  BY <1>5, <1>6, MissedFields
<1> HIDE DEF m, r
<1>8. Sound(r, rows)
  BY <1>2, <1>7 DEF Sound, n
<1>9. ASSUME ~crossed' PROVE Kept(r, rows) /\ \A q \in Servers : q # p => Alone(r, proc[q])
  <2>1. ~crossed /\ \A q \in Servers : q # p => proc[q].at = "off"
    BY <1>9 DEF At, Beside
  <2>2. Done(proc[p], rows)
    BY <1>1, <2>1 DEF Kept, Registering
  <2>3. ASSUME NEW i \in 1 .. r.next - 1
        PROVE  r.conf[i] \in r.missed \/ Registered(r.conf[i], rows)
    <3>1. CASE i = proc[p].next
      BY <1>2, <1>7, <3>1
    <3>2. CASE i # proc[p].next
      <4>1. i \in 1 .. proc[p].next - 1
        BY <1>2, <1>7, <3>2 DEF n
      <4> QED
        BY <1>7, <2>2, <4>1 DEF Done
    <3> QED
      BY <3>1, <3>2
  <2>4. Kept(r, rows)
    BY <1>7, <2>3 DEF Kept, Done
  <2> QED
    BY <2>1, <2>4 DEF Alone
<1> QED
  BY <1>1, <1>3, <1>8, <1>9, OneMoves

LEMMA ByPathKeepsRoots ==
  ASSUME SchemaInv, RootsInv, NEW p \in Servers, ByPath(p)
  PROVE  RootsInv'
<1>1. UNCHANGED <<rows, config>> /\ proc[p].at = "path"
  BY DEF ByPath, tables, At
<1>2. /\ p \in Procs /\ Placed(proc[p]) /\ Sound(proc[p], rows)
      /\ (~crossed => Kept(proc[p], rows))
  BY Standing
<1>3. CASE AllRegistered(p) /\ GoTo(p, "bind") /\ UNCHANGED crossed
  <2> DEFINE r == [proc[p] EXCEPT !.at = "bind"]
  <2>1. Becomes(p, r)
    BY <1>3 DEF GoTo
  <2>2. /\ r.at = "bind" /\ r.conf = proc[p].conf /\ r.missed = proc[p].missed
        /\ r.next = proc[p].next
    BY <1>2, GoFields
  <2> HIDE DEF r
  <2> DEFINE c == proc[p].conf
  <2>3. c \in Configs /\ Len(c) \in Nat /\ proc[p].next \in 1 .. Len(c) + 1
    BY <1>1, <1>2, ConfigsOK DEF IsSequence, Sound, Registering
  <2>4. proc[p].next = Len(c) + 1
    BY <1>3, <2>3 DEF AllRegistered
  <2>5. Sound(r, rows)
    BY <2>2, <2>3, <2>4 DEF Sound
  <2>6. ~crossed => Kept(r, rows)
    BY <1>1, <1>2, <2>2 DEF Kept, Done, Registering
  <2> QED
    BY <1>1, <1>2, <1>3, <2>1, <2>2, <2>5, <2>6, GoesOn
<1>4. CASE ~AllRegistered(p) /\ Becomes(p, PassedOver(p))
           /\ crossed' = (crossed \/ Beside(p) # {})
  BY <1>1, <1>4, PassKeepsRoots
<1>5. CASE ~AllRegistered(p) /\ UNCHANGED crossed /\
           LET id == One({i \in DOMAIN rows : rows[i].path = Root(p).path}) IN
           Becomes(p, Saw(p, id, IF id = 0 THEN "name" ELSE "upsert"))
  <2> DEFINE S == {i \in DOMAIN rows : rows[i].path = Root(p).path}
             v == One(S)
             a == IF v = 0 THEN "name" ELSE "upsert"
  <2>1. v = 0 \/ v \in S
    BY OnePicks
  <2>2. v # 0 => v \in DOMAIN rows /\ rows[v].path = Root(p).path
    BY <2>1
  <2>3. Becomes(p, Saw(p, v, a))
    BY <1>5
  <2> HIDE DEF S, v
  <2>4. v \in 0 .. Len(rows)
    BY <2>2, RowsDomain
  <2>5. a \in {"name", "upsert"}
    OBVIOUS
  <2> HIDE DEF a
  <2> QED
    BY <1>1, <1>5, <2>2, <2>3, <2>4, <2>5, LookKeepsRoots
<1> QED
  BY <1>3, <1>4, <1>5 DEF ByPath

LEMMA BindKeepsRoots ==
  ASSUME SchemaInv, RootsInv, NEW p \in Servers, Bind(p)
  PROVE  RootsInv'
<1>1. UNCHANGED <<rows, config, crossed>> /\ proc[p].at = "bind"
  BY DEF Bind, tables, world, At
<1>2. /\ p \in Procs /\ Placed(proc[p]) /\ Sound(proc[p], rows)
      /\ (~crossed => Kept(proc[p], rows))
  BY Standing
<1>3. CASE Exit(p)
  BY <1>1, <1>2, <1>3, ExitKeepsRoots
<1>4. CASE GoTo(p, "up")
  <2> DEFINE r == [proc[p] EXCEPT !.at = "up"]
  <2>1. Becomes(p, r)
    BY <1>4 DEF GoTo
  <2>2. /\ r.at = "up" /\ r.conf = proc[p].conf /\ r.missed = proc[p].missed
        /\ r.next = proc[p].next
    BY <1>2, GoFields
  <2> HIDE DEF r
  <2>3. Sound(r, rows)
    BY <1>1, <1>2, <2>2 DEF Sound, Registering
  <2>4. ~crossed => Kept(r, rows)
    BY <1>1, <1>2, <2>2 DEF Kept, Done, Registering
  <2> QED
    BY <1>1, <1>2, <2>1, <2>2, <2>3, <2>4, GoesOn
<1> QED
  BY <1>3, <1>4 DEF Bind

AsRow(root) == [name |-> root.name, path |-> root.path, enabled |-> TRUE]

\* The table t with the row of a root added, or put in the place of row id.
Written(t, id, root) ==
    IF id = 0 THEN Append(t, AsRow(root)) ELSE [t EXCEPT ![id] = AsRow(root)]

Clash(t, id, root) ==
    \E i \in DOMAIN t : i # id /\ (t[i].name = root.name \/ t[i].path = root.path)

LEMMA AsSequence ==
  ASSUME NEW S, NEW n \in Nat, NEW u \in [1 .. n -> S]
  PROVE  u \in Seq(S) /\ Len(u) = n
  OBVIOUS

LEMMA WrittenRows ==
  ASSUME NEW t, IsSequence(t), Distinct(t), NEW id \in 0 .. Len(t), NEW root,
         ~Clash(t, id, root), NEW u, u = Written(t, id, root)
  PROVE  /\ IsSequence(u) /\ Distinct(u) /\ Len(u) \in Nat /\ Len(u) >= Len(t)
         /\ DOMAIN t = 1 .. Len(t) /\ DOMAIN u = 1 .. Len(u) /\ Len(t) \in Nat
         /\ \A i \in DOMAIN t : i # id => u[i] = t[i]
         /\ Registered(root, u)
         /\ id # 0 => id \in DOMAIN t /\ u[id] = AsRow(root)
<1> DEFINE new == AsRow(root)
<1>1. new.name = root.name /\ new.path = root.path
  BY DEF AsRow
<1>2. \A i \in DOMAIN t : i # id => t[i].name # root.name /\ t[i].path # root.path
  BY DEF Clash
<1>3. t \in Seq({t[i] : i \in DOMAIN t}) /\ DOMAIN t = 1 .. Len(t) /\ Len(t) \in Nat
  BY DEF IsSequence
<1>4. CASE id = 0
  <2>1. u = Append(t, new)
    BY <1>4 DEF Written
  <2> HIDE DEF new
  <2>2. /\ Len(u) = Len(t) + 1 /\ DOMAIN u = 1 .. Len(u) /\ u[Len(u)] = new
        /\ \A i \in DOMAIN t : u[i] = t[i]
    BY <1>3, <2>1
  <2>3. u \in Seq({u[i] : i \in DOMAIN u})
    BY <1>3, <2>1, <2>2
  <2>4. ASSUME NEW i \in DOMAIN u, NEW j \in DOMAIN u, i # j
        PROVE  u[i].name # u[j].name /\ u[i].path # u[j].path
    <3>1. (i \in DOMAIN t \/ i = Len(u)) /\ (j \in DOMAIN t \/ j = Len(u))
      BY <1>3, <2>2
    <3>2. 0 \notin DOMAIN t
      BY <1>3
    <3> QED
      BY <1>1, <1>2, <1>4, <2>2, <2>4, <3>1, <3>2 DEF Distinct
  <2>5. Len(u) \in DOMAIN u
    BY <1>3, <2>2
  <2>6. Registered(root, u)
    BY <2>2, <2>5 DEF Registered, new, AsRow
  <2> QED
    BY <1>3, <1>4, <2>2, <2>3, <2>4, <2>6 DEF IsSequence, Distinct
<1>5. CASE id # 0
  <2>1. u = [t EXCEPT ![id] = new] /\ id \in DOMAIN t
    BY <1>3, <1>5 DEF Written
  <2> HIDE DEF new
  <2>2. /\ DOMAIN u = DOMAIN t /\ u[id] = new
        /\ \A i \in DOMAIN t : i # id => u[i] = t[i]
    BY <1>3, <2>1
  <2>3. u \in [1 .. Len(t) -> {u[i] : i \in DOMAIN u}]
    BY <1>3, <2>1, <2>2
  <2>4. u \in Seq({u[i] : i \in DOMAIN u}) /\ Len(u) = Len(t)
    BY <1>3, <2>3, AsSequence
  <2>5. ASSUME NEW i \in DOMAIN u, NEW j \in DOMAIN u, i # j
        PROVE  u[i].name # u[j].name /\ u[i].path # u[j].path
    BY <1>1, <1>2, <2>2, <2>5 DEF Distinct
  <2>6. Registered(root, u)
    BY <2>1, <2>2 DEF Registered, new, AsRow
  <2> QED
    BY <1>3, <1>5, <2>1, <2>2, <2>4, <2>5, <2>6 DEF IsSequence, Distinct, new
<1> QED
  BY <1>4, <1>5

\* The row of another root of the configuration is not the one that is written.
LEMMA RootStays ==
  ASSUME NEW t, IsSequence(t), Distinct(t), NEW id \in 0 .. Len(t),
         NEW c, Distinct(c), NEW n \in DOMAIN c, NEW i \in DOMAIN c,
         ~Clash(t, id, c[n]), NEW u, u = Written(t, id, c[n]),
         id # 0 => t[id].path = c[n].path \/ t[id].name = c[n].name,
         Registered(c[i], t)
  PROVE  Registered(c[i], u)
<1>1. CASE i = n
  BY <1>1, WrittenRows
<1>2. CASE i # n
  <2>1. PICK j \in DOMAIN t : t[j] = AsRow(c[i])
    BY DEF Registered, AsRow
  <2>2. t[j].name = c[i].name /\ t[j].path = c[i].path
    BY <2>1 DEF AsRow
  <2>3. c[i].name # c[n].name /\ c[i].path # c[n].path
    BY <1>2 DEF Distinct
  <2>4. j # 0
    BY WrittenRows
  <2>5. j # id
    BY <2>2, <2>3, <2>4
  <2>6. u[j] = AsRow(c[i]) /\ j \in DOMAIN u
    BY <2>1, <2>5, WrittenRows
  <2> QED
    BY <2>6 DEF Registered, AsRow
<1> QED
  BY <1>1, <1>2

\* What another server has registered, and the row it has seen, stay: both servers
\* have the same roots, and the one further on has registered those behind it.
LEMMA UpsertKeepsOther ==
  ASSUME SchemaInv, RootsInv, ~crossed, NEW p \in Servers, NEW q \in Servers, q # p,
         proc[p].at = "upsert", ~Clash(rows, proc[p].seen, Root(p)),
         NEW t, t = Written(rows, proc[p].seen, Root(p))
  PROVE  Kept(proc[q], t)
<1> SUFFICES ASSUME proc[q].at \in Registering PROVE Kept(proc[q], t)
  BY DEF Kept, Registering
<1> DEFINE id == proc[p].seen
           root == Root(p)
           c == proc[p].conf
           n == proc[p].next
           m == proc[q].next
<1>1. /\ Sound(proc[p], rows) /\ Sound(proc[q], rows)
      /\ Kept(proc[p], rows) /\ Kept(proc[q], rows)
      /\ Alone(proc[p], proc[q]) /\ id \in 0 .. Len(rows)
  BY Standing DEF Sound
<1>2. /\ proc[p].conf = c /\ proc[q].conf = c
      /\ proc[p].missed = {} /\ proc[q].missed = {}
      /\ m \in 1 .. Len(c) + 1 /\ (proc[q].at = "upsert" => m # Len(c) + 1)
  BY <1>1 DEF Sound, Alone, Registering
<1>3. ~AllRegistered(p)
  BY HasRoot
<1>4. /\ Distinct(c) /\ n \in 1 .. Len(c) /\ Len(c) \in Nat
      /\ DOMAIN c = 1 .. Len(c) /\ root = c[n]
  BY <1>3, AtRoot
<1>5. IsSequence(rows) /\ Distinct(rows)
  BY DEF RootsInv
<1>6. id # 0 => rows[id].path = root.path \/ rows[id].name = root.name
  BY <1>1, <1>2, <1>4 DEF Kept, Fresh
<1>7. Done(proc[p], rows) /\ Done(proc[q], rows)
  BY <1>1 DEF Kept, Registering
<1> HIDE DEF id, root, n, m, c
<1>8. ASSUME NEW i \in DOMAIN c, Registered(c[i], rows)
      PROVE  Registered(c[i], t)
  BY <1>1, <1>4, <1>5, <1>6, <1>8, RootStays DEF id, root
<1>9. Done(proc[q], t)
  <2>1. ASSUME NEW i \in 1 .. m - 1 PROVE Registered(c[i], t)
    <3>1. Registered(c[i], rows)
      BY <1>2, <1>7 DEF Done, m
    <3>2. i \in DOMAIN c
      BY <1>2, <1>4
    <3> QED
      BY <1>8, <3>1, <3>2
  <2> QED
    BY <1>2, <2>1 DEF Done, m
<1>10. ASSUME proc[q].at = "upsert", proc[q].seen # 0, proc[q].seen = id, n # m PROVE FALSE
  <2>1. /\ id # 0 /\ m \in DOMAIN c
        /\ (rows[id].path = c[m].path \/ rows[id].name = c[m].name)
    BY <1>1, <1>2, <1>4, <1>10 DEF Kept, Fresh, m
  <2>2. rows[id].path = c[n].path \/ rows[id].name = c[n].name
    BY <1>4, <1>6, <2>1
  <2>3. /\ c[m].path # c[n].path /\ c[m].name # c[n].name
    BY <1>4, <1>10, <2>1 DEF Distinct
  <2>4. Registered(c[n], rows) \/ Registered(c[m], rows)
    <3>1. CASE n < m
      BY <1>2, <1>4, <1>7, <3>1 DEF Done, m
    <3>2. CASE m < n
      BY <1>2, <1>4, <1>7, <3>2, <2>1 DEF Done, n
    <3> QED
      BY <1>2, <1>4, <1>10, <3>1, <3>2
  <2>5. PICK k \in {n, m} : Registered(c[k], rows)
    BY <2>4
  <2>6. PICK j \in DOMAIN rows : rows[j] = AsRow(c[k])
    BY <2>5 DEF Registered, AsRow
  <2>7. rows[j].name = c[k].name /\ rows[j].path = c[k].path
    BY <2>6 DEF AsRow
  <2>8. j # id
    BY <2>1, <2>2, <2>3, <2>7
  <2>9. id \in DOMAIN rows
    BY <1>1, <2>1, RowsDomain
  <2>10. rows[id].path # c[k].path /\ rows[id].name # c[k].name
    BY <1>5, <2>6, <2>7, <2>8, <2>9 DEF Distinct
  <2> QED
    BY <2>1, <2>2, <2>3, <2>10
<1>11. ASSUME proc[q].at = "upsert", proc[q].seen # 0
       PROVE  t[proc[q].seen].path = c[m].path \/ t[proc[q].seen].name = c[m].name
  <2> DEFINE v == proc[q].seen
  <2>1. v \in 0 .. Len(rows) /\ (rows[v].path = c[m].path \/ rows[v].name = c[m].name)
    BY <1>1, <1>2, <1>11 DEF Kept, Fresh, Sound, m
  <2>2. v \in DOMAIN rows
    BY <1>11, <2>1, RowsDomain
  <2>3. ~Clash(rows, id, root) /\ t = Written(rows, id, root)
    BY DEF id, root
  <2> HIDE DEF v
  <2>4. CASE v # id
    BY <1>1, <1>5, <2>1, <2>2, <2>3, <2>4, WrittenRows DEF v
  <2>5. CASE v = id
    <3>1. n = m /\ id # 0
      BY <1>10, <1>11, <2>5 DEF v
    <3>2. t[id] = AsRow(c[m])
      BY <1>1, <1>4, <1>5, <2>3, <3>1, WrittenRows
    <3> QED
      BY <2>5, <3>2 DEF AsRow, v
  <2> QED
    BY <2>4, <2>5 DEF v
<1>12. proc[q].at = "upsert" => Fresh(proc[q], t)
  BY <1>2, <1>11 DEF Fresh, m
<1> QED
  BY <1>9, <1>12 DEF Kept

LEMMA UpsertKeepsRoots ==
  ASSUME SchemaInv, RootsInv, NEW p \in Servers, Upsert(p)
  PROVE  RootsInv'
<1> DEFINE id == proc[p].seen
           root == Root(p)
<1>1. proc[p].at = "upsert" /\ UNCHANGED <<config, crossed>>
  BY DEF Upsert, world, At
<1>2. /\ p \in Procs /\ Placed(proc[p]) /\ Sound(proc[p], rows)
      /\ (~crossed => Kept(proc[p], rows)) /\ id \in 0 .. Len(rows)
  BY <1>1, Standing DEF Sound
<1>3. CASE Clash(rows, id, root)
  <2>1. Exit(p) /\ UNCHANGED rows
    BY <1>3 DEF Upsert, Clash
  <2> QED
    BY <1>1, <1>2, <2>1, ExitKeepsRoots
<1>4. CASE ~Clash(rows, id, root)
  <2> DEFINE t == rows'
             n == proc[p].next
             c == proc[p].conf
  <2>1. rows' = Written(rows, id, root) /\ Becomes(p, NextRoot(p))
    BY <1>4 DEF Upsert, Clash, Written, AsRow, Updated
  <2>2. ~AllRegistered(p)
    BY <1>1, HasRoot
  <2>3. /\ proc[p].conf = c /\ c \in Configs /\ Distinct(c) /\ n \in 1 .. Len(c)
        /\ Len(c) \in Nat /\ DOMAIN c = 1 .. Len(c) /\ root = c[n]
    BY <1>1, <2>2, AtRoot
  <2>4. IsSequence(rows) /\ Distinct(rows)
    BY DEF RootsInv
  <2> HIDE DEF id, root
  <2>5. /\ IsSequence(t) /\ Distinct(t) /\ Len(t) \in Nat /\ Len(t) >= Len(rows)
        /\ DOMAIN rows = 1 .. Len(rows) /\ DOMAIN t = 1 .. Len(t) /\ Len(rows) \in Nat
        /\ \A i \in DOMAIN rows : i # id => t[i] = rows[i]
        /\ Registered(root, t)
        /\ id # 0 => id \in DOMAIN rows /\ t[id] = AsRow(root)
    BY <1>2, <1>4, <2>1, <2>4, WrittenRows
  <2> HIDE DEF n, t, c
  <2>6. ~crossed => id = 0 \/ rows[id].path = root.path \/ rows[id].name = root.name
    BY <1>1, <1>2, <2>3 DEF Kept, Fresh, id, n
  <2>7. ASSUME ~crossed, NEW i \in DOMAIN c, Registered(c[i], rows)
        PROVE  Registered(c[i], t)
    BY <1>2, <1>4, <2>1, <2>3, <2>4, <2>6, <2>7, RootStays DEF t
  <2> DEFINE r == PutAt(proc[p], "path", n + 1)
  <2>8. Becomes(p, r)
    BY <2>1 DEF NextRoot, Step, PutAt, n
  <2>9. /\ r.at = "path" /\ r.next = n + 1 /\ r.conf = c
        /\ r.missed = proc[p].missed
    BY <1>2, <2>3, PutFields
  <2> HIDE DEF r
  <2>10. /\ proc'[p] = r /\ \A q \in Procs : q # p => proc'[q] = proc[q]
    BY <1>2, <2>8, Moved
  <2>11. Sound(r, t)
    BY <2>3, <2>9 DEF Sound
  <2>12. ASSUME NEW q \in Servers, q # p PROVE Sound(proc[q], t)
    BY <2>5 DEF RootsInv, Sound
  <2>13. ASSUME ~crossed PROVE Kept(r, t)
    <3>1. Done(proc[p], rows)
      BY <1>1, <1>2, <2>13 DEF Kept, Registering
    <3>2. ASSUME NEW i \in 1 .. r.next - 1
          PROVE  r.conf[i] \in r.missed \/ Registered(r.conf[i], t)
      <4>1. i \in DOMAIN c
        BY <2>3, <2>9
      <4>2. CASE i = n
        BY <2>3, <2>5, <2>9, <4>2
      <4>3. CASE i # n
        <5>1. i \in 1 .. proc[p].next - 1
          BY <2>3, <2>9, <4>3 DEF n
        <5>2. c[i] \in proc[p].missed \/ Registered(c[i], rows)
          BY <2>3, <3>1, <5>1 DEF Done
        <5> QED
          BY <2>7, <2>9, <2>13, <4>1, <5>2
      <4> QED
        BY <4>2, <4>3
    <3> QED
      BY <2>9, <3>2 DEF Kept, Done
  <2>14. ASSUME ~crossed, NEW q \in Servers, q # p PROVE Kept(proc[q], t)
    BY <1>1, <1>4, <2>1, <2>14, UpsertKeepsOther DEF t, id, root
  <2>15. \A s \in Servers : Sound(proc'[s], t)
    BY <2>10, <2>11, <2>12 DEF Procs
  <2>16. ~crossed => \A s \in Servers : Kept(proc'[s], t)
    BY <2>10, <2>13, <2>14 DEF Procs
  <2>17. ASSUME ~crossed, NEW s \in Servers, NEW q \in Servers, s # q
         PROVE  Alone(proc'[s], proc'[q])
    <3>1. Alone(proc[s], proc[q])
      BY <2>17 DEF RootsInv
    <3>2. ASSUME NEW k \in Servers
          PROVE  /\ proc'[k].missed = proc[k].missed /\ proc'[k].conf = proc[k].conf
                 /\ proc'[k].at # "off" => proc[k].at # "off"
      BY <1>1, <2>3, <2>9, <2>10 DEF Procs
    <3> QED
      BY <3>1, <3>2 DEF Alone
  <2> QED
    BY <1>1, <2>5, <2>15, <2>16, <2>17 DEF RootsInv, t
<1> QED
  BY <1>3, <1>4

LEMMA RootsStep ==
  ASSUME SchemaInv, RootsInv, [Next]_vars
  PROVE  RootsInv'
<1>1. CASE Scan \/ Mount \/ UNCHANGED vars
  <2>1. UNCHANGED <<rows, config, crossed, proc>>
    BY <1>1 DEF Scan, Mount, vars, tables, world
  <2> QED
    BY <2>1 DEF RootsInv
<1>2. CASE Edit
  BY <1>2 DEF Edit, tables, RootsInv
<1>3. CASE \E p \in Procs : Start(p) \/ OpenDb(p) \/ Migrate(p) \/ Die(p)
  <2>1. PICK p \in Procs : Start(p) \/ OpenDb(p) \/ Migrate(p) \/ Die(p)
    BY <1>3
  <2>2. CASE Die(p)
    BY <2>2, ExitKeepsRoots DEF Die, tables, world
  <2> QED
    BY <2>1, <2>2, StartKeepsRoots, MigrationKeepsRoots
<1>4. CASE \E p \in Servers : Mark(p) \/ ByPath(p) \/ ByName(p) \/ Upsert(p) \/ Bind(p)
  BY <1>4, MarkKeepsRoots, ByPathKeepsRoots, ByNameKeepsRoots, UpsertKeepsRoots,
     BindKeepsRoots
<1>5. CASE \E p \in Admins : Check(p) \/ Insert(p)
  BY <1>5, AdminKeepsRoots
<1> QED
  BY <1>1, <1>2, <1>3, <1>4, <1>5 DEF Next

\* However servers start, are refused and die at once, and whatever becomes of
\* the configuration file: no two rows share a name or a directory, and a server
\* that listens, beside servers with its own roots only since one last started
\* alone, finds every root of its configuration in the table, unless its directory
\* was gone (coordinator.rs:242).
THEOREM ListensWithItsRoots == Spec => []RootsAreRegistered
<1>1. Init => SchemaInv /\ RootsInv
  <2> SUFFICES ASSUME Init PROVE RootsInv
    BY SchemaInit
  <2>1. config \in Configs /\ \A s \in Servers : proc[s] = Off
    BY DEF Init, Procs
  <2>2. IsSequence(rows) /\ Distinct(rows)
    <3>1. IsSequence(<< >>) /\ Distinct(<< >>)
      BY DEF IsSequence, Distinct
    <3>2. rows = << >> \/ rows \in FirstRows
      BY DEF Init
    <3> QED
      BY <3>1, <3>2, FirstRowsOK
  <2>3. Off.at = "off" /\ Off.missed = {}
    BY DEF Off
  <2>4. \A t : Sound(Off, t) /\ Kept(Off, t) /\ Alone(Off, Off)
    BY <2>3, Early
  <2> QED
    BY <2>1, <2>2, <2>4 DEF RootsInv
<1>2. SchemaInv /\ RootsInv /\ [Next]_vars => (SchemaInv /\ RootsInv)'
  BY SchemaStep, RootsStep
<1>3. SchemaInv /\ RootsInv => RootsAreRegistered
  <2> SUFFICES ASSUME SchemaInv, RootsInv, NEW s \in Servers,
                      proc[s].at \in {"bind", "up"}, ~crossed,
                      NEW i \in DOMAIN proc[s].conf
               PROVE  LET r == proc[s].conf[i] IN
                      r \in proc[s].missed \/ Registered(r, rows)
    BY DEF RootsAreRegistered, InTheTable, RootsInv, Registered
  <2>1. Sound(proc[s], rows) /\ Kept(proc[s], rows)
    BY Standing
  <2> DEFINE c == proc[s].conf
  <2>2. c \in Configs /\ proc[s].next = Len(c) + 1
    BY <2>1 DEF Sound
  <2>3. Len(c) \in Nat /\ DOMAIN c = 1 .. Len(c)
    BY <2>2, ConfigsOK DEF IsSequence
  <2>4. Done(proc[s], rows)
    BY <2>1 DEF Kept, Registering
  <2>5. i \in 1 .. proc[s].next - 1
    BY <2>2, <2>3
  <2> QED
    BY <2>4, <2>5 DEF Done
<1> QED
  BY <1>1, <1>2, <1>3, PTL DEF Spec

----------------------------------------------------------------------------
(* Logins and sessions: sets of keys *)

Policies == [max : Nat \ {0}, window : Nat \ {0}]

LEMMA PoliciesOK == IpPolicy \in Policies /\ UsernamePolicy \in Policies
  BY AuthConstantsOK DEF IpPolicy, UsernamePolicy, Policies

LEMMA MinOfTwo ==
  ASSUME NEW m \in Nat, NEW n \in Nat
  PROVE  Min({m, n}) = IF m <= n THEN m ELSE n
<1>1. CASE m <= n
  BY <1>1 DEF Min
<1>2. CASE ~(m <= n)
  BY <1>2 DEF Min
<1> QED
  BY <1>1, <1>2

\* Keys are left out only if n are kept, and none of them is less.
LEMMA GreatestOK ==
  ASSUME NEW f, IsFiniteSet(DOMAIN f), NEW n \in Nat, NEW K \in Greatest(f, n)
  PROVE  /\ K \subseteq DOMAIN f /\ IsFiniteSet(K)
         /\ Cardinality(K) \in Nat /\ Cardinality(K) <= n
         /\ K # DOMAIN f => Cardinality(K) = n /\ n < Cardinality(DOMAIN f)
         /\ \A k \in K, j \in DOMAIN f \ K : f[j] <= f[k]
<1>1. K \in SUBSET DOMAIN f /\ Cardinality(K) = Min({Cardinality(DOMAIN f), n})
  BY DEF Greatest
<1>2. Cardinality(DOMAIN f) \in Nat
  BY FS_CardinalityType
<1>3. Cardinality(K) = IF Cardinality(DOMAIN f) <= n THEN Cardinality(DOMAIN f) ELSE n
  BY <1>1, <1>2, MinOfTwo
<1>4. IsFiniteSet(K) /\ (Cardinality(DOMAIN f) = Cardinality(K) => DOMAIN f = K)
  BY <1>1, FS_Subset
<1>5. \A k \in K, j \in DOMAIN f \ K : f[j] <= f[k]
  BY DEF Greatest
<1> QED
  BY <1>1, <1>2, <1>3, <1>4, <1>5

----------------------------------------------------------------------------
(* The tables *)

\* A table that holds at most n keys.
Holds(hits, keys, policy, n) ==
    /\ IsTable(hits, keys, policy)
    /\ IsFiniteSet(DOMAIN hits) /\ Cardinality(DOMAIN hits) <= n

LEMMA EvictedOK ==
  ASSUME NEW hits, NEW keys, NEW policy \in Policies, NEW t \in Nat,
         Holds(hits, keys, policy, MaxKeys), NEW i \in Evicted(hits, policy, t)
  PROVE  /\ Holds(i, keys, policy, RoomForOne)
         /\ DOMAIN i \subseteq DOMAIN hits
         /\ \A k \in DOMAIN i : i[k] = hits[k]
         /\ \A k \in DOMAIN i : t - hits[k].started < policy.window
         /\ DOMAIN Unexpired(hits, policy, t) = {k \in DOMAIN hits : t - hits[k].started < policy.window}
<1> DEFINE L == {k \in DOMAIN hits : t - hits[k].started < policy.window}
           live == Unexpired(hits, policy, t)
           begun == [k \in DOMAIN live |-> live[k].started]
<1>1. live = [k \in L |-> hits[k]]
  BY DEF Unexpired, Only
<1>2. DOMAIN live = L
  BY <1>1
<1>3. PICK K \in Greatest(begun, RoomForOne) : i = Only(live, K)
  BY DEF Evicted
<1>4. RoomForOne \in Nat
  BY AuthConstantsOK DEF RoomForOne
<1>5. DOMAIN begun = L
  BY <1>2
<1>6. IsFiniteSet(L)
  BY FS_Subset DEF Holds
<1> HIDE DEF live, begun
<1>7. K \subseteq L /\ IsFiniteSet(K) /\ Cardinality(K) <= RoomForOne
  BY <1>3, <1>4, <1>5, <1>6, GreatestOK
<1>8. DOMAIN i = K /\ \A k \in K : i[k] = hits[k]
  BY <1>1, <1>3, <1>7 DEF Only
<1>9. i = [k \in K |-> i[k]]
  BY <1>3 DEF Only
<1>10. IsTable(i, keys, policy)
  <2>1. \A k \in K : i[k] \in [started : 0 .. MaxTime, count : 1 .. policy.max]
    BY <1>7, <1>8 DEF Holds, IsTable
  <2>2. K \subseteq keys
    BY <1>7 DEF Holds, IsTable
  <2> QED
    BY <1>8, <1>9, <2>1, <2>2 DEF IsTable
<1> QED
  BY <1>2, <1>7, <1>8, <1>10 DEF Holds, live

\* The entry of a key after a hit.
HitAt(hits, key, policy, t) ==
    IF key \in DOMAIN hits /\ InWindow(hits[key], policy, t)
    THEN [hits[key] EXCEPT !.count = @ + 1] ELSE [started |-> t, count |-> 1]

LEMMA RecordOK ==
  ASSUME NEW hits, NEW keys, NEW policy \in Policies, NEW t \in 0 .. MaxTime, NEW key \in keys,
         Holds(hits, keys, policy, RoomForOne), ~Blocked(hits, key, policy, t),
         NEW r, r = Record(hits, key, policy, t)
  PROVE  /\ Holds(r, keys, policy, MaxKeys)
         /\ DOMAIN r = DOMAIN hits \cup {key}
         /\ r[key] = HitAt(hits, key, policy, t)
         /\ \A k \in DOMAIN hits \ {key} : r[k] = hits[k]
<1> DEFINE hit == HitAt(hits, key, policy, t)
<1>1. r = [k \in DOMAIN hits \cup {key} |-> IF k = key THEN hit ELSE hits[k]]
  BY DEF Record, HitAt
<1>2. hit \in [started : 0 .. MaxTime, count : 1 .. policy.max]
  <2>1. CASE key \in DOMAIN hits /\ InWindow(hits[key], policy, t)
    <3>1. hits[key] \in [started : 0 .. MaxTime, count : 1 .. policy.max]
      BY <2>1 DEF Holds, IsTable
    <3>2. hits[key].count < policy.max
      BY <2>1, <3>1 DEF Blocked, Exhausted, Policies
    <3> QED
      BY <2>1, <3>1, <3>2 DEF HitAt, Policies
  <2>2. CASE ~(key \in DOMAIN hits /\ InWindow(hits[key], policy, t))
    BY <2>2 DEF HitAt, Policies
  <2> QED
    BY <2>1, <2>2
<1> HIDE DEF hit
<1>3. IsTable(r, keys, policy)
  BY <1>1, <1>2 DEF Holds, IsTable
<1>4. IsFiniteSet(DOMAIN r) /\ Cardinality(DOMAIN r) <= MaxKeys
  <2>1. IsFiniteSet(DOMAIN hits \cup {key})
        /\ Cardinality(DOMAIN hits \cup {key}) <= Cardinality(DOMAIN hits) + 1
    BY FS_AddElement, FS_CardinalityType DEF Holds
  <2>2. Cardinality(DOMAIN hits) \in Nat /\ Cardinality(DOMAIN hits) <= MaxKeys - 1
    BY FS_CardinalityType DEF Holds, RoomForOne
  <2>3. Cardinality(DOMAIN hits \cup {key}) \in Nat
    BY <2>1, FS_CardinalityType
  <2>4. DOMAIN r = DOMAIN hits \cup {key}
    BY <1>1
  <2> QED
    BY <2>1, <2>2, <2>3, <2>4, AuthConstantsOK
<1> QED
  BY <1>1, <1>3, <1>4 DEF Holds, hit

LEMMA RoomToSpare ==
  ASSUME NEW hits, NEW keys, NEW policy, Holds(hits, keys, policy, RoomForOne)
  PROVE  Holds(hits, keys, policy, MaxKeys)
<1>1. Cardinality(DOMAIN hits) \in Nat
  BY FS_CardinalityType DEF Holds
<1> QED
  BY <1>1, AuthConstantsOK DEF Holds, RoomForOne

----------------------------------------------------------------------------
(* What an entry says of the logins L that were admitted under its key; st has *)
(* their stamps.                                                            *)

Between(L, st, t, u) == {l \in L : t <= st[l] /\ st[l] < u}

\* It counts none that was not admitted ...
Backed(hit, L, st, policy) ==
    hit.count <= Cardinality(Between(L, st, hit.started, hit.started + policy.window))

\* ... and, if stamps came in order, all that were, since one that began the
\* window; shortly before that there were fewer than the limit.
Tight(hit, L, st, policy) ==
    /\ Cardinality(Between(L, st, hit.started, hit.started + policy.window)) <= hit.count
    /\ Cardinality(Between(L, st, hit.started - policy.window + 1, hit.started)) <= policy.max - 1
    /\ \A l \in L : st[l] < hit.started + policy.window
    /\ \E l \in L : st[l] = hit.started

\* A window may begin at t.
Ready(L, st, policy, t) ==
    /\ \A l \in L : st[l] < t
    /\ Cardinality(Between(L, st, t - policy.window + 1, t)) <= policy.max - 1

\* No stretch as long as the window has twice the limit.
Calm(L, st, policy) ==
    \A t \in 0 .. MaxTime : Cardinality(Between(L, st, t, t + policy.window)) <= 2 * policy.max - 1

Stamps == [Logins -> 0 .. MaxTime]
Entries == [started : 0 .. MaxTime, count : Nat \ {0}]

LEMMA BetweenOK ==
  ASSUME NEW L, IsFiniteSet(L), NEW st, NEW t, NEW u
  PROVE  IsFiniteSet(Between(L, st, t, u)) /\ Cardinality(Between(L, st, t, u)) \in Nat
<1>1. Between(L, st, t, u) \in SUBSET L
  BY DEF Between
<1> QED
  BY <1>1, FS_Subset, FS_CardinalityType

LEMMA BetweenGrows ==
  ASSUME NEW L, IsFiniteSet(L), NEW M, IsFiniteSet(M), NEW st, NEW t, NEW u, NEW v, NEW w,
         Between(L, st, t, u) \subseteq Between(M, st, v, w)
  PROVE  Cardinality(Between(L, st, t, u)) <= Cardinality(Between(M, st, v, w))
  BY BetweenOK, FS_Subset

LEMMA OneMore ==
  ASSUME NEW L, IsFiniteSet(L), NEW st, NEW l, l \notin L, NEW t, NEW u, t <= st[l], st[l] < u
  PROVE  Cardinality(Between(L \cup {l}, st, t, u)) = Cardinality(Between(L, st, t, u)) + 1
<1>1. Between(L \cup {l}, st, t, u) = Between(L, st, t, u) \cup {l} /\ l \notin Between(L, st, t, u)
  BY DEF Between
<1> QED
  BY <1>1, BetweenOK, FS_AddElement

\* A later time is as good.
LEMMA ReadyLater ==
  ASSUME NEW L \in SUBSET Logins, IsFiniteSet(L), NEW st \in Stamps, NEW policy \in Policies,
         NEW t \in Nat, NEW u \in Nat, t <= u, Ready(L, st, policy, t)
  PROVE  Ready(L, st, policy, u)
<1>1. \A l \in L : st[l] \in Nat /\ st[l] < t
  BY DEF Ready, Stamps
<1>2. Between(L, st, u - policy.window + 1, u) \subseteq Between(L, st, t - policy.window + 1, t)
  BY <1>1 DEF Between, Policies
<1>3. Cardinality(Between(L, st, u - policy.window + 1, u))
        <= Cardinality(Between(L, st, t - policy.window + 1, t))
  BY <1>2, BetweenGrows
<1>4. \A l \in L : st[l] < u
  BY <1>1
<1>5. /\ Cardinality(Between(L, st, u - policy.window + 1, u)) \in Nat
      /\ Cardinality(Between(L, st, t - policy.window + 1, t)) \in Nat
  BY BetweenOK
<1> QED
  BY <1>3, <1>4, <1>5 DEF Ready, Policies

LEMMA ReadyWithNone ==
  ASSUME NEW st, NEW policy \in Policies, NEW t
  PROVE  Ready({}, st, policy, t)
<1>1. Between({}, st, t - policy.window + 1, t) = {}
  BY DEF Between
<1> QED
  BY <1>1, FS_EmptySet DEF Ready, Policies

\* When the window has passed, another may begin.
LEMMA ReadyWhenPassed ==
  ASSUME NEW L \in SUBSET Logins, IsFiniteSet(L), NEW st \in Stamps, NEW policy \in Policies,
         NEW hit \in Entries, hit.count <= policy.max, Tight(hit, L, st, policy),
         NEW t \in Nat, t - hit.started >= policy.window
  PROVE  Ready(L, st, policy, t)
<1> DEFINE s == hit.started
           w == policy.window
<1>1. s \in Nat /\ w \in Nat \ {0} /\ policy.max \in Nat \ {0} /\ hit.count \in Nat
  BY DEF Entries, Policies
<1>2. PICK l \in L : st[l] = s
  BY DEF Tight
<1>3. \A m \in L : st[m] \in Nat /\ st[m] < s + w
  BY DEF Tight, Stamps
<1>4. t >= s + w
  BY <1>1
<1> HIDE DEF s, w
<1>5. l \in Between(L, st, s, s + w)
  BY <1>1, <1>2 DEF Between
<1>6. Between(L, st, t - w + 1, t) \subseteq Between(L, st, s, s + w) \ {l}
  BY <1>1, <1>2, <1>3, <1>4 DEF Between
<1>7. /\ IsFiniteSet(Between(L, st, s, s + w) \ {l})
      /\ Cardinality(Between(L, st, s, s + w) \ {l}) = Cardinality(Between(L, st, s, s + w)) - 1
  BY <1>5, BetweenOK, FS_RemoveElement
<1>8. Cardinality(Between(L, st, t - w + 1, t)) <= Cardinality(Between(L, st, s, s + w)) - 1
  BY <1>6, <1>7, FS_Subset
<1>9. Cardinality(Between(L, st, s, s + w)) <= hit.count
  BY DEF Tight, s, w
<1>10. /\ Cardinality(Between(L, st, t - w + 1, t)) \in Nat
       /\ Cardinality(Between(L, st, s, s + w)) \in Nat
  BY BetweenOK
<1>11. Cardinality(Between(L, st, t - w + 1, t)) <= policy.max - 1
  BY <1>1, <1>8, <1>9, <1>10
<1>12. \A m \in L : st[m] < t
  BY <1>1, <1>3, <1>4
<1> QED
  BY <1>11, <1>12 DEF Ready, w

\* A login begins a window.
LEMMA WindowBegins ==
  ASSUME NEW L \in SUBSET Logins, IsFiniteSet(L), NEW st \in Stamps, NEW policy \in Policies,
         NEW l \in Logins \ L, Ready(L, st, policy, st[l]), Calm(L, st, policy)
  PROVE  /\ Tight([started |-> st[l], count |-> 1], L \cup {l}, st, policy)
         /\ Calm(L \cup {l}, st, policy)
<1> DEFINE s == st[l]
           w == policy.window
           M == L \cup {l}
<1>1. s \in Nat /\ w \in Nat \ {0} /\ policy.max \in Nat \ {0}
  BY DEF Stamps, Policies
<1>2. \A m \in L : st[m] \in Nat /\ st[m] < s
  BY DEF Ready, Stamps
<1>3. Cardinality(Between(L, st, s - w + 1, s)) <= policy.max - 1
  BY DEF Ready
<1>4. IsFiniteSet(M)
  BY FS_AddElement
<1>5. Cardinality(Between(M, st, s, s + w)) <= 1
  <2>1. Between(M, st, s, s + w) = {l}
    BY <1>1, <1>2 DEF Between
  <2> QED
    BY <2>1, FS_Singleton
<1>6. Between(M, st, s - w + 1, s) = Between(L, st, s - w + 1, s)
  BY <1>1, <1>2 DEF Between
<1>7. \A m \in M : st[m] < s + w
  BY <1>1, <1>2
<1>8. Tight([started |-> s, count |-> 1], M, st, policy)
  BY <1>3, <1>5, <1>6, <1>7 DEF Tight
<1>9. ASSUME NEW t \in 0 .. MaxTime
      PROVE  Cardinality(Between(M, st, t, t + w)) <= 2 * policy.max - 1
  <2>1. t \in Nat /\ Cardinality(Between(L, st, t, t + w)) <= 2 * policy.max - 1
    BY DEF Calm
  <2>2. Cardinality(Between(L, st, t, t + w)) \in Nat
        /\ Cardinality(Between(L, st, s - w + 1, s)) \in Nat
    BY BetweenOK
  <2>3. t \in Int /\ t + w \in Int /\ l \notin L /\ st[l] \in Int
    BY <1>1, <2>1
  <2>4. CASE t <= s /\ s < t + w
    <3>1. Between(L, st, t, t + w) \subseteq Between(L, st, s - w + 1, s)
      BY <1>1, <1>2, <2>1, <2>4 DEF Between
    <3>2. Cardinality(Between(L, st, t, t + w)) <= policy.max - 1
      BY <1>1, <1>3, <2>2, <3>1, BetweenGrows
    <3>3. Cardinality(Between(M, st, t, t + w)) = Cardinality(Between(L, st, t, t + w)) + 1
      BY <2>3, <2>4, OneMore
    <3> QED
      BY <1>1, <2>2, <3>2, <3>3
  <2>5. CASE ~(t <= s /\ s < t + w)
    <3>1. Between(M, st, t, t + w) = Between(L, st, t, t + w)
      BY <2>5 DEF Between
    <3> QED
      BY <2>1, <3>1
  <2> QED
    BY <2>4, <2>5
<1> QED
  BY <1>8, <1>9 DEF Calm

\* A login is counted in the window it meets.
LEMMA WindowGoesOn ==
  ASSUME NEW L \in SUBSET Logins, IsFiniteSet(L), NEW st \in Stamps, NEW policy \in Policies,
         NEW l \in Logins \ L, NEW hit \in Entries, hit.count < policy.max,
         InWindow(hit, policy, st[l]), Tight(hit, L, st, policy), Calm(L, st, policy)
  PROVE  /\ Tight([hit EXCEPT !.count = @ + 1], L \cup {l}, st, policy)
         /\ Calm(L \cup {l}, st, policy)
<1> DEFINE s == hit.started
           w == policy.window
           M == L \cup {l}
           c == hit.count
<1>1. /\ s \in Nat /\ w \in Nat \ {0} /\ policy.max \in Nat \ {0} /\ c \in Nat
      /\ st[l] \in Nat /\ s <= st[l] /\ st[l] < s + w
  BY DEF Entries, Stamps, Policies, InWindow
<1>2. \A m \in M : st[m] \in Nat /\ st[m] < s + w
  BY <1>1 DEF Tight, Stamps
<1>3. IsFiniteSet(M)
  BY FS_AddElement
<1>4. Cardinality(Between(L, st, s, s + w)) <= c
  BY DEF Tight
<1>5. Cardinality(Between(L, st, s - w + 1, s)) <= policy.max - 1
  BY DEF Tight
<1>6. Cardinality(Between(M, st, s, s + w)) <= c + 1
  <2>1. l \notin L /\ s <= st[l] /\ st[l] < s + w
    BY <1>1
  <2>2. Cardinality(Between(M, st, s, s + w)) = Cardinality(Between(L, st, s, s + w)) + 1
    <3> HIDE DEF s, w
    <3> QED
      BY <2>1, OneMore
  <2>3. Cardinality(Between(L, st, s, s + w)) \in Nat
    BY BetweenOK
  <2> QED
    BY <1>1, <1>4, <2>2, <2>3
<1>7. Between(M, st, s - w + 1, s) = Between(L, st, s - w + 1, s)
  BY <1>1 DEF Between
<1>8. \E m \in M : st[m] = s
  BY DEF Tight
<1>9. [hit EXCEPT !.count = @ + 1] = [started |-> s, count |-> c + 1]
  BY DEF Entries
<1>10. Tight([started |-> s, count |-> c + 1], M, st, policy)
  BY <1>2, <1>5, <1>6, <1>7, <1>8 DEF Tight
<1>11. ASSUME NEW t \in 0 .. MaxTime
       PROVE  Cardinality(Between(M, st, t, t + w)) <= 2 * policy.max - 1
  <2>1. t \in Nat /\ Cardinality(Between(L, st, t, t + w)) <= 2 * policy.max - 1
    BY DEF Calm
  <2>2. CASE t <= st[l] /\ st[l] < t + w
    <3> DEFINE X == Between(M, st, s - w + 1, s)
               Y == Between(M, st, s, s + w)
    <3>1. Between(M, st, t, t + w) \subseteq X \cup Y
      BY <1>1, <1>2, <2>1, <2>2 DEF Between
    <3>2. /\ IsFiniteSet(X) /\ IsFiniteSet(Y)
          /\ Cardinality(X) \in Nat /\ Cardinality(Y) \in Nat
          /\ Cardinality(Between(M, st, t, t + w)) \in Nat
      BY <1>3, BetweenOK
    <3>3. Cardinality(X) <= policy.max - 1 /\ Cardinality(Y) <= c + 1
      BY <1>5, <1>6, <1>7
    <3> HIDE DEF X, Y
    <3>4. IsFiniteSet(X \cup Y) /\ Cardinality(X \cup Y) <= Cardinality(X) + Cardinality(Y)
      <4>1. Cardinality(X \cap Y) \in Nat
        BY <3>2, FS_Subset, FS_CardinalityType
      <4>2. /\ IsFiniteSet(X \cup Y)
            /\ Cardinality(X \cup Y) = Cardinality(X) + Cardinality(Y) - Cardinality(X \cap Y)
        BY <3>2, FS_Union
      <4> QED
        BY <3>2, <4>1, <4>2
    <3>5. Cardinality(Between(M, st, t, t + w)) <= Cardinality(X \cup Y)
      BY <3>1, <3>4, FS_Subset
    <3>6. Cardinality(X \cup Y) \in Nat
      BY <3>4, FS_CardinalityType
    <3>7. c + 1 <= policy.max
      BY <1>1
    <3> QED
      BY <1>1, <3>2, <3>3, <3>4, <3>5, <3>6, <3>7
  <2>3. CASE ~(t <= st[l] /\ st[l] < t + w)
    <3>1. Between(M, st, t, t + w) = Between(L, st, t, t + w)
      BY <2>3 DEF Between
    <3> QED
      BY <2>1, <3>1
  <2> QED
    BY <2>2, <2>3
<1> QED
  BY <1>9, <1>10, <1>11 DEF Calm

----------------------------------------------------------------------------
(* A login l comes to one of the tables with its key *)

\* What a table says of the logins L[k] admitted under each key k; those of C
\* were checked.
Remembered(hits, L, st, policy) == \A k \in DOMAIN hits : Backed(hits[k], L[k], st, policy)
Exact(hits, keys, L, st, policy, C) ==
    \A k \in keys :
        /\ Calm(L[k], st, policy)
        /\ IF k \in DOMAIN hits THEN Tight(hits[k], L[k], st, policy)
           ELSE L[k] = {} \/ \E m \in C : Ready(L[k], st, policy, st[m])

\* i is left of the table by then and r in the end; M are the logins admitted
\* afterwards.
Turn(hits, keys, policy, L, M, st, l, key, i, r) ==
    /\ Holds(hits, keys, policy, MaxKeys)
    /\ L \in [keys -> SUBSET Logins] /\ M \in [keys -> SUBSET Logins]
    /\ \A k \in keys : IsFiniteSet(L[k]) /\ l \notin L[k]
    /\ key \in keys /\ i \in Evicted(hits, policy, st[l])
    /\ \/ r = i /\ M = L
       \/ /\ ~Blocked(i, key, policy, st[l]) /\ r = Record(i, key, policy, st[l])
          /\ \A k \in keys : M[k] = IF k = key THEN L[k] \cup {l} ELSE L[k]

\* The same, by entries.
Turned(keys, policy, L, M, st, l, key, i, r) ==
    \/ r = i /\ M = L
    \/ /\ ~Blocked(i, key, policy, st[l])
       /\ DOMAIN r = DOMAIN i \cup {key} /\ r[key] = HitAt(i, key, policy, st[l])
       /\ \A k \in DOMAIN i \ {key} : r[k] = i[k]
       /\ \A k \in keys : M[k] = IF k = key THEN L[k] \cup {l} ELSE L[k]

LEMMA TurnTable ==
  ASSUME NEW hits, NEW keys, NEW policy \in Policies, NEW L, NEW M, NEW st \in Stamps,
         NEW l \in Logins, NEW key, NEW i, NEW r,
         Turn(hits, keys, policy, L, M, st, l, key, i, r)
  PROVE  Holds(r, keys, policy, MaxKeys) /\ Turned(keys, policy, L, M, st, l, key, i, r)
<1>1. st[l] \in 0 .. MaxTime /\ st[l] \in Nat
  BY AuthConstantsOK DEF Stamps
<1>2. Holds(i, keys, policy, RoomForOne)
  BY <1>1, EvictedOK DEF Turn
<1>3. CASE r = i /\ M = L
  BY <1>2, <1>3, RoomToSpare DEF Turned
<1>4. CASE ~(r = i /\ M = L)
  <2>1. /\ r = Record(i, key, policy, st[l]) /\ key \in keys /\ ~Blocked(i, key, policy, st[l])
        /\ \A k \in keys : M[k] = IF k = key THEN L[k] \cup {l} ELSE L[k]
    BY <1>4 DEF Turn
  <2>2. /\ Holds(r, keys, policy, MaxKeys)
        /\ DOMAIN r = DOMAIN i \cup {key} /\ r[key] = HitAt(i, key, policy, st[l])
        /\ \A k \in DOMAIN i \ {key} : r[k] = i[k]
    BY <1>1, <1>2, <2>1, RecordOK
  <2> QED
    BY <2>1, <2>2 DEF Turned
<1> QED
  BY <1>3, <1>4

LEMMA EntryOK ==
  ASSUME NEW hits, NEW keys, NEW policy \in Policies, NEW n, Holds(hits, keys, policy, n),
         NEW k \in DOMAIN hits
  PROVE  /\ hits[k] \in Entries /\ hits[k].count <= policy.max
         /\ hits[k].started \in Nat /\ hits[k].count \in Nat \ {0} /\ k \in keys
<1>1. hits[k] \in [started : 0 .. MaxTime, count : 1 .. policy.max] /\ k \in keys
  BY DEF Holds, IsTable
<1> QED
  BY <1>1, AuthConstantsOK DEF Entries, Policies

LEMMA TurnRemembered ==
  ASSUME NEW hits, NEW keys, NEW policy \in Policies, NEW L, NEW M, NEW st \in Stamps,
         NEW l \in Logins, NEW key, NEW i, NEW r,
         Turn(hits, keys, policy, L, M, st, l, key, i, r),
         Remembered(hits, L, st, policy)
  PROVE  Remembered(r, M, st, policy)
<1> DEFINE t == st[l]
           w == policy.window
<1>1. t \in Nat /\ w \in Nat \ {0}
  BY DEF Stamps, Policies
<1>2. /\ Holds(i, keys, policy, RoomForOne) /\ DOMAIN i \subseteq DOMAIN hits
      /\ \A k \in DOMAIN i : i[k] = hits[k]
  BY <1>1, EvictedOK DEF Turn
<1>3. /\ Holds(r, keys, policy, MaxKeys)
      /\ \/ r = i /\ M = L
         \/ /\ ~Blocked(i, key, policy, t)
            /\ DOMAIN r = DOMAIN i \cup {key} /\ r[key] = HitAt(i, key, policy, t)
            /\ \A k \in DOMAIN i \ {key} : r[k] = i[k]
            /\ \A k \in keys : M[k] = IF k = key THEN L[k] \cup {l} ELSE L[k]
  <2>1. Holds(r, keys, policy, MaxKeys) /\ Turned(keys, policy, L, M, st, l, key, i, r)
    BY TurnTable
  <2> QED
    BY <2>1 DEF Turned
<1>4. ASSUME NEW k \in DOMAIN r
      PROVE  Backed(r[k], M[k], st, policy)
  <2>1. k \in keys /\ IsFiniteSet(L[k]) /\ l \notin L[k]
    BY <1>3, EntryOK DEF Turn
  <2>2. CASE k \in DOMAIN i /\ (k # key \/ (r = i /\ M = L))
    <3>1. r[k] = hits[k] /\ k \in DOMAIN hits /\ M[k] = L[k]
      BY <1>2, <1>3, <2>1, <2>2
    <3> QED
      BY <3>1 DEF Remembered
  <2>3. CASE k = key /\ ~(r = i /\ M = L)
    <3>1. M[k] = L[k] \cup {l} /\ r[k] = HitAt(i, k, policy, t)
      BY <1>3, <2>1, <2>3
    <3>2. CASE k \in DOMAIN i /\ InWindow(i[k], policy, t)
      <4>1. /\ i[k] \in Entries /\ i[k].started \in Nat /\ i[k].count \in Nat
            /\ i[k].started <= t /\ t < i[k].started + w
        <5>1. i[k] \in Entries /\ i[k].started \in Nat /\ i[k].count \in Nat
          BY <1>2, <3>2, EntryOK
        <5> QED
          BY <1>1, <3>2, <5>1 DEF InWindow
      <4>2. r[k].started = i[k].started /\ r[k].count = i[k].count + 1
        BY <3>1, <3>2, <4>1 DEF HitAt, Entries
      <4>3. Cardinality(Between(M[k], st, i[k].started, i[k].started + w))
              = Cardinality(Between(L[k], st, i[k].started, i[k].started + w)) + 1
        <5>1. i[k].started \in Int /\ i[k].started + w \in Int /\ st[l] \in Int
          BY <1>1, <4>1
        <5> HIDE DEF w
        <5> QED
          BY <2>1, <3>1, <4>1, <5>1, OneMore
      <4>4. i[k].count <= Cardinality(Between(L[k], st, i[k].started, i[k].started + w))
        BY <1>2, <3>2 DEF Remembered, Backed
      <4>5. Cardinality(Between(L[k], st, i[k].started, i[k].started + w)) \in Nat
        BY <2>1, BetweenOK
      <4> QED
        BY <4>1, <4>2, <4>3, <4>4, <4>5 DEF Backed
    <3>3. CASE ~(k \in DOMAIN i /\ InWindow(i[k], policy, t))
      <4>1. r[k] = [started |-> t, count |-> 1]
        BY <3>1, <3>3 DEF HitAt
      <4>2. IsFiniteSet(M[k])
        BY <2>1, <3>1, FS_AddElement
      <4>3. l \in Between(M[k], st, t, t + w)
        BY <1>1, <3>1 DEF Between
      <4>4. IsFiniteSet(Between(M[k], st, t, t + w)) /\ Cardinality(Between(M[k], st, t, t + w)) \in Nat
        BY <4>2, BetweenOK
      <4>5. Cardinality(Between(M[k], st, t, t + w)) # 0
        BY <4>3, <4>4, FS_EmptySet
      <4> QED
        BY <4>1, <4>4, <4>5 DEF Backed
    <3> QED
      BY <3>2, <3>3
  <2> QED
    BY <1>3, <2>2, <2>3
<1> QED
  BY <1>4 DEF Remembered

\* Before a login that comes in order begins a window, one may begin.
LEMMA TurnReady ==
  ASSUME NEW hits, NEW keys, NEW policy \in Policies, NEW L, NEW M, NEW st \in Stamps,
         NEW l \in Logins, NEW key, NEW i, NEW r, NEW C \in SUBSET Logins,
         Turn(hits, keys, policy, L, M, st, l, key, i, r),
         Exact(hits, keys, L, st, policy, C), \A m \in C : st[m] <= st[l],
         DOMAIN i = DOMAIN Unexpired(hits, policy, st[l]),
         NEW k \in keys, k \notin DOMAIN i
  PROVE  Ready(L[k], st, policy, st[l])
<1>1. st[l] \in Nat /\ L[k] \in SUBSET Logins /\ IsFiniteSet(L[k])
  BY DEF Stamps, Turn
<1>2. CASE k \in DOMAIN hits
  <2>1. ~(st[l] - hits[k].started < policy.window)
    <3>1. DOMAIN Unexpired(hits, policy, st[l])
            = {j \in DOMAIN hits : st[l] - hits[j].started < policy.window}
      BY <1>1, EvictedOK DEF Turn
    <3> QED
      BY <1>2, <3>1
  <2>2. hits[k] \in Entries /\ hits[k].count <= policy.max /\ hits[k].started \in Nat
    BY <1>2, EntryOK DEF Turn
  <2>3. st[l] - hits[k].started >= policy.window
    BY <1>1, <2>1, <2>2 DEF Policies
  <2>4. Tight(hits[k], L[k], st, policy)
    BY <1>2 DEF Exact
  <2> QED
    BY <1>1, <2>2, <2>3, <2>4, ReadyWhenPassed
<1>3. CASE k \notin DOMAIN hits /\ L[k] = {}
  BY <1>3, ReadyWithNone
<1>4. CASE k \notin DOMAIN hits /\ L[k] # {}
  <2>1. PICK m \in C : Ready(L[k], st, policy, st[m])
    BY <1>4 DEF Exact
  <2>2. st[m] \in Nat /\ st[m] <= st[l]
    BY DEF Stamps
  <2> QED
    BY <1>1, <2>1, <2>2, ReadyLater
<1> QED
  BY <1>2, <1>3, <1>4

LEMMA TurnExact ==
  ASSUME NEW hits, NEW keys, NEW policy \in Policies, NEW L, NEW M, NEW st \in Stamps,
         NEW l \in Logins, NEW key, NEW i, NEW r, NEW C \in SUBSET Logins,
         Turn(hits, keys, policy, L, M, st, l, key, i, r),
         Exact(hits, keys, L, st, policy, C), \A m \in C : st[m] <= st[l],
         \A k \in keys : L[k] \subseteq C,
         DOMAIN i = DOMAIN Unexpired(hits, policy, st[l])
  PROVE  Exact(r, keys, M, st, policy, C \cup {l})
<1> DEFINE t == st[l]
<1>1. t \in Nat
  BY DEF Stamps
<1>2. /\ Holds(i, keys, policy, RoomForOne) /\ DOMAIN i \subseteq DOMAIN hits
      /\ \A k \in DOMAIN i : i[k] = hits[k]
      /\ \A k \in DOMAIN i : t - i[k].started < policy.window
  <2>1. /\ Holds(i, keys, policy, RoomForOne) /\ DOMAIN i \subseteq DOMAIN hits
        /\ \A k \in DOMAIN i : i[k] = hits[k]
        /\ \A k \in DOMAIN i : t - hits[k].started < policy.window
    BY <1>1, EvictedOK DEF Turn
  <2> QED
    BY <2>1
<1>3. /\ Holds(r, keys, policy, MaxKeys)
      /\ \/ r = i /\ M = L
         \/ /\ ~Blocked(i, key, policy, t)
            /\ DOMAIN r = DOMAIN i \cup {key} /\ r[key] = HitAt(i, key, policy, t)
            /\ \A k \in DOMAIN i \ {key} : r[k] = i[k]
            /\ \A k \in keys : M[k] = IF k = key THEN L[k] \cup {l} ELSE L[k]
  <2>1. Holds(r, keys, policy, MaxKeys) /\ Turned(keys, policy, L, M, st, l, key, i, r)
    BY TurnTable
  <2> QED
    BY <2>1 DEF Turned
<1>4. ASSUME NEW k \in keys
      PROVE  /\ Calm(M[k], st, policy)
             /\ IF k \in DOMAIN r THEN Tight(r[k], M[k], st, policy)
                ELSE M[k] = {} \/ \E m \in C \cup {l} : Ready(M[k], st, policy, st[m])
  <2>1. /\ L[k] \in SUBSET Logins /\ IsFiniteSet(L[k]) /\ l \in Logins \ L[k]
        /\ Calm(L[k], st, policy)
    BY DEF Turn, Exact
  <2>2. CASE k # key \/ (r = i /\ M = L)
    <3>1. M[k] = L[k]
      BY <1>3, <2>2
    <3>2. CASE k \in DOMAIN i
      <4>1. Tight(i[k], L[k], st, policy)
        BY <1>2, <3>2 DEF Exact
      <4> QED
        BY <1>3, <2>1, <2>2, <3>1, <3>2, <4>1
    <3>3. CASE k \notin DOMAIN i
      <4>1. k \notin DOMAIN r
        BY <1>3, <2>2, <3>3
      <4>2. Ready(M[k], st, policy, st[l])
        BY <3>1, <3>3, TurnReady
      <4> QED
        BY <2>1, <3>1, <4>1, <4>2
    <3> QED
      BY <3>2, <3>3
  <2>3. CASE k = key /\ ~(r = i /\ M = L)
    <3>1. M[k] = L[k] \cup {l} /\ k \in DOMAIN r /\ r[k] = HitAt(i, k, policy, t)
      BY <1>3, <2>3 DEF Turn
    <3>2. CASE k \in DOMAIN i /\ InWindow(i[k], policy, t)
      <4>1. i[k] \in Entries /\ i[k].count \in Nat
        BY <1>2, <3>2, EntryOK
      <4>2. i[k].count < policy.max
        BY <1>3, <2>3, <3>2, <4>1 DEF Blocked, Exhausted, Policies
      <4>3. Tight(i[k], L[k], st, policy)
        BY <1>2, <3>2 DEF Exact
      <4>4. /\ Tight([i[k] EXCEPT !.count = @ + 1], L[k] \cup {l}, st, policy)
            /\ Calm(L[k] \cup {l}, st, policy)
        BY <2>1, <3>2, <4>1, <4>2, <4>3, WindowGoesOn
      <4>5. r[k] = [i[k] EXCEPT !.count = @ + 1]
        BY <3>1, <3>2 DEF HitAt
      <4> QED
        BY <3>1, <4>4, <4>5
    <3>3. CASE ~(k \in DOMAIN i /\ InWindow(i[k], policy, t))
      <4>1. k \notin DOMAIN i
        <5> SUFFICES ASSUME k \in DOMAIN i
                     PROVE  FALSE
          OBVIOUS
        <5>1. i[k].started \in Nat
          BY <1>2, EntryOK
        <5>2. i[k].started > t
          BY <1>1, <1>2, <3>3, <5>1 DEF InWindow
        <5>3. PICK m \in L[k] : st[m] = i[k].started
          BY <1>2 DEF Exact, Tight
        <5>4. st[m] <= t /\ st[m] \in Nat
          BY <2>1 DEF Stamps
        <5> QED
          BY <1>1, <5>1, <5>2, <5>3, <5>4
      <4>2. Ready(L[k], st, policy, st[l])
        BY <4>1, TurnReady
      <4>3. /\ Tight([started |-> st[l], count |-> 1], L[k] \cup {l}, st, policy)
            /\ Calm(L[k] \cup {l}, st, policy)
        BY <2>1, <4>2, WindowBegins
      <4>4. r[k] = [started |-> t, count |-> 1]
        BY <3>1, <3>3 DEF HitAt
      <4> QED
        BY <3>1, <4>3, <4>4
    <3> QED
      BY <3>2, <3>3
  <2> QED
    BY <2>2, <2>3
<1> QED
  BY <1>4 DEF Exact

----------------------------------------------------------------------------
(* The gate: both tables, and the logins that came to them *)

LoginRecs == [at : Phases, source : Sources \cup {None}, name : Usernames \cup {None},
              stamp : 0 .. MaxTime, admitted : BOOLEAN, verdict : {"none", "right", "wrong"}]

St == [l \in Logins |-> login[l].stamp]
UnderSource == [k \in Sources |-> FromSource(k)]
UnderName == [k \in Usernames |-> WithName(k)]

\* Who was admitted has been checked, under a source and a name.
Roll ==
    /\ login \in [Logins -> LoginRecs]
    /\ \A l \in Logins :
         /\ login[l].admitted => l \in Checked
         /\ login[l].at # "new" => login[l].source \in Sources /\ login[l].name \in Usernames
    /\ IsFiniteSet(Admitted)

Tables ==
    /\ Holds(ips, Sources, IpPolicy, MaxKeys)
    /\ Holds(usernames, Usernames, UsernamePolicy, MaxKeys)

Memory ==
    /\ Remembered(ips, UnderSource, St, IpPolicy)
    /\ Remembered(usernames, UnderName, St, UsernamePolicy)

Orderly ==
    ~lapsed => /\ Exact(ips, Sources, UnderSource, St, IpPolicy, Checked)
               /\ Exact(usernames, Usernames, UnderName, St, UsernamePolicy, Checked)

GateInv == Roll /\ Tables /\ Memory /\ Orderly

LEMMA RollOK ==
  ASSUME Roll
  PROVE  /\ St \in Stamps /\ Checked \in SUBSET Logins
         /\ UnderSource \in [Sources -> SUBSET Logins] /\ UnderName \in [Usernames -> SUBSET Logins]
         /\ \A k \in Sources : UnderSource[k] \subseteq Checked /\ IsFiniteSet(UnderSource[k])
         /\ \A k \in Usernames : UnderName[k] \subseteq Checked /\ IsFiniteSet(UnderName[k])
<1>1. St \in Stamps
  BY DEF Roll, LoginRecs, St, Stamps
<1>2. Checked \in SUBSET Logins /\ Admitted \subseteq Checked
  BY DEF Roll, Checked, Admitted
<1>3. ASSUME NEW S \in SUBSET Admitted
      PROVE  IsFiniteSet(S)
  BY FS_Subset DEF Roll
<1>4. \A k \in Sources : UnderSource[k] = FromSource(k) /\ FromSource(k) \in SUBSET Admitted
  BY DEF UnderSource, FromSource
<1>5. \A k \in Usernames : UnderName[k] = WithName(k) /\ WithName(k) \in SUBSET Admitted
  BY DEF UnderName, WithName
<1> QED
  BY <1>1, <1>2, <1>3, <1>4, <1>5 DEF UnderSource, UnderName

\* A step after which all that the tables speak of is as before.
Steady ==
    /\ login' \in [Logins -> LoginRecs]
    /\ \A l \in Logins :
         /\ login'[l].source = login[l].source /\ login'[l].name = login[l].name
         /\ login'[l].stamp = login[l].stamp /\ login'[l].admitted = login[l].admitted
         /\ login'[l].at \in {"new", "check"} <=> login[l].at \in {"new", "check"}
         /\ login[l].at = "new" => login'[l].at = "new"
    /\ UNCHANGED gate

LEMMA SteadyKeeps ==
  ASSUME GateInv, Steady
  PROVE  GateInv'
<1>1. St' = St
  BY DEF St, Steady
<1>2. Checked' = Checked
  BY DEF Checked, Steady
<1>3. Admitted' = Admitted
  BY DEF Admitted, Steady
<1>4. \A k : FromSource(k)' = FromSource(k) /\ WithName(k)' = WithName(k)
  BY <1>3 DEF FromSource, WithName, Admitted, Steady
<1>5. UnderSource' = UnderSource /\ UnderName' = UnderName
  BY <1>4 DEF UnderSource, UnderName
<1>6. ips' = ips /\ usernames' = usernames /\ lapsed' = lapsed
  BY DEF Steady, gate
<1>7. Roll'
  <2>1. \A l \in Logins : login'[l].admitted => l \in Checked'
    BY <1>2 DEF GateInv, Roll, Steady
  <2>2. \A l \in Logins : login'[l].at # "new" =>
          login'[l].source \in Sources /\ login'[l].name \in Usernames
    <3> SUFFICES ASSUME NEW l \in Logins, login'[l].at # "new"
                 PROVE  login'[l].source \in Sources /\ login'[l].name \in Usernames
      OBVIOUS
    <3>1. login[l].at # "new"
      BY DEF Steady
    <3> QED
      BY <3>1 DEF Steady, GateInv, Roll
  <2> QED
    BY <1>3, <2>1, <2>2 DEF GateInv, Roll, Steady
<1>8. Tables'
  BY <1>6 DEF GateInv, Tables
<1>9. Memory'
  BY <1>1, <1>5, <1>6 DEF GateInv, Memory
<1>10. Orderly'
  BY <1>1, <1>2, <1>5, <1>6 DEF GateInv, Orderly
<1> QED
  BY <1>7, <1>8, <1>9, <1>10 DEF GateInv

\* Only the stamps of L matter.
LEMMA SameStamps ==
  ASSUME NEW L, NEW p, NEW q, \A l \in L : p[l] = q[l], NEW policy
  PROVE  /\ \A hit : Backed(hit, L, p, policy) => Backed(hit, L, q, policy)
         /\ \A hit : Tight(hit, L, p, policy) => Tight(hit, L, q, policy)
         /\ \A t : Ready(L, p, policy, t) => Ready(L, q, policy, t)
         /\ Calm(L, p, policy) => Calm(L, q, policy)
<1>1. \A t, u : Between(L, p, t, u) = Between(L, q, t, u)
  BY DEF Between
<1> QED
  BY <1>1 DEF Backed, Tight, Ready, Calm

LEMMA SameStampsTable ==
  ASSUME NEW hits, NEW keys, NEW L, NEW C, NEW p, NEW q, NEW policy,
         DOMAIN hits \subseteq keys,
         \A m \in C : p[m] = q[m], \A k \in keys : L[k] \subseteq C
  PROVE  /\ Remembered(hits, L, p, policy) => Remembered(hits, L, q, policy)
         /\ Exact(hits, keys, L, p, policy, C) => Exact(hits, keys, L, q, policy, C)
<1>1. \A k \in keys : /\ \A hit : Backed(hit, L[k], p, policy) => Backed(hit, L[k], q, policy)
                      /\ \A hit : Tight(hit, L[k], p, policy) => Tight(hit, L[k], q, policy)
                      /\ \A t : Ready(L[k], p, policy, t) => Ready(L[k], q, policy, t)
                      /\ Calm(L[k], p, policy) => Calm(L[k], q, policy)
  BY SameStamps
<1>2. Remembered(hits, L, p, policy) => Remembered(hits, L, q, policy)
  BY <1>1 DEF Remembered
<1>3. Exact(hits, keys, L, p, policy, C) => Exact(hits, keys, L, q, policy, C)
  BY <1>1 DEF Exact
<1> QED
  BY <1>2, <1>3

LEMMA ArriveKeeps ==
  ASSUME GateInv, now \in 0 .. MaxTime, NEW l \in Logins, Arrive(l)
  PROVE  GateInv'
<1>1. PICK key \in Keys[l] :
        login' = [login EXCEPT ![l].at = "check", ![l].source = key[1],
                               ![l].name = key[2], ![l].stamp = now]
  BY DEF Arrive
<1>2. login \in [Logins -> LoginRecs] /\ login[l] \in LoginRecs
  BY DEF GateInv, Roll
<1>3. key[1] \in Sources /\ key[2] \in Usernames
  BY AuthConstantsOK
<1>4. /\ DOMAIN login' = Logins /\ \A m \in Logins : m # l => login'[m] = login[m]
      /\ login'[l].at = "check" /\ login'[l].source = key[1] /\ login'[l].name = key[2]
      /\ login'[l].admitted = login[l].admitted
      /\ login'[l] \in LoginRecs /\ login' = [m \in Logins |-> login'[m]]
  BY <1>1, <1>2, <1>3 DEF LoginRecs, Phases
<1>5. ~login[l].admitted /\ l \notin Checked
  BY DEF Arrive, GateInv, Roll, Checked
<1>6. ips' = ips /\ usernames' = usernames /\ lapsed' = lapsed
  BY DEF Arrive, gate
<1>7. Checked' = Checked
  BY <1>4, <1>5 DEF Checked
<1>8. Admitted' = Admitted
  BY <1>4, <1>5 DEF Admitted
<1>9. \A k : FromSource(k)' = FromSource(k) /\ WithName(k)' = WithName(k)
  BY <1>4, <1>5, <1>8 DEF FromSource, WithName, Admitted
<1>10. UnderSource' = UnderSource /\ UnderName' = UnderName
  BY <1>9 DEF UnderSource, UnderName
<1>11. \A m \in Checked : St[m] = St'[m]
  BY <1>4, <1>5 DEF St, Checked
<1>12. Roll'
  <2>1. login' \in [Logins -> LoginRecs]
    BY <1>2, <1>4
  <2>2. \A m \in Logins :
          /\ login'[m].admitted => m \in Checked'
          /\ login'[m].at # "new" => login'[m].source \in Sources /\ login'[m].name \in Usernames
    BY <1>3, <1>4, <1>5, <1>7 DEF GateInv, Roll
  <2> QED
    BY <1>8, <2>1, <2>2 DEF GateInv, Roll
<1>13. Tables'
  BY <1>6 DEF GateInv, Tables
<1>14. DOMAIN ips \subseteq Sources /\ DOMAIN usernames \subseteq Usernames
  BY DEF GateInv, Tables, Holds, IsTable
<1>15. /\ \A k \in Sources : UnderSource[k] \subseteq Checked
       /\ \A k \in Usernames : UnderName[k] \subseteq Checked
  BY RollOK DEF GateInv
<1>16. /\ Remembered(ips, UnderSource, St', IpPolicy)
       /\ ~lapsed => Exact(ips, Sources, UnderSource, St', IpPolicy, Checked)
  BY <1>11, <1>14, <1>15, SameStampsTable DEF GateInv, Memory, Orderly
<1>17. /\ Remembered(usernames, UnderName, St', UsernamePolicy)
       /\ ~lapsed => Exact(usernames, Usernames, UnderName, St', UsernamePolicy, Checked)
  BY <1>11, <1>14, <1>15, SameStampsTable DEF GateInv, Memory, Orderly
<1>18. Memory' /\ Orderly'
  BY <1>6, <1>7, <1>10, <1>16, <1>17 DEF Memory, Orderly
<1> QED
  BY <1>12, <1>13, <1>18 DEF GateInv

LEMMA CheckKeeps ==
  ASSUME GateInv, NEW l \in Logins, CheckLimits(l)
  PROVE  GateInv'
<1> DEFINE s == login[l].source
           n == login[l].name
           t == login[l].stamp
<1>1. PICK i \in Evicted(ips, IpPolicy, t), u \in Evicted(usernames, UsernamePolicy, t) :
        LET blocked == Blocked(i, s, IpPolicy, t) \/ Blocked(u, n, UsernamePolicy, t)
        IN /\ ips' = Counted(blocked, i, s, IpPolicy, t)
           /\ usernames' = Counted(blocked, u, n, UsernamePolicy, t)
           /\ login' = [login EXCEPT ![l].at = IF blocked THEN "ended" ELSE "lookup",
                                     ![l].admitted = ~blocked]
           /\ lapsed' = (\/ lapsed \/ \E m \in Checked : t < login[m].stamp
                         \/ DOMAIN i # DOMAIN Unexpired(ips, IpPolicy, t)
                         \/ DOMAIN u # DOMAIN Unexpired(usernames, UsernamePolicy, t))
  BY DEF CheckLimits
<1>2. /\ login \in [Logins -> LoginRecs] /\ login[l] \in LoginRecs /\ login[l].at = "check"
      /\ s \in Sources /\ n \in Usernames
  BY DEF GateInv, Roll, CheckLimits
<1>3. St[l] = t /\ l \notin Checked /\ ~login[l].admitted
  BY <1>2 DEF St, Checked, GateInv, Roll
<1>4. \/ /\ ips' = i /\ usernames' = u
         /\ login' = [login EXCEPT ![l].at = "ended", ![l].admitted = FALSE]
      \/ /\ ~Blocked(i, s, IpPolicy, t) /\ ips' = Record(i, s, IpPolicy, t)
         /\ ~Blocked(u, n, UsernamePolicy, t) /\ usernames' = Record(u, n, UsernamePolicy, t)
         /\ login' = [login EXCEPT ![l].at = "lookup", ![l].admitted = TRUE]
  <2>1. CASE Blocked(i, s, IpPolicy, t) \/ Blocked(u, n, UsernamePolicy, t)
    BY <1>1, <2>1 DEF Counted
  <2>2. CASE ~(Blocked(i, s, IpPolicy, t) \/ Blocked(u, n, UsernamePolicy, t))
    BY <1>1, <2>2 DEF Counted
  <2> QED
    BY <2>1, <2>2
<1>5. /\ DOMAIN login' = Logins /\ \A m \in Logins : m # l => login'[m] = login[m]
      /\ login'[l].at \in {"ended", "lookup"} /\ login'[l].source = s /\ login'[l].name = n
      /\ login'[l].stamp = t
      /\ login'[l] \in LoginRecs /\ login' = [m \in Logins |-> login'[m]]
  BY <1>2, <1>4 DEF LoginRecs, Phases
<1>6. Checked' = Checked \cup {l}
  BY <1>5 DEF Checked
<1>7. St' = St
  BY <1>5 DEF St
<1>8. \/ Admitted' = Admitted /\ UnderSource' = UnderSource /\ UnderName' = UnderName
         /\ ips' = i /\ usernames' = u
      \/ /\ Admitted' = Admitted \cup {l}
         /\ ~Blocked(i, s, IpPolicy, t) /\ ips' = Record(i, s, IpPolicy, t)
         /\ ~Blocked(u, n, UsernamePolicy, t) /\ usernames' = Record(u, n, UsernamePolicy, t)
         /\ \A k \in Sources : UnderSource'[k] = IF k = s THEN UnderSource[k] \cup {l} ELSE UnderSource[k]
         /\ \A k \in Usernames : UnderName'[k] = IF k = n THEN UnderName[k] \cup {l} ELSE UnderName[k]
  <2>1. CASE login' = [login EXCEPT ![l].at = "ended", ![l].admitted = FALSE]
             /\ ips' = i /\ usernames' = u
    <3>1. Admitted' = Admitted
      BY <1>2, <1>3, <1>5, <2>1 DEF Admitted, LoginRecs
    <3>2. \A k : FromSource(k)' = FromSource(k) /\ WithName(k)' = WithName(k)
      BY <1>5, <3>1 DEF FromSource, WithName, Admitted
    <3> QED
      BY <2>1, <3>1, <3>2 DEF UnderSource, UnderName
  <2>2. CASE /\ ~Blocked(i, s, IpPolicy, t) /\ ips' = Record(i, s, IpPolicy, t)
             /\ ~Blocked(u, n, UsernamePolicy, t) /\ usernames' = Record(u, n, UsernamePolicy, t)
             /\ login' = [login EXCEPT ![l].at = "lookup", ![l].admitted = TRUE]
    <3>0. login'[l].admitted
      BY <1>2, <2>2 DEF LoginRecs
    <3>1. Admitted' = Admitted \cup {l}
      BY <1>5, <3>0 DEF Admitted
    <3>2. \A k : FromSource(k)' = IF k = s THEN FromSource(k) \cup {l} ELSE FromSource(k)
      BY <1>5, <3>1 DEF FromSource, Admitted
    <3>3. \A k : WithName(k)' = IF k = n THEN WithName(k) \cup {l} ELSE WithName(k)
      BY <1>5, <3>1 DEF WithName, Admitted
    <3> QED
      BY <2>2, <3>1, <3>2, <3>3 DEF UnderSource, UnderName
  <2> QED
    BY <1>4, <2>1, <2>2
<1>9. /\ St \in Stamps /\ Checked \in SUBSET Logins
      /\ UnderSource \in [Sources -> SUBSET Logins] /\ UnderName \in [Usernames -> SUBSET Logins]
      /\ \A k \in Sources : UnderSource[k] \subseteq Checked /\ IsFiniteSet(UnderSource[k])
      /\ \A k \in Usernames : UnderName[k] \subseteq Checked /\ IsFiniteSet(UnderName[k])
  BY RollOK DEF GateInv
<1>10. IsFiniteSet(Admitted')
  BY <1>8, FS_AddElement DEF GateInv, Roll
<1>11. Roll'
  <2>1. login' \in [Logins -> LoginRecs]
    BY <1>2, <1>5
  <2>2. \A m \in Logins :
          /\ login'[m].admitted => m \in Checked'
          /\ login'[m].at # "new" => login'[m].source \in Sources /\ login'[m].name \in Usernames
    BY <1>2, <1>5, <1>6 DEF GateInv, Roll
  <2> QED
    BY <1>10, <2>1, <2>2 DEF Roll
<1>12. UnderSource' \in [Sources -> SUBSET Logins] /\ UnderName' \in [Usernames -> SUBSET Logins]
  <2>1. \A k : FromSource(k)' \in SUBSET Logins /\ WithName(k)' \in SUBSET Logins
    BY DEF FromSource, WithName, Admitted
  <2> QED
    BY <2>1 DEF UnderSource, UnderName
<1>13. Turn(ips, Sources, IpPolicy, UnderSource, UnderSource', St, l, s, i, ips')
  BY <1>1, <1>2, <1>3, <1>8, <1>9, <1>12 DEF Turn, GateInv, Tables
<1>14. Turn(usernames, Usernames, UsernamePolicy, UnderName, UnderName', St, l, n, u, usernames')
  BY <1>1, <1>2, <1>3, <1>8, <1>9, <1>12 DEF Turn, GateInv, Tables
<1>15. Tables'
  BY <1>9, <1>13, <1>14, TurnTable, PoliciesOK DEF Tables
<1>16. Memory'
  <2>1. Remembered(ips', UnderSource', St, IpPolicy)
    BY <1>9, <1>13, TurnRemembered, PoliciesOK DEF GateInv, Memory
  <2>2. Remembered(usernames', UnderName', St, UsernamePolicy)
    BY <1>9, <1>14, TurnRemembered, PoliciesOK DEF GateInv, Memory
  <2> QED
    BY <1>7, <2>1, <2>2 DEF Memory
<1>17. Orderly'
  <2> SUFFICES ASSUME ~lapsed'
               PROVE  /\ Exact(ips', Sources, UnderSource', St', IpPolicy, Checked')
                      /\ Exact(usernames', Usernames, UnderName', St', UsernamePolicy, Checked')
    BY DEF Orderly
  <2>1. /\ ~lapsed /\ ~\E m \in Checked : t < login[m].stamp
        /\ DOMAIN i = DOMAIN Unexpired(ips, IpPolicy, t)
        /\ DOMAIN u = DOMAIN Unexpired(usernames, UsernamePolicy, t)
    BY <1>1
  <2>2. \A m \in Checked : St[m] <= St[l]
    <3> SUFFICES ASSUME NEW m \in Checked
                 PROVE  St[m] <= St[l]
      OBVIOUS
    <3>1. m \in Logins /\ St[m] = login[m].stamp /\ St[m] \in 0 .. MaxTime /\ St[l] \in 0 .. MaxTime
      BY <1>9 DEF St, Stamps
    <3> QED
      BY <1>3, <2>1, <3>1
  <2>3. Exact(ips', Sources, UnderSource', St, IpPolicy, Checked \cup {l})
    <3>1. Exact(ips, Sources, UnderSource, St, IpPolicy, Checked)
      BY <2>1 DEF GateInv, Orderly
    <3> QED
      BY <1>3, <1>9, <1>13, <2>1, <2>2, <3>1, TurnExact, PoliciesOK
  <2>4. Exact(usernames', Usernames, UnderName', St, UsernamePolicy, Checked \cup {l})
    <3>1. Exact(usernames, Usernames, UnderName, St, UsernamePolicy, Checked)
      BY <2>1 DEF GateInv, Orderly
    <3> QED
      BY <1>3, <1>9, <1>14, <2>1, <2>2, <3>1, TurnExact, PoliciesOK
  <2> QED
    BY <1>6, <1>7, <2>3, <2>4
<1> QED
  BY <1>11, <1>15, <1>16, <1>17 DEF GateInv

----------------------------------------------------------------------------
(* What a refusal shows *)

\* An entry that blocks a login stands for as many that were admitted near it.
LEMMA BlockedForCause ==
  ASSUME NEW hits, NEW keys, NEW policy \in Policies, Holds(hits, keys, policy, MaxKeys),
         NEW L, IsFiniteSet(L), NEW t \in 0 .. MaxTime, NEW k, NEW i \in Evicted(hits, policy, t),
         k \in DOMAIN hits => Backed(hits[k], L, St, policy),
         L \subseteq Logins, Roll, Blocked(i, k, policy, t)
  PROVE  Cardinality(Near(L, t, policy.window)) >= policy.max
<1>1. t \in Nat /\ policy.window \in Nat \ {0} /\ policy.max \in Nat \ {0}
  BY AuthConstantsOK DEF Policies
<1>2. /\ k \in DOMAIN i /\ k \in DOMAIN hits /\ i[k] = hits[k]
      /\ InWindow(i[k], policy, t) /\ Exhausted(i[k].count, policy)
  <2>1. k \in DOMAIN i /\ InWindow(i[k], policy, t) /\ Exhausted(i[k].count, policy)
    BY DEF Blocked
  <2>2. DOMAIN i \subseteq DOMAIN hits /\ \A j \in DOMAIN i : i[j] = hits[j]
    BY <1>1, EvictedOK
  <2> QED
    BY <2>1, <2>2
<1>3. hits[k] \in Entries /\ hits[k].started \in Nat /\ hits[k].count \in Nat
  BY <1>2, EntryOK
<1>4. \A l \in L : St[l] = login[l].stamp /\ St[l] \in Nat
  BY RollOK DEF St, Stamps
<1>5. Between(L, St, hits[k].started, hits[k].started + policy.window)
        \subseteq Near(L, t, policy.window)
  BY <1>1, <1>2, <1>3, <1>4 DEF Between, Near, InWindow
<1>6. IsFiniteSet(Near(L, t, policy.window)) /\ Cardinality(Near(L, t, policy.window)) \in Nat
  <2>1. Near(L, t, policy.window) \in SUBSET L
    BY DEF Near
  <2> QED
    BY <2>1, FS_Subset, FS_CardinalityType
<1>7. Cardinality(Between(L, St, hits[k].started, hits[k].started + policy.window))
        <= Cardinality(Near(L, t, policy.window))
  BY <1>5, <1>6, FS_Subset
<1>8. hits[k].count <= Cardinality(Between(L, St, hits[k].started, hits[k].started + policy.window))
  BY <1>2 DEF Backed
<1>9. hits[k].count >= policy.max
  BY <1>2 DEF Exhausted
<1>10. Cardinality(Between(L, St, hits[k].started, hits[k].started + policy.window)) \in Nat
  BY BetweenOK
<1> QED
  BY <1>1, <1>3, <1>6, <1>7, <1>8, <1>9, <1>10

LEMMA RefusalHasCause ==
  ASSUME GateInv, NEW l \in Logins, CheckLimits(l), login'[l].at = "ended"
  PROVE  LET r == login[l] IN
         \/ Cardinality(Near(FromSource(r.source), r.stamp, IpWindow)) >= IpMax
         \/ Cardinality(Near(WithName(r.name), r.stamp, UsernameWindow)) >= UsernameMax
<1> DEFINE s == login[l].source
           n == login[l].name
           t == login[l].stamp
<1>1. PICK i \in Evicted(ips, IpPolicy, t), u \in Evicted(usernames, UsernamePolicy, t) :
        login' = [login EXCEPT
                    ![l].at = IF Blocked(i, s, IpPolicy, t) \/ Blocked(u, n, UsernamePolicy, t)
                              THEN "ended" ELSE "lookup",
                    ![l].admitted = ~(Blocked(i, s, IpPolicy, t) \/ Blocked(u, n, UsernamePolicy, t))]
  BY DEF CheckLimits
<1>2. login \in [Logins -> LoginRecs] /\ login[l] \in LoginRecs /\ t \in 0 .. MaxTime
      /\ s \in Sources /\ n \in Usernames
  BY DEF GateInv, Roll, CheckLimits, LoginRecs
<1>3. Blocked(i, s, IpPolicy, t) \/ Blocked(u, n, UsernamePolicy, t)
  <2> SUFFICES ASSUME ~(Blocked(i, s, IpPolicy, t) \/ Blocked(u, n, UsernamePolicy, t))
               PROVE  FALSE
    OBVIOUS
  <2>1. login' = [login EXCEPT ![l].at = "lookup", ![l].admitted = TRUE]
    BY <1>1
  <2>2. login'[l].at = "lookup"
    BY <1>2, <2>1 DEF LoginRecs
  <2> QED
    BY <2>2
<1>4. /\ \A k \in Sources : UnderSource[k] = FromSource(k) /\ UnderSource[k] \subseteq Logins
                            /\ IsFiniteSet(UnderSource[k])
      /\ \A k \in Usernames : UnderName[k] = WithName(k) /\ UnderName[k] \subseteq Logins
                              /\ IsFiniteSet(UnderName[k])
  BY RollOK DEF GateInv, UnderSource, UnderName
<1>5. CASE Blocked(i, s, IpPolicy, t)
  <2>1. s \in DOMAIN ips => Backed(ips[s], UnderSource[s], St, IpPolicy)
    BY DEF GateInv, Memory, Remembered
  <2>2. Cardinality(Near(UnderSource[s], t, IpPolicy.window)) >= IpPolicy.max
    BY <1>2, <1>4, <1>5, <2>1, BlockedForCause, PoliciesOK DEF GateInv, Tables
  <2> QED
    BY <1>2, <1>4, <2>2 DEF IpPolicy
<1>6. CASE Blocked(u, n, UsernamePolicy, t)
  <2>1. n \in DOMAIN usernames => Backed(usernames[n], UnderName[n], St, UsernamePolicy)
    BY DEF GateInv, Memory, Remembered
  <2>2. Cardinality(Near(UnderName[n], t, UsernamePolicy.window)) >= UsernamePolicy.max
    BY <1>2, <1>4, <1>6, <2>1, BlockedForCause, PoliciesOK DEF GateInv, Tables
  <2> QED
    BY <1>2, <1>4, <2>2 DEF UsernamePolicy
<1> QED
  BY <1>3, <1>5, <1>6

\* While stamps come in order and keys are dropped when they expired only, no
\* stretch has twice the limit.
LEMMA StretchesLimited ==
  ASSUME GateInv
  PROVE  WindowLimit
<1> SUFFICES ASSUME ~lapsed
             PROVE  /\ \A k \in Sources : AtMost(FromSource(k), IpPolicy)
                    /\ \A k \in Usernames : AtMost(WithName(k), UsernamePolicy)
  BY DEF WindowLimit
<1>1. /\ \A k \in Sources : Calm(UnderSource[k], St, IpPolicy) /\ UnderSource[k] \subseteq Logins
      /\ \A k \in Usernames : Calm(UnderName[k], St, UsernamePolicy) /\ UnderName[k] \subseteq Logins
  BY RollOK DEF GateInv, Orderly, Exact
<1>2. ASSUME NEW L, L \subseteq Logins, NEW policy, Calm(L, St, policy)
      PROVE  AtMost(L, policy)
  <2>1. \A t : Between(L, St, t, t + policy.window)
                 = {l \in L : t <= login[l].stamp /\ login[l].stamp < t + policy.window}
    BY <1>2 DEF Between, St
  <2> QED
    BY <1>2, <2>1 DEF Calm, AtMost
<1>3. /\ \A k \in Sources : UnderSource[k] = FromSource(k)
      /\ \A k \in Usernames : UnderName[k] = WithName(k)
  BY DEF UnderSource, UnderName
<1> QED
  BY <1>1, <1>2, <1>3

----------------------------------------------------------------------------
(* Sessions, the verification thread and logouts *)

SessionsOK ==
    /\ DOMAIN sessions \subseteq Logins /\ sessions \in [DOMAIN sessions -> Nat]
    /\ IsFiniteSet(DOMAIN sessions) /\ Cardinality(DOMAIN sessions) <= MaxActiveSessions
    /\ \A s \in DOMAIN sessions : sessions[s] <= now + Lifetime

PoolOK ==
    /\ thread \in BOOLEAN
    /\ jobs \in Seq(Logins) /\ Len(jobs) <= Channel
    /\ running \in Logins \cup {None}

LogoutRecs == [at : {"new", "revoke", "ended"}, token : Logins \cup {None}]
LogoutsOK == logout \in [Logouts -> LogoutRecs]

AuthInv ==
    /\ now \in 0 .. MaxTime /\ lapsed \in BOOLEAN
    /\ GateInv /\ PoolOK /\ SessionsOK /\ LogoutsOK

LEMMA OnlyOK ==
  ASSUME NEW f, NEW K \in SUBSET DOMAIN f
  PROVE  DOMAIN Only(f, K) = K /\ \A k \in K : Only(f, K)[k] = f[k]
  BY DEF Only

\* Fewer sessions are as good, and so is a later time.
LEMMA FewerSessions ==
  ASSUME SessionsOK, now \in Nat, now' \in Nat, now <= now', NEW K \in SUBSET DOMAIN sessions,
         sessions' = Only(sessions, K)
  PROVE  SessionsOK'
<1>1. DOMAIN sessions' = K /\ \A k \in K : sessions'[k] = sessions[k]
  BY OnlyOK
<1>2. sessions' \in [K -> Nat]
  BY <1>1 DEF Only, SessionsOK
<1>3. /\ IsFiniteSet(K) /\ Cardinality(K) <= Cardinality(DOMAIN sessions)
      /\ Cardinality(K) \in Nat /\ Cardinality(DOMAIN sessions) \in Nat
  BY FS_Subset, FS_CardinalityType DEF SessionsOK
<1>4. \A k \in K : sessions'[k] <= now' + Lifetime
  <2> SUFFICES ASSUME NEW k \in K
               PROVE  sessions'[k] <= now' + Lifetime
    OBVIOUS
  <2>1. sessions[k] \in Nat /\ sessions[k] <= now + Lifetime /\ sessions'[k] = sessions[k]
    BY <1>1 DEF SessionsOK
  <2> QED
    BY <2>1, AuthConstantsOK
<1> QED
  BY <1>1, <1>2, <1>3, <1>4, AuthConstantsOK DEF SessionsOK

LEMMA SameSessions ==
  ASSUME SessionsOK, now \in Nat, now' \in Nat, now <= now', sessions' = sessions
  PROVE  SessionsOK'
<1>1. sessions' = Only(sessions, DOMAIN sessions)
  BY DEF SessionsOK, Only
<1> QED
  BY <1>1, FewerSessions

\* The kept sessions leave room for the new one.
LEMMA InsertBounded ==
  ASSUME SessionsOK, now \in Nat, now' = now, NEW l \in Logins,
         NEW K \in KeepNewest(sessions, KeepBefore),
         sessions' = [s \in K \cup {l} |-> IF s = l THEN now + Lifetime ELSE sessions[s]]
  PROVE  SessionsOK'
<1>1. KeepBefore \in Nat /\ MaxActiveSessions \in Nat \ {0} /\ Lifetime \in Nat
  BY AuthConstantsOK DEF KeepBefore
<1>2. K \subseteq DOMAIN sessions /\ IsFiniteSet(K) /\ Cardinality(K) \in Nat /\ Cardinality(K) <= KeepBefore
  BY <1>1, GreatestOK DEF SessionsOK, KeepNewest
<1>3. /\ IsFiniteSet(K \cup {l}) /\ Cardinality(K \cup {l}) \in Nat
      /\ Cardinality(K \cup {l}) <= Cardinality(K) + 1
  <2>1. /\ IsFiniteSet(K \cup {l})
        /\ Cardinality(K \cup {l}) = IF l \in K THEN Cardinality(K) ELSE Cardinality(K) + 1
    BY <1>2, FS_AddElement
  <2> QED
    BY <1>2, <2>1
<1>4. \A s \in K \cup {l} : sessions'[s] \in Nat /\ sessions'[s] <= now + Lifetime
  BY <1>1, <1>2 DEF SessionsOK
<1>5. DOMAIN sessions' = K \cup {l} /\ sessions' = [s \in K \cup {l} |-> sessions'[s]]
  OBVIOUS
<1> QED
  BY <1>1, <1>2, <1>3, <1>4, <1>5 DEF SessionsOK, KeepBefore

----------------------------------------------------------------------------
(* Moves of a login that its tables do not see *)

LEMMA GotoSteady ==
  ASSUME Roll, NEW l \in Logins, NEW at \in Phases \ {"new", "check"},
         login[l].at \notin {"new", "check"}, Goto(l, at), UNCHANGED gate
  PROVE  Steady
<1>1. login \in [Logins -> LoginRecs] /\ login[l] \in LoginRecs
  BY DEF Roll
<1>2. /\ DOMAIN login' = Logins /\ \A m \in Logins : m # l => login'[m] = login[m]
      /\ login'[l] = [login[l] EXCEPT !.at = at] /\ login' = [m \in Logins |-> login'[m]]
  BY <1>1 DEF Goto
<1>3. /\ login'[l] \in LoginRecs /\ login'[l].at = at
      /\ login'[l].source = login[l].source /\ login'[l].name = login[l].name
      /\ login'[l].stamp = login[l].stamp /\ login'[l].admitted = login[l].admitted
  BY <1>1, <1>2 DEF LoginRecs
<1> QED
  BY <1>1, <1>2, <1>3 DEF Steady

LEMMA VerdictSteady ==
  ASSUME Roll, NEW l \in Logins, NEW v \in {"none", "right", "wrong"}, NEW at \in Phases,
         login' = [login EXCEPT ![l].at = at, ![l].verdict = v],
         at = login[l].at \/ (login[l].at = "wait" /\ at \notin {"new", "check"}), UNCHANGED gate
  PROVE  Steady
<1>1. login \in [Logins -> LoginRecs] /\ login[l] \in LoginRecs
  BY DEF Roll
<1>2. /\ DOMAIN login' = Logins /\ \A m \in Logins : m # l => login'[m] = login[m]
      /\ login'[l] = [login[l] EXCEPT !.at = at, !.verdict = v]
      /\ login' = [m \in Logins |-> login'[m]]
  BY <1>1
<1>3. /\ login'[l] \in LoginRecs /\ login'[l].at = at
      /\ login'[l].source = login[l].source /\ login'[l].name = login[l].name
      /\ login'[l].stamp = login[l].stamp /\ login'[l].admitted = login[l].admitted
  BY <1>1, <1>2 DEF LoginRecs
<1> QED
  BY <1>1, <1>2, <1>3 DEF Steady

LEMMA SameLogins ==
  ASSUME Roll, login' = login, UNCHANGED gate
  PROVE  Steady
  BY DEF Roll, Steady

----------------------------------------------------------------------------
(* Every step *)

LEMMA AuthNextKeeps ==
  ASSUME AuthInv, AuthNext
  PROVE  AuthInv'
<1> USE DEF AuthInv
<1>0. now \in Nat /\ Roll
  BY AuthConstantsOK DEF GateInv
<1>1. ASSUME NEW l \in Logins, Arrive(l)
      PROVE  AuthInv'
  <2>1. GateInv'
    BY <1>1, ArriveKeeps
  <2>2. UNCHANGED <<now, lapsed, thread, jobs, running, sessions, logout>>
    BY <1>1 DEF Arrive, gate, pool
  <2>3. SessionsOK'
    BY <1>0, <2>2, SameSessions
  <2> QED
    BY <2>1, <2>2, <2>3 DEF PoolOK, LogoutsOK
<1>2. ASSUME NEW l \in Logins, CheckLimits(l)
      PROVE  AuthInv'
  <2>1. GateInv'
    BY <1>2, CheckKeeps
  <2>2. UNCHANGED <<now, thread, jobs, running, sessions, logout>>
    BY <1>2 DEF CheckLimits, pool
  <2>3. SessionsOK'
    BY <1>0, <2>2, SameSessions
  <2>4. lapsed' \in BOOLEAN
    BY <1>2 DEF CheckLimits
  <2> QED
    BY <2>1, <2>2, <2>3, <2>4 DEF PoolOK, LogoutsOK
<1>3. ASSUME NEW l \in Logins, Submit(l)
      PROVE  AuthInv'
  <2>1. UNCHANGED <<now, gate, thread, running, sessions, logout>> /\ lapsed' = lapsed
    BY <1>3 DEF Submit, gate
  <2>2. Goto(l, "wait") \/ Goto(l, "ended")
    BY <1>3 DEF Submit
  <2>3. Steady
    <3>1. login[l].at = "lookup"
      BY <1>3 DEF Submit
    <3> QED
      BY <1>0, <2>1, <2>2, <3>1, GotoSteady DEF Phases
  <2>4. GateInv'
    BY <2>3, SteadyKeeps
  <2>5. jobs' = jobs \/ (Len(jobs) < Channel /\ jobs' = Append(jobs, l))
    BY <1>3 DEF Submit
  <2>6. PoolOK'
    <3>1. Channel \in Nat
      BY AuthConstantsOK DEF Channel
    <3>2. jobs' \in Seq(Logins) /\ Len(jobs') <= Channel
      BY <2>5, <3>1 DEF PoolOK
    <3> QED
      BY <2>1, <3>2 DEF PoolOK
  <2>7. SessionsOK'
    BY <1>0, <2>1, SameSessions
  <2> QED
    BY <2>1, <2>4, <2>6, <2>7 DEF LogoutsOK
<1>4. ASSUME NEW l \in Logins, Receive(l)
      PROVE  AuthInv'
  <2>1. UNCHANGED <<now, gate, thread, jobs, running, sessions, logout>> /\ lapsed' = lapsed
    BY <1>4 DEF Receive, gate, pool
  <2>2. Steady
    <3> DEFINE at == IF login[l].verdict = "right" THEN "purge" ELSE "ended"
    <3>1. login' = [login EXCEPT ![l].at = at, ![l].verdict = "none"] /\ login[l].at = "wait"
      BY <1>4 DEF Receive
    <3>2. at \in Phases /\ at \notin {"new", "check"}
      BY DEF Phases
    <3> HIDE DEF at
    <3> QED
      BY <1>0, <2>1, <3>1, <3>2, VerdictSteady
  <2>3. GateInv'
    BY <2>2, SteadyKeeps
  <2>4. SessionsOK'
    BY <1>0, <2>1, SameSessions
  <2> QED
    BY <2>1, <2>3, <2>4 DEF PoolOK, LogoutsOK
<1>5. ASSUME NEW l \in Logins, Purge(l)
      PROVE  AuthInv'
  <2>1. UNCHANGED <<now, gate, thread, jobs, running, logout>> /\ lapsed' = lapsed
    BY <1>5 DEF Purge, gate, pool
  <2>2. Steady
    <3>1. login[l].at = "purge" /\ (Goto(l, "insert") \/ Goto(l, "ended"))
      BY <1>5 DEF Purge
    <3> QED
      BY <1>0, <2>1, <3>1, GotoSteady DEF Phases
  <2>3. GateInv'
    BY <2>2, SteadyKeeps
  <2>4. SessionsOK'
    <3>1. CASE sessions' = Only(sessions, {s \in DOMAIN sessions : sessions[s] > now})
      BY <1>0, <2>1, <3>1, FewerSessions
    <3>2. CASE sessions' = sessions
      BY <1>0, <2>1, <3>2, SameSessions
    <3> QED
      BY <1>5, <3>1, <3>2 DEF Purge
  <2> QED
    BY <2>1, <2>3, <2>4 DEF PoolOK, LogoutsOK
<1>6. ASSUME NEW l \in Logins, InsertSession(l)
      PROVE  AuthInv'
  <2>1. UNCHANGED <<now, gate, thread, jobs, running, logout>> /\ lapsed' = lapsed
    BY <1>6 DEF InsertSession, gate, pool
  <2>2. Steady
    <3>1. login[l].at = "insert" /\ Goto(l, "ended")
      BY <1>6 DEF InsertSession
    <3> QED
      BY <1>0, <2>1, <3>1, GotoSteady DEF Phases
  <2>3. GateInv'
    BY <2>2, SteadyKeeps
  <2>4. SessionsOK'
    <3>1. CASE sessions' = sessions
      BY <1>0, <2>1, <3>1, SameSessions
    <3>2. CASE sessions' # sessions
      BY <1>0, <1>6, <2>1, <3>2, InsertBounded DEF InsertSession
    <3> QED
      BY <3>1, <3>2
  <2> QED
    BY <2>1, <2>3, <2>4 DEF PoolOK, LogoutsOK
<1>7. ASSUME NEW l \in Logins, Leave(l)
      PROVE  AuthInv'
  <2>1. UNCHANGED <<now, gate, thread, jobs, running, sessions, logout>> /\ lapsed' = lapsed
    BY <1>7 DEF Leave, gate, pool
  <2>2. Steady
    <3>1. login[l].at \notin {"new", "check"} /\ Goto(l, "ended")
      BY <1>7 DEF Leave
    <3> QED
      BY <1>0, <2>1, <3>1, GotoSteady DEF Phases
  <2>3. GateInv'
    BY <2>2, SteadyKeeps
  <2>4. SessionsOK'
    BY <1>0, <2>1, SameSessions
  <2> QED
    BY <2>1, <2>3, <2>4 DEF PoolOK, LogoutsOK
<1>8. CASE Take
  <2>1. UNCHANGED <<now, gate, login, thread, sessions, logout>> /\ lapsed' = lapsed
    BY <1>8 DEF Take, gate
  <2>2. GateInv'
    BY <1>0, <2>1, SameLogins, SteadyKeeps
  <2>3. SessionsOK'
    BY <1>0, <2>1, SameSessions
  <2>4. PoolOK'
    <3>1. jobs # <<>> /\ running' = Head(jobs) /\ jobs' = Tail(jobs)
      BY <1>8 DEF Take
    <3>2. running' \in Logins /\ jobs' \in Seq(Logins) /\ Len(jobs') = Len(jobs) - 1 /\ Len(jobs) \in Nat
      BY <3>1 DEF PoolOK
    <3>3. Channel \in Nat
      BY AuthConstantsOK DEF Channel
    <3> QED
      BY <2>1, <3>2, <3>3 DEF PoolOK
  <2> QED
    BY <2>1, <2>2, <2>3, <2>4 DEF LogoutsOK
<1>9. CASE Verify
  <2>1. UNCHANGED <<now, gate, thread, jobs, sessions, logout>> /\ lapsed' = lapsed
    BY <1>9 DEF Verify, gate
  <2>2. running \in Logins /\ running' = None
    BY <1>9 DEF Verify, PoolOK
  <2>3. PICK v \in {"right", "wrong"} : login' = [login EXCEPT ![running].verdict = v]
    BY <1>9 DEF Verify
  <2>4. Steady
    <3>1. login[running] \in LoginRecs /\ login \in [Logins -> LoginRecs]
      BY <1>0, <2>2 DEF Roll
    <3>2. login[running].at \in Phases
      BY <3>1 DEF LoginRecs
    <3>3. login' = [login EXCEPT ![running].at = login[running].at, ![running].verdict = v]
      BY <2>2, <2>3, <3>1 DEF LoginRecs
    <3> QED
      BY <1>0, <2>1, <2>2, <3>2, <3>3, VerdictSteady
  <2>5. GateInv'
    BY <2>4, SteadyKeeps
  <2>6. SessionsOK'
    BY <1>0, <2>1, SameSessions
  <2> QED
    BY <2>1, <2>2, <2>5, <2>6 DEF PoolOK, LogoutsOK
<1>10. ASSUME NEW o \in Logouts, Authenticate(o)
       PROVE  AuthInv'
  <2>1. UNCHANGED <<now, gate, login, thread, jobs, running, sessions>> /\ lapsed' = lapsed
    BY <1>10 DEF Authenticate, gate, pool
  <2>2. GateInv'
    BY <1>0, <2>1, SameLogins, SteadyKeeps
  <2>3. SessionsOK'
    BY <1>0, <2>1, SameSessions
  <2>4. LogoutsOK'
    <3>1. PICK s \in DOMAIN sessions : logout' = [logout EXCEPT ![o] = [at |-> "revoke", token |-> s]]
      BY <1>10 DEF Authenticate
    <3>2. [at |-> "revoke", token |-> s] \in LogoutRecs
      BY DEF SessionsOK, LogoutRecs
    <3> QED
      BY <3>1, <3>2 DEF LogoutsOK
  <2> QED
    BY <2>1, <2>2, <2>3, <2>4 DEF PoolOK
<1>11. ASSUME NEW o \in Logouts, Revoke(o)
       PROVE  AuthInv'
  <2>1. UNCHANGED <<now, gate, login, thread, jobs, running>> /\ lapsed' = lapsed
    BY <1>11 DEF Revoke, gate, pool
  <2>2. GateInv'
    BY <1>0, <2>1, SameLogins, SteadyKeeps
  <2>3. SessionsOK'
    <3>1. CASE sessions' = Only(sessions, DOMAIN sessions \ {logout[o].token})
      BY <1>0, <2>1, <3>1, FewerSessions
    <3>2. CASE sessions' = sessions
      BY <1>0, <2>1, <3>2, SameSessions
    <3> QED
      BY <1>11, <3>1, <3>2 DEF Revoke
  <2>4. LogoutsOK'
    <3>1. logout' = [logout EXCEPT ![o].at = "ended"]
      BY <1>11 DEF Revoke
    <3> QED
      BY <3>1 DEF LogoutsOK, LogoutRecs
  <2> QED
    BY <2>1, <2>2, <2>3, <2>4 DEF PoolOK
<1>12. CASE Tick
  <2>1. UNCHANGED <<gate, login, thread, jobs, running, sessions, logout>> /\ lapsed' = lapsed
    BY <1>12 DEF Tick, gate, pool
  <2>2. now' \in 0 .. MaxTime /\ now' \in Nat /\ now <= now'
    BY <1>0, <1>12, AuthConstantsOK DEF Tick
  <2>3. GateInv'
    BY <1>0, <2>1, SameLogins, SteadyKeeps
  <2>4. SessionsOK'
    BY <1>0, <2>1, <2>2, SameSessions
  <2> QED
    BY <2>1, <2>2, <2>3, <2>4 DEF PoolOK, LogoutsOK
<1> QED
  BY <1>1, <1>2, <1>3, <1>4, <1>5, <1>6, <1>7, <1>8, <1>9, <1>10, <1>11, <1>12 DEF AuthNext, Handle

----------------------------------------------------------------------------
(* What holds of logins and sessions *)

LEMMA AuthInvInit ==
  ASSUME AuthInit
  PROVE  AuthInv
<1>1. /\ now = 0 /\ ips = <<>> /\ usernames = <<>> /\ sessions = <<>> /\ lapsed = FALSE
      /\ jobs = <<>> /\ running = None /\ thread \in BOOLEAN
      /\ \A l \in Logins : /\ login[l].at = "new" /\ ~login[l].admitted /\ login[l].stamp = 0
      /\ logout = [o \in Logouts |-> [at |-> "new", token |-> None]]
  BY DEF AuthInit
<1>2. now \in 0 .. MaxTime /\ login \in [Logins -> LoginRecs]
  BY AuthConstantsOK DEF AuthInit, LoginRecs, Phases
<1>3. Admitted = {} /\ Checked = {} /\ IsFiniteSet(Admitted)
  BY <1>1, FS_EmptySet DEF Admitted, Checked
<1>4. Roll
  BY <1>1, <1>2, <1>3 DEF Roll
<1>5. \A keys, policy : Holds(<<>>, keys, policy, MaxKeys)
  <2>1. DOMAIN <<>> = {} /\ \A S : <<>> \in [{} -> S]
    OBVIOUS
  <2> QED
    BY <2>1, FS_EmptySet, AuthConstantsOK DEF Holds, IsTable
<1>6. Tables
  BY <1>1, <1>5 DEF Tables
<1>7. /\ \A k \in Sources : UnderSource[k] = {}
      /\ \A k \in Usernames : UnderName[k] = {}
  BY <1>3 DEF UnderSource, UnderName, FromSource, WithName
<1>8. Memory
  BY <1>1 DEF Memory, Remembered
<1>9. Orderly
  <2>1. ASSUME NEW policy \in Policies
        PROVE  Calm({}, St, policy)
    <3>1. \A t : Between({}, St, t, t + policy.window) = {}
      BY DEF Between
    <3>2. 0 <= 2 * policy.max - 1
      BY DEF Policies
    <3> QED
      BY <3>1, <3>2, FS_EmptySet DEF Calm
  <2>2. DOMAIN ips = {} /\ DOMAIN usernames = {}
    BY <1>1
  <2> QED
    BY <1>7, <2>1, <2>2, PoliciesOK DEF Orderly, Exact
<1>10. PoolOK
  BY <1>1, AuthConstantsOK DEF PoolOK, Channel
<1>11. SessionsOK
  <2>1. DOMAIN <<>> = {} /\ <<>> \in [{} -> Nat]
    OBVIOUS
  <2> QED
    BY <1>1, <2>1, FS_EmptySet, AuthConstantsOK DEF SessionsOK
<1>12. LogoutsOK
  BY <1>1 DEF LogoutsOK, LogoutRecs
<1> QED
  BY <1>1, <1>2, <1>4, <1>6, <1>8, <1>9, <1>10, <1>11, <1>12 DEF AuthInv, GateInv

LEMMA AuthStutters ==
  ASSUME AuthInv, UNCHANGED authVars
  PROVE  AuthInv'
<1>1. UNCHANGED <<now, ips, usernames, lapsed, login, thread, jobs, running, sessions, logout>>
  BY DEF authVars, gate, pool
<1>2. GateInv'
  BY <1>1, SameLogins, SteadyKeeps DEF AuthInv, GateInv, gate
<1>3. SessionsOK'
  BY <1>1 DEF AuthInv, SessionsOK
<1> QED
  BY <1>1, <1>2, <1>3 DEF AuthInv, PoolOK, LogoutsOK

LEMMA AuthInvariant == AuthSpec => []AuthInv
  BY AuthInvInit, AuthNextKeeps, AuthStutters, PTL DEF AuthSpec

LEMMA LimitsHold ==
  ASSUME AuthInv
  PROVE  WithinLimits
<1>1. TypeOK
  <2>1. IsTable(ips, Sources, IpPolicy) /\ IsTable(usernames, Usernames, UsernamePolicy)
    BY DEF AuthInv, GateInv, Tables, Holds
  <2> QED
    BY <2>1 DEF TypeOK, AuthInv, GateInv, Roll, LoginRecs, PoolOK, SessionsOK, LogoutsOK, LogoutRecs
<1>2. GateBounded
  <2>1. Len(jobs) <= VerifyInflight - 1 /\ Len(jobs) \in Nat /\ VerifyInflight \in Nat
    BY AuthConstantsOK DEF AuthInv, PoolOK, Channel
  <2> QED
    BY <2>1 DEF GateBounded, AuthInv, GateInv, Tables, Holds
<1>3. WindowLimit
  BY StretchesLimited DEF AuthInv
<1> QED
  BY <1>1, <1>2, <1>3 DEF WithinLimits, AuthInv, SessionsOK

\* Every limit holds in every interleaving (rate_limit.rs:1-3, session.rs:95): keys
\* and verifications in flight, sessions, and, while stamps came in order and no
\* live key was dropped, fewer than twice the limit in any stretch of a window.
THEOREM LimitsAreKept == AuthSpec => []WithinLimits
  BY LimitsHold, AuthInvariant, PTL

LEMMA RefusedStep ==
  ASSUME AuthInv, [AuthNext]_authVars, NEW l \in Logins, login[l].at = "check", login'[l].at = "ended"
  PROVE  CheckLimits(l)
<1>1. login \in [Logins -> LoginRecs] /\ login' # login
  BY DEF AuthInv, GateInv, Roll
<1>2. ASSUME NEW m \in Logins, m # l, login'[l] # login[l],
             Arrive(m) \/ Handle(m) \/ Leave(m)
      PROVE  FALSE
  <2>1. \A r : [login EXCEPT ![m] = r][l] = login[l]
    BY <1>1, <1>2
  <2> QED
    BY <1>1, <1>2 DEF Arrive, Handle, CheckLimits, Submit, Receive, Purge, InsertSession, Leave, Goto
<1>3. login'[l] # login[l]
  OBVIOUS
<1>4. ~Arrive(l) /\ ~Submit(l) /\ ~Receive(l) /\ ~Purge(l) /\ ~InsertSession(l) /\ ~Leave(l)
  BY DEF Arrive, Submit, Receive, Purge, InsertSession, Leave
<1>5. ~Take /\ ~Tick /\ ~UNCHANGED authVars
      /\ \A o \in Logouts : ~Authenticate(o) /\ ~Revoke(o)
  BY <1>1 DEF Take, Tick, authVars, Authenticate, Revoke
<1>6. ~Verify
  <2> SUFFICES ASSUME Verify
               PROVE  FALSE
    OBVIOUS
  <2>1. PICK v \in {"right", "wrong"} : login' = [login EXCEPT ![running].verdict = v]
    BY DEF Verify
  <2>2. login'[l].at = login[l].at
    BY <1>1, <2>1 DEF LoginRecs
  <2> QED
    BY <2>2
<1>7. PICK m \in Logins : Arrive(m) \/ Handle(m) \/ Leave(m)
  BY <1>5, <1>6 DEF AuthNext
<1>8. m = l
  BY <1>2, <1>3, <1>7
<1> QED
  BY <1>4, <1>7, <1>8 DEF Handle

LEMMA RefusalsHaveCause ==
  ASSUME AuthInv, [AuthNext]_authVars
  PROVE  \A l \in Logins :
           login[l].at = "check" /\ login'[l].at = "ended" =>
             LET r == login[l] IN
             \/ Cardinality(Near(FromSource(r.source), r.stamp, IpWindow)) >= IpMax
             \/ Cardinality(Near(WithName(r.name), r.stamp, UsernameWindow)) >= UsernameMax
  BY RefusedStep, RefusalHasCause DEF AuthInv

\* A login is refused only if as many as the limit were admitted less than a window
\* away from it under its source or name, whatever order stamps come in and whatever
\* is evicted (rate_limit.rs:143).
THEOREM RefusalsAreEarned == AuthSpec => RefusedForCause
  BY AuthInvariant, RefusalsHaveCause, PTL DEF AuthSpec, RefusedForCause

\* A step that ends a session.
LEMMA SessionEnds ==
  ASSUME AuthInv, [AuthNext]_authVars, NEW s \in DOMAIN sessions \ DOMAIN sessions'
  PROVE  \/ sessions[s] <= now
         \/ \E o \in Logouts : logout[o] = [at |-> "revoke", token |-> s]
         \/ /\ Cardinality(DOMAIN sessions) = MaxActiveSessions
            /\ \A k \in DOMAIN sessions' : sessions[s] <= sessions'[k]
<1>1. sessions' # sessions /\ SessionsOK /\ now \in Nat /\ sessions[s] \in Nat
  BY AuthConstantsOK DEF AuthInv, SessionsOK
<1>2. CASE \E l \in Logins : Purge(l)
  <2>1. sessions' = Only(sessions, {k \in DOMAIN sessions : sessions[k] > now})
    BY <1>1, <1>2 DEF Purge
  <2>2. ~(sessions[s] > now)
    BY <2>1 DEF Only
  <2> QED
    BY <1>1, <2>2
<1>3. ASSUME NEW l \in Logins, InsertSession(l)
      PROVE  /\ Cardinality(DOMAIN sessions) = MaxActiveSessions
             /\ \A k \in DOMAIN sessions' : sessions[s] <= sessions'[k]
  <2>1. PICK K \in KeepNewest(sessions, KeepBefore) :
          sessions' = [k \in K \cup {l} |-> IF k = l THEN now + Lifetime ELSE sessions[k]]
    BY <1>1, <1>3 DEF InsertSession
  <2>2. KeepBefore \in Nat /\ KeepBefore = MaxActiveSessions - 1 /\ MaxActiveSessions \in Nat
    BY AuthConstantsOK DEF KeepBefore
  <2>3. s \notin K
    BY <2>1
  <2>4. /\ K # DOMAIN sessions => KeepBefore < Cardinality(DOMAIN sessions)
        /\ \A k \in K, j \in DOMAIN sessions \ K : sessions[j] <= sessions[k]
    BY <1>1, <2>2, GreatestOK DEF SessionsOK, KeepNewest
  <2>5. Cardinality(DOMAIN sessions) = MaxActiveSessions
    <3>1. Cardinality(DOMAIN sessions) \in Nat /\ Cardinality(DOMAIN sessions) <= MaxActiveSessions
      BY <1>1, FS_CardinalityType DEF SessionsOK
    <3> QED
      BY <2>2, <2>3, <2>4, <3>1
  <2>6. \A k \in DOMAIN sessions' : sessions[s] <= sessions'[k]
    <3>1. sessions[s] <= now + Lifetime
      BY <1>1 DEF SessionsOK
    <3> QED
      BY <2>1, <2>3, <2>4, <3>1
  <2> QED
    BY <2>5, <2>6
<1>4. ASSUME NEW o \in Logouts, Revoke(o)
      PROVE  logout[o] = [at |-> "revoke", token |-> s]
  <2>1. logout[o].at = "revoke" /\ sessions' = Only(sessions, DOMAIN sessions \ {logout[o].token})
    BY <1>1, <1>4 DEF Revoke
  <2>2. logout[o].token = s
    BY <2>1 DEF Only
  <2>3. logout[o] \in LogoutRecs
    BY DEF AuthInv, LogoutsOK
  <2> QED
    BY <2>1, <2>2, <2>3 DEF LogoutRecs
<1>5. CASE \/ \E l \in Logins : Arrive(l) \/ CheckLimits(l) \/ Submit(l) \/ Receive(l) \/ Leave(l)
           \/ Take \/ Verify \/ (\E o \in Logouts : Authenticate(o)) \/ Tick \/ UNCHANGED authVars
  BY <1>1, <1>5 DEF Arrive, CheckLimits, Submit, Receive, Leave, Take, Verify, Authenticate, Tick, authVars
<1> QED
  BY <1>2, <1>3, <1>4, <1>5 DEF AuthNext, Handle

LEMMA EndsHaveCause ==
  ASSUME AuthInv, [AuthNext]_authVars
  PROVE  \A s \in DOMAIN sessions \ DOMAIN sessions' :
           \/ sessions[s] <= now
           \/ \E o \in Logouts : logout[o] = [at |-> "revoke", token |-> s]
           \/ /\ Cardinality(DOMAIN sessions) = MaxActiveSessions
              /\ \A k \in DOMAIN sessions' : sessions[s] <= sessions'[k]
  BY SessionEnds

\* A session ends because it expired, it was logged out, or a login met the limit
\* and every session left expires no earlier (session.rs:104).
THEOREM SessionsEndWithCause == AuthSpec => SessionEndsForCause
  BY AuthInvariant, EndsHaveCause, PTL DEF AuthSpec, SessionEndsForCause

=============================================================================
