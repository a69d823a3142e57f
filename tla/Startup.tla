------------------------------- MODULE Startup -------------------------------
(***************************************************************************)
(* Processes over one database file: servers that start (serve), and       *)
(* commands that create an administrator (admin create). Each opens and    *)
(* migrates the database; a server then marks jobs, registers the library  *)
(* roots and listens. Each may die between any two statements.             *)
(***************************************************************************)
EXTENDS Integers, Sequences

CONSTANTS Servers, Admins,
          Nobody,
          Supported,  \* SUPPORTED_VERSION, the number of migrations
          Repeatable, \* the migrations written IF NOT EXISTS
          Configs,    \* library.roots: sequences of [name, path]
          Paths,      \* the directories they name
          UserNames,
          FirstRows,  \* bound: library_roots as earlier programs left it
          MaxVersion, \* bound: the newest version a file may have
          MaxStarts,  \* bound: how many processes start
          MaxEvents   \* bound: edits of the file, mounts and unmounts

Procs == Servers \cup Admins

ASSUME ConstantsOK ==
    /\ Servers \cap Admins = {} /\ Nobody \notin Procs
    /\ Supported \in Nat \ {0} /\ MaxVersion \in Nat
    /\ Repeatable \subseteq 1 .. Supported
    /\ MaxStarts \in Nat /\ MaxEvents \in Nat

\* No two roots share a name or a directory: UNIQUE of library_roots.
Distinct(t) == \A i, j \in DOMAIN t :
    i # j => t[i].name # t[j].name /\ t[i].path # t[j].path

IsSequence(t) == t \in Seq({t[i] : i \in DOMAIN t})

\* validate
ASSUME ConfigsOK ==
    \A c \in Configs :
        /\ IsSequence(c) /\ Distinct(c)
        /\ \A i \in DOMAIN c : c[i].path \in Paths

ASSUME FirstRowsOK ==
    \A t \in FirstRows : IsSequence(t) /\ Distinct(t)

VARIABLES
    version, \* PRAGMA user_version
    applied, \* the migrations whose tables exist
    rows,    \* library_roots, by id
    users,   \* users, by name
    job,     \* a row of scan_jobs: none, running, interrupted, ended
    port,    \* the server that listens, or Nobody
    mounted, \* the directories that can be reached
    config,  \* the configuration file
    proc,    \* where each process stands
    created, \* history: how often a user was told of being created, up to 2
    crossed, \* history: servers that ran at once registered different roots
    starts, events

vars == <<version, applied, rows, users, job, port, mounted, config, proc,
          created, crossed, starts, events>>
tables == <<version, applied, rows, users, job>>
world == <<mounted, config, created, crossed, starts, events>>

----------------------------------------------------------------------------
(* Processes *)

Off == [at |-> "off", conf |-> <<>>, next |-> 0, seen |-> 0, missed |-> {}, user |-> Nobody]
At(p, place) == proc[p].at = place
Becomes(p, r) == proc' = [proc EXCEPT ![p] = r]
Step(p, place, n) == [proc[p] EXCEPT !.at = place, !.next = n]
GoTo(p, place) == Becomes(p, [proc[p] EXCEPT !.at = place])
\* An error ends the process, and so does a crash: nothing is undone.
Exit(p) == Becomes(p, Off)

Opened(p) == IF p \in Servers THEN "mark" ELSE "check"

Beside(p) == {q \in Servers \ {p} : ~At(q, "off")}

\* A server that starts alone registers all its roots again.
Crosses(p) ==
    /\ Beside(p) # {}
    /\ crossed \/ \E q \in Beside(p) : proc[q].conf # config \/ proc[q].missed # {}

\* serve loads and validates its configuration, admin create names a user.
Start(p) ==
    /\ At(p, "off") /\ starts < MaxStarts
    /\ p \in Servers => \A i \in DOMAIN config : config[i].path \in mounted
    /\ \E u \in IF p \in Admins THEN UserNames ELSE {Nobody} :
         Becomes(p, [at |-> "open", conf |-> config, next |-> 0, seen |-> 0,
                     missed |-> {}, user |-> u])
    /\ starts' = starts + 1
    /\ crossed' = IF p \in Servers THEN Crosses(p) ELSE crossed
    /\ UNCHANGED <<tables, port, mounted, config, created, events>>

\* migrate reads the version, in no transaction.
Known(v) == v \in 0 .. Supported

OpenDb(p) ==
    /\ At(p, "open")
    /\ IF ~Known(version) THEN Exit(p)
       ELSE Becomes(p, Step(p, IF version = Supported THEN Opened(p) ELSE "migrate",
                            version + 1))
    /\ UNCHANGED <<tables, port, world>>

\* The version left for a transaction that never comes, a mutant.
VersionLater(m) == version
VersionWith(m) == m

\* One migration and its version in one transaction. Tables that another process
\* has made meanwhile are an error, unless it makes only those that are not there.
Migrate(p) ==
    LET m == proc[p].next IN
    /\ At(p, "migrate")
    /\ IF m \in applied \ Repeatable
       THEN Exit(p) /\ UNCHANGED <<applied, version>>
       ELSE /\ applied' = applied \cup {m}
            /\ version' = VersionWith(m)
            /\ Becomes(p, Step(p, IF m = Supported THEN Opened(p) ELSE "migrate", m + 1))
    /\ UNCHANGED <<rows, users, job, port, world>>

----------------------------------------------------------------------------
(* serve *)

\* mark_interrupted
Mark(p) ==
    /\ At(p, "mark")
    /\ job' = IF job = "running" THEN "interrupted" ELSE job
    /\ Becomes(p, Step(p, "path", 1))
    /\ UNCHANGED <<version, applied, rows, users, port, world>>

\* The root a server is registering.
Root(p) == proc[p].conf[proc[p].next]
AllRegistered(p) == proc[p].next > Len(proc[p].conf)

One(ids) == IF ids = {} THEN 0 ELSE CHOOSE i \in ids : TRUE

NextRoot(p) == Step(p, "path", proc[p].next + 1)
Saw(p, id, place) == [proc[p] EXCEPT !.seen = id, !.at = place]
PassedOver(p) == [NextRoot(p) EXCEPT !.missed = @ \cup {Root(p)}]

\* sync_configured_roots, first query; a directory that is gone is passed over.
ByPath(p) ==
    /\ At(p, "path")
    /\ \/ AllRegistered(p) /\ GoTo(p, "bind") /\ UNCHANGED crossed
       \/ /\ ~AllRegistered(p) /\ Root(p).path \notin mounted
          /\ Becomes(p, PassedOver(p))
          /\ crossed' = (crossed \/ Beside(p) # {})
       \/ /\ ~AllRegistered(p) /\ Root(p).path \in mounted
          /\ LET id == One({i \in DOMAIN rows : rows[i].path = Root(p).path}) IN
             Becomes(p, Saw(p, id, IF id = 0 THEN "name" ELSE "upsert"))
          /\ UNCHANGED crossed
    /\ UNCHANGED <<tables, port, mounted, config, created, starts, events>>

\* The second one.
ByName(p) ==
    /\ At(p, "name")
    /\ Becomes(p, Saw(p, One({i \in DOMAIN rows : rows[i].name = Root(p).name}), "upsert"))
    /\ UNCHANGED <<tables, port, world>>

\* Only the name of a known directory brought up to date, a mutant.
Renamed(old, new) == [old EXCEPT !.name = new.name]
Updated(old, new) == [name |-> new.name, path |-> new.path, enabled |-> TRUE]

\* UPDATE or INSERT under UNIQUE names and paths; an error ends the start.
Upsert(p) ==
    LET new == [name |-> Root(p).name, path |-> Root(p).path, enabled |-> TRUE]
        id == proc[p].seen
        clash == \E i \in DOMAIN rows : i # id /\ (rows[i].name = new.name \/ rows[i].path = new.path)
    IN
    /\ At(p, "upsert")
    /\ IF clash
       THEN Exit(p) /\ UNCHANGED rows
       ELSE /\ rows' = IF id = 0 THEN Append(rows, new)
                       ELSE [rows EXCEPT ![id] = Updated(@, new)]
            /\ Becomes(p, NextRoot(p))
    /\ UNCHANGED <<version, applied, users, job, port, world>>

\* The address may be in use.
Bind(p) ==
    /\ At(p, "bind")
    /\ IF port = Nobody THEN port' = p /\ GoTo(p, "up")
                        ELSE Exit(p) /\ UNCHANGED port
    /\ UNCHANGED <<tables, world>>

\* A scan of the server that listens, as far as its row shows it.
Scan ==
    /\ port # Nobody
    /\ \/ job # "running" /\ job' = "running"
       \/ job = "running" /\ job' = "ended"
    /\ UNCHANGED <<version, applied, rows, users, port, proc, world>>

----------------------------------------------------------------------------
(* admin create *)

Check(p) ==
    /\ At(p, "check")
    /\ IF proc[p].user \in users THEN Exit(p) ELSE GoTo(p, "insert")
    /\ UNCHANGED <<tables, port, world>>

\* The name not declared UNIQUE, a mutant.
NeverTaken(u) == FALSE
Taken(u) == u \in users

Told(u) == IF created[u] < 2 THEN created[u] + 1 ELSE created[u]

\* The insert and what the caller is told.
Insert(p) ==
    LET u == proc[p].user IN
    /\ At(p, "insert")
    /\ IF Taken(u) THEN UNCHANGED <<users, created>>
       ELSE /\ users' = users \cup {u}
            /\ created' = [created EXCEPT ![u] = Told(u)]
    /\ Exit(p)
    /\ UNCHANGED <<version, applied, rows, job, port, mounted, config, crossed, starts, events>>

----------------------------------------------------------------------------
(* The world *)

Die(p) ==
    /\ ~At(p, "off") /\ Exit(p)
    /\ port' = IF port = p THEN Nobody ELSE port
    /\ UNCHANGED <<tables, world>>

Event == events < MaxEvents /\ events' = events + 1

\* The file that the next server reads is edited, or is another one.
Edit ==
    /\ Event /\ config' \in Configs \ {config}
    /\ UNCHANGED <<tables, port, mounted, proc, created, crossed, starts>>

Mount ==
    /\ Event
    /\ \E d \in Paths : mounted' = IF d \in mounted THEN mounted \ {d} ELSE mounted \cup {d}
    /\ UNCHANGED <<tables, port, config, proc, created, crossed, starts>>

Init ==
    /\ version \in 0 .. MaxVersion /\ applied = 1 .. version
    /\ rows \in IF version = 0 THEN {<<>>} ELSE FirstRows
    /\ users = {} /\ job = "none" /\ port = Nobody
    /\ mounted = Paths /\ config \in Configs
    /\ proc = [p \in Procs |-> Off]
    /\ created = [u \in UserNames |-> 0]
    /\ crossed = FALSE /\ starts = 0 /\ events = 0

Next ==
    \/ Scan \/ Edit \/ Mount
    \/ \E p \in Procs : Start(p) \/ OpenDb(p) \/ Migrate(p) \/ Die(p)
    \/ \E p \in Servers : Mark(p) \/ ByPath(p) \/ ByName(p) \/ Upsert(p) \/ Bind(p)
    \/ \E p \in Admins : Check(p) \/ Insert(p)

Spec == Init /\ [][Next]_vars

----------------------------------------------------------------------------
(* Properties *)

\* Whichever processes migrate at once and wherever they die, the version says
\* which migrations there are, nobody goes on before all of them, and a newer
\* file is left alone (migrate.rs:1, migrate.rs:39). A late process may repeat the
\* last migration and write its version again.
SchemaIsItsVersion ==
    /\ applied = 1 .. version
    /\ version > Supported => \A p \in Procs : proc[p].at \in {"off", "open"}
    /\ \A p \in Procs :
         proc[p].at \notin {"off", "open", "migrate"} => version = Supported

InTheTable(s) == \A i \in DOMAIN proc[s].conf :
    LET r == proc[s].conf[i] IN
    \/ r \in proc[s].missed
    \/ \E id \in DOMAIN rows : rows[id] = [name |-> r.name, path |-> r.path, enabled |-> TRUE]

\* No two rows share a name or a directory, and a server that listens has every
\* root of its configuration in the table, under its name, at its directory and
\* enabled, unless the directory was gone (coordinator.rs:242): also when others
\* of its configuration start beside it and fail, and whatever was registered
\* before. Excepted are servers that ran beside one with other roots to register,
\* until one starts alone: ListeningKeepsItsRoots says what becomes of them.
RootsAreRegistered ==
    /\ Distinct(rows)
    /\ \A s \in Servers : proc[s].at \in {"bind", "up"} /\ ~crossed => InTheTable(s)

\* The same of whichever server listens (lib.rs:25). It does not hold: a second
\* server registers the roots of its own configuration in the same table before
\* it finds the address taken.
ListeningKeepsItsRoots == \A s \in Servers : At(s, "up") => InTheTable(s)

\* Of all commands that create the same user, one at most says that it did, and
\* then the user exists (main.rs:120).
CreatedOnce == \A u \in UserNames :
    created[u] <= 1 /\ (u \in users <=> created[u] = 1)

\* What mark_interrupted says of the jobs it marks: their process is gone
\* (lib.rs:24).
LiveJobsStay ==
    [][job = "running" /\ job' = "interrupted" => port = Nobody]_vars

============================================================================
