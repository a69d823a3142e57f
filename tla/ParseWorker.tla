---------------------------- MODULE ParseWorker ----------------------------
(***************************************************************************)
(* The parse worker: parse_one and ParseWorker::parse on the server's side,*)
(* worker_main in the child, and the two pipes between them.               *)
(*                                                                         *)
(* The protocol has no request numbers: an answer belongs to the request   *)
(* it follows. A child that may still answer an earlier file must never be *)
(* asked for another, so every failure kills it and the next file gets a   *)
(* child of its own.                                                       *)
(***************************************************************************)
EXTENDS Integers, Sequences

CONSTANTS Files,     \* the files a scan asks for
          LongNamed, \* those whose request does not fit MAX_REQUEST_LINE_BYTES
          NoFile,    \* no file in flight
          Metas,     \* bound: the tags a file may have, as lengths of fields
          MaxField,  \* MAX_TEXT_FIELD_CHARS
          MaxMeta,   \* MAX_METADATA_JSON_BYTES
          MaxLine,   \* MAX_RESPONSE_LINE_BYTES
          MaxAsks,   \* bound: how many files are parsed
          MaxCrashes \* bound: how often the server dies

Meta == [title : Nat, artist : Nat, albumTitle : Nat, albumArtist : Nat,
         codec : {0, 1}, mime : {0, 1}, truncated : BOOLEAN]

ASSUME ConstantsOK ==
    /\ NoFile \notin Files /\ LongNamed \subseteq Files
    /\ Metas \subseteq Meta
    /\ MaxField \in Nat /\ MaxMeta \in Nat /\ MaxLine \in Nat
    /\ MaxField <= MaxMeta             \* a title alone fits
    /\ \A m \in Metas : ~m.truncated   \* parse_file reports no loss
    /\ MaxAsks \in Nat /\ MaxCrashes \in Nat

VARIABLES
    at,      \* where the scan stands in parse_one, or "down"
    file,    \* the file in flight
    worker,  \* Option<ParseWorker>: a position in kids, 0 for None
    kids,    \* every child ever spawned, with its pipes
    verdict, \* what the last parse_one returned
    lost,    \* history: the children whose server died
    asks,    \* how many files were asked for
    crashes  \* how often the server died

vars == <<at, file, worker, kids, verdict, lost, asks, crashes>>

----------------------------------------------------------------------------
(* Metadata: ScanResponse::parsed *)

Size(m) == m.title + m.artist + m.albumTitle + m.albumArtist + m.codec + m.mime

Capped(n) == IF n > MaxField THEN MaxField ELSE n

\* The album's artist given up before codec and type, a mutant.
ArtistFirst(m) ==
    CASE m.albumArtist > 0 -> [m EXCEPT !.albumArtist = @ \div 2]
      [] m.codec = 1 -> [m EXCEPT !.codec = 0]
      [] m.mime = 1 -> [m EXCEPT !.mime = 0]
      [] OTHER -> m
\* trim_one gives up the optional fields, then halves texts, never the title;
\* m itself if nothing is left to give up.
TrimOne(m) ==
    CASE m.codec = 1 -> [m EXCEPT !.codec = 0]
      [] m.codec = 0 /\ m.mime = 1 -> [m EXCEPT !.mime = 0]
      [] m.codec + m.mime = 0 /\ m.albumArtist > 0 ->
           [m EXCEPT !.albumArtist = @ \div 2]
      [] m.codec + m.mime + m.albumArtist = 0 /\ m.albumTitle > 0 ->
           [m EXCEPT !.albumTitle = @ \div 2]
      [] m.codec + m.mime + m.albumArtist + m.albumTitle = 0 /\ m.artist > 0 ->
           [m EXCEPT !.artist = @ \div 2]
      [] OTHER -> m

Trim[m \in Meta] ==
    IF Size(m) <= MaxMeta \/ TrimOne(m) = m THEN m ELSE Trim[TrimOne(m)]

Normalize(m) ==
    LET capped == [m EXCEPT !.title = Capped(@), !.artist = Capped(@),
                            !.albumTitle = Capped(@), !.albumArtist = Capped(@)]
        trimmed == Trim[capped]
    IN [trimmed EXCEPT !.truncated = @ \/ trimmed # m]

----------------------------------------------------------------------------
(* Children *)

\* good - a response with metadata, bad - one with an error code,
\* junk - no response: too long, cut short, or not JSON.
Good(f, m) == [kind |-> "good", file |-> f, tags |-> m, meta |-> Normalize(m)]
Bad(f) == [kind |-> "bad", file |-> f]
Junk(f) == [kind |-> "junk", file |-> f]

\* tied: the kernel kills the child with its server. A job object does, where
\* there are job objects and assigning it succeeded; a cgroup does not.
Child(tied) == [st |-> "read", in |-> <<>>, file |-> NoFile, out |-> <<>>,
                killed |-> FALSE, tied |-> tied]

Kids == DOMAIN kids
Alive(k) == kids[k].st # "gone"
\* Nobody holds the other ends of its pipes.
Unowned(k) == k # worker

With(k, kid) == [kids EXCEPT ![k] = kid]

Killed(k) == With(k, [kids[k] EXCEPT !.killed = TRUE])
\* What an exit leaves: the output that the server may still read.
Gone(k, out) == With(k, [kids[k] EXCEPT !.st = "gone", !.in = <<>>, !.file = NoFile,
                                        !.out = out])
Begun(k) == With(k, [kids[k] EXCEPT !.st = "parse", !.in = Tail(@),
                                    !.file = Head(kids[k].in)])
Answered(k, a) == With(k, [kids[k] EXCEPT !.st = "read", !.file = NoFile,
                                          !.out = Append(@, a)])
\* What the server does to the pipes of a child.
Sent(k) == With(k, [kids[k] EXCEPT !.in = Append(@, file)])
Taken(k) == With(k, [kids[k] EXCEPT !.out = Tail(@)])
Closed(k) == With(k, [kids[k] EXCEPT !.out = <<>>])

Init ==
    /\ at = "idle" /\ file = NoFile /\ worker = 0 /\ kids = <<>>
    /\ verdict = [ok |-> FALSE, file |-> NoFile]
    /\ lost = {} /\ asks = 0 /\ crashes = 0

\* The input left unread after its end, a mutant.
EofUnseen(k) == FALSE
InputEnds(k) == kids[k].in = <<>> /\ Unowned(k)

\* read_bounded_line: a request, or the end of the input. No request is too
\* long or malformed, as the server checks and serializes it.
KidReads(k) ==
    /\ kids[k].st = "read"
    /\ \/ kids[k].in # <<>> /\ kids' = Begun(k)
       \/ InputEnds(k) /\ kids' = Gone(k, <<>>)
    /\ UNCHANGED <<at, file, worker, verdict, lost, asks, crashes>>

\* parse_file returns and write_bounded_line follows: metadata, an error, or
\* an exit when the response does not fit the line or nobody reads it.
KidAnswers(k) ==
    /\ kids[k].st = "parse"
    /\ \E a \in {Good(kids[k].file, m) : m \in Metas} \cup {Bad(kids[k].file)} :
         kids' = IF Unowned(k) \/ (a.kind = "good" /\ Size(a.meta) > MaxLine)
                 THEN Gone(k, kids[k].out)
                 ELSE Answered(k, a)
    /\ UNCHANGED <<at, file, worker, verdict, lost, asks, crashes>>

\* The child dies by itself, as by memory limit or a bug of the parser; what it
\* has written of its answer stays in the pipe.
KidFails(k) ==
    /\ kids[k].st = "parse"
    /\ \E out \in {kids[k].out, Append(kids[k].out, Junk(kids[k].file))} :
         kids' = Gone(k, IF Unowned(k) THEN <<>> ELSE out)
    /\ UNCHANGED <<at, file, worker, verdict, lost, asks, crashes>>

\* SIGKILL takes effect.
KidDies(k) ==
    /\ Alive(k) /\ kids[k].killed
    /\ kids' = Gone(k, kids[k].out)
    /\ UNCHANGED <<at, file, worker, verdict, lost, asks, crashes>>

----------------------------------------------------------------------------
(* parse_one *)

UnchangedByParse == UNCHANGED <<lost, crashes>>

Entry == IF worker = 0 THEN "spawn" ELSE "write"

\* The scan has a file parsed; there may be a worker from the file before.
Ask(f) ==
    /\ at = "idle" /\ asks < MaxAsks
    /\ at' = Entry
    /\ file' = f
    /\ verdict' = [ok |-> FALSE, file |-> NoFile]
    /\ asks' = asks + 1
    /\ UNCHANGED <<worker, kids>> /\ UnchangedByParse

Return(v) == at' = "idle" /\ file' = NoFile /\ verdict' = v
Failure == [ok |-> FALSE, file |-> NoFile]

Spawn ==
    /\ at = "spawn"
    /\ \/ /\ \E tied \in BOOLEAN : kids' = Append(kids, Child(tied))
          /\ worker' = Len(kids) + 1
          /\ at' = "write"
          /\ UNCHANGED <<file, verdict>>
       \/ Return(Failure) /\ UNCHANGED <<worker, kids>>
    /\ UNCHANGED asks /\ UnchangedByParse

\* kill() after a failure, up to its wait of 500 ms.
Fail ==
    /\ kids' = Killed(worker)
    /\ at' = "reap"
    /\ UNCHANGED <<file, worker, verdict, asks>>

\* The request is checked and written; the pipe has room for one. A child that
\* is gone has closed it.
Write ==
    /\ at = "write"
    /\ \/ (file \in LongNamed \/ ~Alive(worker)) /\ Fail
       \/ /\ file \notin LongNamed /\ Alive(worker)
          /\ kids' = Sent(worker)
          /\ at' = "read"
          /\ UNCHANGED <<file, worker, verdict, asks>>
    /\ UnchangedByParse

\* The metadata taken for the file in flight.
Verdict(a) == [ok |-> TRUE, file |-> a.file]

\* A line of the child, or the end of its output.
Read ==
    LET out == kids[worker].out IN
    /\ at = "read"
    /\ \/ /\ out # <<>> /\ Head(out).kind # "junk"
          /\ kids' = Taken(worker)
          /\ Return(IF Head(out).kind = "good" THEN Verdict(Head(out)) ELSE Failure)
          /\ UNCHANGED <<worker, asks>>
       \/ out # <<>> /\ Head(out).kind = "junk" /\ Fail
       \/ out = <<>> /\ ~Alive(worker) /\ Fail
    /\ UnchangedByParse

\* timeout(limit, exchange): an answer may be on its way.
Timeout ==
    /\ at = "read" /\ Fail
    /\ UnchangedByParse

\* The worker that failed kept for the next file, a mutant.
WorkerKept == worker
WorkerAfterFailure == 0

\* The child is reaped or the 500 ms are over; the worker is dropped, and with
\* it what the child had answered.
GiveUp ==
    /\ at = "reap"
    /\ Return(Failure)
    /\ worker' = WorkerAfterFailure
    /\ kids' = IF worker' = 0 THEN Closed(worker) ELSE kids
    /\ UNCHANGED asks /\ UnchangedByParse

\* kill_on_drop forgotten, a mutant.
DroppedAlive == kids
Dropped == IF worker = 0 THEN kids ELSE Killed(worker)

\* The scan is over between two files, by shutdown or by a "?" that drops the
\* worker: either way its child is killed, waited for or not.
EndScan ==
    /\ at = "idle" /\ worker # 0
    /\ kids' = Dropped
    /\ worker' = 0
    /\ UNCHANGED <<at, file, verdict, asks>> /\ UnchangedByParse

\* The server dies without running destructors.
Crash ==
    /\ at # "down" /\ crashes < MaxCrashes
    /\ at' = "down" /\ file' = NoFile /\ worker' = 0
    /\ verdict' = IF file = NoFile THEN verdict ELSE Failure
    /\ kids' = IF worker # 0 /\ kids[worker].tied THEN Killed(worker) ELSE kids
    /\ lost' = lost \cup ({worker} \ {0})
    /\ crashes' = crashes + 1
    /\ UNCHANGED asks

Restart ==
    /\ at = "down" /\ at' = "idle"
    /\ UNCHANGED <<file, worker, kids, verdict, lost, asks, crashes>>

----------------------------------------------------------------------------
Parse == Spawn \/ Write \/ Read \/ GiveUp
Reads(k) == KidReads(k) \/ KidDies(k)

Next ==
    \/ Parse \/ Timeout \/ EndScan \/ Crash \/ Restart
    \/ \E f \in Files : Ask(f)
    \/ \E k \in Kids : KidReads(k) \/ KidAnswers(k) \/ KidFails(k) \/ KidDies(k)

Spec == Init /\ [][Next]_vars

\* The runtime polls the task, its timers fire, the kernel delivers signals and
\* schedules a child that waits for input. Nothing makes a parser return.
Fairness ==
    /\ WF_vars(Parse) /\ WF_vars(Timeout)
    /\ \A k \in 1 .. MaxAsks : WF_vars(k \in Kids /\ Reads(k))
FairSpec == Spec /\ Fairness

----------------------------------------------------------------------------
(* Properties *)

Responses == {Good(f, m) : f \in Files, m \in Metas}
             \cup [kind : {"bad", "junk"}, file : Files]
KidStates == [st : {"read", "parse", "gone"}, in : Seq(Files),
              file : Files \cup {NoFile}, out : Seq(Responses),
              killed : BOOLEAN, tied : BOOLEAN]

\* Every variable keeps its type; a child that is asked exists.
TypeOK ==
    /\ at \in {"idle", "spawn", "write", "read", "reap", "down"}
    /\ file \in Files \cup {NoFile}
    /\ worker \in 0 .. Len(kids)
    /\ at \in {"write", "read", "reap"} => worker # 0
    /\ kids \in Seq(KidStates)
    /\ verdict \in [ok : BOOLEAN, file : Files \cup {NoFile}]
    /\ lost \subseteq Kids
    /\ asks \in 0 .. MaxAsks /\ crashes \in 0 .. MaxCrashes

Oracle == INSTANCE ParseOracle WITH asked <- file

\* What a scan relies on: metadata is that of the file asked for, although
\* answers carry no number and late ones may be in the pipe, and every file
\* gets a verdict although parsers hang (worker.rs:103).
ImplementsOracle == Oracle!Spec

\* One child at a time, as far as the server can see to it: any other that
\* still lives has been killed, or outlived a server that died
\* (worker.rs:5, worker.rs:77).
OthersDoomed ==
    \A k \in Kids : Alive(k) /\ k # worker => kids[k].killed \/ k \in lost

\* No child stays that nobody uses, unless its server died and its parser
\* hangs: as files are bounded, in the end all have gone that are not used.
ChildrenEnd ==
    <>[](\A k \in Kids : Unowned(k) /\ Alive(k) =>
            k \in lost /\ kids[k].st = "parse")

\* Metadata fits its limit and is cut from the least important end: the title
\* is whole up to its cap, a text is shortened only once all that matters less
\* is gone, and the loss is reported (protocol.rs:5, protocol.rs:94).
CutFromTheEnd ==
    \A k \in Kids : \A i \in DOMAIN kids[k].out :
        LET a == kids[k].out[i] m == a.meta t == a.tags IN
        a.kind = "good" =>
            /\ Size(m) <= MaxMeta
            /\ m.title = Capped(t.title)
            /\ m.artist < Capped(t.artist) => m.albumTitle = 0
            /\ m.albumTitle < Capped(t.albumTitle) => m.albumArtist = 0
            /\ m.albumArtist < Capped(t.albumArtist) => m.codec + m.mime = 0
            /\ m.mime < t.mime => m.codec = 0
            /\ m.truncated <=> \E f \in DOMAIN m \ {"truncated"} : m[f] # t[f]

\* What worker.rs:77 promises of kill_on_drop: a server that ends abnormally
\* leaves no child for ever.
NoOrphans == <>[](\A k \in lost : ~Alive(k))

============================================================================
