---------------------------- MODULE MediaStream ----------------------------
(***************************************************************************)
(* GET /media/tracks/{id} after authentication and path resolution: the    *)
(* quota of streams in flight, the Range decision, and the task that reads *)
(* the file chunk by chunk into a channel of one, from which the response  *)
(* body feeds the client. The guard of the quota travels from the handler  *)
(* into the task and is dropped with it.                                   *)
(*                                                                         *)
(* Clients read, stall or disconnect; the file may shrink, a read may fail *)
(* or hang. HEAD requests take no guard and change nothing.                *)
(***************************************************************************)
EXTENDS Integers, FiniteSetsExt

CONSTANTS Gets,         \* GET requests
          Session,      \* the session each of them belongs to
          GlobalLimit,  \* streams in flight
          SessionLimit, \* streams in flight per session
          FileLen,      \* length of the file when it was opened
          ChunkBytes,   \* media.chunk_bytes
          Headers       \* bound: the Range headers clients send

Sessions == {Session[g] : g \in Gets}

\* A Range header: none, one range of one of three forms, several ranges, text
\* that does not parse, without a comma or with one, or no text. ifRange: an
\* If-Range header came with it.
Forms == {"none", "pair", "from", "suffix", "multi", "bad", "badMulti", "opaque"}
HeaderShape == [form : Forms,
                first : Nat, last : Nat, ifRange : BOOLEAN]

ASSUME ConstantsOK ==
    /\ DOMAIN Session = Gets
    /\ GlobalLimit \in Nat /\ SessionLimit \in Nat
    /\ FileLen \in Nat /\ ChunkBytes \in Nat \ {0}
    /\ Headers \subseteq HeaderShape

VARIABLES
    global,   \* MediaQuota: streams in flight
    sessions, \* MediaQuota: streams in flight of each session
    stream,   \* each request's handler, then its stream task
    chan,     \* the item in the channel of one: a byte count, -1 for an error
    client    \* each client: whether it is there and the bytes it got

vars == <<global, sessions, stream, chan, client>>

----------------------------------------------------------------------------
(* decide_range, and what serve makes of a header that is no text. *)

Full == [kind |-> "full", start |-> 0, end |-> 0]
Partial(s, e) == [kind |-> "partial", start |-> s, end |-> e]
Unsatisfiable == [kind |-> "unsatisfiable", start |-> 0, end |-> 0]

\* A closed range not cut at the end of the file, a mutant.
EndAsAsked(last, size) == last
EndWithin(last, size) == Min({last, size - 1})

Decision(h, size) ==
    IF h.form = "opaque" THEN Unsatisfiable
    ELSE IF h.form = "none" \/ h.ifRange \/ size = 0 THEN Full
    ELSE CASE h.form \in {"multi", "badMulti"} -> Full
           [] h.form = "bad" -> Unsatisfiable
           [] h.form = "pair" ->
                IF h.first > h.last \/ h.first >= size THEN Unsatisfiable
                ELSE Partial(h.first, EndWithin(h.last, size))
           [] h.form = "from" ->
                IF h.first >= size THEN Unsatisfiable ELSE Partial(h.first, size - 1)
           [] h.form = "suffix" ->
                IF h.last = 0 THEN Unsatisfiable
                ELSE Partial(size - Min({h.last, size}), size - 1)

\* serve and streaming_response: the status and the bytes of the response to a
\* header; a range that covers the file is answered 200.
Answer(status, start, len) == [status |-> status, start |-> start, len |-> len]

Response(h, size) ==
    LET d == Decision(h, size)
        len == IF d.kind = "full" THEN size ELSE d.end - d.start + 1
    IN IF d.kind = "unsatisfiable" THEN Answer(416, 0, 0)
       ELSE IF d.start = 0 /\ len = size THEN Answer(200, 0, len)
       ELSE Answer(206, d.start, len)

----------------------------------------------------------------------------
(* MediaQuota *)

GlobalFull == global >= GlobalLimit
SessionFull(s) == sessions[s] >= SessionLimit

\* release forgetting the session's count, a mutant.
SessionKept(s) == sessions
SessionLess(s) == [sessions EXCEPT ![s] = @ - 1]

Release(g) == global' = global - 1 /\ sessions' = SessionLess(Session[g])

----------------------------------------------------------------------------
NoStream == [at |-> "new", len |-> 0, left |-> 0, hand |-> 0, why |-> "none"]

Init ==
    /\ global = 0
    /\ sessions = [s \in Sessions |-> 0]
    /\ stream = [g \in Gets |-> NoStream]
    /\ chan = [g \in Gets |-> 0]
    /\ client = [g \in Gets |-> [there |-> TRUE, got |-> 0]]

Becomes(g, r) == stream' = [stream EXCEPT ![g] = r]
Set(g, at) == Becomes(g, [stream[g] EXCEPT !.at = at])
Refused(g, why) == Becomes(g, [stream[g] EXCEPT !.at = "ended", !.why = why])

\* try_acquire: 503 if the process has its streams, 429 if the session has.
Acquire(g) ==
    /\ stream[g].at = "new"
    /\ \/ /\ GlobalFull
          /\ Refused(g, "busy")
          /\ UNCHANGED <<global, sessions>>
       \/ /\ ~GlobalFull /\ SessionFull(Session[g])
          /\ Refused(g, "limited")
          /\ UNCHANGED <<global, sessions>>
       \/ /\ ~GlobalFull /\ ~SessionFull(Session[g])
          /\ global' = global + 1
          /\ sessions' = [sessions EXCEPT ![Session[g]] = @ + 1]
          /\ Set(g, "decide")
    /\ UNCHANGED <<chan, client>>

\* The decision: 416 drops the guard at once, otherwise the stream task has it,
\* which ends at once when there is nothing to send.
Respond(g) ==
    /\ stream[g].at = "decide"
    /\ \E h \in Headers :
         LET r == Response(h, FileLen) IN
         \/ /\ r.status = 416
            /\ Release(g)
            /\ Refused(g, "unsatisfiable")
         \/ /\ r.status # 416
            /\ UNCHANGED <<global, sessions>>
            /\ Becomes(g, [at |-> IF r.len = 0 THEN "drop" ELSE "read",
                           len |-> r.len, left |-> r.len, hand |-> 0,
                           why |-> IF r.len = 0 THEN "complete" ELSE "none"])
    /\ UNCHANGED <<chan, client>>

----------------------------------------------------------------------------
(* stream_to_completion *)

Over(g, why) ==
    Becomes(g, [stream[g] EXCEPT !.at = "drop", !.hand = 0, !.left = 0, !.why = why])
Holds(g, n) ==
    Becomes(g, [stream[g] EXCEPT !.at = "send", !.hand = n, !.left = @ - n])

\* read: some of the wanted bytes, none as the file shrank, an error, or nothing
\* in time (a failed or late seek ends the same way). Items in the channel are
\* sent next.
Read(g) ==
    LET want == Min({ChunkBytes, stream[g].left}) IN
    /\ stream[g].at = "read"
    /\ \/ \E n \in 1 .. want : Holds(g, n)
       \/ Over(g, "short")
       \/ Set(g, "sendError")
    /\ UNCHANGED <<global, sessions, chan, client>>

\* send with the timeout: into the empty channel, or the receiver is gone.
Send(g) ==
    /\ stream[g].at = "send"
    /\ \/ /\ client[g].there /\ chan[g] = 0
          /\ chan' = [chan EXCEPT ![g] = stream[g].hand]
          /\ IF stream[g].left = 0 THEN Over(g, "complete")
             ELSE Becomes(g, [stream[g] EXCEPT !.at = "read", !.hand = 0])
       \/ ~client[g].there /\ Over(g, "gone") /\ UNCHANGED chan
    /\ UNCHANGED <<global, sessions, client>>

\* A send without the timeout, a mutant.
WaitsForever == FALSE
Impatient == TRUE

\* no_progress elapsed while the channel is full.
TimeOut(g) ==
    /\ stream[g].at = "send" /\ chan[g] # 0 /\ Impatient
    /\ Over(g, "stalled")
    /\ UNCHANGED <<global, sessions, chan, client>>

\* The error of a read is sent with no timeout.
SendError(g) ==
    /\ stream[g].at = "sendError"
    /\ \/ client[g].there /\ chan[g] = 0 /\ chan' = [chan EXCEPT ![g] = -1]
       \/ ~client[g].there /\ UNCHANGED chan
    /\ Over(g, "error")
    /\ UNCHANGED <<global, sessions, client>>

\* The task ends: drop(guard).
DropGuard(g) ==
    /\ stream[g].at = "drop"
    /\ Set(g, "ended")
    /\ Release(g)
    /\ UNCHANGED <<chan, client>>

----------------------------------------------------------------------------
(* Clients *)

Bytes(item) == IF item > 0 THEN item ELSE 0

Take(g) ==
    /\ client[g].there /\ chan[g] # 0
    /\ client' = [client EXCEPT ![g] = [there |-> TRUE, got |-> client[g].got + Bytes(chan[g])]]
    /\ chan' = [chan EXCEPT ![g] = 0]
    /\ UNCHANGED <<global, sessions, stream>>

\* The client disconnects, the body and with it the receiver is dropped; what it
\* got no longer counts.
Leave(g) ==
    /\ client[g].there /\ stream[g].at \notin {"new", "decide"}
    /\ client' = [client EXCEPT ![g] = [there |-> FALSE, got |-> 0]]
    /\ chan' = [chan EXCEPT ![g] = 0]
    /\ UNCHANGED <<global, sessions, stream>>

----------------------------------------------------------------------------
Task(g) ==
    Respond(g) \/ Read(g) \/ Send(g) \/ TimeOut(g) \/ SendError(g) \/ DropGuard(g)

Next == \E g \in Gets : Acquire(g) \/ Task(g) \/ Take(g) \/ Leave(g)

\* The runtime polls the task and its timers fire; a client may stall forever.
Spec == Init /\ [][Next]_vars
FairSpec == Spec /\ \A g \in Gets : WF_vars(Task(g))

----------------------------------------------------------------------------
(* Properties *)

Phases == {"new", "decide", "read", "send", "sendError", "drop", "ended"}
Reasons == {"none", "busy", "limited", "unsatisfiable",
            "complete", "short", "gone", "stalled", "error"}

Streams == [at : Phases, len : 0 .. FileLen, left : 0 .. FileLen,
            hand : 0 .. ChunkBytes, why : Reasons]
Clients == [there : BOOLEAN, got : Nat]

\* Every variable keeps its shape; no stream has more to send than the file.
TypeOK ==
    /\ global \in Nat
    /\ sessions \in [Sessions -> Nat]
    /\ stream \in [Gets -> Streams]
    /\ chan \in [Gets -> -1 .. ChunkBytes]
    /\ client \in [Gets -> Clients]

Guarded == {g \in Gets : stream[g].at \notin {"new", "ended"}}

\* The counters are the guards alive, and the limits hold: no refusal, stalled
\* or vanished client, or failing file loses or frees a place twice.
QuotaExact ==
    /\ global = Cardinality(Guarded) /\ global <= GlobalLimit
    /\ \A s \in Sessions :
         /\ sessions[s] = Cardinality({g \in Guarded : Session[g] = s})
         /\ sessions[s] <= SessionLimit

\* The bytes of a file that a single range asks for.
Asked(h, size) ==
    {n \in 0 .. size - 1 :
        \/ h.form = "pair" /\ h.first <= n /\ n <= h.last
        \/ h.form = "from" /\ h.first <= n
        \/ h.form = "suffix" /\ n >= size - h.last}
OneRange(h) == h.form \in {"pair", "from", "suffix"} /\ ~h.ifRange

\* A client that stays gets every byte of a stream that ends as complete, and
\* never more than its range.
BytesExact ==
    \A g \in Gets :
        /\ client[g].got <= stream[g].len
        /\ stream[g].why = "complete" /\ client[g].there /\ chan[g] = 0 =>
             client[g].got = stream[g].len

\* The headers that are passed over, for a file of that size.
Ignored(h, size) ==
    h.form # "opaque"
    /\ (h.ifRange \/ size = 0 \/ h.form \in {"none", "multi", "badMulti"})

\* The response to h serves what h asks for, of a file of that size: the file, the
\* bytes of its range, or 416; and 200 is the status of the whole file.
Serves(h, size) ==
    LET r == Response(h, size)
        served == r.start .. r.start + r.len - 1
    IN /\ Ignored(h, size) => r.status = 200
       /\ h.form = "opaque" => r.status = 416
       /\ h.form = "bad" /\ ~Ignored(h, size) => r.status = 416
       /\ OneRange(h) /\ ~Ignored(h, size) =>
            IF Asked(h, size) = {} THEN r.status = 416
                                   ELSE r.status # 416 /\ served = Asked(h, size)
       /\ r.status = 200 <=> (r.status # 416 /\ served = 0 .. size - 1)

Deciding == \E g \in Gets : stream[g].at = "decide"

\* Whatever a request at its decision asks for, for files shorter and longer than
\* the one streamed: one range gets exactly the bytes it asks for, and 416 if there
\* are none or the text cannot be read; no range, several, or any beside If-Range
\* get the whole file (02:264-269). Against that table, an empty file is sent
\* whatever range it is asked for, and so is any file for several ranges that
\* cannot be read: see UnsatisfiableIs416 and MalformedIs416. And the bytes
\* announced are the bytes that arrive.
RangeServed ==
    /\ TypeOK /\ BytesExact
    /\ Deciding => \A h \in Headers, size \in 0 .. FileLen + 2 : Serves(h, size)

\* What 02:268 says of ranges that cannot be satisfied: 416. It does not hold of an
\* empty file.
UnsatisfiableIs416 == Deciding =>
    \A h \in Headers, size \in 0 .. FileLen :
        OneRange(h) /\ Asked(h, size) = {} => Response(h, size).status = 416

\* What it says of those that cannot be read: 416. It does not hold of several.
MalformedIs416 == Deciding =>
    \A h \in Headers :
        h.form \in {"bad", "badMulti"} /\ ~h.ifRange => Response(h, FileLen).status = 416

\* A place in the quota is given back also if the client neither reads nor
\* leaves, unless the stream has met a read error.
GuardsComeBack ==
    \A g \in Gets : (g \in Guarded) ~> (g \notin Guarded \/ stream[g].at = "sendError")

\* What stream.rs:89 says: reading or delivering without progress is aborted and
\* the guard released, whatever the task is delivering.
NoProgressAborts == \A g \in Gets : (g \in Guarded) ~> (g \notin Guarded)

\* What body_guard.rs:1 says: a response body holds its place until the stream
\* has ended for the client or is dropped; bodies in flight keep the limits.
BodyInFlight(g) ==
    /\ client[g].there
    /\ stream[g].at \in {"read", "send", "sendError", "drop"} \/ chan[g] # 0
BodiesWithinLimits == Cardinality({g \in Gets : BodyInFlight(g)}) <= GlobalLimit

============================================================================
