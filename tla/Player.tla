-------------------------------- MODULE Player --------------------------------
(***************************************************************************)
(* The player of the web client: PlaybackQueue, PlayerEngine, PlayerStore  *)
(* and the one audio element they share, which is the browser's. Scripts   *)
(* run to their end, then the reactions of promises (micro), then a task:  *)
(* an event of the element, a click, or the answer to a request.           *)
(*                                                                         *)
(* Positions in the track, details of tracks and messages are left out.    *)
(***************************************************************************)
EXTENDS Integers, Sequences, FiniteSets, SequencesExt, Functions

CONSTANTS Tracks,
          Unavailable, \* those listed as not available
          NoTrack,
          Limit,       \* QUEUE_LIMIT
          Albums,      \* what queue-ids may answer: tracks that are available
          MaxClicks,   \* bound: how often the user acts
          MaxTrouble   \* bound: how often the element ends, stalls or fails

ASSUME PlayerConstantsOK ==
    /\ Unavailable \subseteq Tracks /\ NoTrack \notin Tracks
    /\ Limit \in Nat \ {0} /\ Albums \subseteq Seq(Tracks \ Unavailable)
    /\ MaxClicks \in Nat /\ MaxTrouble \in Nat

VARIABLES
    queue,   \* PlaybackQueue: ids, cursor (0 for -1), shuffle, repeatOne
    engine,  \* PlayerEngine: the selected track and its state
    audio,   \* the element; on - it is attached
    tasks,   \* its events that are not yet delivered
    micro,   \* the promise reactions that run before anything else
    saved,   \* the queue in local storage, or NoQueue
    awaited, \* playAlbum awaits queue-ids
    strayed, \* history: the current entry was removed since the last load
    clicks, trouble

playerVars == <<queue, engine, audio, tasks, micro, saved, awaited, strayed, clicks, trouble>>
counters == <<clicks, trouble>>

----------------------------------------------------------------------------
(* PlaybackQueue *)

EmptyQueue == [ids |-> <<>>, cursor |-> 0, shuffle |-> FALSE, repeatOne |-> FALSE]
NoQueue == [EmptyQueue EXCEPT !.cursor = -1]

Current(q) == IF q.cursor = 0 THEN NoTrack ELSE q.ids[q.cursor]

Take(s, n) == SubSeq(s, 1, IF n < Len(s) THEN n ELSE Len(s))

\* add and addIds up to the limit.
Added(q, ids) == [q EXCEPT !.ids = Take(@ \o ids, Limit)]

\* playNext puts a track behind the current one.
AddedNext(q, t) ==
    IF Len(q.ids) >= Limit THEN q ELSE [q EXCEPT !.ids = InsertAt(@, q.cursor + 1, t)]

\* The cursor left alone, a mutant.
CursorKept(q, i) == IF q.cursor >= Len(q.ids) THEN Len(q.ids) - 1 ELSE q.cursor
\* Where removeAt leaves the cursor.
CursorWithout(q, i) ==
    IF i < q.cursor \/ q.cursor = Len(q.ids) THEN q.cursor - 1 ELSE q.cursor

Removed(q, i) == [q EXCEPT !.ids = RemoveAt(@, i), !.cursor = CursorWithout(q, i)]

Cleared(q) == [q EXCEPT !.ids = <<>>, !.cursor = 0]

\* toggleShuffle: turned on, it shuffles what is behind the cursor.
Shuffled(q) ==
    LET tail == {i \in DOMAIN q.ids : i > q.cursor} IN
    {[q EXCEPT !.shuffle = TRUE,
               !.ids = [i \in DOMAIN q.ids |-> IF i \in tail THEN q.ids[f[i]] ELSE q.ids[i]]] :
        f \in Bijection(tail, tail)}

\* next: 0 for none.
After(q) == IF q.repeatOne THEN q.cursor
            ELSE IF q.cursor + 1 > Len(q.ids) THEN 0 ELSE q.cursor + 1

----------------------------------------------------------------------------
(* The audio element, as the HTML standard has it. A promise of play() is   *)
(* settled by a task, or at once by load(). save - the caller persists then;*)
(* broken - a fatal error has come after the source began to load.          *)

NoAudio == [src |-> NoTrack, data |-> "none", paused |-> TRUE, ended |-> FALSE,
            pending |-> FALSE, save |-> FALSE, on |-> FALSE, broken |-> FALSE]

Event(type) == [type |-> type, settles |-> "no", save |-> FALSE]
Settling(type, outcome) ==
    IF audio.pending THEN [type |-> type, settles |-> outcome, save |-> audio.save]
                     ELSE Event(type)
Reaction(e) == [type |-> e.settles, save |-> e.save]
\* Of those among events that settle, in their order.
Reactions(events) ==
    LET places == {i \in DOMAIN events : events[i].settles # "no"}
        nth(n) == CHOOSE i \in places : Cardinality(places \cap (1 .. i)) = n
    IN [n \in 1 .. Cardinality(places) |-> Reaction(events[nth(n)])]

Settled == [audio EXCEPT !.pending = FALSE, !.save = FALSE]

\* What load() makes of promises, those of removed tasks first.
Interrupted == Reactions(tasks)
               \o IF audio.pending THEN <<[type |-> "abort", save |-> audio.save]>> ELSE <<>>

Source(t) == [NoAudio EXCEPT !.src = t, !.on = TRUE,
                             !.data = IF t = NoTrack THEN "none" ELSE "loading"]

----------------------------------------------------------------------------
(* PlayerEngine and PlayerStore *)

\* persistPosition follows every event: at once when paused, and every two
\* seconds while playing.
MayPersist(state, q) ==
    CASE state = "paused" -> saved' = q
      [] state = "playing" -> saved' \in {saved, q}
      [] OTHER -> saved' = saved

\* load; a continuation follows, if the caller goes on.
Load(t, continuation) ==
    /\ IF ~audio.on
       THEN /\ engine' = [track |-> t, state |-> "error"]
            /\ micro' = continuation
            /\ UNCHANGED <<audio, tasks>>
       ELSE IF t \in Unavailable
       THEN /\ engine' = [track |-> t, state |-> "error"]
            /\ audio' = Source(NoTrack) /\ tasks' = <<>>
            /\ micro' = Interrupted \o continuation
       ELSE /\ engine' = [track |-> t, state |-> "loading"]
            /\ audio' = Source(t) /\ tasks' = <<Event("loadstart")>>
            /\ micro' = Interrupted \o continuation

\* A playAt that does not persist, a mutant.
ThenOnlyPlay == <<[type |-> "play", save |-> FALSE]>>
\* What playAt does once load has returned.
ThenPlay == <<[type |-> "play", save |-> TRUE]>>

\* playAt(i) of a queue.
PlayAt(q, i) ==
    /\ queue' = [q EXCEPT !.cursor = i]
    /\ strayed' = FALSE
    /\ Load(q.ids[i], ThenPlay)

\* NotAllowedError, and NotSupportedError of a source that cannot be used. After
\* any other error play() works as far as there is data.
Refusals == {"denied"} \cup IF audio.data = "failed" THEN {"failed"} ELSE {}

\* play of the engine: refused, or up to the promise of the element.
Play(save) ==
    IF ~audio.on \/ engine.track \in Unavailable \cup {NoTrack}
    THEN /\ engine' = [engine EXCEPT !.state = "error"]
         /\ micro' = IF micro = <<>> THEN <<>> ELSE Tail(micro)
         /\ saved' = IF save THEN queue ELSE saved
         /\ UNCHANGED <<audio, tasks>>
    ELSE LET rest == IF micro = <<>> THEN <<>> ELSE Tail(micro)
             asked == [audio EXCEPT !.pending = TRUE, !.save = @ \/ save]
         IN
         /\ UNCHANGED <<engine, saved>>
         /\ \/ /\ \E refusal \in Refusals : micro' = rest \o <<[type |-> refusal, save |-> save]>>
               /\ UNCHANGED <<audio, tasks>>
            \/ /\ audio.data # "failed"
               /\ micro' = rest
               /\ IF audio.data = "ready"
                  THEN /\ audio' = [audio EXCEPT !.paused = FALSE, !.ended = FALSE,
                                                 !.pending = FALSE, !.save = FALSE]
                       /\ tasks' = Append(tasks, [type |-> IF audio.paused THEN "playing" ELSE "none",
                                                  settles |-> "resolved", save |-> asked.save])
                  ELSE /\ audio' = [asked EXCEPT !.paused = FALSE]
                       /\ tasks' = IF audio.paused /\ audio.src # NoTrack
                                   THEN Append(tasks, Event("waiting")) ELSE tasks

\* The reaction to a settled promise, and what follows it in the caller.
React ==
    /\ micro # <<>> /\ Head(micro).type # "play"
    /\ LET r == Head(micro)
           state == CASE r.type = "resolved" -> "playing"
                      [] r.type = "denied" -> "paused"
                      [] r.type = "abort" -> "loading"
                      [] OTHER -> "error"
       IN /\ engine' = [engine EXCEPT !.state = state]
          /\ IF r.save THEN saved' = queue ELSE MayPersist(state, queue)
    /\ micro' = Tail(micro)
    /\ UNCHANGED <<queue, audio, tasks, awaited, strayed, counters>>

PlayNow ==
    /\ micro # <<>> /\ Head(micro).type = "play"
    /\ Play(Head(micro).save)
    /\ UNCHANGED <<queue, awaited, strayed, counters>>

\* A track that can play taken for one that does, a mutant.
AlwaysPlaying == "playing"
WhenItCanPlay == IF engine.state = "playing" \/ ~audio.paused THEN "playing" ELSE "paused"

\* The engine's state after an event of the selected track.
StateAfter(type) ==
    CASE type = "loadstart" -> "loading"
      [] type = "loadeddata" -> IF engine.state = "playing" THEN "playing" ELSE "buffering"
      [] type = "canplay" -> WhenItCanPlay
      [] type = "playing" -> "playing"
      [] type = "waiting" -> "buffering"
      [] type = "pause" -> IF audio.ended THEN engine.state ELSE "paused"
      [] type = "error" -> "error"
      [] OTHER -> engine.state

\* onMediaEvent, for all events but ended.
Deliver ==
    /\ micro = <<>> /\ tasks # <<>> /\ Head(tasks).type # "ended"
    /\ tasks' = Tail(tasks)
    /\ micro' = Reactions(<<Head(tasks)>>)
    /\ IF engine.track = NoTrack
       THEN UNCHANGED <<engine, saved>>
       ELSE /\ engine' = [engine EXCEPT !.state = StateAfter(Head(tasks).type)]
            /\ MayPersist(engine'.state, queue)
    /\ UNCHANGED <<queue, audio, awaited, strayed, counters>>

\* ended and handleEnded: again from the start, the next track, or nothing.
Ended ==
    /\ micro = <<>> /\ tasks # <<>> /\ Head(tasks).type = "ended"
    /\ IF engine.track = NoTrack \/ (After(queue) = 0 /\ ~queue.repeatOne)
       THEN /\ engine' = IF engine.track = NoTrack THEN engine
                         ELSE [engine EXCEPT !.state = "idle"]
            /\ saved' = IF engine.track = NoTrack THEN saved ELSE queue
            /\ tasks' = Tail(tasks)
            /\ UNCHANGED <<queue, audio, micro, strayed>>
       ELSE IF queue.repeatOne
       THEN /\ engine' = [engine EXCEPT !.state = "idle"]
            /\ audio' = [audio EXCEPT !.ended = FALSE]
            /\ tasks' = Tail(tasks)
            /\ micro' = <<[type |-> "play", save |-> FALSE]>>
            /\ UNCHANGED <<queue, saved, strayed>>
       ELSE PlayAt(queue, After(queue)) /\ UNCHANGED saved
    /\ UNCHANGED <<awaited, counters>>

----------------------------------------------------------------------------
(* The browser: data, the end of a track, stalls and failures *)

\* The element begins to sound, and takes its promise with it.
Started == IF audio.paused THEN <<>> ELSE <<Settling("playing", "resolved")>>

Element(data, events) ==
    /\ audio' = [IF \E i \in DOMAIN events : events[i].settles # "no" THEN Settled ELSE audio
                 EXCEPT !.data = data]
    /\ tasks' = tasks \o events
    /\ UNCHANGED <<queue, engine, micro, saved, awaited, strayed, clicks>>

DataArrives ==
    /\ micro = <<>> /\ audio.data = "loading" /\ ~audio.broken
    /\ Element("ready", <<Event("loadeddata"), Event("canplay")>> \o Started)
    /\ UNCHANGED trouble

Stalls ==
    /\ micro = <<>> /\ trouble < MaxTrouble
    /\ audio.data = "ready" /\ ~audio.paused
    /\ Element("stalled", <<Event("waiting")>>)
    /\ trouble' = trouble + 1

Resumes ==
    /\ micro = <<>> /\ audio.data = "stalled" /\ ~audio.broken
    /\ Element("ready", <<Event("canplay")>> \o Started)
    /\ UNCHANGED trouble

\* A source that cannot be used at all (MEDIA_ERR_SRC_NOT_SUPPORTED) rejects the
\* promise.
LoadFails ==
    /\ micro = <<>> /\ trouble < MaxTrouble
    /\ audio.data = "loading" /\ ~audio.broken
    /\ Element("failed", <<Settling("error", "failed")>>)
    /\ trouble' = trouble + 1

\* Any other fatal error, of the network or the decoder, at any time: no more data
\* comes, and what there is stays.
Breaks ==
    /\ micro = <<>> /\ trouble < MaxTrouble
    /\ audio.data \in {"loading", "stalled", "ready"} /\ ~audio.broken
    /\ audio' = [audio EXCEPT !.broken = TRUE]
    /\ tasks' = Append(tasks, Event("error"))
    /\ trouble' = trouble + 1
    /\ UNCHANGED <<queue, engine, micro, saved, awaited, strayed, clicks>>

\* The end of the track: the element pauses and tells so.
TrackEnds ==
    /\ micro = <<>> /\ trouble < MaxTrouble
    /\ audio.data = "ready" /\ ~audio.paused
    /\ audio' = [Settled EXCEPT !.paused = TRUE, !.ended = TRUE]
    /\ tasks' = tasks \o <<Settling("pause", "abort"), Event("ended")>>
    /\ trouble' = trouble + 1
    /\ UNCHANGED <<queue, engine, micro, saved, awaited, strayed, clicks>>

----------------------------------------------------------------------------
(* The user *)

Clicks == micro = <<>> /\ audio.on /\ clicks < MaxClicks /\ clicks' = clicks + 1

\* play(track) of a list, which offers the available ones.
PlayTrack(t) ==
    /\ t \notin Unavailable /\ Clicks
    /\ LET q == IF t \in Range(queue.ids) THEN queue ELSE Added(queue, <<t>>)
           places == {i \in DOMAIN q.ids : q.ids[i] = t}
       IN IF places # {}
          THEN PlayAt(q, CHOOSE i \in places : \A j \in places : i <= j)
          ELSE /\ queue' = [q EXCEPT !.cursor = 0]
               /\ strayed' = TRUE
               /\ Load(t, ThenPlay)
    /\ UNCHANGED <<saved, awaited, trouble>>

\* playAt by the queue drawer, skipNext, skipPrevious.
PlayEntry ==
    /\ Clicks
    /\ \/ \E i \in DOMAIN queue.ids : PlayAt(queue, i)
       \/ After(queue) # 0 /\ PlayAt(queue, After(queue))
       \/ queue.cursor > 1 /\ PlayAt(queue, queue.cursor - 1)
    /\ UNCHANGED <<saved, awaited, trouble>>

\* toggle: pause what sounds or is about to, play anything else.
Toggle ==
    /\ Clicks /\ engine.track # NoTrack
    /\ IF engine.state \in {"playing", "buffering"}
       THEN /\ audio' = [Settled EXCEPT !.paused = TRUE]
            /\ tasks' = IF audio.paused THEN tasks
                        ELSE Append(tasks, Settling("pause", "abort"))
            /\ engine' = [engine EXCEPT !.state = "paused"]
            /\ saved' = queue
            /\ UNCHANGED micro
       ELSE Play(FALSE)
    /\ UNCHANGED <<queue, awaited, strayed, trouble>>

\* enqueue, enqueueNext, toggleShuffle, toggleRepeatOne.
EditQueue ==
    /\ Clicks
    /\ queue' \in {Added(queue, <<t>>) : t \in Tracks} \cup {AddedNext(queue, t) : t \in Tracks}
                 \cup {[queue EXCEPT !.repeatOne = ~@]}
                 \cup IF queue.shuffle THEN {[queue EXCEPT !.shuffle = FALSE]} ELSE Shuffled(queue)
    /\ saved' = queue'
    /\ UNCHANGED <<engine, audio, tasks, micro, awaited, strayed, trouble>>

\* removeAt and clearQueue leave the element alone.
ShortenQueue ==
    /\ Clicks
    /\ \/ \E i \in DOMAIN queue.ids :
             queue' = Removed(queue, i) /\ strayed' = (strayed \/ i = queue.cursor)
       \/ queue' = Cleared(queue) /\ strayed' = TRUE
    /\ saved' = queue'
    /\ UNCHANGED <<engine, audio, tasks, micro, awaited, trouble>>

\* forget, by its button or by signOut, which detaches the element as well.
Forget ==
    /\ Clicks
    /\ engine' = [track |-> NoTrack, state |-> "idle"]
    /\ queue' = Cleared(queue) /\ saved' = NoQueue
    /\ audio' \in {Source(NoTrack), NoAudio} /\ tasks' = <<>>
    /\ micro' = Interrupted
    /\ strayed' = FALSE
    /\ UNCHANGED <<awaited, trouble>>

\* What attachAudio and restore make of a new element: the selection without
\* its sound.
Restore(q) ==
    /\ queue' = IF saved = NoQueue THEN q ELSE saved
    /\ LET t == Current(queue') IN
       IF saved = NoQueue \/ t = NoTrack
       THEN audio' = Source(NoTrack) /\ tasks' = <<>>
       ELSE /\ audio' = Source(IF t \in Unavailable THEN NoTrack ELSE t)
            /\ tasks' = IF t \in Unavailable THEN <<>> ELSE <<Event("loadstart")>>
    /\ micro' = <<>> /\ UNCHANGED saved

RestoredEngine(e) ==
    LET t == Current(queue') IN
    IF saved = NoQueue \/ t = NoTrack THEN e
    ELSE [track |-> t, state |-> IF t \in Unavailable THEN "error" ELSE "loading"]

SignIn ==
    /\ ~audio.on /\ micro = <<>> /\ clicks < MaxClicks /\ clicks' = clicks + 1
    /\ Restore(queue)
    /\ engine' = RestoredEngine(engine)
    /\ strayed' = FALSE
    /\ UNCHANGED <<awaited, trouble>>

\* The page is loaded anew, at any time.
Reload ==
    /\ Clicks
    /\ Restore(EmptyQueue)
    /\ engine' = RestoredEngine([track |-> NoTrack, state |-> "idle"])
    /\ awaited' = FALSE /\ strayed' = FALSE
    /\ UNCHANGED trouble

\* playAlbum asks for the ids of an album.
AskAlbum ==
    /\ Clicks /\ ~awaited /\ awaited' = TRUE
    /\ UNCHANGED <<queue, engine, audio, tasks, micro, saved, strayed, trouble>>

\* Its answer, wherever the user is by now: clearQueue, enqueueIds, playAt(0).
AlbumArrives(ids) ==
    /\ micro = <<>> /\ awaited /\ awaited' = FALSE
    /\ LET q == Added(Cleared(queue), ids) IN
       /\ saved' = q
       /\ IF ids # <<>> THEN PlayAt(q, 1)
          ELSE queue' = q /\ strayed' = TRUE /\ UNCHANGED <<engine, audio, tasks, micro>>
    /\ UNCHANGED counters

AlbumFails ==
    /\ micro = <<>> /\ awaited /\ awaited' = FALSE
    /\ UNCHANGED <<queue, engine, audio, tasks, micro, saved, strayed, counters>>

----------------------------------------------------------------------------
PlayerInit ==
    /\ queue = EmptyQueue /\ saved = NoQueue
    /\ engine = [track |-> NoTrack, state |-> "idle"]
    /\ audio = Source(NoTrack) /\ tasks = <<>> /\ micro = <<>>
    /\ awaited = FALSE /\ strayed = FALSE
    /\ clicks = 0 /\ trouble = 0

PlayerNext ==
    \/ React \/ PlayNow \/ Deliver \/ Ended
    \/ DataArrives \/ Stalls \/ Resumes \/ LoadFails \/ Breaks \/ TrackEnds
    \/ PlayEntry \/ Toggle \/ EditQueue \/ ShortenQueue \/ Forget
    \/ SignIn \/ Reload \/ AskAlbum \/ AlbumFails
    \/ \E t \in Tracks : PlayTrack(t)
    \/ \E ids \in Albums : AlbumArrives(ids)

PlayerSpec == PlayerInit /\ [][PlayerNext]_playerVars

----------------------------------------------------------------------------
(* Properties *)

\* The queue names the track the engine has, whatever was added, removed and
\* shuffled around it, unless the current entry itself was taken away
\* (queue.ts:128, queue.ts:167).
CursorNamesTrack ==
    engine.track # NoTrack /\ ~strayed => Current(queue) = engine.track

\* Nothing is on its way to the engine.
AtRest == micro = <<>> /\ tasks = <<>>

\* The element plays, as far as its attributes tell.
Audible == audio.src = engine.track /\ audio.data = "ready" /\ ~audio.paused

\* Once all events and promises have been told, in whatever order they came
\* between clicks, "playing" is shown only while the element plays the selected
\* track, and whenever it does (engine.ts:3). An element that had a fatal error may
\* claim to play without a sound: see FailedIsNotPlaying.
PlayingIsHeard ==
    AtRest /\ audio.on /\ engine.track # NoTrack =>
        /\ engine.state = "playing" => Audible
        /\ Audible /\ ~audio.broken => engine.state = "playing"

\* What the product description says of an error: it stays until the user tries
\* again or skips, by which the track is loaded anew (01:183). It does not hold:
\* toggle plays what is left of the broken source.
FailedIsNotPlaying == AtRest /\ audio.broken => engine.state # "playing"

\* A reload loses no change of the queue, except for a change of track that is
\* still being prepared.
SavedAtRest ==
    micro = <<>> /\ ~audio.pending /\ (\A i \in DOMAIN tasks : tasks[i].settles = "no")
    => saved = queue \/ (saved = NoQueue /\ queue.ids = <<>>)

\* What the product description says of signing out: it clears the protected
\* state (01:187).
SignOutForgets == ~audio.on => queue.ids = <<>> /\ saved \in {NoQueue, queue}

============================================================================
