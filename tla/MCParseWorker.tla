--------------------------- MODULE MCParseWorker ---------------------------
(* Three parses of two files and of one with too long a name; tags that only *)
(* lose a part of the title and an optional field, and tags that lose texts.  *)
EXTENDS ParseWorker

CONSTANTS f, g, h

Tags(t, a, b, c) == [title |-> t, artist |-> a, albumTitle |-> b,
                     albumArtist |-> c, codec |-> 1, mime |-> 1,
                     truncated |-> FALSE]
MCMetas == {Tags(5, 1, 1, 1), Tags(4, 3, 3, 3)}
============================================================================
