------------------------------- MODULE MCPlayer -------------------------------
(* Two tracks and one that is not available, a queue of three, one album.     *)
EXTENDS Player

CONSTANTS a, b, u

MCAlbums == {<<b, a>>}
============================================================================
