------------------------- MODULE MCRateLimitingQueue -------------------------
(***************************************************************************)
(* Two keys, one worker and one other goroutine that delays items, with a  *)
(* channel of one entry, so that a sender finds it full.  With a delay of  *)
(* one unit, two requests for a key are due at different times if time     *)
(* passes between them.                                                    *)
(***************************************************************************)
EXTENDS RateLimitingQueue
=============================================================================
