--------------------------- MODULE MCUadeChannel ---------------------------
(* UadeChannel on small instances: two threads, the host's and the core's,  *)
(* either of which may use any endpoint id that was ever handed out.        *)
EXTENDS UadeChannel

CONSTANTS host, core

MCThreads == {host, core}

(* Different bytes, so that a byte out of place shows, and a short payload, *)
(* so that part of the ring may be read before the rest was ever written.   *)
MCDistinct == {<<1, 2>>, <<2>>}

(* One byte value, where only how much is moved matters.                    *)
MCPlain == {<<1>>, <<1, 1>>}
=============================================================================
