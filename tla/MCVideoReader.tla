--------------------------- MODULE MCVideoReader ---------------------------
(* Small instances of VideoReader: a file that is played again and again,    *)
(* one that is played once without a token timer, and a live stream.         *)
EXTENDS VideoReader

Replayed ==
  [kind |-> "url", auto_replay |-> TRUE, reliable |-> FALSE, interval |-> "positive"]
PlayedOnce ==
  [kind |-> "url", auto_replay |-> FALSE, reliable |-> TRUE, interval |-> "zero"]
Stalled ==
  [kind |-> "url", auto_replay |-> FALSE, reliable |-> TRUE, interval |-> "negative"]
Live ==
  [kind |-> "ffmpeg", auto_replay |-> FALSE, reliable |-> FALSE, interval |-> "zero"]

AllReaders == {Replayed, PlayedOnce, Stalled, Live}
============================================================================
