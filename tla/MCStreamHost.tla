---------------------------- MODULE MCStreamHost ----------------------------
(* Stream data that do not parse, and two streams, of which one has no name *)
(* and neither has a mapping name; a number stands for a string's length.   *)
EXTENDS StreamHost

CONSTANTS none, broken, two

MCStreamsOf ==
  [d \in {none, broken, two} |-> IF d = two THEN <<<<2, 3, 0>>, <<1, 0, 0>>>>
                                 ELSE <<>>]
=============================================================================
