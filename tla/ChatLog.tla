-------------------------------- MODULE ChatLog --------------------------------
(* What a chat session promises: it is a sequence of turns, new ones are added *)
(* at its end, and clearing it drops a prefix, never one from the middle.      *)
EXTENDS Naturals, Sequences

VARIABLE log

Turns(s) == {s[i] : i \in 1 .. Len(s)}

Init == log = <<>>

\* A transaction that cleared what it saw and then added turns of its own.
Change ==
  \E dropped \in 0 .. Len(log) :
    LET kept == SubSeq(log, dropped + 1, Len(log))
        new  == SubSeq(log', Len(kept) + 1, Len(log'))
    IN  /\ Len(kept) <= Len(log')
        /\ SubSeq(log', 1, Len(kept)) = kept
        /\ Turns(new) \cap Turns(log) = {}

Spec == Init /\ [][Change]_log
==============================================================================
