------------------------------- MODULE EventLog -------------------------------
(***************************************************************************)
(* What is said of the log of a session (Session::events, core/session.rs).*)
(***************************************************************************)
EXTENDS Naturals, Sequences, SequencesExt

\* No event is there twice.
NoDuplicates(evs) == \A i, j \in 1..Len(evs) : evs[i] = evs[j] => i = j

\* The events of a log that are in A, in their order: SelectSeq as a function, which
\* can be reasoned about.
Selected(evs, A) ==
    LET upTo[i \in 0 .. Len(evs)] ==
            IF i = 0 THEN <<>>
            ELSE IF evs[i] \in A THEN Append(upTo[i - 1], evs[i]) ELSE upTo[i - 1]
    IN  upTo[Len(evs)]

\* The events of a log, each where it is first.
WithoutRepeats(evs) ==
    LET numbered == [i \in 1 .. Len(evs) |-> <<i, evs[i]>>]
        firsts   == {numbered[i] : i \in {j \in 1 .. Len(evs) : \A k \in 1 .. j - 1 : evs[k] # evs[j]}}
        first    == Selected(numbered, firsts)
    IN  [i \in 1 .. Len(first) |-> first[i][2]]
=============================================================================
