------------------------------ MODULE CardCalls ------------------------------
(***************************************************************************)
(* What the link between the driver and the card promises.  One call is    *)
(* open at a time.  A call that is answered was executed once, and its     *)
(* answer is whole; of a call that fails the caller only knows that it was *)
(* executed at most once, and it may be executed after it has failed, but  *)
(* never after a later call.                                               *)
(***************************************************************************)
EXTENDS Integers, Sequences

CONSTANTS Sizes   \* the sizes of answers, in bytes: LinkAssumption of CardLink

VARIABLES
  calls,      \* the calls made: the size of the answer, and the outcome
  executed,   \* the calls the card has executed, in that order
  answer      \* what the last call that was answered returned

\* The bytes of an answer, from one position on; a byte is named by its call and its place.
Bytes(n, from, k) == [i \in 1..k |-> <<n, from + i>>]
Answer(n, size)   == Bytes(n, 0, size)

Open(cs)           == Len(cs) > 0 /\ cs[Len(cs)].outcome = "open"
Close(cs, outcome) == [cs EXCEPT ![Len(cs)].outcome = outcome]

Call(size) ==
  /\ ~Open(calls)
  /\ calls' = Append(calls, [size |-> size, outcome |-> "open"])
  /\ UNCHANGED <<executed, answer>>

Execute(n) ==
  /\ n \in 1..Len(calls)
  /\ calls[n].outcome # "answered"
  /\ \A i \in 1..Len(executed) : executed[i] < n
  /\ executed' = Append(executed, n)
  /\ UNCHANGED <<calls, answer>>

Return ==
  /\ Open(calls)
  /\ Len(executed) > 0 /\ executed[Len(executed)] = Len(calls)
  /\ calls' = Close(calls, "answered")
  /\ answer' = Answer(Len(calls), calls[Len(calls)].size)
  /\ UNCHANGED executed

Fail ==
  /\ Open(calls)
  /\ calls' = Close(calls, "failed")
  /\ UNCHANGED <<executed, answer>>

Init == calls = <<>> /\ executed = <<>> /\ answer = <<>>

Next == \/ \E size \in Sizes : Call(size)
        \/ \E n \in 1..Len(calls) : Execute(n)
        \/ Return \/ Fail

Spec == Init /\ [][Next]_<<calls, executed, answer>>
=============================================================================
