----------------------------- MODULE MCCounters -----------------------------
(* Two counters of one key, which is also the root key, and two lectures.  *)
EXTENDS Counters

CONSTANTS MaxDrawn, MaxSigned, MaxArchives

MCNewCounters == {[exists |-> TRUE, key_id |-> k, index |-> 0, cursor |-> 0] : k \in KeyIds}
MCIncrements  == [counter_id : CounterIds, cursor : Cursors]
MCEqual       == CounterCommands
MCSignedBy    == [s \in Keys |->
                   {inc \in Increments : inc.cursor # 0 /\ inc.counter_id = 2}
                   \cup {Message(SetCounterCommand(1, v), Nothing) : v \in NewCounters}
                   \cup {Message(RemoveCounterCommand(1), Nothing)}]

Bounds == /\ drawn <= MaxDrawn
          /\ Cardinality(signed) <= MaxSigned
          /\ Cardinality(counter_archives) <= MaxArchives

\* What no action and no property of this module reads is left out.
WithoutHistory ==
  <<mode, keyState, buffer, challenges, signed, counterVars>>
=============================================================================
