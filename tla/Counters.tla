------------------------------ MODULE Counters ------------------------------
(***************************************************************************)
(* The attendance counters of the card, on top of CardAuth: a counter is   *)
(* set and removed by authenticated configuration, goes up by one for a    *)
(* message its key has signed, and is backed up and restored with the      *)
(* others.                                                                 *)
(***************************************************************************)
EXTENDS CardAuth

CONSTANTS
  CounterIds,
  Cursors,     \* the four bytes that tell one lecture from another, as numbers
  NewCounters  \* what SET_COUNTER may write

ByteSize == 256

Counter     == [exists : BOOLEAN, key_id : Nat, index : 0..ByteSize-1, cursor : Cursors]
ZeroCounter == [exists |-> FALSE, key_id |-> 0, index |-> 0, cursor |-> 0]

SetCounterCommand(n, v)  == [ins |-> "SET_COUNTER", counter_id |-> n, value |-> v]
RemoveCounterCommand(n)  == [ins |-> "REMOVE_COUNTER", counter_id |-> n]
CounterCommands ==
  {SetCounterCommand(n, v) : n \in CounterIds, v \in NewCounters}
  \cup {RemoveCounterCommand(n) : n \in CounterIds}

ASSUME CountersAssumption ==
  /\ CounterIds \subseteq Nat /\ Cursors \subseteq Nat /\ 0 \in Cursors
  /\ NewCounters \subseteq {v \in Counter : v.exists}
  /\ Increments = [counter_id : CounterIds, cursor : Cursors]
  /\ CounterCommands \subseteq EqualCommands

VARIABLES
  counters,
  counter_archives,   \* history: the archives BACKUP_COUNTERS has made
  granted,            \* history: the largest index SET_COUNTER has given a counter
  counted             \* history: how often INCREMENT_COUNTER has counted

counterVars == <<counters, counter_archives, granted, counted>>
vars        == <<authVars, counterVars>>

Existing == {n \in CounterIds : counters[n].exists}

\* What an archive keeps: index and cursor of the counters there are.
Archives == UNION {[S -> [index : 0..ByteSize-1, cursor : Cursors]] : S \in SUBSET CounterIds}

-----------------------------------------------------------------------------

WriteCounter(n, v) ==
  /\ counters' = [counters EXCEPT ![n] = v]
  /\ granted' = IF v.index > granted[n] THEN [granted EXCEPT ![n] = v.index] ELSE granted
  /\ UNCHANGED <<counter_archives, counted>>

\* In ROOT at will, in WORKING as the authenticated command.
SetCounter(n, v) ==
  /\ \/ mode = "ROOT" /\ UNCHANGED authVars
     \/ Configured(SetCounterCommand(n, v))
  /\ WriteCounter(n, v)

RemoveCounter(n) ==
  /\ counters[n].exists
  /\ \/ mode = "ROOT" /\ UNCHANGED authVars
     \/ Configured(RemoveCounterCommand(n))
  /\ WriteCounter(n, ZeroCounter)

\* mem_cmp gives a BYTE: it is > 0 whenever the cursors differ.
Advances(cursor, n) == cursor # counters[n].cursor

\* The signed message m counts for the key k it was verified under.
Counts(k, m) ==
  /\ m \in Increments
  /\ counters[m.counter_id].exists
  /\ counters[m.counter_id].key_id = k
  /\ Advances(m.cursor, m.counter_id)

Increment(k, data) ==
  LET m == data.msg
      n == m.counter_id
  IN  /\ IncrementCounter(k, data)
      /\ IF Counts(k, m)
           THEN /\ counters' = [counters EXCEPT ![n].index = (@ + 1) % ByteSize,
                                                ![n].cursor = m.cursor]
                /\ counted' = [counted EXCEPT ![n] = @ + 1]
           ELSE UNCHANGED <<counters, counted>>
      /\ UNCHANGED <<counter_archives, granted>>

\* The archive goes out through the buffer.
BackupCounters ==
  /\ Served
  /\ Existing # {}
  /\ counter_archives' = counter_archives
       \cup {[n \in Existing |-> [index |-> counters[n].index, cursor |-> counters[n].cursor]]}
  /\ buffer' = OtherData
  /\ origin' = NoOrigin
  /\ UNCHANGED <<mode, keyState, challenges, signed, history, counters, granted, counted>>

\* (Faulty variant: the entries are taken for the first counters there are.)
RestoredByPosition(a) ==
  LET entry(n) == CHOOSE m \in DOMAIN a :
                    Cardinality({x \in DOMAIN a : x < m}) = Cardinality({x \in CounterIds : x < n})
  IN  [n \in CounterIds |->
        IF Cardinality({x \in CounterIds : x < n}) < Cardinality(DOMAIN a) /\ counters[n].exists
          THEN [counters[n] EXCEPT !.index = a[entry(n)].index, !.cursor = a[entry(n)].cursor]
          ELSE counters[n]]

\* (Faulty variant: an entry is written over the whole counter.)
RestoredWhole(a) == [n \in CounterIds |-> IF n \in DOMAIN a THEN a[n] ELSE counters[n]]

\* The entries are written in the order of their ids, up to the first whose counter does
\* not exist: there the command ends with an error, and the counters before stay written.
Restored(a) ==
  LET reached(n) == n \in DOMAIN a /\ \A m \in DOMAIN a : m <= n => counters[m].exists
  IN  [n \in CounterIds |->
        IF reached(n) THEN [counters[n] EXCEPT !.index = a[n].index, !.cursor = a[n].cursor]
                      ELSE counters[n]]

\* PUT_DATA has brought an archive.  small_buffer, where the entries pass through, is
\* the memory of the challenge.
RestoreCounters(a) ==
  /\ Served
  /\ buffer = OtherData
  /\ counters' = Restored(a)
  /\ challenge' = 0
  /\ origin' = NoOrigin
  /\ UNCHANGED <<mode, keyState, buffer, challenge_size, drawn, signed, history,
                 counter_archives, granted, counted>>

EraseCounters ==
  /\ Erase
  /\ counters' = [n \in CounterIds |-> ZeroCounter]
  /\ UNCHANGED <<counter_archives, granted, counted>>

-----------------------------------------------------------------------------

CounterInit ==
  /\ AuthInit
  /\ counters = [n \in CounterIds |-> ZeroCounter]
  /\ counter_archives = {}
  /\ granted = [n \in CounterIds |-> 0]
  /\ counted = [n \in CounterIds |-> 0]

OtherStep ==
  /\ \/ AuthStep
     \/ \E c \in (PrefixCommands \cup EqualCommands) \ CounterCommands : Configured(c)
     \/ \E data \in signed \cup {OtherData} : IncrementCounterFails(data)
  /\ UNCHANGED counterVars

CounterNext ==
  \/ OtherStep
  \/ \E n \in CounterIds : RemoveCounter(n) \/ \E v \in NewCounters : SetCounter(n, v)
  \/ \E k \in KeyIds, data \in signed : Increment(k, data)
  \/ BackupCounters
  \/ \E a \in counter_archives : RestoreCounters(a)
  \/ EraseCounters

CounterSpec == CounterInit /\ [][CounterNext]_vars

-----------------------------------------------------------------------------
(* Properties.  *)

CountersTypeOK ==
  /\ TypeOK
  /\ counters \in [CounterIds -> Counter]
  /\ counter_archives \subseteq Archives
  /\ granted \in [CounterIds -> 0..ByteSize-1]
  /\ counted \in [CounterIds -> Nat]

\* A signed attendance counts once at most: INCREMENT_COUNTER sent again or late, after
\* other lectures, after the counter was restored, or after AUTHENTICATE_DATA has taken
\* the same signature, does not count.
AttendanceCountedOnce ==
  \A n \in CounterIds :
    counted[n] <= Cardinality({s \in signed : s.msg \in Increments /\ s.msg.counter_id = n})

\* No mix of SET_COUNTER, increments, backups and restores takes an index above what the
\* counter was given plus what it has counted.
IndexEarned ==
  \A n \in CounterIds : counters[n].index <= granted[n] + counted[n]

\* "an ID for the lecture that is supposed to increase for each lecture"; the comparison
\* mem_cmp(...) > 0 is there to count a later lecture only.
CursorAdvances ==
  [][ \A n \in CounterIds :
        counted'[n] # counted[n] => counters'[n].cursor > counters[n].cursor ]_vars
=============================================================================
