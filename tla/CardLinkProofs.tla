--------------------------- MODULE CardLinkProofs ---------------------------
(***************************************************************************)
(* Type correctness, AnsweredIsSaved and the refinement of CardCalls.      *)
(*                                                                         *)
(* The inductive invariant says where the one frame of a call is, that a   *)
(* call is not executed as long as its command is under way, and that what *)
(* the driver has, with what is under way to it and what the card still    *)
(* has to send, is the answer.                                             *)
(***************************************************************************)
EXTENDS CardLink, SequenceTheorems, TLAPS

Pending  == {"connect", "send", "receive"}

Fresh(n) == \A i \in 1..Len(executed) : executed[i] < n
Done(n)  == Len(executed) > 0 /\ executed[Len(executed)] = n

\* The two ends.
EndsInv ==
  /\ link = "accepted" <=> peer = "host"
  /\ link = "dead" => peer = "none"
  /\ peer = "none" => requests = <<>>
  /\ at \in {"off", "create_json", "accept"} <=> peer = "none"
  /\ doing = "idle" <=> ~Calls!Open(calls)
  /\ doing = "connect" => command = This
  /\ doing # "idle" => command \in {This, GetResponse}

\* The one frame.
WireInv ==
  /\ responses # <<>> => /\ doing = "receive" /\ requests = <<>>
                         /\ link \in {"accepted", "dead"}
  /\ link = "accepted" /\ doing # "receive" => at = "read" /\ requests = <<>>
  /\ link = "accepted" /\ doing = "receive" =>
       \/ at = "read" /\ requests = <<command>> /\ responses = <<>>
       \/ at \in Busy /\ requests = <<>> /\ responses = <<>>
       \/ at = "read" /\ requests = <<>> /\ responses # <<>>
  /\ peer = "gone" /\ requests # <<>> /\ Head(requests) # GetResponse =>
       /\ Fresh(Head(requests))
       /\ Head(requests) \in 1..This
       /\ calls[Head(requests)].outcome = "failed"

\* What the card still has of the answer, with k bytes before it.
Rest(k) ==
  /\ temp_buffer = This
  /\ remaining_size > 0
  /\ remaining_position = k

\* data is what the driver has after a response, more what the response announces.
Progress(data, more) ==
  /\ Done(This)
  /\ data = Calls!Bytes(This, 0, Len(data))
  /\ IF more > 0 THEN link = "accepted" => Rest(Len(data))
                 ELSE Len(data) = calls[This].size

\* The command of the open call has not been executed before it is received.
FirstInv ==
  /\ doing \in {"connect", "send"} /\ command = This => Fresh(This) /\ got = <<>>
  /\ link = "accepted" /\ doing = "receive" /\ requests = <<This>> => Fresh(This) /\ got = <<>>

\* GET_RESPONSE is about to be sent, or under way.
MoreInv ==
  /\ link = "accepted" /\ command = GetResponse
  /\ doing = "send" \/ (doing = "receive" /\ requests # <<>>)
  => Progress(got, 1)

\* The card has made a response, or the response is under way.
ReplyInv ==
  /\ link = "accepted" /\ doing = "receive" /\ at \in Busy =>
       Progress(got \o reply.data, reply.more)
  /\ responses # <<>> => Progress(got \o Head(responses).data, Head(responses).more)

CallInv == FirstInv /\ MoreInv /\ ReplyInv

\* The status file.
FileInv ==
  /\ at \in {"accept", "read", "write"} => file = log
  /\ AnsweredIsSaved
  /\ responses # <<>> => file = log \/ log = {}

Inv == TypeOK /\ EndsInv /\ WireInv /\ CallInv /\ FileInv

-----------------------------------------------------------------------------
(* Sequences.  *)

\* A stream with at most one frame.
LEMMA OneFrame ==
  ASSUME NEW S, NEW q \in Seq(S), Len(q) <= 1, q # <<>>
  PROVE  Head(q) \in S /\ q = <<Head(q)>> /\ Tail(q) = <<>> /\ Len(q) = 1
<1>1. Head(q) \in S /\ Tail(q) \in Seq(S) /\ Len(Tail(q)) = Len(q) - 1
  BY HeadTailProperties
<1>2. \A t \in Seq(S) : t # <<>> => Len(t) \in Nat \ {0}
  BY EmptySeq
<1>3. Len(q) = 1 /\ Tail(q) = <<>>
  BY <1>1, <1>2
<1>4. q = <<Head(q)>>
  BY <1>3, LenProperties
<1> QED
  BY <1>1, <1>3, <1>4

LEMMA NoFrame ==
  ASSUME NEW S, NEW x \in S
  PROVE  /\ Append(<<>>, x) = <<x>> /\ <<x>> \in Seq(S) /\ Len(<<x>>) = 1
         /\ <<x>> # <<>> /\ Head(<<x>>) = x /\ Tail(<<x>>) = <<>>
OBVIOUS

\* Bytes that lie one behind the other.
LEMMA BytesType ==
  ASSUME NEW n, NEW from \in Nat, NEW k \in Nat, n \in 1..MaxCalls \/ k = 0
  PROVE  Calls!Bytes(n, from, k) \in Seq(Datum) /\ Len(Calls!Bytes(n, from, k)) = k
<1>1. \A i \in 1..k : <<n, from + i>> \in Datum
  BY DEF Datum
<1>2. Calls!Bytes(n, from, k) \in [1..k -> Datum]
  BY <1>1 DEF Calls!Bytes
<1> QED
  BY <1>2, SeqDef

LEMMA BytesJoin ==
  ASSUME NEW n \in 1..MaxCalls, NEW k \in Nat, NEW m \in Nat
  PROVE  Calls!Bytes(n, 0, k) \o Calls!Bytes(n, k, m) = Calls!Bytes(n, 0, k + m)
<1> DEFINE s == Calls!Bytes(n, 0, k)
           t == Calls!Bytes(n, k, m)
           u == Calls!Bytes(n, 0, k + m)
<1>s. s \in Seq(Datum) /\ Len(s) = k
  BY BytesType
<1>t. t \in Seq(Datum) /\ Len(t) = m
  BY BytesType
<1>u. u \in Seq(Datum) /\ Len(u) = k + m
  <2>1. k + m \in Nat
    OBVIOUS
  <2> QED
    BY <2>1, BytesType
<1>3. \A i \in 1..k : s[i] = <<n, 0 + i>>
  BY DEF Calls!Bytes
<1>4. \A i \in 1..m : t[i] = <<n, k + i>>
  BY DEF Calls!Bytes
<1>5. \A i \in 1..(k + m) : u[i] = <<n, 0 + i>>
  BY DEF Calls!Bytes
<1> HIDE DEF s, t, u
<1>6. s \o t \in Seq(Datum) /\ Len(s \o t) = k + m
  BY <1>s, <1>t, ConcatProperties
<1>7. ASSUME NEW i \in 1..(k + m) PROVE (s \o t)[i] = u[i]
  <2>0. i \in Int /\ k \in Int
    OBVIOUS
  <2>1. CASE i <= k
    <3>1. i \in 1..k /\ (s \o t)[i] = s[i]
      BY <1>s, <1>t, <2>1, ConcatProperties
    <3> QED
      BY <1>3, <1>5, <3>1
  <2>2. CASE ~(i <= k)
    <3>1. i - k \in 1..m /\ (s \o t)[i] = t[i - k]
      BY <1>s, <1>t, <2>2, ConcatProperties
    <3>2. t[i - k] = <<n, k + (i - k)>>
      BY <1>4, <3>1
    <3> QED
      BY <1>5, <3>1, <3>2
  <2> QED
    BY <2>0, <2>1, <2>2
<1>8. s \o t = u
  BY <1>u, <1>6, <1>7, SeqEqual
<1> QED
  BY <1>8 DEF s, t, u

CallRecord == [size : Sizes, outcome : {"open", "answered", "failed"}]

\* A call that is closed keeps its size, and the others stay as they are.
LEMMA Closing ==
  ASSUME NEW cs \in Seq(CallRecord), Calls!Open(cs), NEW o \in {"answered", "failed"}
  PROVE  /\ Calls!Close(cs, o) \in Seq(CallRecord)
         /\ Len(Calls!Close(cs, o)) = Len(cs)
         /\ ~Calls!Open(Calls!Close(cs, o))
         /\ Calls!Close(cs, o)[Len(cs)].outcome = o
         /\ \A i \in 1..Len(cs) : /\ Calls!Close(cs, o)[i].size = cs[i].size
                                  /\ i # Len(cs) => Calls!Close(cs, o)[i] = cs[i]
<1> DEFINE c == [cs[Len(cs)] EXCEPT !.outcome = o]
<1>1. Len(cs) \in Nat /\ Len(cs) > 0 /\ cs[Len(cs)] \in CallRecord
  BY LenProperties DEF Calls!Open
<1>2. c \in CallRecord /\ c.outcome = o /\ c.size = cs[Len(cs)].size
  BY <1>1 DEF CallRecord
<1>3. Calls!Close(cs, o) = [cs EXCEPT ![Len(cs)] = c]
  BY DEF Calls!Close
<1> HIDE DEF c
<1>4. /\ [cs EXCEPT ![Len(cs)] = c] \in Seq(CallRecord)
      /\ Len([cs EXCEPT ![Len(cs)] = c]) = Len(cs)
      /\ \A j \in 1..Len(cs) : [cs EXCEPT ![Len(cs)] = c][j] = IF j = Len(cs) THEN c ELSE cs[j]
  BY <1>1, <1>2, ExceptSeq
<1> QED
  BY <1>1, <1>2, <1>3, <1>4 DEF Calls!Open

LEMMA Calling ==
  ASSUME NEW cs \in Seq(CallRecord), NEW size \in Sizes
  PROVE  LET new == Append(cs, [size |-> size, outcome |-> "open"])
         IN  /\ new \in Seq(CallRecord) /\ Len(new) = Len(cs) + 1 /\ Calls!Open(new)
             /\ new[Len(cs) + 1].size = size
             /\ \A i \in 1..Len(cs) : new[i] = cs[i]
<1> DEFINE c == [size |-> size, outcome |-> "open"]
<1>1. c \in CallRecord
  BY DEF CallRecord
<1>2. Append(cs, c) \in Seq(CallRecord) /\ Len(Append(cs, c)) = Len(cs) + 1
      /\ Append(cs, c)[Len(cs) + 1] = c /\ \A i \in 1..Len(cs) : Append(cs, c)[i] = cs[i]
  BY <1>1, AppendProperties
<1> QED
  BY <1>2, LenProperties DEF Calls!Open

-----------------------------------------------------------------------------
(* The invariant.  *)

LEMMA InitInv == Init => Inv
<1> SUFFICES ASSUME Init PROVE Inv
  OBVIOUS
<1>1. TypeOK
  BY LinkAssumption, EmptySeq DEF Init, TypeOK, Datum, This, Links, Response, GetResponse, Running
<1>2. EndsInv
  BY EmptySeq DEF Init, EndsInv, Calls!Open
<1>3. WireInv /\ CallInv
  BY DEF Init, WireInv, CallInv, FirstInv, MoreInv, ReplyInv
<1>4. FileInv
  BY DEF Init, FileInv, AnsweredIsSaved
<1> QED
  BY <1>1, <1>2, <1>3, <1>4 DEF Inv

LEMMA OpenFileStep ==
  ASSUME Inv, OpenFile
  PROVE  Inv'
<1>1. TypeOK'
  BY LinkAssumption
     DEF Inv, OpenFile, card, driver, streams, history, large, TypeOK, This, Running, Busy,
         Links
<1>2. EndsInv'
  BY DEF Inv, OpenFile, card, driver, streams, history, large, TypeOK, EndsInv, WireInv, This,
         Busy, Running
<1>3. WireInv'
  BY DEF Inv, OpenFile, card, driver, streams, history, large, TypeOK, EndsInv, WireInv, Fresh,
         This, Busy
<1>4. FirstInv'
  BY DEF Inv, OpenFile, card, driver, streams, history, large, TypeOK, EndsInv, WireInv,
         CallInv, FirstInv, Fresh, This, Busy
<1>5. MoreInv'
  BY DEF Inv, OpenFile, card, driver, streams, history, large, TypeOK, EndsInv, WireInv,
         CallInv, MoreInv, Progress, Rest, Done, This, Busy, GetResponse, Calls!Open
<1>6. ReplyInv'
  BY DEF Inv, OpenFile, card, driver, streams, history, large, TypeOK, EndsInv, WireInv,
         CallInv, ReplyInv, Progress, Rest, Done, This, Busy
<1>7. FileInv'
  BY DEF Inv, OpenFile, card, driver, streams, history, large, TypeOK, EndsInv, WireInv,
         FileInv, AnsweredIsSaved, Busy
<1> QED
  BY <1>1, <1>2, <1>3, <1>4, <1>5, <1>6, <1>7 DEF Inv, CallInv

LEMMA SaveFileStep ==
  ASSUME Inv, SaveFile
  PROVE  Inv'
<1>1. TypeOK'
  BY LinkAssumption
     DEF Inv, SaveFile, card, driver, streams, history, large, TypeOK, This, Running, Busy,
         Links
<1>2. EndsInv'
  BY DEF Inv, SaveFile, card, driver, streams, history, large, TypeOK, EndsInv, WireInv, This,
         Busy, Running
<1>3. WireInv'
  BY DEF Inv, SaveFile, card, driver, streams, history, large, TypeOK, EndsInv, WireInv, Fresh,
         This, Busy
<1>4. FirstInv'
  BY DEF Inv, SaveFile, card, driver, streams, history, large, TypeOK, EndsInv, WireInv,
         CallInv, FirstInv, Fresh, This, Busy
<1>5. MoreInv'
  BY DEF Inv, SaveFile, card, driver, streams, history, large, TypeOK, EndsInv, WireInv,
         CallInv, MoreInv, Progress, Rest, Done, This, Busy, GetResponse, Calls!Open
<1>6. ReplyInv'
  BY DEF Inv, SaveFile, card, driver, streams, history, large, TypeOK, EndsInv, WireInv,
         CallInv, ReplyInv, Progress, Rest, Done, This, Busy
<1>7. FileInv'
  BY DEF Inv, SaveFile, card, driver, streams, history, large, TypeOK, EndsInv, WireInv,
         FileInv, AnsweredIsSaved, Busy
<1> QED
  BY <1>1, <1>2, <1>3, <1>4, <1>5, <1>6, <1>7 DEF Inv, CallInv

LEMMA ReuseStep ==
  ASSUME Inv, Reuse
  PROVE  Inv'
<1>1. TypeOK'
  BY LinkAssumption
     DEF Inv, Reuse, card, driver, streams, history, large, TypeOK, This, Running, Busy, Links
<1>2. EndsInv'
  BY DEF Inv, Reuse, card, driver, streams, history, large, TypeOK, EndsInv, WireInv, This,
         Busy, Running
<1>3. WireInv'
  BY DEF Inv, Reuse, card, driver, streams, history, large, TypeOK, EndsInv, WireInv, Fresh,
         This, Busy
<1>4. FirstInv'
  BY DEF Inv, Reuse, card, driver, streams, history, large, TypeOK, EndsInv, WireInv, CallInv,
         FirstInv, Fresh, This, Busy
<1>5. MoreInv'
  BY DEF Inv, Reuse, card, driver, streams, history, large, TypeOK, EndsInv, WireInv, CallInv,
         MoreInv, Progress, Rest, Done, This, Busy, GetResponse, Calls!Open
<1>6. ReplyInv'
  BY DEF Inv, Reuse, card, driver, streams, history, large, TypeOK, EndsInv, WireInv, CallInv,
         ReplyInv, Progress, Rest, Done, This, Busy
<1>7. FileInv'
  BY DEF Inv, Reuse, card, driver, streams, history, large, TypeOK, EndsInv, WireInv, FileInv,
         AnsweredIsSaved, Busy
<1> QED
  BY <1>1, <1>2, <1>3, <1>4, <1>5, <1>6, <1>7 DEF Inv, CallInv

LEMMA ConnectStep ==
  ASSUME Inv, Connect
  PROVE  Inv'
<1>1. TypeOK'
  BY LinkAssumption
     DEF Inv, Connect, card, driver, streams, history, large, TypeOK, This, Running, Busy, Links
<1>2. EndsInv'
  BY DEF Inv, Connect, card, driver, streams, history, large, TypeOK, EndsInv, WireInv, This,
         Busy, Running
<1>3. WireInv'
  BY DEF Inv, Connect, card, driver, streams, history, large, TypeOK, EndsInv, WireInv, Fresh,
         This, Busy
<1>4. FirstInv'
  BY DEF Inv, Connect, card, driver, streams, history, large, TypeOK, EndsInv, WireInv, CallInv,
         FirstInv, Fresh, This, Busy
<1>5. MoreInv'
  BY DEF Inv, Connect, card, driver, streams, history, large, TypeOK, EndsInv, WireInv, CallInv,
         MoreInv, Progress, Rest, Done, This, Busy, GetResponse, Calls!Open
<1>6. ReplyInv'
  BY DEF Inv, Connect, card, driver, streams, history, large, TypeOK, EndsInv, WireInv, CallInv,
         ReplyInv, Progress, Rest, Done, This, Busy
<1>7. FileInv'
  BY DEF Inv, Connect, card, driver, streams, history, large, TypeOK, EndsInv, WireInv, FileInv,
         AnsweredIsSaved, Busy
<1> QED
  BY <1>1, <1>2, <1>3, <1>4, <1>5, <1>6, <1>7 DEF Inv, CallInv

LEMMA HangUpStep ==
  ASSUME Inv, HangUp
  PROVE  Inv'
<1>1. TypeOK'
  BY LinkAssumption
     DEF Inv, HangUp, card, driver, streams, history, large, TypeOK, This, Running, Busy, Links,
         Stop
<1>2. EndsInv'
  BY DEF Inv, HangUp, card, driver, streams, history, large, TypeOK, EndsInv, WireInv, This,
         Busy, Running, Stop
<1>3. WireInv'
  BY DEF Inv, HangUp, card, driver, streams, history, large, TypeOK, EndsInv, WireInv, Fresh,
         This, Busy, Stop
<1>4. FirstInv'
  BY DEF Inv, HangUp, card, driver, streams, history, large, TypeOK, EndsInv, WireInv, CallInv,
         FirstInv, Fresh, This, Busy, Stop
<1>5. MoreInv'
  BY DEF Inv, HangUp, card, driver, streams, history, large, TypeOK, EndsInv, WireInv, CallInv,
         MoreInv, Progress, Rest, Done, This, Busy, GetResponse, Calls!Open, Stop
<1>6. ReplyInv'
  BY DEF Inv, HangUp, card, driver, streams, history, large, TypeOK, EndsInv, WireInv, CallInv,
         ReplyInv, Progress, Rest, Done, This, Busy, Stop
<1>7. FileInv'
  BY DEF Inv, HangUp, card, driver, streams, history, large, TypeOK, EndsInv, WireInv, FileInv,
         AnsweredIsSaved, Busy, Stop
<1> QED
  BY <1>1, <1>2, <1>3, <1>4, <1>5, <1>6, <1>7 DEF Inv, CallInv

LEMMA CrashStep ==
  ASSUME Inv, Crash
  PROVE  Inv'
<1>1. TypeOK'
  BY LinkAssumption
     DEF Inv, Crash, card, driver, streams, history, large, TypeOK, This, Running, Busy, Links,
         Stop
<1>2. EndsInv'
  BY DEF Inv, Crash, card, driver, streams, history, large, TypeOK, EndsInv, WireInv, This,
         Busy, Running, Stop
<1>3. WireInv'
  BY DEF Inv, Crash, card, driver, streams, history, large, TypeOK, EndsInv, WireInv, Fresh,
         This, Busy, Stop
<1>4. FirstInv'
  BY DEF Inv, Crash, card, driver, streams, history, large, TypeOK, EndsInv, WireInv, CallInv,
         FirstInv, Fresh, This, Busy, Stop
<1>5. MoreInv'
  BY DEF Inv, Crash, card, driver, streams, history, large, TypeOK, EndsInv, WireInv, CallInv,
         MoreInv, Progress, Rest, Done, This, Busy, GetResponse, Calls!Open, Stop
<1>6. ReplyInv'
  BY DEF Inv, Crash, card, driver, streams, history, large, TypeOK, EndsInv, WireInv, CallInv,
         ReplyInv, Progress, Rest, Done, This, Busy, Stop
<1>7. FileInv'
  BY DEF Inv, Crash, card, driver, streams, history, large, TypeOK, EndsInv, WireInv, FileInv,
         AnsweredIsSaved, Busy, Stop
<1> QED
  BY <1>1, <1>2, <1>3, <1>4, <1>5, <1>6, <1>7 DEF Inv, CallInv

LEMMA StartStep ==
  ASSUME Inv, Start
  PROVE  Inv'
<1>1. TypeOK'
  BY LinkAssumption
     DEF Inv, Start, card, driver, streams, history, large, TypeOK, This, Running, Busy, Links
<1>2. EndsInv'
  BY DEF Inv, Start, card, driver, streams, history, large, TypeOK, EndsInv, WireInv, This,
         Busy, Running
<1>3. WireInv'
  BY DEF Inv, Start, card, driver, streams, history, large, TypeOK, EndsInv, WireInv, Fresh,
         This, Busy
<1>4. FirstInv'
  BY DEF Inv, Start, card, driver, streams, history, large, TypeOK, EndsInv, WireInv, CallInv,
         FirstInv, Fresh, This, Busy
<1>5. MoreInv'
  BY DEF Inv, Start, card, driver, streams, history, large, TypeOK, EndsInv, WireInv, CallInv,
         MoreInv, Progress, Rest, Done, This, Busy, GetResponse, Calls!Open
<1>6. ReplyInv'
  BY DEF Inv, Start, card, driver, streams, history, large, TypeOK, EndsInv, WireInv, CallInv,
         ReplyInv, Progress, Rest, Done, This, Busy
<1>7. FileInv'
  BY DEF Inv, Start, card, driver, streams, history, large, TypeOK, EndsInv, WireInv, FileInv,
         AnsweredIsSaved, Busy
<1> QED
  BY <1>1, <1>2, <1>3, <1>4, <1>5, <1>6, <1>7 DEF Inv, CallInv

LEMMA CreateJsonStep ==
  ASSUME Inv, CreateJson
  PROVE  Inv'
<1>1. TypeOK'
  BY LinkAssumption
     DEF Inv, CreateJson, card, driver, streams, history, large, TypeOK, This, Running, Busy,
         Links
<1>2. EndsInv'
  BY DEF Inv, CreateJson, card, driver, streams, history, large, TypeOK, EndsInv, WireInv, This,
         Busy, Running
<1>3. WireInv'
  BY DEF Inv, CreateJson, card, driver, streams, history, large, TypeOK, EndsInv, WireInv,
         Fresh, This, Busy
<1>4. FirstInv'
  BY DEF Inv, CreateJson, card, driver, streams, history, large, TypeOK, EndsInv, WireInv,
         CallInv, FirstInv, Fresh, This, Busy
<1>5. MoreInv'
  BY DEF Inv, CreateJson, card, driver, streams, history, large, TypeOK, EndsInv, WireInv,
         CallInv, MoreInv, Progress, Rest, Done, This, Busy, GetResponse, Calls!Open
<1>6. ReplyInv'
  BY DEF Inv, CreateJson, card, driver, streams, history, large, TypeOK, EndsInv, WireInv,
         CallInv, ReplyInv, Progress, Rest, Done, This, Busy
<1>7. FileInv'
  BY DEF Inv, CreateJson, card, driver, streams, history, large, TypeOK, EndsInv, WireInv,
         FileInv, AnsweredIsSaved, Busy
<1> QED
  BY <1>1, <1>2, <1>3, <1>4, <1>5, <1>6, <1>7 DEF Inv, CallInv

LEMMA SendStep ==
  ASSUME Inv, Send
  PROVE  Inv'
<1>a. command \in 0..MaxCalls
  BY DEF Inv, TypeOK
<1>b. link = "accepted" => /\ requests = <<>> /\ requests' = <<command>>
                           /\ requests' \in Seq(0..MaxCalls) /\ Len(requests') = 1
                           /\ requests' # <<>> /\ Head(requests') = command
  BY <1>a, NoFrame DEF Inv, WireInv, Send
<1>1. TypeOK'
  BY LinkAssumption, <1>a, <1>b
     DEF Inv, Send, card, driver, streams, history, large, TypeOK, This, Running, Busy, Links
<1>2. EndsInv'
  BY <1>a, <1>b
     DEF Inv, Send, card, driver, streams, history, large, TypeOK, EndsInv, WireInv, This, Busy,
         Running
<1>3. WireInv'
  BY <1>a, <1>b
     DEF Inv, Send, card, driver, streams, history, large, TypeOK, EndsInv, WireInv, Fresh,
         This, Busy
<1>4. FirstInv'
  BY <1>a, <1>b
     DEF Inv, Send, card, driver, streams, history, large, TypeOK, EndsInv, WireInv, CallInv,
         FirstInv, Fresh, This, Busy
<1>5. MoreInv'
  BY <1>a, <1>b
     DEF Inv, Send, card, driver, streams, history, large, TypeOK, EndsInv, WireInv, CallInv,
         MoreInv, Progress, Rest, Done, This, Busy, GetResponse, Calls!Open
<1>6. ReplyInv'
  BY <1>a, <1>b
     DEF Inv, Send, card, driver, streams, history, large, TypeOK, EndsInv, WireInv, CallInv,
         ReplyInv, Progress, Rest, Done, This, Busy
<1>7. FileInv'
  BY <1>a, <1>b
     DEF Inv, Send, card, driver, streams, history, large, TypeOK, EndsInv, WireInv, FileInv,
         AnsweredIsSaved, Busy
<1> QED
  BY <1>1, <1>2, <1>3, <1>4, <1>5, <1>6, <1>7 DEF Inv, CallInv

LEMMA OutputResponseStep ==
  ASSUME Inv, OutputResponse
  PROVE  Inv'
<1> DEFINE R == [data : Seq(Datum), more : 0..MaxOutput]
<1>a. reply \in R
  BY DEF Inv, TypeOK
<1>b. peer = "host" => /\ link = "accepted" /\ doing = "receive" /\ requests = <<>>
                       /\ responses = <<>> /\ responses' = Append(<<>>, reply)
  BY DEF Inv, EndsInv, WireInv, OutputResponse, Busy
<1>c. /\ Append(<<>>, reply) \in Seq(R) /\ Len(Append(<<>>, reply)) = 1
      /\ Append(<<>>, reply) # <<>> /\ Head(Append(<<>>, reply)) = reply
  BY <1>a, NoFrame
<1>d. responses' \in Seq(R) /\ Len(responses') <= 1
  <2>1. CASE peer = "host"
    <3>1. responses' = Append(<<>>, reply)
      BY <1>b, <2>1
    <3> HIDE DEF R
    <3> QED
      BY <1>c, <3>1
  <2>2. CASE peer # "host"
    <3>1. responses' = responses
      BY <2>2 DEF OutputResponse
    <3> QED
      BY <3>1 DEF Inv, TypeOK
  <2> QED
    BY <2>1, <2>2
<1>1. TypeOK'
  BY LinkAssumption, <1>a, <1>b, <1>c, <1>d
     DEF Inv, OutputResponse, card, driver, streams, history, large, TypeOK, This, Running,
         Busy, Links
<1>2. EndsInv'
  BY <1>a, <1>b, <1>c, <1>d
     DEF Inv, OutputResponse, card, driver, streams, history, large, TypeOK, EndsInv, WireInv,
         This, Busy, Running
<1>3. WireInv'
  BY <1>a, <1>b, <1>c, <1>d
     DEF Inv, OutputResponse, card, driver, streams, history, large, TypeOK, EndsInv, WireInv,
         Fresh, This, Busy
<1>4. FirstInv'
  BY <1>a, <1>b, <1>c, <1>d
     DEF Inv, OutputResponse, card, driver, streams, history, large, TypeOK, EndsInv, WireInv,
         CallInv, FirstInv, Fresh, This, Busy
<1>5. MoreInv'
  BY <1>a, <1>b, <1>c, <1>d
     DEF Inv, OutputResponse, card, driver, streams, history, large, TypeOK, EndsInv, WireInv,
         CallInv, MoreInv, Progress, Rest, Done, This, Busy, GetResponse, Calls!Open
<1>6. ReplyInv'
  BY <1>a, <1>b, <1>c, <1>d
     DEF Inv, OutputResponse, card, driver, streams, history, large, TypeOK, EndsInv, WireInv,
         CallInv, ReplyInv, Progress, Rest, Done, This, Busy
<1>7. FileInv'
  BY <1>a, <1>b, <1>c, <1>d
     DEF Inv, OutputResponse, card, driver, streams, history, large, TypeOK, EndsInv, WireInv,
         FileInv, AnsweredIsSaved, Busy
<1> QED
  BY <1>1, <1>2, <1>3, <1>4, <1>5, <1>6, <1>7 DEF Inv, CallInv

LEMMA ReceiveFailsStep ==
  ASSUME Inv, ReceiveFails
  PROVE  Inv'
<1>a. Calls!Open(calls) /\ calls \in Seq(CallRecord)
  BY DEF Inv, TypeOK, EndsInv, CallRecord, ReceiveFails
<1>b. /\ calls' \in Seq(CallRecord) /\ Len(calls') = Len(calls) /\ ~Calls!Open(calls')
      /\ \A i \in 1..Len(calls) : /\ calls'[i].size = calls[i].size
                                  /\ calls[i].outcome = "failed" => calls'[i].outcome = "failed"
      /\ calls'[Len(calls)].outcome = "failed"
  BY <1>a, Closing DEF ReceiveFails, Raise
<1>1. TypeOK'
  BY LinkAssumption, <1>a, <1>b
     DEF Inv, ReceiveFails, card, driver, streams, history, large, TypeOK, This, Running, Busy,
         Links, Raise, CallRecord
<1>2. EndsInv'
  BY <1>a, <1>b
     DEF Inv, ReceiveFails, card, driver, streams, history, large, TypeOK, EndsInv, WireInv,
         This, Busy, Running, Raise, CallRecord
<1>3. WireInv'
  BY <1>a, <1>b
     DEF Inv, ReceiveFails, card, driver, streams, history, large, TypeOK, EndsInv, WireInv,
         Fresh, This, Busy, Raise, CallRecord
<1>4. FirstInv'
  BY <1>a, <1>b
     DEF Inv, ReceiveFails, card, driver, streams, history, large, TypeOK, EndsInv, WireInv,
         CallInv, FirstInv, Fresh, This, Busy, Raise, CallRecord
<1>5. MoreInv'
  BY <1>a, <1>b
     DEF Inv, ReceiveFails, card, driver, streams, history, large, TypeOK, EndsInv, WireInv,
         CallInv, MoreInv, Progress, Rest, Done, This, Busy, GetResponse, Calls!Open, Raise,
         CallRecord
<1>6. ReplyInv'
  BY <1>a, <1>b
     DEF Inv, ReceiveFails, card, driver, streams, history, large, TypeOK, EndsInv, WireInv,
         CallInv, ReplyInv, Progress, Rest, Done, This, Busy, Raise, CallRecord
<1>7. FileInv'
  BY <1>a, <1>b
     DEF Inv, ReceiveFails, card, driver, streams, history, large, TypeOK, EndsInv, WireInv,
         FileInv, AnsweredIsSaved, Busy, Raise, CallRecord
<1> QED
  BY <1>1, <1>2, <1>3, <1>4, <1>5, <1>6, <1>7 DEF Inv, CallInv

LEMMA ConnectFailsStep ==
  ASSUME Inv, ConnectFails
  PROVE  Inv'
<1>a. Calls!Open(calls) /\ calls \in Seq(CallRecord)
  BY DEF Inv, TypeOK, EndsInv, CallRecord, ConnectFails
<1>b. /\ calls' \in Seq(CallRecord) /\ Len(calls') = Len(calls) /\ ~Calls!Open(calls')
      /\ \A i \in 1..Len(calls) : /\ calls'[i].size = calls[i].size
                                  /\ calls[i].outcome = "failed" => calls'[i].outcome = "failed"
      /\ calls'[Len(calls)].outcome = "failed"
  BY <1>a, Closing DEF ConnectFails, Raise
<1>1. TypeOK'
  BY LinkAssumption, <1>a, <1>b
     DEF Inv, ConnectFails, card, driver, streams, history, large, TypeOK, This, Running, Busy,
         Links, Raise, CallRecord
<1>2. EndsInv'
  BY <1>a, <1>b
     DEF Inv, ConnectFails, card, driver, streams, history, large, TypeOK, EndsInv, WireInv,
         This, Busy, Running, Raise, CallRecord
<1>3. WireInv'
  BY <1>a, <1>b
     DEF Inv, ConnectFails, card, driver, streams, history, large, TypeOK, EndsInv, WireInv,
         Fresh, This, Busy, Raise, CallRecord
<1>4. FirstInv'
  BY <1>a, <1>b
     DEF Inv, ConnectFails, card, driver, streams, history, large, TypeOK, EndsInv, WireInv,
         CallInv, FirstInv, Fresh, This, Busy, Raise, CallRecord
<1>5. MoreInv'
  BY <1>a, <1>b
     DEF Inv, ConnectFails, card, driver, streams, history, large, TypeOK, EndsInv, WireInv,
         CallInv, MoreInv, Progress, Rest, Done, This, Busy, GetResponse, Calls!Open, Raise,
         CallRecord
<1>6. ReplyInv'
  BY <1>a, <1>b
     DEF Inv, ConnectFails, card, driver, streams, history, large, TypeOK, EndsInv, WireInv,
         CallInv, ReplyInv, Progress, Rest, Done, This, Busy, Raise, CallRecord
<1>7. FileInv'
  BY <1>a, <1>b
     DEF Inv, ConnectFails, card, driver, streams, history, large, TypeOK, EndsInv, WireInv,
         FileInv, AnsweredIsSaved, Busy, Raise, CallRecord
<1> QED
  BY <1>1, <1>2, <1>3, <1>4, <1>5, <1>6, <1>7 DEF Inv, CallInv

LEMMA HostRestartStep ==
  ASSUME Inv, HostRestart
  PROVE  Inv'
<1>a. calls \in Seq(CallRecord)
  BY DEF Inv, TypeOK, CallRecord
<1>b. /\ calls' \in Seq(CallRecord) /\ Len(calls') = Len(calls) /\ ~Calls!Open(calls')
      /\ \A i \in 1..Len(calls) : /\ calls'[i].size = calls[i].size
                                  /\ calls[i].outcome = "failed" => calls'[i].outcome = "failed"
      /\ Calls!Open(calls) => calls'[Len(calls)].outcome = "failed"
  BY <1>a, Closing DEF HostRestart
<1>c. ASSUME link = "accepted", requests # <<>>, Head(requests) # GetResponse
      PROVE  Fresh(This) /\ Head(requests) = This /\ This \in 1..This /\ Calls!Open(calls)
  <2>1. doing = "receive" /\ requests = <<command>> /\ command \in {This, GetResponse}
    BY <1>c DEF Inv, EndsInv, WireInv
  <2>2. Head(requests) = command
    BY <2>1
  <2>3. command = This
    BY <1>c, <2>1, <2>2
  <2>4. Calls!Open(calls)
    BY <2>1 DEF Inv, EndsInv
  <2> QED
    BY <1>a, <1>c, <2>1, <2>2, <2>3, <2>4 DEF Inv, CallInv, FirstInv, Calls!Open, This
<1>1. TypeOK'
  BY LinkAssumption, <1>a, <1>b, <1>c
     DEF Inv, HostRestart, card, driver, streams, history, large, TypeOK, This, Running, Busy,
         Links, CallRecord
<1>2. EndsInv'
  BY <1>a, <1>b, <1>c
     DEF Inv, HostRestart, card, driver, streams, history, large, TypeOK, EndsInv, WireInv,
         This, Busy, Running, CallRecord
<1>3. WireInv'
  BY <1>a, <1>b, <1>c
     DEF Inv, HostRestart, card, driver, streams, history, large, TypeOK, EndsInv, WireInv,
         Fresh, This, Busy, CallRecord
<1>4. FirstInv'
  BY <1>a, <1>b, <1>c
     DEF Inv, HostRestart, card, driver, streams, history, large, TypeOK, EndsInv, WireInv,
         CallInv, FirstInv, Fresh, This, Busy, CallRecord
<1>5. MoreInv'
  BY <1>a, <1>b, <1>c
     DEF Inv, HostRestart, card, driver, streams, history, large, TypeOK, EndsInv, WireInv,
         CallInv, MoreInv, Progress, Rest, Done, This, Busy, GetResponse, Calls!Open, CallRecord
<1>6. ReplyInv'
  BY <1>a, <1>b, <1>c
     DEF Inv, HostRestart, card, driver, streams, history, large, TypeOK, EndsInv, WireInv,
         CallInv, ReplyInv, Progress, Rest, Done, This, Busy, CallRecord
<1>7. FileInv'
  BY <1>a, <1>b, <1>c
     DEF Inv, HostRestart, card, driver, streams, history, large, TypeOK, EndsInv, WireInv,
         FileInv, AnsweredIsSaved, Busy, CallRecord
<1> QED
  BY <1>1, <1>2, <1>3, <1>4, <1>5, <1>6, <1>7 DEF Inv, CallInv


\* What one response takes from the answer.
LEMMA Output ==
  ASSUME NEW n, NEW position \in Nat, NEW size \in Nat, n \in 1..MaxCalls \/ size = 0,
         OutputLargeData(n, position, size)
  PROVE  /\ remaining_position' \in Nat /\ remaining_size' \in Nat
         /\ remaining_position' + remaining_size' = position + size
         /\ reply' \in [data : Seq(Datum), more : 0..MaxOutput]
         /\ reply'.data = Calls!Bytes(n, position, Len(reply'.data))
         /\ remaining_position' = position + Len(reply'.data)
         /\ reply'.more > 0 <=> remaining_size' > 0
<1> DEFINE out == Least(size, MaxOutput)
<1>1. out \in Nat /\ size - out \in Nat /\ (size = 0 => out = 0)
  BY LinkAssumption DEF Least
<1>2. Calls!Bytes(n, position, out) \in Seq(Datum) /\ Len(Calls!Bytes(n, position, out)) = out
  BY <1>1, BytesType
<1>3. Least(size - out, MaxOutput) \in 0..MaxOutput
      /\ (Least(size - out, MaxOutput) > 0 <=> size - out > 0)
  BY <1>1, LinkAssumption DEF Least
<1>4. /\ reply' = [data |-> Calls!Bytes(n, position, out), more |-> Least(size - out, MaxOutput)]
      /\ remaining_position' = position + out /\ remaining_size' = size - out
  BY DEF OutputLargeData, Response
<1> HIDE DEF out
<1> QED
  BY <1>1, <1>2, <1>3, <1>4

\* The frame that is served.
LEMMA Serving ==
  ASSUME Inv, NEW n, Serve(n)
  PROVE  /\ requests = <<n>> /\ requests' = <<>> /\ n \in 0..MaxCalls
         /\ responses = <<>> /\ responses' = <<>>
         /\ at = "read" /\ at' = "fopen"
         /\ link = "accepted" => doing = "receive" /\ command = n
<1>1. requests \in Seq(0..MaxCalls) /\ Len(requests) <= 1 /\ requests # <<>> /\ n = Head(requests)
  BY DEF Inv, TypeOK, Serve
<1>2. n \in 0..MaxCalls /\ requests = <<n>> /\ Tail(requests) = <<>>
  BY <1>1, OneFrame
<1>3. responses = <<>>
  BY <1>1 DEF Inv, WireInv
<1>4. ASSUME link = "accepted" PROVE doing = "receive" /\ command = n
  <2>1. doing = "receive" /\ requests = <<command>>
    BY <1>1, <1>4 DEF Inv, WireInv
  <2> QED
    BY <1>2, <2>1
<1> QED
  BY <1>2, <1>3, <1>4 DEF Serve, Exit

\* A call is executed once, in the order of the calls, and while it is open or has failed.
LEMMA Execution ==
  ASSUME Inv, NEW n \in 1..This, Execute(n)
  PROVE  /\ Fresh(n) /\ calls[n].outcome # "answered"
         /\ executed' \in Seq(1..This) /\ Done(n)'
         /\ link = "accepted" => n = This /\ got = <<>>
         /\ doing \in {"connect", "send"} => Fresh(This)'
<1>1. /\ requests = <<n>> /\ Head(requests) = n /\ at = "read" /\ calls' = calls
      /\ link = "accepted" => doing = "receive" /\ command = n
  BY Serving DEF Execute, Serve
<1>2. link = "accepted" \/ peer = "gone"
  BY <1>1 DEF Inv, TypeOK, EndsInv
<1>3. n \in Nat /\ n # GetResponse /\ n # 0 /\ This \in Nat
  BY LenProperties DEF Inv, TypeOK, This, GetResponse
<1>4. executed \in Seq(1..This) /\ executed' = Append(executed, n) /\ Len(executed) \in Nat
  BY LenProperties DEF Inv, TypeOK, Execute
<1>5. /\ executed' \in Seq(1..This) /\ Len(executed') = Len(executed) + 1
      /\ executed'[Len(executed) + 1] = n
      /\ \A i \in 1..Len(executed) : executed'[i] = executed[i]
  BY <1>4, AppendProperties
<1>6. Done(n)'
  BY <1>4, <1>5 DEF Done
<1>7. CASE link = "accepted"
  <2>1. n = This /\ doing = "receive"
    BY <1>1, <1>3, <1>7 DEF Inv, EndsInv
  <2>2. Fresh(n) /\ got = <<>>
    BY <1>1, <1>7, <2>1 DEF Inv, CallInv, FirstInv
  <2>3. calls[n].outcome = "open"
    BY <2>1 DEF Inv, EndsInv, Calls!Open, This
  <2> QED
    BY <1>5, <1>6, <2>1, <2>2, <2>3
<1>8. CASE link # "accepted"
  <2>1. Fresh(n) /\ calls[n].outcome = "failed"
    BY <1>1, <1>2, <1>3, <1>8 DEF Inv, WireInv
  <2>2. ASSUME doing \in {"connect", "send"} PROVE n < This
    <3>1. calls[This].outcome = "open"
      BY <2>2 DEF Inv, EndsInv, Calls!Open, This
    <3> QED
      BY <2>1, <3>1, <1>3
  <2>3. doing \in {"connect", "send"} => Fresh(This)'
    <3> SUFFICES ASSUME doing \in {"connect", "send"}, NEW i \in 1..Len(executed')
                 PROVE  executed'[i] < This
      BY DEF Fresh, This, Execute, Serve
    <3>1. i = Len(executed) + 1 \/ i \in 1..Len(executed)
      BY <1>4, <1>5
    <3>2. \A j \in 1..Len(executed) : executed[j] < n
      BY <2>1 DEF Fresh
    <3>3. \A j \in 1..Len(executed) : executed[j] \in 1..This
      BY <1>4, ElementOfSeq
    <3> QED
      BY <1>3, <1>5, <2>2, <3>1, <3>2, <3>3
  <2> QED
    BY <1>5, <1>6, <1>8, <2>1, <2>3
<1> QED
  BY <1>7, <1>8

\* A handler has returned.
LEMMA Handled ==
  ASSUME Inv, NEW n, Serve(n),
         log' \subseteq 1..This, log \subseteq log', executed' \in Seq(1..This),
         temp_buffer' \in 0..MaxCalls, remaining_position' \in Nat, remaining_size' \in Nat,
         remaining_size' > 0 => /\ temp_buffer' \in 1..This
                                /\ remaining_position' + remaining_size' = calls[temp_buffer'].size,
         reply' \in [data : Seq(Datum), more : 0..MaxOutput],
         link = "accepted" => Progress(got \o reply.data, reply.more)',
         doing \in {"connect", "send"} /\ command = This => Fresh(This)'
  PROVE  Inv'
<1>a. /\ requests' = <<>> /\ responses = <<>> /\ responses' = <<>>
      /\ at = "read" /\ at' = "fopen"
      /\ link = "accepted" => doing = "receive"
  BY Serving
<1>b. /\ peer' = peer /\ file' = file /\ doing' = doing /\ command' = command /\ link' = link
      /\ got' = got /\ calls' = calls /\ answer' = answer /\ acked' = acked
  BY DEF Serve, driver
<1>c. <<>> \in Seq(0..MaxCalls) /\ Len(<<>>) = 0 /\ This' = This
  BY <1>b, EmptySeq DEF This
<1>1. TypeOK'
  BY <1>a, <1>b, <1>c DEF Inv, TypeOK, Running, Busy
<1>2. EndsInv'
  BY <1>a, <1>b, <1>c DEF Inv, EndsInv
<1>3. WireInv'
  BY <1>a, <1>b DEF WireInv, Busy
<1>4. FirstInv'
  <2>1. requests' # <<This'>>
    BY <1>a, <1>c
  <2> QED
    BY <1>a, <1>b, <1>c, <2>1 DEF Inv, CallInv, FirstInv
<1>5. MoreInv'
  BY <1>a, <1>b DEF MoreInv
<1>6. ReplyInv'
  BY <1>a, <1>b DEF ReplyInv
<1>7. FileInv'
  BY <1>a, <1>b DEF Inv, FileInv, AnsweredIsSaved
<1> QED
  BY <1>1, <1>2, <1>3, <1>4, <1>5, <1>6, <1>7 DEF Inv, CallInv

\* The call that is executed.
LEMMA Executed ==
  ASSUME Inv, NEW n \in 1..This
  PROVE  n \in 1..MaxCalls /\ n \in Nat /\ calls[n].size \in Nat
<1>1. Len(calls) \in Nat /\ calls \in Seq(CallRecord) /\ This <= MaxCalls /\ n \in 1..Len(calls)
  BY LenProperties DEF Inv, TypeOK, CallRecord, This
<1>2. calls[n] \in CallRecord
  BY <1>1, ElementOfSeq
<1>3. calls[n].size \in Nat
  BY <1>2, LinkAssumption DEF CallRecord
<1>4. n \in 1..MaxCalls /\ n \in Nat
  BY <1>1, LinkAssumption DEF This
<1> QED
  BY <1>3, <1>4

LEMMA HandleDirectStep ==
  ASSUME Inv, NEW n \in 1..This, HandleDirect(n)
  PROVE  Inv'
<1>a. n \in 1..MaxCalls /\ n \in Nat /\ calls[n].size \in Nat
  BY Executed
<1>b. /\ executed' \in Seq(1..This) /\ Done(n)'
      /\ link = "accepted" => n = This /\ got = <<>>
      /\ doing \in {"connect", "send"} => Fresh(This)'
  BY Execution DEF HandleDirect
<1>c. /\ Calls!Bytes(n, 0, calls[n].size) \in Seq(Datum)
      /\ Len(Calls!Bytes(n, 0, calls[n].size)) = calls[n].size
  BY <1>a, BytesType
<1>d. reply' = [data |-> Calls!Bytes(n, 0, calls[n].size), more |-> 0]
  BY DEF HandleDirect, Response
<1>e. link = "accepted" => Progress(got \o reply.data, reply.more)'
  <2> SUFFICES ASSUME link = "accepted" PROVE Progress(got \o reply.data, reply.more)'
    OBVIOUS
  <2>1. got' = <<>> /\ n = This /\ This' = This /\ calls' = calls
    BY <1>b DEF HandleDirect, Execute, Serve, driver, This
  <2>2. <<>> \o reply'.data = reply'.data
    BY <1>c, <1>d, ConcatEmptySeq
  <2> QED
    BY <1>b, <1>c, <1>d, <2>1, <2>2 DEF Progress
<1>f. reply' \in [data : Seq(Datum), more : 0..MaxOutput]
  BY <1>c, <1>d, LinkAssumption
<1>g. Serve(n) /\ log' = log \cup {n} /\ UNCHANGED large
  BY DEF HandleDirect, Execute
<1> QED
  BY <1>b, <1>e, <1>f, <1>g, Handled DEF Inv, TypeOK, large

LEMMA HandleLargeStep ==
  ASSUME Inv, NEW n \in 1..This, HandleLarge(n)
  PROVE  Inv'
<1>a. n \in 1..MaxCalls /\ n \in Nat /\ calls[n].size \in Nat
  BY Executed
<1>b. /\ executed' \in Seq(1..This) /\ Done(n)'
      /\ link = "accepted" => n = This /\ got = <<>>
      /\ doing \in {"connect", "send"} => Fresh(This)'
  BY Execution DEF HandleLarge
<1>o. OutputLargeData(n, 0, calls[n].size) /\ 0 \in Nat
  BY DEF HandleLarge
<1> DEFINE size == calls[n].size
<1>c. /\ remaining_position' \in Nat /\ remaining_size' \in Nat
      /\ remaining_position' + remaining_size' = 0 + size
      /\ reply' \in [data : Seq(Datum), more : 0..MaxOutput]
      /\ reply'.data = Calls!Bytes(n, 0, Len(reply'.data))
      /\ remaining_position' = 0 + Len(reply'.data)
      /\ reply'.more > 0 <=> remaining_size' > 0
  <2> HIDE DEF size
  <2> QED
    BY <1>a, <1>o, Output DEF size
<1>d. Len(reply'.data) \in Nat /\ remaining_position' = Len(reply'.data)
      /\ remaining_position' + remaining_size' = size
  BY <1>a, <1>c, LenProperties
<1>e. link = "accepted" => Progress(got \o reply.data, reply.more)'
  <2> SUFFICES ASSUME link = "accepted" PROVE Progress(got \o reply.data, reply.more)'
    OBVIOUS
  <2>1. got' = <<>> /\ n = This /\ This' = This /\ calls' = calls /\ temp_buffer' = n
    BY <1>b DEF HandleLarge, Execute, Serve, driver, This
  <2>2. <<>> \o reply'.data = reply'.data
    BY <1>c, ConcatEmptySeq
  <2>3. reply'.more > 0 => Rest(Len(reply.data))'
    BY <1>c, <1>d, <2>1 DEF Rest
  <2>4. ~(reply'.more > 0) => Len(reply'.data) = size
    BY <1>c, <1>d
  <2> QED
    BY <1>b, <1>c, <2>1, <2>2, <2>3, <2>4 DEF Progress
<1>g. Serve(n) /\ log' = log \cup {n} /\ temp_buffer' = n
  BY DEF HandleLarge, Execute
<1>h. log' \subseteq 1..This /\ log \subseteq log' /\ temp_buffer' \in 0..MaxCalls
  <2>1. temp_buffer' \in 0..MaxCalls
    BY <1>a, <1>g, LinkAssumption
  <2>2. log \subseteq 1..This
    BY DEF Inv, TypeOK
  <2> QED
    BY <1>g, <2>1, <2>2
<1>i. remaining_size' > 0 =>
        /\ temp_buffer' \in 1..This
        /\ remaining_position' + remaining_size' = calls[temp_buffer'].size
  BY <1>d, <1>g
<1>j. doing \in {"connect", "send"} /\ command = This => Fresh(This)'
  BY <1>b
<1> HIDE DEF size
<1> QED
  BY <1>b, <1>c, <1>e, <1>g, <1>h, <1>i, <1>j, Handled

LEMMA HandleGetResponseStep ==
  ASSUME Inv, HandleGetResponse
  PROVE  Inv'
<1>a. /\ requests = <<GetResponse>> /\ requests # <<>>
      /\ link = "accepted" => doing = "receive" /\ command = GetResponse
      /\ Serve(GetResponse)
      /\ doing' = doing /\ command' = command /\ link' = link /\ calls' = calls
      /\ got' = got /\ executed' = executed /\ temp_buffer' = temp_buffer /\ log' = log
      /\ This' = This
  BY Serving DEF HandleGetResponse, Serve, driver, This
<1>b. /\ remaining_position \in Nat /\ remaining_size \in Nat
      /\ temp_buffer \in 0..MaxCalls /\ executed \in Seq(1..This) /\ log \subseteq 1..This
      /\ remaining_size > 0 =>
           /\ temp_buffer \in 1..This
           /\ remaining_position + remaining_size = calls[temp_buffer].size
  BY DEF Inv, TypeOK
<1>c. /\ remaining_position' \in Nat /\ remaining_size' \in Nat
      /\ remaining_position' + remaining_size' = remaining_position + remaining_size
      /\ reply' \in [data : Seq(Datum), more : 0..MaxOutput]
      /\ reply'.data = Calls!Bytes(temp_buffer, remaining_position, Len(reply'.data))
      /\ remaining_position' = remaining_position + Len(reply'.data)
      /\ reply'.more > 0 <=> remaining_size' > 0
  <2>1. temp_buffer \in 1..MaxCalls \/ remaining_size = 0
    BY <1>b, LinkAssumption
  <2>2. OutputLargeData(temp_buffer, remaining_position, remaining_size)
    BY DEF HandleGetResponse
  <2> QED
    BY <1>b, <2>1, <2>2, Output
<1>d. remaining_size' > 0 =>
        /\ temp_buffer \in 1..This
        /\ remaining_position' + remaining_size' = calls[temp_buffer].size
  <2>1. Len(reply'.data) \in Nat
    BY <1>c, LenProperties
  <2>2. remaining_size' > 0 => remaining_size > 0
    BY <1>b, <1>c, <2>1
  <2> QED
    BY <1>b, <1>c, <2>2
<1>e. link = "accepted" => Progress(got \o reply.data, reply.more)'
  <2> SUFFICES ASSUME link = "accepted" PROVE Progress(got \o reply.data, reply.more)'
    OBVIOUS
  <2> DEFINE k == Len(got)
             m == Len(reply'.data)
  <2>1. Progress(got, 1)
    BY <1>a DEF Inv, CallInv, MoreInv
  <2>2. /\ Done(This) /\ got = Calls!Bytes(This, 0, k)
        /\ temp_buffer = This /\ remaining_size > 0 /\ remaining_position = k
    BY <2>1 DEF Progress, Rest
  <2>3. k \in Nat /\ m \in Nat /\ This \in 1..MaxCalls
    <3>1. k \in Nat /\ m \in Nat
      BY <1>c, LenProperties DEF Inv, TypeOK
    <3>2. This \in 1..This
      BY <1>b, <2>2
    <3> QED
      BY <3>1, <3>2, Executed
  <2>4. reply'.data = Calls!Bytes(This, k, m)
    BY <1>c, <2>2
  <2>5. Calls!Bytes(This, 0, k) \o Calls!Bytes(This, k, m) = Calls!Bytes(This, 0, k + m)
    <3> HIDE DEF k, m
    <3> QED
      BY <2>3, BytesJoin
  <2>6. got \o reply'.data = Calls!Bytes(This, 0, k + m)
    BY <2>2, <2>4, <2>5
  <2>7. Len(got \o reply'.data) = k + m
    <3>1. k + m \in Nat
      BY <2>3
    <3> QED
      BY <2>3, <2>6, <3>1, BytesType
  <2>8. remaining_position' = k + m /\ remaining_position + remaining_size = calls[This].size
    BY <1>b, <1>c, <2>2
  <2> HIDE DEF k, m
  <2>9. reply'.more > 0 => remaining_size' > 0 /\ remaining_position' = k + m
    BY <1>c, <2>8
  <2>10. ~(reply'.more > 0) => k + m = calls[This].size
    BY <1>c, <2>3, <2>8
  <2>11. Done(This)' /\ temp_buffer' = This
    BY <1>a, <2>2 DEF Done
  <2> QED
    BY <1>a, <2>6, <2>7, <2>9, <2>10, <2>11 DEF Progress, Rest
<1>f. doing \in {"connect", "send"} /\ command = This => Fresh(This)'
  BY <1>a DEF Inv, CallInv, FirstInv, Fresh
<1> QED
  BY <1>a, <1>b, <1>c, <1>d, <1>e, <1>f, Handled

LEMMA CallStep ==
  ASSUME Inv, NEW size \in Sizes, Call(size)
  PROVE  Inv'
<1>a. /\ calls \in Seq(CallRecord) /\ This \in Nat /\ Len(calls) = This
      /\ calls' = Append(calls, [size |-> size, outcome |-> "open"])
  BY LenProperties DEF Inv, TypeOK, Call, CallRecord, This
<1>b. /\ calls' \in Seq(CallRecord) /\ This' = This + 1 /\ Calls!Open(calls)'
      /\ \A i \in 1..This : calls'[i] = calls[i]
  BY <1>a, Calling DEF This
<1>c. /\ doing = "idle" /\ doing' = "connect" /\ command' = This + 1 /\ got' = <<>>
      /\ This < MaxCalls
      /\ UNCHANGED <<at, peer, log, temp_buffer, remaining_position, remaining_size, reply, file>>
      /\ UNCHANGED <<link, requests, responses, executed, answer, acked>>
  BY DEF Call, card, large, streams
<1>d. responses = <<>> /\ (link = "accepted" => at = "read" /\ requests = <<>>)
  BY <1>c DEF Inv, WireInv
<1>e. executed \in Seq(1..This) /\ \A i \in 1..Len(executed) : executed[i] \in 1..This
  BY ElementOfSeq DEF Inv, TypeOK
<1>f. 1..This \subseteq 1..This'
  BY <1>a, <1>b
<1>1. TypeOK'
  <2>1. executed' \in Seq(1..This')
    <3>1. Len(executed) \in Nat /\ executed \in [1..Len(executed) -> 1..This]
      BY <1>e, LenProperties
    <3>2. executed \in [1..Len(executed) -> 1..This']
      BY <1>f, <3>1
    <3> QED
      BY <1>c, <3>1, <3>2, SeqDef
  <2>2. command' \in 0..MaxCalls /\ This' <= MaxCalls
    BY <1>a, <1>b, <1>c, LinkAssumption
  <2>3. remaining_size' > 0 =>
          /\ temp_buffer' \in 1..This'
          /\ remaining_position' + remaining_size' = calls'[temp_buffer'].size
    BY <1>b, <1>c, <1>f DEF Inv, TypeOK
  <2>4. /\ log' \subseteq 1..This' /\ acked' \subseteq log'
        /\ file' \in {Unreadable} \cup SUBSET (1..This')
    BY <1>c, <1>f DEF Inv, TypeOK
  <2>5. got' \in Seq(Datum)
    BY <1>c, EmptySeq
  <2>6. calls' \in Seq([size : Sizes, outcome : {"open", "answered", "failed"}])
    BY <1>b DEF CallRecord
  <2> QED
    BY <1>c, <2>1, <2>2, <2>3, <2>4, <2>5, <2>6 DEF Inv, TypeOK
<1>2. EndsInv'
  BY <1>b, <1>c DEF Inv, EndsInv
<1>3. WireInv'
  <2>1. peer' = "gone" /\ requests' # <<>> /\ Head(requests') # GetResponse =>
          /\ Fresh(Head(requests))'
          /\ Head(requests') \in 1..This'
          /\ calls'[Head(requests')].outcome = "failed"
    BY <1>b, <1>c, <1>f DEF Inv, WireInv, Fresh
  <2> QED
    BY <1>c, <1>d, <2>1 DEF WireInv
<1>4. FirstInv'
  <2>1. \A i \in 1..Len(executed) : executed[i] < This + 1
    BY <1>a, <1>e
  <2> QED
    BY <1>b, <1>c, <2>1 DEF FirstInv, Fresh
<1>5. MoreInv' /\ ReplyInv'
  BY <1>c, <1>d DEF MoreInv, ReplyInv
<1>6. FileInv'
  BY <1>c DEF Inv, FileInv, AnsweredIsSaved
<1> QED
  BY <1>1, <1>2, <1>3, <1>4, <1>5, <1>6 DEF Inv, CallInv

\* What a driver that has a response knows.
LEMMA Receiving ==
  ASSUME Inv, doing = "receive", responses # <<>>
  PROVE  /\ Head(responses) \in [data : Seq(Datum), more : 0..MaxOutput]
         /\ Tail(responses) = <<>>
         /\ got \o Head(responses).data \in Seq(Datum)
         /\ Progress(got \o Head(responses).data, Head(responses).more)
         /\ requests = <<>> /\ link \in {"accepted", "dead"}
         /\ link = "accepted" => at = "read"
         /\ This \in Nat /\ This # GetResponse
         /\ Calls!Open(calls) /\ calls \in Seq(CallRecord)
<1> DEFINE R == [data : Seq(Datum), more : 0..MaxOutput]
<1>1. responses \in Seq(R) /\ Len(responses) <= 1 /\ got \in Seq(Datum)
  BY DEF Inv, TypeOK
<1>2. Head(responses) \in R /\ Tail(responses) = <<>>
  <2> HIDE DEF R
  <2> QED
    BY <1>1, OneFrame
<1>3. Progress(got \o Head(responses).data, Head(responses).more)
  BY DEF Inv, CallInv, ReplyInv
<1>4. got \o Head(responses).data \in Seq(Datum)
  BY <1>1, <1>2, ConcatProperties
<1>5. requests = <<>> /\ link \in {"accepted", "dead"} /\ (link = "accepted" => at = "read")
  BY DEF Inv, WireInv, Busy
<1>6. Calls!Open(calls) /\ calls \in Seq(CallRecord)
  BY DEF Inv, EndsInv, TypeOK, CallRecord
<1>7. This \in Nat /\ This # GetResponse
  BY <1>6, LenProperties DEF Calls!Open, This, GetResponse
<1> QED
  BY <1>2, <1>3, <1>4, <1>5, <1>6, <1>7

LEMMA ReceiveStep ==
  ASSUME Inv, Receive
  PROVE  Inv'
<1> DEFINE data == got \o Head(responses).data
           more == Head(responses).more
<1>a. /\ doing = "receive" /\ responses # <<>> /\ responses' = Tail(responses) /\ got' = data
      /\ UNCHANGED <<at, peer, log, temp_buffer, remaining_position, remaining_size, reply, file>>
      /\ UNCHANGED <<link, requests, executed>>
  BY DEF Receive, Joined, card, large
<1>b. /\ Head(responses) \in [data : Seq(Datum), more : 0..MaxOutput]
      /\ responses' = <<>> /\ data \in Seq(Datum) /\ Progress(data, more)
      /\ requests = <<>> /\ link \in {"accepted", "dead"} /\ (link = "accepted" => at = "read")
      /\ This \in Nat /\ This # GetResponse
      /\ Calls!Open(calls) /\ calls \in Seq(CallRecord)
  BY <1>a, Receiving
<1>c. more \in 0..MaxOutput /\ Len(<<>>) = 0
      /\ <<>> \in Seq([data : Seq(Datum), more : 0..MaxOutput])
  BY <1>b, EmptySeq
<1>1. CASE more > 0
  <2>1. /\ doing' = "send" /\ command' = GetResponse
        /\ UNCHANGED <<calls, answer, acked>> /\ This' = This
    BY <1>1 DEF Receive, Joined, This
  <2>2. TypeOK'
    BY <1>a, <1>b, <1>c, <2>1, LinkAssumption DEF Inv, TypeOK, GetResponse
  <2>3. EndsInv'
    BY <1>a, <1>b, <2>1 DEF Inv, EndsInv
  <2>4. WireInv'
    BY <1>a, <1>b, <2>1 DEF WireInv
  <2>5. FirstInv'
    BY <1>a, <1>b, <2>1 DEF FirstInv
  <2>6. MoreInv'
    <3>1. ASSUME link = "accepted" PROVE Progress(got, 1)'
      BY <1>1, <1>a, <1>b, <2>1, <3>1 DEF Progress, Rest, Done
    <3> QED
      BY <1>a, <3>1 DEF MoreInv
  <2>7. ReplyInv'
    BY <1>b, <2>1 DEF ReplyInv
  <2>8. FileInv'
    BY <1>a, <1>b, <2>1 DEF Inv, FileInv, AnsweredIsSaved
  <2> QED
    BY <2>2, <2>3, <2>4, <2>5, <2>6, <2>7, <2>8 DEF Inv, CallInv
<1>2. CASE ~(more > 0)
  <2>1. /\ doing' = "idle" /\ calls' = Calls!Close(calls, "answered") /\ answer' = data
        /\ acked' = acked \cup ({This} \cap log) /\ command' = command
    BY <1>2 DEF Receive, Joined
  <2>2. /\ calls' \in Seq(CallRecord) /\ This' = This /\ ~Calls!Open(calls)'
        /\ \A i \in 1..This : calls'[i].size = calls[i].size
    BY <1>b, <2>1, Closing DEF This
  <2>3. TypeOK'
    <3>1. remaining_size' > 0 =>
            /\ temp_buffer' \in 1..This'
            /\ remaining_position' + remaining_size' = calls'[temp_buffer'].size
      BY <1>a, <2>2 DEF Inv, TypeOK
    <3>2. acked' \subseteq log'
      BY <1>a, <2>1 DEF Inv, TypeOK
    <3> QED
      BY <1>a, <1>b, <1>c, <2>1, <2>2, <3>1, <3>2 DEF Inv, TypeOK, CallRecord
  <2>4. EndsInv'
    BY <1>a, <1>b, <2>1, <2>2 DEF Inv, EndsInv
  <2>5. WireInv'
    BY <1>a, <1>b, <2>1 DEF WireInv
  <2>6. FirstInv' /\ MoreInv' /\ ReplyInv'
    BY <1>b, <2>1 DEF FirstInv, MoreInv, ReplyInv
  <2>7. FileInv'
    <3>1. file = log \/ log = {}
      BY <1>a DEF Inv, FileInv
    <3>2. acked \subseteq log
      BY DEF Inv, TypeOK
    <3>3. AnsweredIsSaved'
      BY <1>a, <2>1, <3>1, <3>2 DEF AnsweredIsSaved
    <3> QED
      BY <1>a, <1>b, <3>3 DEF Inv, FileInv
  <2> QED
    BY <2>3, <2>4, <2>5, <2>6, <2>7 DEF Inv, CallInv
<1> QED
  BY <1>1, <1>2

LEMMA Stuttering ==
  ASSUME Inv, UNCHANGED vars
  PROVE  Inv'
<1> USE DEF vars, card, driver, streams, history, large
<1>1. TypeOK' /\ EndsInv'
  BY DEF Inv, TypeOK, EndsInv, This
<1>2. WireInv'
  BY DEF Inv, WireInv, Fresh, This
<1>3. FirstInv' /\ MoreInv' /\ ReplyInv'
  BY DEF Inv, CallInv, FirstInv, MoreInv, ReplyInv, Progress, Rest, Done, Fresh, This
<1>4. FileInv'
  BY DEF Inv, FileInv, AnsweredIsSaved
<1> QED
  BY <1>1, <1>2, <1>3, <1>4 DEF Inv, CallInv

LEMMA NextInv == Inv /\ [Next]_vars => Inv'
<1> SUFFICES ASSUME Inv, [Next]_vars PROVE Inv'
  OBVIOUS
<1>1. CASE Handle
  BY <1>1, HandleGetResponseStep, HandleDirectStep, HandleLargeStep DEF Handle
<1>2. CASE OpenFile \/ SaveFile \/ OutputResponse \/ HangUp
  BY <1>2, OpenFileStep, SaveFileStep, OutputResponseStep, HangUpStep
<1>3. CASE DriverStep
  BY <1>3, ReuseStep, ConnectStep, ConnectFailsStep, SendStep, ReceiveStep, ReceiveFailsStep
     DEF DriverStep
<1>4. CASE \E size \in Sizes : Call(size)
  BY <1>4, CallStep
<1>5. CASE Crash \/ Start \/ CreateJson \/ HostRestart
  BY <1>5, CrashStep, StartStep, CreateJsonStep, HostRestartStep
<1>6. CASE UNCHANGED vars
  BY <1>6, Stuttering
<1> QED
  BY <1>1, <1>2, <1>3, <1>4, <1>5, <1>6 DEF Next, CardStep

\* The ends, the wire and the open call of CardLink stay in step, wherever either stops.
THEOREM Invariance == Spec => []Inv
BY InitInv, NextInv, PTL DEF Spec

-----------------------------------------------------------------------------
(* What follows.  *)

\* TypeOK for any sizes of answers and of responses, and any number of calls.
THEOREM LinkTypeCorrect == Spec => []TypeOK
<1>1. Inv => TypeOK
  BY DEF Inv
<1> QED
  BY <1>1, Invariance, PTL

\* Whoever has an answer finds its effect in the file, for any run of crashes and restarts
\* of the card and of the host.
THEOREM AnswersAreSaved == Spec => []AnsweredIsSaved
<1>1. Inv => AnsweredIsSaved
  BY DEF Inv, FileInv
<1> QED
  BY <1>1, Invariance, PTL

LEMMA CallsInit == Init => Calls!Init
BY DEF Init, Calls!Init

\* Each step of the two programs is a step of the call, or none.
LEMMA CallsNext == Inv /\ [Next]_vars => [Calls!Next]_<<calls, executed, answer>>
<1> SUFFICES ASSUME Inv, [Next]_vars PROVE [Calls!Next]_<<calls, executed, answer>>
  OBVIOUS
<1>1. CASE \E size \in Sizes : Call(size)
  <2>1. PICK size \in Sizes : Call(size)
    BY <1>1
  <2>2. Calls!Call(size)
    BY <2>1 DEF Call, Calls!Call, Inv, EndsInv
  <2> QED
    BY <2>2 DEF Calls!Next
<1>2. ASSUME NEW n \in 1..This, HandleDirect(n) \/ HandleLarge(n)
      PROVE  Calls!Next
  <2>1. Execute(n)
    BY <1>2 DEF HandleDirect, HandleLarge
  <2>2. Calls!Execute(n)
    BY <2>1, Execution DEF Calls!Execute, Execute, Serve, Fresh, This
  <2> QED
    BY <2>2 DEF Calls!Next, This
<1>3. ASSUME Raise, UNCHANGED <<executed, answer>>, doing # "idle"
      PROVE  Calls!Next
  <2>1. Calls!Fail
    BY <1>3 DEF Raise, Calls!Fail, Inv, EndsInv
  <2> QED
    BY <2>1 DEF Calls!Next
<1>4. CASE Receive
  <2> DEFINE data == got \o Head(responses).data
             more == Head(responses).more
  <2>1. CASE more > 0
    BY <1>4, <2>1 DEF Receive, Joined
  <2>2. CASE ~(more > 0)
    <3>1. /\ doing = "receive" /\ responses # <<>> /\ executed' = executed
          /\ calls' = Calls!Close(calls, "answered") /\ answer' = data
      BY <1>4, <2>2 DEF Receive, Joined
    <3>2. Calls!Open(calls) /\ Progress(data, more)
      BY <3>1, Receiving
    <3>3. answer' = Calls!Answer(Len(calls), calls[Len(calls)].size)
      BY <2>2, <3>1, <3>2 DEF Progress, This, Calls!Answer
    <3>4. Calls!Return
      BY <3>1, <3>2, <3>3 DEF Calls!Return, Progress, Done, This
    <3> QED
      BY <3>4 DEF Calls!Next
  <2> QED
    BY <2>1, <2>2
<1>5. CASE ConnectFails \/ ReceiveFails
  BY <1>3, <1>5 DEF ConnectFails, ReceiveFails
<1>6. CASE HostRestart
  <2>1. executed' = executed /\ answer' = answer
    BY <1>6 DEF HostRestart
  <2>2. CASE Calls!Open(calls)
    <3>1. Calls!Fail
      BY <1>6, <2>1, <2>2 DEF HostRestart, Calls!Fail
    <3> QED
      BY <3>1 DEF Calls!Next
  <2>3. CASE ~Calls!Open(calls)
    BY <1>6, <2>1, <2>3 DEF HostRestart
  <2> QED
    BY <2>2, <2>3
<1>7. CASE HandleGetResponse
  BY <1>7 DEF HandleGetResponse, Serve
<1>8. CASE \/ OpenFile \/ SaveFile \/ OutputResponse \/ HangUp
           \/ Reuse \/ Connect \/ Send \/ Crash \/ Start \/ CreateJson
  BY <1>8 DEF OpenFile, SaveFile, OutputResponse, HangUp, Reuse, Connect, Send, Crash, Start,
              CreateJson, Stop, history
<1>9. CASE UNCHANGED vars
  BY <1>9 DEF vars, history
<1> QED
  BY <1>1, <1>2, <1>4, <1>5, <1>6, <1>7, <1>8, <1>9 DEF Next, CardStep, Handle, DriverStep

\* The link implements the calls: an answer is whole, its call was executed once, and nothing
\* is executed after a later call, whatever ends and starts again.
THEOREM LinkImplementsCalls == Spec => ImplementsCalls
BY CallsInit, CallsNext, Invariance, PTL DEF Spec, ImplementsCalls, Calls!Spec

=============================================================================
