------------------------------ MODULE CardLink ------------------------------
(***************************************************************************)
(* The driver on the host and the program of the card, joined by a TCP     *)
(* connection: one call at a time, answers of more than one response read  *)
(* with GET_RESPONSE, the status file saved before each response, and both *)
(* ends stopped and started again at any time.                             *)
(*                                                                         *)
(* The program accepts one connection in its life and ends with it.  A     *)
(* host that connects while the program still serves the connection of the *)
(* last one is queued by listen and never accepted.                        *)
(*                                                                         *)
(* A frame, once sent, is received whole or not at all.                    *)
(***************************************************************************)
EXTENDS Integers, Sequences

CONSTANTS
  Sizes,        \* the sizes of the answers of the commands in use
  MaxOutput,    \* MAX_APDU_OUTPUT_DATA_SIZE
  MaxCalls,     \* bound: calls made
  Unreadable    \* the status file between fopen and fputs

ASSUME LinkAssumption ==
  /\ Sizes \subseteq Nat
  /\ MaxOutput \in Nat \ {0}
  /\ MaxCalls \in Nat

VARIABLES
  \* the program of the card
  at,           \* what it does next
  peer,         \* its connection: with the host, with one that is gone, or none
  log,          \* its state: the calls executed since it was started
  temp_buffer,  \* the call whose answer lies there
  remaining_position, remaining_size,
  reply,        \* the response made, not yet sent
  file,         \* the status file: the state it holds
  \* the driver
  doing,        \* what it does next
  command,      \* what it sends: the number of the call, or GetResponse
  link,         \* the connection of its terminal
  got,          \* the data of the open call so far
  \* the connection
  requests, responses,
  \* history
  calls, executed, answer,   \* as in CardCalls
  acked         \* the calls answered that were executed since the program was started

large     == <<temp_buffer, remaining_position, remaining_size>>
card      == <<at, peer, log, large, reply, file>>
driver    == <<doing, command, link, got>>
streams   == <<requests, responses>>
history   == <<calls, executed, answer, acked>>
vars      == <<card, driver, streams, history>>

GetResponse == 0
Busy        == {"fopen", "fputs", "write"}
Running     == {"accept", "read"} \cup Busy
Links       == {"none", "broken", "queued", "accepted", "dead"}

\* Bytes, Open and Close are those of the abstract calls.
Calls == INSTANCE CardCalls

\* The number of the call that is open, or was last.
This == Len(calls)

-----------------------------------------------------------------------------
(* The card.  *)

\* more is SW2 under SW1 = 61, or 0 under 9000.
Response(data, more) == [data |-> data, more |-> more]
Least(m, n) == IF m < n THEN m ELSE n

\* (Faulty variant: the size does not go down.)
OutputForever(n, position, size) ==
  LET out == Least(size, MaxOutput)
  IN  /\ reply' = Response(Calls!Bytes(n, position, out), Least(size - out, MaxOutput))
      /\ remaining_position' = position + out /\ remaining_size' = size

\* output_large_data, with size bytes of the answer to n left at position.
OutputLargeData(n, position, size) ==
  LET out == Least(size, MaxOutput)
  IN  /\ reply' = Response(Calls!Bytes(n, position, out), Least(size - out, MaxOutput))
      /\ remaining_position' = position + out /\ remaining_size' = size - out

\* (Faulty variant: mExit without save_status.)
Unsaved == "write"

\* mExit: save_status, that is fopen and fputs, and then output_apdu_response.
Exit == "fopen"

\* One turn of receive_commands, up to the exit of the handler.
Serve(frame) ==
  /\ at = "read"
  /\ requests # <<>> /\ frame = Head(requests)
  /\ requests' = Tail(requests)
  /\ at' = Exit
  /\ UNCHANGED <<peer, file, driver, responses, calls, answer, acked>>

\* A command takes effect.
Execute(n) ==
  /\ Serve(n)
  /\ n # GetResponse
  /\ log' = log \cup {n}
  /\ executed' = Append(executed, n)

\* A handler that writes its answer, if any, to dataout.
HandleDirect(n) ==
  /\ Execute(n)
  /\ calls[n].size <= MaxOutput
  /\ reply' = Response(Calls!Bytes(n, 0, calls[n].size), 0)
  /\ UNCHANGED large

\* A handler that ends in output_large_data.
HandleLarge(n) ==
  /\ Execute(n)
  /\ temp_buffer' = n
  /\ OutputLargeData(n, 0, calls[n].size)

HandleGetResponse ==
  /\ Serve(GetResponse)
  /\ OutputLargeData(temp_buffer, remaining_position, remaining_size)
  /\ UNCHANGED <<log, temp_buffer, executed>>

\* save_smartcard_to_json_file: fopen truncates the file, then it is written.
OpenFile ==
  /\ at = "fopen"
  /\ at' = "fputs"
  /\ file' = Unreadable
  /\ UNCHANGED <<peer, log, large, reply, driver, streams, history>>

SaveFile ==
  /\ at = "fputs"
  /\ at' = "write"
  /\ file' = log
  /\ UNCHANGED <<peer, log, large, reply, driver, streams, history>>

\* What is written to a connection that the host has closed is lost.
OutputResponse ==
  /\ at = "write"
  /\ at' = "read"
  /\ responses' = IF peer = "host" THEN Append(responses, reply) ELSE responses
  /\ UNCHANGED <<peer, log, large, reply, file, driver, requests, history>>

\* The program ends, and with it every connection to its port.
Stop ==
  /\ at' = "off" /\ peer' = "none"
  /\ requests' = <<>>
  /\ link' = IF link \in {"queued", "accepted"} THEN "dead" ELSE link
  /\ UNCHANGED <<log, large, reply, file, doing, command, got, responses, history>>

\* (Faulty variant: read(...) < 0.)
HangUpOnError == FALSE /\ Stop

\* read gives 0: receive_commands returns, and main.
HangUp == at = "read" /\ requests = <<>> /\ peer = "gone" /\ Stop

\* An exit, as of parse_APDU_command, or a signal: the system closes the connection.
Crash == at # "off" /\ Stop

\* main begins with create_json, which overwrites the file it is about to read.
Start ==
  /\ at = "off"
  /\ at' = "create_json"
  /\ file' = Unreadable
  /\ log' = {} /\ acked' = {}
  /\ temp_buffer' = 0 /\ remaining_position' = 0 /\ remaining_size' = 0
  /\ UNCHANGED <<peer, reply, driver, streams, calls, executed, answer>>

CreateJson ==
  /\ at = "create_json"
  /\ at' = "accept"
  /\ file' = log
  /\ UNCHANGED <<peer, log, large, reply, driver, streams, history>>

-----------------------------------------------------------------------------
(* The driver.  *)

\* transmitCommand.
Call(size) ==
  /\ doing = "idle" /\ This < MaxCalls
  /\ doing' = "connect"
  /\ command' = This + 1 /\ got' = <<>>
  /\ calls' = Append(calls, [size |-> size, outcome |-> "open"])
  /\ UNCHANGED <<card, link, streams, executed, answer, acked>>

\* The call ends in an exception.
Raise ==
  /\ doing' = "idle"
  /\ calls' = Calls!Close(calls, "failed")

\* The terminal hands out the card it has, as long as nobody has closed its socket here.
Reuse ==
  /\ doing = "connect" /\ link \in {"queued", "accepted", "dead"}
  /\ doing' = "send"
  /\ UNCHANGED <<card, command, link, got, streams, history>>

\* accept returns, or the connection is left in the queue.
Connect ==
  /\ doing = "connect" /\ link = "none" /\ at \in Running
  /\ doing' = "send"
  /\ IF at = "accept"
       THEN link' = "accepted" /\ at' = "read" /\ peer' = "host"
       ELSE link' = "queued" /\ UNCHANGED <<at, peer>>
  /\ UNCHANGED <<log, large, reply, file, command, got, streams, history>>

\* The connection is refused.  The terminal keeps a card without a socket: disconnect, and
\* isAlive at the next call, fail on it, so that no attempt is made again.
ConnectFails ==
  /\ doing = "connect"
  /\ \/ link = "broken"
     \/ link = "none" /\ at \notin Running
  /\ link' = "broken"
  /\ Raise
  /\ UNCHANGED <<card, command, got, streams, executed, answer, acked>>

Send ==
  /\ doing = "send" /\ link \in {"queued", "accepted"}
  /\ doing' = "receive"
  /\ requests' = IF link = "accepted" THEN Append(requests, command) ELSE requests
  /\ UNCHANGED <<card, command, link, got, responses, history>>

\* (Faulty variant: the data of the last response is returned.)
LastOnly(data) == data

\* manageGetResponse: the data of the responses is put together.
Joined(data) == got \o data

\* transmit, with GET_RESPONSE as long as more is announced.
Receive ==
  LET response == Head(responses)
      data     == Joined(response.data)
  IN  /\ doing = "receive" /\ responses # <<>>
      /\ responses' = Tail(responses)
      /\ got' = data
      /\ IF response.more > 0
           THEN /\ doing' = "send" /\ command' = GetResponse
                /\ UNCHANGED <<calls, answer, acked>>
           ELSE /\ doing' = "idle"
                /\ calls' = Calls!Close(calls, "answered")
                /\ answer' = data
                /\ acked' = acked \cup ({This} \cap log)
                /\ UNCHANGED command
      /\ UNCHANGED <<card, link, requests, executed>>

\* The end of a connection without a response, or a write that fails.
ReceiveFails ==
  /\ doing \in {"send", "receive"} /\ link = "dead"
  /\ Raise
  /\ responses' = <<>>
  /\ UNCHANGED <<card, command, link, got, requests, executed, answer, acked>>

\* The service ends and comes back; its connection is closed.
HostRestart ==
  /\ doing' = "idle" /\ link' = "none"
  /\ calls' = IF Calls!Open(calls) THEN Calls!Close(calls, "failed") ELSE calls
  /\ peer' = IF link = "accepted" THEN "gone" ELSE peer
  /\ responses' = <<>>
  /\ UNCHANGED <<at, log, large, reply, file, command, got, requests, executed, answer, acked>>

-----------------------------------------------------------------------------

Init ==
  /\ at = "off" /\ peer = "none" /\ log = {}
  /\ temp_buffer = 0 /\ remaining_position = 0 /\ remaining_size = 0
  /\ reply = Response(<<>>, 0) /\ file = {}
  /\ doing = "idle" /\ command = GetResponse /\ link = "none" /\ got = <<>>
  /\ requests = <<>> /\ responses = <<>>
  /\ calls = <<>> /\ executed = <<>> /\ answer = <<>> /\ acked = {}

Handle     == HandleGetResponse \/ \E n \in 1..This : HandleDirect(n) \/ HandleLarge(n)
CardStep   == Handle \/ OpenFile \/ SaveFile \/ OutputResponse \/ HangUp
DriverStep == Reuse \/ Connect \/ ConnectFails \/ Send \/ Receive \/ ReceiveFails

Next == \/ CardStep \/ DriverStep
        \/ \E size \in Sizes : Call(size)
        \/ Crash \/ Start \/ CreateJson \/ HostRestart

\* A program that runs, runs on, and so does a call.  Nobody has to start anything again.
Fairness == WF_vars(CardStep) /\ WF_vars(DriverStep)

Spec == Init /\ [][Next]_vars /\ Fairness

-----------------------------------------------------------------------------
(* Properties.  *)

Datum == (1..MaxCalls) \X Nat

TypeOK ==
  /\ at \in {"off", "create_json"} \cup Running
  /\ peer \in {"none", "host", "gone"}
  /\ log \subseteq 1..This /\ acked \subseteq log
  /\ temp_buffer \in 0..MaxCalls
  /\ remaining_position \in Nat /\ remaining_size \in Nat
  /\ remaining_size > 0 =>
       /\ temp_buffer \in 1..This
       /\ remaining_position + remaining_size = calls[temp_buffer].size
  /\ reply \in [data : Seq(Datum), more : 0..MaxOutput]
  /\ file \in {Unreadable} \cup SUBSET (1..This)
  /\ doing \in {"idle", "connect", "send", "receive"}
  /\ command \in 0..MaxCalls
  /\ link \in Links
  /\ got \in Seq(Datum)
  /\ requests \in Seq(0..MaxCalls) /\ Len(requests) <= 1
  /\ responses \in Seq([data : Seq(Datum), more : 0..MaxOutput]) /\ Len(responses) <= 1
  /\ calls \in Seq([size : Sizes, outcome : {"open", "answered", "failed"}])
  /\ This <= MaxCalls
  /\ executed \in Seq(1..This)
  /\ answer \in Seq(Datum)

\* Seen from its caller a call is an operation of CardCalls: executed once if it is answered,
\* with the whole answer, whatever number of responses it took and whenever either end
\* stopped; and in the order of the calls.
ImplementsCalls == Calls!Spec

\* Whoever has an answer finds its effect in the status file, whenever the program stops,
\* except when it stops in the middle of writing the file.
AnsweredIsSaved == file # Unreadable => acked \subseteq file

\* Every call ends: also one over a connection that is queued behind another and never
\* accepted, or of a card that stops before it has answered.
CallEnds == doing # "idle" ~> doing = "idle"
=============================================================================
