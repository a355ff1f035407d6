----------------------------- MODULE AedtBroker ------------------------------
(***************************************************************************)
(* AedtBrokerRegistry: the processes through which the assistant's threads  *)
(* reach AEDT.  A target is known by several keys (pid:..., port:...); each *)
(* key leads to a broker, which is a worker process, the queue of the lines *)
(* it has written, and a lock.  A call finds or starts the broker of its    *)
(* key, writes one request and waits for one line.                          *)
(*                                                                          *)
(* Every step under the registry's _guard is one action; the broker's lock  *)
(* is kept over many.  A worker answers late, fails, is bound to another    *)
(* version, writes lines that are no answer, or dies; the thread that reads *)
(* its lines may end before it, and it may outlive being killed.            *)
(***************************************************************************)
EXTENDS Naturals, Sequences, FiniteSets

CONSTANTS
  Threads, Keys, Brokers, NoThread, NoBroker, NoKey,
  Aliases,        \* key -> the keys of the same desktop
  MaxEvents       \* bound: calls of execute or close, and mishaps: a line that is no
                  \* answer or that cannot be decoded, a kill that fails

ASSUME BrokerAssumption ==
  /\ NoThread \notin Threads /\ NoBroker \notin Brokers
  /\ NoKey \notin Keys
  /\ Brokers \subseteq Nat
  /\ Aliases \in [Keys -> SUBSET Keys]
  /\ MaxEvents \in Nat

VARIABLES
  brokers,    \* _brokers: key -> broker
  process,    \* broker -> "none" (not started yet), "up" or "down"
  stopping,   \* broker -> BOOLEAN
  lock,       \* broker -> the thread that holds its lock
  stdin,      \* broker -> the requests the worker has not answered
  responses,  \* broker -> the lines nobody has read
  reading,    \* broker -> BOOLEAN: the thread of _read_lines has not queued its None
  outlived,   \* broker -> BOOLEAN: history, the process was still there after kill()
  pc, key, command, request, broker,  \* thread -> where it is in execute, _stop or close
  calls,      \* how many there were; a request's id is its number
  closing,    \* thread -> the brokers its close() has still to stop
  noise

registryVars == <<brokers, process, stopping>>
workerVars == <<reading, outlived>>
callVars == <<key, command, request, broker>>
vars == <<registryVars, workerVars, lock, stdin, responses, pc, callVars, calls, closing, noise>>

Commands == {"ping", "release", "other"}

\* The lines of a worker.
Answer(id, code) == [id |-> id, code |-> code]
Codes == {"ok", "error"}
Noise == [id |-> 0, code |-> "noise"]
EOF == [id |-> 0, code |-> "eof"]
IsAnswer(line) == line.code \in Codes

MoreEvents == calls + noise < MaxEvents
Alive(b) == ~stopping[b] /\ process[b] = "up"

Init ==
  /\ brokers = [k \in Keys |-> NoBroker]
  /\ process = [b \in Brokers |-> "none"]
  /\ stopping = [b \in Brokers |-> FALSE]
  /\ lock = [b \in Brokers |-> NoThread]
  /\ stdin = [b \in Brokers |-> << >>] /\ responses = [b \in Brokers |-> << >>]
  /\ reading = [b \in Brokers |-> TRUE] /\ outlived = [b \in Brokers |-> FALSE]
  /\ pc = [t \in Threads |-> "idle"] /\ calls = 0
  /\ key = [t \in Threads |-> NoKey] /\ command = [t \in Threads |-> "none"]
  /\ request = [t \in Threads |-> 0]
  /\ broker = [t \in Threads |-> NoBroker] /\ closing = [t \in Threads |-> {}]
  /\ noise = 0

Goto(t, label) == pc' = [pc EXCEPT ![t] = label]
Unlock(t) == lock' = [lock EXCEPT ![broker[t]] = NoThread]

Forget(t) ==
  /\ key' = [key EXCEPT ![t] = NoKey] /\ command' = [command EXCEPT ![t] = "none"]
  /\ request' = [request EXCEPT ![t] = 0] /\ broker' = [broker EXCEPT ![t] = NoBroker]

\* execute returns or raises; close goes on with its next broker.
End(t) == Goto(t, "idle") /\ Unlock(t) /\ Forget(t)
GoOn(t, label) == Goto(t, label) /\ UNCHANGED <<lock, callVars>>

-----------------------------------------------------------------------------
(* _broker_for *)

\* A broker that is being stopped is returned as it is; that of a dead process is
\* replaced under this key only.
Current(k) ==
  brokers[k] # NoBroker /\ (stopping[brokers[k]] \/ process[brokers[k]] = "up")

Use(t, b) == broker' = [broker EXCEPT ![t] = b]

\* Processes are numbered as they are started.
Spawn(t, k) ==
  \E b \in Brokers :
    /\ process[b] = "none" /\ \A c \in Brokers : process[c] = "none" => b <= c
    /\ process' = [process EXCEPT ![b] = "up"]
    /\ brokers' = [brokers EXCEPT ![k] = b]
    /\ Use(t, b)
    /\ UNCHANGED stopping

BrokerFor(t, k) ==
  IF Current(k) THEN Use(t, brokers[k]) /\ UNCHANGED registryVars ELSE Spawn(t, k)

Execute(t, k, cmd) ==
  /\ pc[t] = "idle" /\ closing[t] = {} /\ MoreEvents
  /\ BrokerFor(t, k)
  /\ key' = [key EXCEPT ![t] = k] /\ command' = [command EXCEPT ![t] = cmd]
  /\ calls' = calls + 1 /\ request' = [request EXCEPT ![t] = calls']
  /\ Goto(t, "lock")
  /\ UNCHANGED <<lock, stdin, responses, closing, noise, workerVars>>

-----------------------------------------------------------------------------
(* execute, under the broker's lock *)

\* Mutant: a lock that its holder cannot take again.
LockedOnce(t) ==
  /\ lock[broker[t]] = NoThread
  /\ lock' = [lock EXCEPT ![broker[t]] = t]

Locked(t) ==
  /\ lock[broker[t]] \in {NoThread, t}
  /\ lock' = [lock EXCEPT ![broker[t]] = t]

\* Mutant: one key of the broker is taken out, its aliases are forgotten.
DiscardedOnce(b) ==
  [k \in Keys |-> IF brokers[k] = b /\ k = (CHOOSE x \in Keys : brokers[x] = b)
                  THEN NoBroker ELSE brokers[k]]

Discarded(b) == [k \in Keys |-> IF brokers[k] = b THEN NoBroker ELSE brokers[k]]

\* The lock is taken and given back at once when the broker cannot be used.
Enter(t) ==
  /\ pc[t] = "lock"
  /\ lock[broker[t]] = NoThread
  /\ IF Alive(broker[t])
     THEN Locked(t) /\ Goto(t, "write") /\ UNCHANGED <<brokers, callVars>>
     ELSE /\ brokers' = IF stopping[broker[t]] THEN brokers ELSE Discarded(broker[t])
          /\ Goto(t, "idle") /\ Forget(t) /\ UNCHANGED lock
  /\ UNCHANGED <<process, stopping, stdin, responses, calls, closing, noise, workerVars>>

\* The pipe of a worker that has just died raises.
Write(t) ==
  /\ pc[t] = "write"
  /\ IF process[broker[t]] = "up"
     THEN /\ stdin' = [stdin EXCEPT ![broker[t]] = Append(@, [id |-> request[t],
                                                             command |-> command[t]])]
          /\ GoOn(t, "wait")
     ELSE End(t) /\ UNCHANGED stdin
  /\ UNCHANGED <<registryVars, responses, calls, closing, noise, workerVars>>

\* Mutant: the process is left alone, as it will answer in the end.
GiveUp(t) ==
  /\ pc[t] = "wait" /\ responses[broker[t]] = << >>
  /\ End(t)
  /\ UNCHANGED <<registryVars, stdin, responses, calls, closing, noise, workerVars>>

TimeOut(t) ==
  /\ pc[t] = "wait" /\ responses[broker[t]] = << >>
  /\ GoOn(t, "stop")
  /\ UNCHANGED <<registryVars, stdin, responses, calls, closing, noise, workerVars>>

Refuse(t) == GoOn(t, "stop") /\ UNCHANGED brokers

\* The first line there is: the end of the process, no answer, the answer to another
\* request, an error (the broker goes, too, if it is bound to another version) or the
\* result.
Answered(t) ==
  LET b == broker[t]
      line == Head(responses[b])
  IN
  /\ pc[t] = "wait" /\ responses[b] # << >>
  /\ responses' = [responses EXCEPT ![b] = Tail(@)]
  /\ CASE line = EOF -> End(t) /\ brokers' = Discarded(b)
       [] line = Noise \/ (IsAnswer(line) /\ line.id # request[t]) -> Refuse(t)
       [] line.id = request[t] /\ line.code = "error" ->
            (End(t) /\ UNCHANGED brokers) \/ Refuse(t)
       [] line.id = request[t] /\ line.code = "ok" ->
            /\ CASE command[t] = "ping" -> GoOn(t, "alias")
                 [] command[t] = "release" -> GoOn(t, "stop")
                 [] OTHER -> End(t)
            /\ UNCHANGED brokers
  /\ UNCHANGED <<process, stopping, stdin, calls, closing, noise, workerVars>>

-----------------------------------------------------------------------------
(* _register_aliases *)

Conflicts(b, names) ==
  {brokers[k] : k \in {k \in names : /\ brokers[k] \notin {NoBroker, b}
                                     /\ Alive(brokers[k])}}

Free(k, b) == brokers[k] \in {NoBroker, b} \/ ~Alive(brokers[k])

\* One broker stays: the one that is known by the first alias found taken, or this.
Register(t, names) ==
  LET b == broker[t]
      taken == Conflicts(b, names)
  IN
  /\ pc[t] = "alias" /\ names \subseteq Aliases[key[t]]
  /\ IF taken = {}
     THEN /\ brokers' = [k \in Keys |-> IF k \in names /\ Free(k, b) THEN b ELSE brokers[k]]
          /\ End(t)
     ELSE /\ \E c \in taken :
               brokers' = [k \in Keys |-> IF brokers[k] = b \/ (k \in names /\ Free(k, b))
                                          THEN c ELSE brokers[k]]
          /\ GoOn(t, "stop")
  /\ UNCHANGED <<process, stopping, stdin, responses, calls, closing, noise, workerVars>>

-----------------------------------------------------------------------------
(* _stop: marked under the guard, ended under the lock *)

Mark(t) ==
  /\ pc[t] = "stop"
  /\ stopping' = [stopping EXCEPT ![broker[t]] = TRUE]
  /\ GoOn(t, "kill")
  /\ UNCHANGED <<brokers, process, stdin, responses, calls, closing, noise, workerVars>>

\* The process ends by itself when its stdin is closed, or is terminated or killed.
Down(b) ==
  /\ process' = [process EXCEPT ![b] = "down"]
  /\ stdin' = [stdin EXCEPT ![b] = << >>]

\* _read_lines: the last that it queues is its None.
ReaderEnds(b, lines) ==
  /\ reading' = [reading EXCEPT ![b] = FALSE]
  /\ responses' = IF reading[b] THEN [responses EXCEPT ![b] = Append(lines, EOF)] ELSE responses

\* What it has written is of no use: who takes the lock now finds the broker stopping.
Kill(t) ==
  /\ pc[t] = "kill"
  /\ Locked(t)
  /\ IF process[broker[t]] = "up" THEN Down(broker[t]) ELSE UNCHANGED <<process, stdin>>
  /\ responses' = [responses EXCEPT ![broker[t]] = << >>]
  /\ reading' = [reading EXCEPT ![broker[t]] = FALSE]
  /\ Goto(t, "discard")
  /\ UNCHANGED <<brokers, stopping, callVars, calls, closing, noise, outlived>>

\* Three seconds after kill() the process is still there: wait raises, nothing is taken
\* out, and a close does not come to its other brokers.
KillFails(t) ==
  /\ pc[t] = "kill"
  /\ lock[broker[t]] \in {NoThread, t} /\ process[broker[t]] = "up"
  /\ MoreEvents /\ noise' = noise + 1
  /\ outlived' = [outlived EXCEPT ![broker[t]] = TRUE]
  /\ closing' = [closing EXCEPT ![t] = {}]
  /\ End(t)
  /\ UNCHANGED <<registryVars, stdin, responses, reading, calls>>

Discard(t) ==
  /\ pc[t] = "discard"
  /\ brokers' = Discarded(broker[t])
  /\ End(t)
  /\ UNCHANGED <<process, stopping, stdin, responses, calls, closing, noise, workerVars>>

-----------------------------------------------------------------------------
(* close: the brokers of a moment, one after the other *)

Close(t) ==
  /\ pc[t] = "idle" /\ closing[t] = {} /\ MoreEvents
  /\ closing' = [closing EXCEPT ![t] = {brokers[k] : k \in Keys} \ {NoBroker}]
  /\ calls' = calls + 1
  /\ UNCHANGED <<registryVars, lock, stdin, responses, pc, callVars, noise, workerVars>>

CloseNext(t, b) ==
  /\ pc[t] = "idle" /\ b \in closing[t]
  /\ closing' = [closing EXCEPT ![t] = @ \ {b}]
  /\ Use(t, b) /\ Goto(t, "stop")
  /\ UNCHANGED <<registryVars, lock, stdin, responses, key, command, request, calls, noise, workerVars>>

-----------------------------------------------------------------------------
(* worker.serve *)

\* What the worker's libraries print may come before or after the answer; nothing is
\* queued when nobody reads.  A released worker answers and ends, and its pipe is closed.
Printed(answer) == {<<answer>>, <<Noise, answer>>, <<answer, Noise>>}

Sent(b, asked, lines) ==
  /\ Len(lines) = 1 \/ (MoreEvents /\ reading[b])
  /\ noise' = noise + Len(lines) - 1
  /\ IF asked.command = "release"
     THEN Down(b) /\ ReaderEnds(b, responses[b] \o lines)
     ELSE /\ stdin' = [stdin EXCEPT ![b] = Tail(@)]
          /\ responses' = IF reading[b] THEN [responses EXCEPT ![b] = @ \o lines] ELSE responses
          /\ UNCHANGED <<process, reading>>

Serve(b, code) ==
  LET asked == Head(stdin[b]) IN
  /\ process[b] = "up" /\ stdin[b] # << >>
  /\ \E lines \in Printed(Answer(asked.id, code)) : Sent(b, asked, lines)
  /\ UNCHANGED <<brokers, stopping, outlived, lock, pc, callVars, calls, closing>>

Die(b) ==
  /\ process[b] = "up" /\ Down(b) /\ ReaderEnds(b, responses[b])
  /\ UNCHANGED <<brokers, stopping, outlived, lock, pc, callVars, calls, closing, noise>>

\* A line of a process that goes on is not UTF-8.
Undecodable(b) ==
  /\ process[b] = "up" /\ reading[b] /\ ReaderEnds(b, responses[b])
  /\ MoreEvents /\ noise' = noise + 1
  /\ UNCHANGED <<registryVars, outlived, lock, stdin, pc, callVars, calls, closing>>

-----------------------------------------------------------------------------
Work(t) ==
  \/ Enter(t) \/ Write(t) \/ TimeOut(t) \/ Answered(t)
  \/ \E names \in SUBSET Keys : Register(t, names)
  \/ Mark(t) \/ Kill(t) \/ KillFails(t) \/ Discard(t)
  \/ \E b \in Brokers : CloseNext(t, b)

Next ==
  \/ \E t \in Threads :
       \/ \E k \in Keys, cmd \in Commands : Execute(t, k, cmd)
       \/ Close(t) \/ Work(t)
  \/ \E b \in Brokers :
       \/ \E code \in Codes : Serve(b, code)
       \/ Die(b) \/ Undecodable(b)

\* A thread that can go on does; a wait ends by an answer or by its timeout.
Spec == Init /\ [][Next]_vars /\ \A t \in Threads : WF_vars(Work(t))

-----------------------------------------------------------------------------
Labels == {"idle", "lock", "write", "wait", "alias", "stop", "kill", "discard"}
Lines == {Noise, EOF} \cup [id : Nat, code : Codes]

RegistryTypes ==
  /\ brokers \in [Keys -> Brokers \cup {NoBroker}]
  /\ process \in [Brokers -> {"none", "up", "down"}]
  /\ stopping \in [Brokers -> BOOLEAN]
PipeTypes ==
  /\ stdin \in [Brokers -> Seq([id : Nat, command : Commands])]
  /\ responses \in [Brokers -> Seq(Lines)]
  /\ reading \in [Brokers -> BOOLEAN] /\ outlived \in [Brokers -> BOOLEAN]
CallTypes ==
  /\ lock \in [Brokers -> Threads \cup {NoThread}]
  /\ pc \in [Threads -> Labels] /\ key \in [Threads -> Keys \cup {NoKey}]
  /\ command \in [Threads -> Commands \cup {"none"}]
  /\ request \in [Threads -> Nat]
  /\ broker \in [Threads -> Brokers \cup {NoBroker}]
  /\ \A t \in Threads : pc[t] # "idle" => broker[t] \in Brokers
  /\ \A t \in Threads : pc[t] \in {"lock", "write"} => command[t] \in Commands
CountTypes ==
  calls \in Nat /\ closing \in [Threads -> SUBSET Brokers] /\ noise \in Nat

TypeOK == RegistryTypes /\ PipeTypes /\ CallTypes /\ CountTypes

(* No thread ever finds an answer to another request than its own: not that *)
(* of a call that timed out, not that of another thread on the same desktop *)
(* by another key, not that of a worker that was replaced.  Whatever the    *)
(* comparison of the ids would catch does not happen.                       *)
OwnAnswer ==
  \A t \in Threads : pc[t] = "wait" =>
    \A i \in DOMAIN responses[broker[t]] :
      IsAnswer(responses[broker[t]][i]) => responses[broker[t]][i].id = request[t]

(* A key leads to a broker that is being stopped only while a thread is     *)
(* about to take it out, or for a process that outlived its kill; a worker  *)
(* that is up is found by a key or is about to be stopped, but for one that *)
(* outlived its kill or whose lines nobody reads any more.  However calls,  *)
(* timeouts, aliases and close meet, nothing else makes a desktop           *)
(* unreachable or forgets a process.                                        *)
Stopping(b) ==
  \E t \in Threads : broker[t] = b /\ pc[t] \in {"stop", "kill", "discard"}
Doomed(b) == Stopping(b) \/ outlived[b]
Heard(b) == process[b] = "up" /\ reading[b]
RegistryRight ==
  /\ \A k \in Keys : brokers[k] # NoBroker /\ stopping[brokers[k]] => Doomed(brokers[k])
  /\ \A b \in Brokers : Heard(b) => (\E k \in Keys : brokers[k] = b) \/ Doomed(b)

(* The plan of the live sessions says that the end of a worker's output, a  *)
(* shutdown, a timeout and a protocol error have a cleanup path that is      *)
(* certain: a worker that no key leads to is about to be stopped.            *)
CleanedUp ==
  \A b \in Brokers : process[b] = "up" => (\E k \in Keys : brokers[k] = b) \/ Stopping(b)

(* Calls and close end, whatever the workers do: nobody waits for the lock  *)
(* of a broker for ever.                                                    *)
CallsEnd ==
  \A t \in Threads : pc[t] # "idle" \/ closing[t] # {} ~> pc[t] = "idle" /\ closing[t] = {}
-----------------------------------------------------------------------------
(* The inductive invariant *)

\* Nobody knows a broker whose process was never started.
Started ==
  /\ \A k \in Keys : brokers[k] # NoBroker => process[brokers[k]] # "none"
  /\ \A t \in Threads : pc[t] # "idle" => process[broker[t]] # "none"
  /\ \A t \in Threads : \A b \in closing[t] : process[b] # "none"
  /\ \A b \in Brokers : stopping[b] => process[b] # "none"
  /\ \A t \in Threads : pc[t] = "discard" => process[broker[t]] # "up"
  /\ \A t \in Threads : pc[t] \in {"kill", "discard"} => stopping[broker[t]]

\* Who is inside a broker's lock has it; a thread that stops a broker may have it.
LockRight ==
  /\ \A t \in Threads :
       pc[t] \in {"write", "wait", "alias", "discard"} => lock[broker[t]] = t
  /\ \A b \in Brokers :
       lock[b] # NoThread => /\ broker[lock[b]] = b
                             /\ pc[lock[b]] \in {"write", "wait", "alias",
                                                 "stop", "kill", "discard"}

\* One request at a time for a worker that is read, none for a process that has ended,
\* and no line after the None of the reader.
PipesRight ==
  \A b \in Brokers :
    /\ reading[b] => Len(stdin[b]) <= 1
    /\ process[b] # "up" => stdin[b] = << >>
    /\ \A i \in DOMAIN responses[b] :
         responses[b][i] = EOF => ~reading[b] /\ i = Len(responses[b])

NoAnswer(b) == \A i \in DOMAIN responses[b] : ~IsAnswer(responses[b][i])
Clean(b) == NoAnswer(b) /\ (reading[b] => stdin[b] = << >>)

\* Of a call that waits there is one request or one answer, and nothing of another.
Exchange(b, id) ==
  /\ reading[b] => \A i \in DOMAIN stdin[b] : stdin[b][i].id = id
  /\ \A i \in DOMAIN responses[b] :
       IsAnswer(responses[b][i]) =>
         /\ responses[b][i].id = id
         /\ reading[b] => stdin[b] = << >>
         /\ \A j \in DOMAIN responses[b] : IsAnswer(responses[b][j]) => i = j

\* What is left unread is that of a broker that is held, or that nobody can use any more.
Held(b) == lock[b] # NoThread /\ pc[lock[b]] \in {"wait", "stop", "kill", "discard"}
Left(b) == lock[b] = NoThread /\ stopping[b]

ExchangesRight ==
  /\ \A b \in Brokers : Clean(b) \/ Held(b) \/ Left(b)
  /\ \A t \in Threads : pc[t] = "wait" => Exchange(broker[t], request[t])

\* Who uses a broker that is being stopped is not alone with it.
StopsRight ==
  /\ RegistryRight
  /\ \A t \in Threads :
       pc[t] \in {"write", "wait", "alias"} /\ stopping[broker[t]] => Doomed(broker[t])

IInv == TypeOK /\ Started /\ LockRight /\ PipesRight /\ ExchangesRight /\ StopsRight
=============================================================================
