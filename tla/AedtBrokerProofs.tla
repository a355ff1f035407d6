--------------------------- MODULE AedtBrokerProofs --------------------------
(***************************************************************************)
(* Proofs about AedtBroker, for any number of threads, keys and processes:  *)
(* no thread finds the answer to a request of another, and the registry     *)
(* neither loses a process nor leads to one that nobody takes out.          *)
(***************************************************************************)
EXTENDS AedtBroker, SequenceTheorems, TLAPS

-----------------------------------------------------------------------------
(* Types *)

(* In the initial state every variable has its type.                        *)
LEMMA InitTypes == Init => TypeOK
<1> SUFFICES ASSUME Init PROVE TypeOK
  OBVIOUS
<1>1. << >> \in Seq([id : Nat, command : Commands]) /\ << >> \in Seq(Lines)
  OBVIOUS
<1>2. PipeTypes
  BY <1>1 DEF Init, PipeTypes
<1>3. RegistryTypes /\ CountTypes
  BY DEF Init, RegistryTypes, CountTypes
<1>4. CallTypes
  BY DEF Init, CallTypes, Labels
<1> QED
  BY <1>2, <1>3, <1>4 DEF TypeOK

(* A call that ends keeps the types.                                        *)
LEMMA EndTypes ==
  ASSUME CallTypes, NEW t \in Threads, broker[t] \in Brokers, End(t)
  PROVE  CallTypes'
<1>1. lock' \in [Brokers -> Threads \cup {NoThread}] /\ pc' \in [Threads -> Labels]
  BY DEF End, Goto, Unlock, CallTypes, Labels
<1>2. /\ key' \in [Threads -> Keys \cup {NoKey}] /\ command' \in [Threads -> Commands \cup {"none"}]
      /\ request' \in [Threads -> Nat] /\ broker' \in [Threads -> Brokers \cup {NoBroker}]
  BY DEF End, Forget, CallTypes
<1>3. pc'[t] = "idle"
      /\ \A u \in Threads \ {t} : pc'[u] = pc[u] /\ broker'[u] = broker[u] /\ command'[u] = command[u]
  BY DEF End, Goto, Forget, CallTypes
<1> QED
  BY <1>1, <1>2, <1>3 DEF CallTypes

(* A call that goes on keeps the types.                                     *)
LEMMA GoOnTypes ==
  ASSUME CallTypes, NEW t \in Threads, broker[t] \in Brokers,
         NEW label \in {"wait", "alias", "stop", "kill", "discard"}, GoOn(t, label)
  PROVE  CallTypes'
<1>1. pc' = [pc EXCEPT ![t] = label] /\ UNCHANGED <<lock, key, command, request, broker>>
  BY DEF GoOn, Goto, callVars
<1>2. pc' \in [Threads -> Labels] /\ pc'[t] = label /\ \A u \in Threads \ {t} : pc'[u] = pc[u]
  BY <1>1 DEF CallTypes, Labels
<1> QED
  BY <1>1, <1>2 DEF CallTypes

(* What Answered does is one of three things: the process has ended, the     *)
(* broker is given up, or the answer is the thread's own.                   *)
LEMMA AnsweredCases ==
  ASSUME TypeOK, NEW t \in Threads, Answered(t)
  PROVE \/ /\ Head(responses[broker[t]]) = EOF
           /\ End(t) /\ brokers' = Discarded(broker[t])
        \/ GoOn(t, "stop") /\ UNCHANGED brokers
        \/ /\ IsAnswer(Head(responses[broker[t]]))
           /\ Head(responses[broker[t]]).id = request[t]
           /\ End(t) \/ GoOn(t, "alias")
           /\ UNCHANGED brokers
<1> DEFINE b == broker[t]
           line == Head(responses[b])
           first == CASE command[t] = "ping" -> GoOn(t, "alias")
                      [] command[t] = "release" -> GoOn(t, "stop")
                      [] OTHER -> End(t)
           branch ==
             CASE line = EOF -> End(t) /\ brokers' = Discarded(b)
               [] line = Noise \/ (IsAnswer(line) /\ line.id # request[t]) -> Refuse(t)
               [] line.id = request[t] /\ line.code = "error" ->
                    (End(t) /\ UNCHANGED brokers) \/ Refuse(t)
               [] line.id = request[t] /\ line.code = "ok" -> first /\ UNCHANGED brokers
<1>1. first => GoOn(t, "alias") \/ GoOn(t, "stop") \/ End(t)
  BY Zenon
<1>2. branch
  BY DEF Answered
<1>3. b \in Brokers /\ responses[b] \in Seq(Lines) /\ responses[b] # << >>
  BY DEF Answered, TypeOK, CallTypes, PipeTypes
<1>4. line \in Lines
  BY <1>3
<1>5. line = EOF \/ line = Noise \/ IsAnswer(line)
  BY <1>4 DEF Lines, IsAnswer
<1>6. CASE line = EOF
  <2>1. line # Noise /\ ~IsAnswer(line)
    BY <1>6 DEF EOF, Noise, IsAnswer, Codes
  <2>2. line.code # "ok" /\ line.code # "error"
    BY <2>1 DEF IsAnswer, Codes
  <2>3. End(t) /\ brokers' = Discarded(b)
    BY <1>2, <1>6, <2>1, <2>2, Zenon
  <2> QED
    BY <1>6, <2>3
<1>7. CASE line = Noise
  <2>1. line # EOF /\ line.code # "ok" /\ line.code # "error"
    BY <1>7 DEF EOF, Noise
  <2>2. Refuse(t)
    BY <1>2, <1>7, <2>1, Zenon
  <2> QED
    BY <2>2 DEF Refuse
<1>8. CASE IsAnswer(line)
  <2>1. line # EOF /\ line # Noise
    BY <1>8 DEF EOF, Noise, IsAnswer, Codes
  <2>2. CASE line.id # request[t]
    <3>1. Refuse(t)
      BY <1>2, <1>8, <2>1, <2>2, Zenon
    <3> QED
      BY <3>1 DEF Refuse
  <2>3. CASE line.id = request[t] /\ line.code = "error"
    <3>1. line.code # "ok"
      BY <2>3
    <3>2. (End(t) /\ UNCHANGED brokers) \/ Refuse(t)
      BY <1>2, <2>1, <2>3, <3>1, Zenon
    <3> QED
      BY <1>8, <2>3, <3>2 DEF Refuse
  <2>4. CASE line.id = request[t] /\ line.code = "ok"
    <3>1. line.code # "error"
      BY <2>4
    <3> HIDE DEF first
    <3>2. first /\ UNCHANGED brokers
      BY <1>2, <2>1, <2>4, <3>1, Zenon
    <3> QED
      BY <1>1, <1>8, <2>4, <3>2
  <2> QED
    BY <1>8, <2>2, <2>3, <2>4 DEF IsAnswer, Codes
<1> QED
  BY <1>5, <1>6, <1>7, <1>8

(* What the worker writes when it answers: one answer, and perhaps a line    *)
(* before or after it.                                                      *)
LEMMA PrintedLines ==
  ASSUME NEW r \in Seq(Lines), NEW answer \in Lines, NEW lines \in Printed(answer)
  PROVE  /\ r \o lines \in Seq(Lines) /\ Len(lines) \in {1, 2}
         /\ Len(r \o lines) = Len(r) + Len(lines)
         /\ \A i \in 1 .. Len(r) : (r \o lines)[i] = r[i]
         /\ \E n \in Len(r) + 1 .. Len(r \o lines) :
              /\ (r \o lines)[n] = answer
              /\ \A i \in Len(r) + 1 .. Len(r \o lines) : i # n => (r \o lines)[i] = Noise
<1>1. Noise \in Lines /\ Len(r) \in Nat
  BY DEF Lines
<1>2. <<answer>> \in Seq(Lines) /\ <<Noise, answer>> \in Seq(Lines) /\ <<answer, Noise>> \in Seq(Lines)
  BY <1>1
<1>3. lines \in Seq(Lines) /\ Len(lines) \in {1, 2}
      /\ \/ Len(lines) = 1 /\ lines[1] = answer
         \/ Len(lines) = 2 /\ lines[1] = answer /\ lines[2] = Noise
         \/ Len(lines) = 2 /\ lines[1] = Noise /\ lines[2] = answer
  <2>1. lines = <<answer>> \/ lines = <<Noise, answer>> \/ lines = <<answer, Noise>>
    BY DEF Printed
  <2>2. CASE lines = <<answer>>
    BY <1>2, <2>2
  <2>3. CASE lines = <<Noise, answer>>
    BY <1>2, <2>3
  <2>4. CASE lines = <<answer, Noise>>
    BY <1>2, <2>4
  <2> QED
    BY <2>1, <2>2, <2>3, <2>4
<1>4. /\ r \o lines \in Seq(Lines) /\ Len(r \o lines) = Len(r) + Len(lines)
      /\ \A i \in 1 .. Len(r) + Len(lines) :
           (r \o lines)[i] = IF i <= Len(r) THEN r[i] ELSE lines[i - Len(r)]
  BY <1>3, ConcatProperties
<1>5. \A i \in 1 .. Len(r) : (r \o lines)[i] = r[i]
  BY <1>1, <1>3, <1>4
<1>6. (r \o lines)[Len(r) + 1] = lines[1]
      /\ (Len(lines) = 2 => (r \o lines)[Len(r) + 2] = lines[2])
  BY <1>1, <1>3, <1>4
<1>7. CASE lines[1] = answer /\ (Len(lines) = 2 => lines[2] = Noise)
  <2>1. Len(r) + 1 \in Len(r) + 1 .. Len(r \o lines)
    BY <1>1, <1>3, <1>4
  <2>2. \A i \in Len(r) + 1 .. Len(r \o lines) : i # Len(r) + 1 => (r \o lines)[i] = Noise
    BY <1>1, <1>3, <1>4, <1>6, <1>7
  <2> QED
    BY <1>3, <1>4, <1>5, <1>6, <1>7, <2>1, <2>2
<1>8. CASE Len(lines) = 2 /\ lines[1] = Noise /\ lines[2] = answer
  <2>1. Len(r) + 2 \in Len(r) + 1 .. Len(r \o lines)
    BY <1>1, <1>4, <1>8
  <2>2. \A i \in Len(r) + 1 .. Len(r \o lines) : i # Len(r) + 2 => (r \o lines)[i] = Noise
    BY <1>1, <1>4, <1>6, <1>8
  <2> QED
    BY <1>3, <1>4, <1>5, <1>6, <1>8, <2>1, <2>2
<1> QED
  BY <1>3, <1>7, <1>8

(* The reader that ends has queued what the worker wrote, and then its None.  *)
LEMMA ReaderEffect ==
  ASSUME PipeTypes, NEW b \in Brokers, NEW lines \in Seq(Lines), ReaderEnds(b, lines)
  PROVE  /\ reading' \in [Brokers -> BOOLEAN] /\ ~reading'[b]
         /\ responses' \in [Brokers -> Seq(Lines)]
         /\ \A c \in Brokers \ {b} : reading'[c] = reading[c] /\ responses'[c] = responses[c]
         /\ ~reading[b] => responses' = responses
         /\ reading[b] => /\ Len(responses'[b]) = Len(lines) + 1
                          /\ responses'[b][Len(lines) + 1] = EOF
                          /\ \A i \in 1 .. Len(lines) : responses'[b][i] = lines[i]
<1>1. reading' = [reading EXCEPT ![b] = FALSE]
      /\ responses' = IF reading[b] THEN [responses EXCEPT ![b] = Append(lines, EOF)] ELSE responses
  BY DEF ReaderEnds
<1>2. reading' \in [Brokers -> BOOLEAN] /\ ~reading'[b] /\ \A c \in Brokers \ {b} : reading'[c] = reading[c]
  BY <1>1 DEF PipeTypes
<1>3. EOF \in Lines
  BY DEF Lines
<1>4. /\ Append(lines, EOF) \in Seq(Lines) /\ Len(Append(lines, EOF)) = Len(lines) + 1
      /\ Append(lines, EOF)[Len(lines) + 1] = EOF
      /\ \A i \in 1 .. Len(lines) : Append(lines, EOF)[i] = lines[i]
  BY <1>3, AppendProperties
<1>5. CASE reading[b]
  <2>1. responses' = [responses EXCEPT ![b] = Append(lines, EOF)]
    BY <1>1, <1>5
  <2>2. responses'[b] = Append(lines, EOF) /\ responses' \in [Brokers -> Seq(Lines)]
        /\ \A c \in Brokers \ {b} : responses'[c] = responses[c]
    BY <1>4, <2>1 DEF PipeTypes
  <2> QED
    BY <1>2, <1>4, <1>5, <2>2
<1>6. CASE ~reading[b]
  BY <1>1, <1>2, <1>6 DEF PipeTypes
<1> QED
  BY <1>5, <1>6

(* A process that ends has no request left.                                 *)
LEMMA DownEffect ==
  ASSUME RegistryTypes, PipeTypes, NEW b \in Brokers, Down(b)
  PROVE  /\ stdin' \in [Brokers -> Seq([id : Nat, command : Commands])]
         /\ stdin'[b] = << >> /\ \A c \in Brokers \ {b} : stdin'[c] = stdin[c]
         /\ process' \in [Brokers -> {"none", "up", "down"}]
         /\ process'[b] = "down" /\ \A c \in Brokers \ {b} : process'[c] = process[c]
<1> DEFINE Calls == [id : Nat, command : Commands]
<1>1. << >> \in Seq(Calls)
  OBVIOUS
<1>2. stdin \in [Brokers -> Seq(Calls)]
  BY DEF PipeTypes
<1> HIDE DEF Calls
<1>3. /\ stdin' \in [Brokers -> Seq(Calls)]
      /\ stdin'[b] = << >> /\ \A c \in Brokers \ {b} : stdin'[c] = stdin[c]
  BY <1>1, <1>2 DEF Down
<1>4. /\ process' \in [Brokers -> {"none", "up", "down"}]
      /\ process'[b] = "down" /\ \A c \in Brokers \ {b} : process'[c] = process[c]
  BY DEF Down, RegistryTypes
<1> QED
  BY <1>3, <1>4 DEF Calls

(* What a worker's answer changes: if anybody reads, the answer is queued     *)
(* with at most a line of noise, and the reader's None only as the last.     *)
LEMMA ServeEffect ==
  ASSUME RegistryTypes, PipeTypes, NEW b \in Brokers, NEW code \in Codes, Serve(b, code)
  PROVE  /\ stdin' \in [Brokers -> Seq([id : Nat, command : Commands])]
         /\ responses' \in [Brokers -> Seq(Lines)] /\ reading' \in [Brokers -> BOOLEAN]
         /\ process' \in [Brokers -> {"none", "up", "down"}]
         /\ noise \in Nat => noise' \in Nat
         /\ stdin[b] # << >> /\ stdin'[b] \in {<< >>, Tail(stdin[b])}
         /\ process'[b] # "up" => stdin'[b] = << >>
         /\ \A c \in Brokers \ {b} : /\ stdin'[c] = stdin[c] /\ responses'[c] = responses[c]
                                     /\ reading'[c] = reading[c] /\ process'[c] = process[c]
         /\ process[b] = "up" /\ process'[b] \in {"up", "down"}
         /\ ~reading[b] => responses' = responses /\ ~reading'[b]
         /\ reading[b] =>
              /\ \A i \in 1 .. Len(responses[b]) : responses'[b][i] = responses[b][i]
              /\ \E n \in Len(responses[b]) + 1 .. Len(responses'[b]) :
                   /\ responses'[b][n] = Answer(Head(stdin[b]).id, code)
                   /\ \A i \in Len(responses[b]) + 1 .. Len(responses'[b]) :
                        i # n => \/ responses'[b][i] = Noise
                                 \/ /\ responses'[b][i] = EOF
                                    /\ i = Len(responses'[b]) /\ ~reading'[b]
<1> DEFINE Calls == [id : Nat, command : Commands]
<1>r. PICK r : r = responses[b]
  OBVIOUS
<1>a. PICK answer : answer = Answer(Head(stdin[b]).id, code)
  OBVIOUS
<1>1. /\ process[b] = "up" /\ stdin[b] # << >>
      /\ \E lines \in Printed(answer) : Sent(b, Head(stdin[b]), lines)
  BY <1>a DEF Serve
<1>2. PICK lines \in Printed(answer) : Sent(b, Head(stdin[b]), lines)
  BY <1>1
<1>3. stdin \in [Brokers -> Seq(Calls)] /\ r \in Seq(Lines) /\ Len(r) \in Nat
  <2>1. stdin \in [Brokers -> Seq(Calls)]
    BY DEF PipeTypes
  <2>2. r \in Seq(Lines)
    BY <1>r DEF PipeTypes
  <2>3. Len(r) \in Nat
    BY <2>2
  <2> QED
    BY <2>1, <2>2, <2>3
<1>4. Head(stdin[b]) \in Calls /\ Tail(stdin[b]) \in Seq(Calls)
  BY <1>1, <1>3, HeadTailProperties
<1>5. answer \in Lines
  BY <1>a, <1>4 DEF Answer, Lines
<1> HIDE DEF Calls
<1>6. /\ r \o lines \in Seq(Lines) /\ Len(lines) \in {1, 2}
      /\ Len(r \o lines) = Len(r) + Len(lines)
      /\ \A i \in 1 .. Len(r) : (r \o lines)[i] = r[i]
      /\ \E n \in Len(r) + 1 .. Len(r \o lines) :
           /\ (r \o lines)[n] = answer
           /\ \A i \in Len(r) + 1 .. Len(r \o lines) : i # n => (r \o lines)[i] = Noise
  BY <1>3, <1>5, PrintedLines
<1>7. PICK n \in Len(r) + 1 .. Len(r \o lines) :
        /\ (r \o lines)[n] = answer
        /\ \A i \in Len(r) + 1 .. Len(r \o lines) : i # n => (r \o lines)[i] = Noise
  BY <1>6
<1>8. noise \in Nat => noise' \in Nat
  BY <1>2, <1>6 DEF Sent
<1>9. CASE Down(b) /\ ReaderEnds(b, r \o lines)
  <2>1. /\ stdin' \in [Brokers -> Seq(Calls)]
        /\ stdin'[b] = << >> /\ \A c \in Brokers \ {b} : stdin'[c] = stdin[c]
        /\ process' \in [Brokers -> {"none", "up", "down"}]
        /\ process'[b] = "down" /\ \A c \in Brokers \ {b} : process'[c] = process[c]
    BY <1>9, DownEffect DEF Calls
  <2>2. /\ reading' \in [Brokers -> BOOLEAN] /\ ~reading'[b]
        /\ responses' \in [Brokers -> Seq(Lines)]
        /\ \A c \in Brokers \ {b} : reading'[c] = reading[c] /\ responses'[c] = responses[c]
        /\ ~reading[b] => responses' = responses
        /\ reading[b] => /\ Len(responses'[b]) = Len(r \o lines) + 1
                         /\ responses'[b][Len(r \o lines) + 1] = EOF
                         /\ \A i \in 1 .. Len(r \o lines) : responses'[b][i] = (r \o lines)[i]
    BY <1>6, <1>9, ReaderEffect
  <2>3. ASSUME reading[b]
        PROVE  /\ \A i \in 1 .. Len(r) : responses'[b][i] = r[i]
               /\ \E m \in Len(r) + 1 .. Len(responses'[b]) :
                    /\ responses'[b][m] = answer
                    /\ \A i \in Len(r) + 1 .. Len(responses'[b]) :
                         i # m => \/ responses'[b][i] = Noise
                                  \/ /\ responses'[b][i] = EOF
                                     /\ i = Len(responses'[b]) /\ ~reading'[b]
    <3>1. n \in Len(r) + 1 .. Len(responses'[b]) /\ responses'[b][n] = answer
      BY <1>3, <1>6, <1>7, <2>2, <2>3
    <3>2. \A i \in 1 .. Len(r) : responses'[b][i] = r[i]
      <4>1. \A i \in 1 .. Len(r) : i \in 1 .. Len(r \o lines)
        BY <1>3, <1>6
      <4> QED
        BY <1>6, <2>2, <2>3, <4>1
    <3>0. Len(r \o lines) \in Nat /\ Len(responses'[b]) = Len(r \o lines) + 1
      BY <1>6, <2>2, <2>3
    <3>3. ASSUME NEW i \in Len(r) + 1 .. Len(responses'[b]), i # n
          PROVE  \/ responses'[b][i] = Noise
                 \/ /\ responses'[b][i] = EOF
                    /\ i = Len(responses'[b]) /\ ~reading'[b]
      <4>1. CASE i = Len(r \o lines) + 1
        BY <2>2, <2>3, <4>1
      <4>2. CASE i # Len(r \o lines) + 1
        <5>1. i \in Len(r) + 1 .. Len(r \o lines) /\ i \in 1 .. Len(r \o lines)
          BY <1>3, <3>0, <3>3, <4>2
        <5> QED
          BY <1>7, <2>2, <2>3, <3>3, <5>1
      <4> QED
        BY <4>1, <4>2
    <3> QED
      BY <3>1, <3>2, <3>3
  <2> QED
    BY <1>r, <1>a, <1>1, <1>8, <2>1, <2>2, <2>3 DEF Calls
<1>10. CASE /\ stdin' = [stdin EXCEPT ![b] = Tail(@)]
            /\ responses' = IF reading[b] THEN [responses EXCEPT ![b] = @ \o lines] ELSE responses
            /\ UNCHANGED <<process, reading>>
  <2>1. /\ stdin' \in [Brokers -> Seq(Calls)] /\ stdin'[b] = Tail(stdin[b])
        /\ \A c \in Brokers \ {b} : stdin'[c] = stdin[c]
    BY <1>3, <1>4, <1>10
  <2>2. process' \in [Brokers -> {"none", "up", "down"}] /\ reading' \in [Brokers -> BOOLEAN]
    BY <1>10 DEF RegistryTypes, PipeTypes
  <2>3. /\ responses' \in [Brokers -> Seq(Lines)]
        /\ \A c \in Brokers \ {b} : responses'[c] = responses[c]
        /\ responses'[b] = IF reading[b] THEN r \o lines ELSE r
    BY <1>r, <1>a, <1>6, <1>10 DEF PipeTypes
  <2> QED
    <3>1. reading[b] =>
            /\ \A i \in 1 .. Len(r) : responses'[b][i] = r[i]
            /\ \E m \in Len(r) + 1 .. Len(responses'[b]) :
                 /\ responses'[b][m] = answer
                 /\ \A i \in Len(r) + 1 .. Len(responses'[b]) : i # m => responses'[b][i] = Noise
      BY <1>6, <1>7, <2>3
    <3>2. ~reading[b] => responses' = responses /\ ~reading'[b]
      BY <1>10
    <3>3. process'[b] = "up" /\ UNCHANGED <<process, reading>>
      BY <1>1, <1>10
    <3> QED
      BY <1>r, <1>a, <1>1, <1>8, <2>1, <2>2, <2>3, <3>1, <3>2, <3>3 DEF Calls
<1> QED
  BY <1>r, <1>a, <1>2, <1>9, <1>10 DEF Sent

(* Every call of a thread, every answer and every death keeps the types.     *)
LEMMA StepTypes == TypeOK /\ [Next]_vars => TypeOK'
<1> SUFFICES ASSUME TypeOK, [Next]_vars PROVE TypeOK'
  OBVIOUS
<1> USE BrokerAssumption
<1> DEFINE Calls == [id : Nat, command : Commands]
<1>0. RegistryTypes /\ PipeTypes /\ CallTypes /\ CountTypes
  BY DEF TypeOK
<1>1. ASSUME NEW t \in Threads, NEW k \in Keys, NEW cmd \in Commands, Execute(t, k, cmd)
      PROVE  TypeOK'
  <2>1. \E b \in Brokers : broker' = [broker EXCEPT ![t] = b] /\ RegistryTypes'
    <3>1. CASE Current(k)
      BY <1>0, <1>1, <3>1
      DEF Execute, BrokerFor, Current, Use, registryVars, RegistryTypes
    <3>2. CASE ~Current(k)
      <4>1. PICK b \in Brokers :
              /\ process' = [process EXCEPT ![b] = "up"] /\ brokers' = [brokers EXCEPT ![k] = b]
              /\ broker' = [broker EXCEPT ![t] = b] /\ stopping' = stopping
        BY <1>1, <3>2 DEF Execute, BrokerFor, Spawn, Use
      <4> QED
        BY <1>0, <4>1 DEF RegistryTypes
    <3> QED
      BY <3>1, <3>2
  <2>2. /\ key' = [key EXCEPT ![t] = k] /\ command' = [command EXCEPT ![t] = cmd]
        /\ calls' = calls + 1 /\ request' = [request EXCEPT ![t] = calls + 1]
        /\ pc' = [pc EXCEPT ![t] = "lock"]
        /\ UNCHANGED <<lock, stdin, responses, closing, noise, reading, outlived>>
    BY <1>1 DEF Execute, Goto, workerVars
  <2>3. CountTypes' /\ PipeTypes'
    <3>1. CountTypes'
      BY <1>0, <2>2 DEF CountTypes
    <3>2. PipeTypes'
      BY <1>0, <2>2 DEF PipeTypes
    <3> QED
      BY <3>1, <3>2
  <2>4. pc' \in [Threads -> Labels] /\ pc'[t] = "lock"
        /\ \A u \in Threads \ {t} : pc'[u] = pc[u]
    BY <1>0, <2>2 DEF CallTypes, Labels
  <2>8. command'[t] \in Commands /\ \A u \in Threads \ {t} : command'[u] = command[u]
    BY <1>0, <2>2 DEF CallTypes
  <2>5. broker' \in [Threads -> Brokers \cup {NoBroker}] /\ broker'[t] \in Brokers
        /\ \A u \in Threads \ {t} : broker'[u] = broker[u]
    BY <1>0, <2>1 DEF CallTypes
  <2>6. /\ key' \in [Threads -> Keys \cup {NoKey}] /\ command' \in [Threads -> Commands \cup {"none"}]
        /\ request' \in [Threads -> Nat] /\ lock' \in [Brokers -> Threads \cup {NoThread}]
    BY <1>0, <2>2 DEF CallTypes, CountTypes
  <2>7. CallTypes'
    BY <1>0, <2>4, <2>5, <2>6, <2>8 DEF CallTypes
  <2> QED
    BY <2>1, <2>3, <2>7 DEF TypeOK
<1>2. ASSUME NEW t \in Threads, Enter(t) PROVE TypeOK'
  <2>1. broker[t] \in Brokers /\ command[t] \in Commands
    BY <1>0, <1>2 DEF Enter, CallTypes
  <2>2. UNCHANGED <<process, stopping, stdin, responses, calls, closing, noise, reading, outlived>>
    BY <1>2 DEF Enter, workerVars
  <2>3. CASE Alive(broker[t])
    <3>1. lock' = [lock EXCEPT ![broker[t]] = t] /\ pc' = [pc EXCEPT ![t] = "write"]
          /\ UNCHANGED <<brokers, key, command, request, broker>>
      BY <1>2, <2>3 DEF Enter, Locked, Goto, callVars
    <3>2. pc' \in [Threads -> Labels] /\ pc'[t] = "write"
          /\ \A u \in Threads \ {t} : pc'[u] = pc[u]
      BY <1>0, <3>1 DEF CallTypes, Labels
    <3>3. CallTypes'
      BY <1>0, <2>1, <3>1, <3>2 DEF CallTypes
    <3> QED
      BY <1>0, <2>2, <3>1, <3>3 DEF TypeOK, RegistryTypes, PipeTypes, CountTypes
  <2>4. CASE ~Alive(broker[t])
    <3>1. /\ pc' = [pc EXCEPT ![t] = "idle"] /\ UNCHANGED lock
          /\ key' = [key EXCEPT ![t] = NoKey] /\ command' = [command EXCEPT ![t] = "none"]
          /\ request' = [request EXCEPT ![t] = 0] /\ broker' = [broker EXCEPT ![t] = NoBroker]
          /\ brokers' = brokers \/ brokers' = Discarded(broker[t])
      BY <1>2, <2>4 DEF Enter, Goto, Forget
    <3>2. RegistryTypes'
      BY <1>0, <2>2, <3>1 DEF RegistryTypes, Discarded
    <3>3. pc' \in [Threads -> Labels] /\ pc'[t] = "idle"
          /\ \A u \in Threads \ {t} : pc'[u] = pc[u] /\ broker'[u] = broker[u]
                                      /\ command'[u] = command[u]
      BY <1>0, <3>1 DEF CallTypes, Labels
    <3>4. CallTypes'
      BY <1>0, <3>1, <3>3 DEF CallTypes
    <3> QED
      BY <1>0, <2>2, <3>2, <3>4 DEF TypeOK, PipeTypes, CountTypes
  <2> QED
    BY <2>3, <2>4
<1>3. ASSUME NEW t \in Threads, Write(t) PROVE TypeOK'
  <2>1. broker[t] \in Brokers /\ command[t] \in Commands /\ request[t] \in Nat
        /\ stdin[broker[t]] \in Seq(Calls)
    BY <1>0, <1>3 DEF Write, CallTypes, PipeTypes
  <2>2. UNCHANGED <<brokers, process, stopping, responses, calls, closing, noise, reading, outlived>>
    BY <1>3 DEF Write, registryVars, workerVars
  <2>3. PipeTypes'
    <3> DEFINE asked == [id |-> request[t], command |-> command[t]]
    <3>1. asked \in Calls
      BY <2>1
    <3>2. Append(stdin[broker[t]], asked) \in Seq(Calls)
      BY <2>1, <3>1, AppendProperties
    <3>3. stdin' = stdin \/ stdin' = [stdin EXCEPT ![broker[t]] = Append(@, asked)]
      BY <1>3 DEF Write
    <3> QED
      BY <1>0, <2>2, <3>2, <3>3 DEF PipeTypes
  <2>4. GoOn(t, "wait") \/ End(t)
    BY <1>3 DEF Write
  <2>5. CallTypes'
    BY <1>0, <2>1, <2>4, EndTypes, GoOnTypes
  <2> QED
    BY <1>0, <2>2, <2>3, <2>5 DEF TypeOK, RegistryTypes, CountTypes
<1>4. ASSUME NEW t \in Threads, TimeOut(t) PROVE TypeOK'
  <2>1. broker[t] \in Brokers /\ GoOn(t, "stop")
        /\ UNCHANGED <<brokers, process, stopping, stdin, responses, calls, closing, noise, reading, outlived>>
    BY <1>0, <1>4 DEF TimeOut, CallTypes, registryVars, workerVars
  <2>2. CallTypes'
    BY <1>0, <2>1, GoOnTypes
  <2> QED
    BY <1>0, <2>1, <2>2 DEF TypeOK, RegistryTypes, PipeTypes, CountTypes
<1>5. ASSUME NEW t \in Threads, Answered(t) PROVE TypeOK'
  <2>1. broker[t] \in Brokers /\ responses[broker[t]] \in Seq(Lines)
        /\ responses[broker[t]] # << >>
    BY <1>0, <1>5 DEF Answered, CallTypes, PipeTypes
  <2>2. responses' = [responses EXCEPT ![broker[t]] = Tail(@)]
        /\ UNCHANGED <<process, stopping, stdin, calls, closing, noise, reading, outlived>>
    BY <1>5 DEF Answered, workerVars
  <2>3. Tail(responses[broker[t]]) \in Seq(Lines)
    BY <2>1, HeadTailProperties
  <2>4. PipeTypes' /\ CountTypes'
    BY <1>0, <2>2, <2>3 DEF PipeTypes, CountTypes
  <2>5. (End(t) \/ GoOn(t, "stop") \/ GoOn(t, "alias"))
        /\ (brokers' = brokers \/ brokers' = Discarded(broker[t]))
    BY <1>5, AnsweredCases
  <2>6. CallTypes'
    BY <1>0, <2>1, <2>5, EndTypes, GoOnTypes
  <2>7. RegistryTypes'
    BY <1>0, <2>2, <2>5 DEF RegistryTypes, Discarded
  <2> QED
    BY <2>4, <2>6, <2>7 DEF TypeOK
<1>6. ASSUME NEW t \in Threads, NEW names \in SUBSET Keys, Register(t, names) PROVE TypeOK'
  <2>1. broker[t] \in Brokers /\ Conflicts(broker[t], names) \subseteq Brokers
    BY <1>0, <1>6 DEF Register, Conflicts, CallTypes, RegistryTypes
  <2>2. UNCHANGED <<process, stopping, stdin, responses, calls, closing, noise, reading, outlived>>
        /\ (End(t) \/ GoOn(t, "stop"))
    BY <1>6 DEF Register, workerVars
  <2>3. RegistryTypes'
    BY <1>0, <1>6, <2>1, <2>2 DEF Register, RegistryTypes
  <2>4. CallTypes'
    BY <1>0, <2>1, <2>2, EndTypes, GoOnTypes
  <2> QED
    BY <1>0, <2>2, <2>3, <2>4 DEF TypeOK, PipeTypes, CountTypes
<1>7. ASSUME NEW t \in Threads, Mark(t) PROVE TypeOK'
  <2>1. broker[t] \in Brokers /\ GoOn(t, "kill")
        /\ stopping' = [stopping EXCEPT ![broker[t]] = TRUE]
        /\ UNCHANGED <<brokers, process, stdin, responses, calls, closing, noise, reading, outlived>>
    BY <1>0, <1>7 DEF Mark, CallTypes, workerVars
  <2>2. CallTypes'
    BY <1>0, <2>1, GoOnTypes
  <2> QED
    BY <1>0, <2>1, <2>2 DEF TypeOK, RegistryTypes, PipeTypes, CountTypes

<1>8. ASSUME NEW t \in Threads, Kill(t) PROVE TypeOK'
  <2>1. broker[t] \in Brokers /\ << >> \in Seq(Lines)
    BY <1>0, <1>8 DEF Kill, CallTypes
  <2>2. /\ UNCHANGED <<brokers, stopping, outlived, key, command, request, broker, calls, closing, noise>>
        /\ responses' = [responses EXCEPT ![broker[t]] = << >>]
        /\ reading' = [reading EXCEPT ![broker[t]] = FALSE]
        /\ lock' = [lock EXCEPT ![broker[t]] = t] /\ pc' = [pc EXCEPT ![t] = "discard"]
    BY <1>8 DEF Kill, Locked, Goto, callVars
  <2>3. process' \in [Brokers -> {"none", "up", "down"}] /\ stdin' \in [Brokers -> Seq(Calls)]
    <3>1. CASE process[broker[t]] = "up"
      BY <1>0, <1>8, <2>1, <3>1, DownEffect DEF Kill
    <3>2. CASE process[broker[t]] # "up"
      BY <1>0, <1>8, <3>2 DEF Kill, RegistryTypes, PipeTypes
    <3> QED
      BY <3>1, <3>2
  <2>4. RegistryTypes' /\ CountTypes'
    BY <1>0, <2>2, <2>3 DEF RegistryTypes, CountTypes
  <2>5. PipeTypes'
    BY <1>0, <2>1, <2>2, <2>3 DEF PipeTypes
  <2>6. CallTypes'
    BY <1>0, <2>1, <2>2 DEF CallTypes, Labels
  <2> QED
    BY <2>4, <2>5, <2>6 DEF TypeOK
<1>15. ASSUME NEW t \in Threads, KillFails(t) PROVE TypeOK'
  <2>1. broker[t] \in Brokers /\ End(t)
    BY <1>0, <1>15 DEF KillFails, CallTypes
  <2>2. /\ UNCHANGED <<brokers, process, stopping, stdin, responses, reading, calls>>
        /\ outlived' = [outlived EXCEPT ![broker[t]] = TRUE]
        /\ closing' = [closing EXCEPT ![t] = {}] /\ noise' = noise + 1
    BY <1>15 DEF KillFails, registryVars
  <2>3. CallTypes'
    BY <1>0, <2>1, EndTypes
  <2>4. CountTypes'
    BY <1>0, <2>2 DEF CountTypes
  <2>5. PipeTypes'
    BY <1>0, <2>1, <2>2 DEF PipeTypes
  <2> QED
    BY <1>0, <2>2, <2>3, <2>4, <2>5 DEF TypeOK, RegistryTypes
<1>9. ASSUME NEW t \in Threads, Discard(t) PROVE TypeOK'
  <2>1. broker[t] \in Brokers
    BY <1>0, <1>9 DEF Discard, CallTypes
  <2>2. /\ brokers' = Discarded(broker[t]) /\ End(t)
        /\ UNCHANGED <<process, stopping, stdin, responses, calls, closing, noise, reading, outlived>>
    BY <1>9 DEF Discard, workerVars
  <2>3. CallTypes'
    BY <1>0, <2>1, <2>2, EndTypes
  <2> QED
    BY <1>0, <2>1, <2>2, <2>3 DEF Discarded, TypeOK, RegistryTypes, PipeTypes, CountTypes
<1>10. ASSUME NEW t \in Threads, Close(t) PROVE TypeOK'
  <2>1. UNCHANGED <<brokers, process, stopping, lock, stdin, responses, pc, key, command, request,
                    broker, noise, reading, outlived>>
        /\ calls' = calls + 1
        /\ closing' = [closing EXCEPT ![t] = {brokers[k] : k \in Keys} \ {NoBroker}]
    BY <1>10 DEF Close, registryVars, callVars, workerVars
  <2>2. RegistryTypes' /\ PipeTypes' /\ CallTypes'
    BY <1>0, <2>1 DEF RegistryTypes, PipeTypes, CallTypes
  <2>3. {brokers[k] : k \in Keys} \ {NoBroker} \subseteq Brokers
    BY <1>0 DEF RegistryTypes
  <2>4. CountTypes'
    BY <1>0, <2>1, <2>3 DEF CountTypes
  <2> QED
    BY <2>2, <2>4 DEF TypeOK
<1>11. ASSUME NEW t \in Threads, NEW b \in Brokers, CloseNext(t, b) PROVE TypeOK'
  <2>1. /\ closing' = [closing EXCEPT ![t] = @ \ {b}] /\ pc' = [pc EXCEPT ![t] = "stop"]
        /\ broker' = [broker EXCEPT ![t] = b]
        /\ UNCHANGED <<brokers, process, stopping, lock, stdin, responses, key, command, request,
                       calls, noise, reading, outlived>>
    BY <1>11 DEF CloseNext, Use, Goto, registryVars, workerVars
  <2>2. RegistryTypes' /\ PipeTypes' /\ CountTypes'
    BY <1>0, <2>1 DEF RegistryTypes, PipeTypes, CountTypes
  <2>3. CallTypes'
    BY <1>0, <2>1 DEF CallTypes, Labels
  <2> QED
    BY <2>2, <2>3 DEF TypeOK
<1>12. ASSUME NEW b \in Brokers, NEW code \in Codes, Serve(b, code) PROVE TypeOK'
  <2>1. UNCHANGED <<brokers, stopping, outlived, lock, pc, key, command, request, broker, calls, closing>>
    BY <1>12 DEF Serve, callVars
  <2>2. /\ stdin' \in [Brokers -> Seq(Calls)]
        /\ responses' \in [Brokers -> Seq(Lines)] /\ reading' \in [Brokers -> BOOLEAN]
        /\ process' \in [Brokers -> {"none", "up", "down"}]
        /\ noise' \in Nat
    BY <1>0, <1>12, ServeEffect DEF CountTypes
  <2>3. RegistryTypes' /\ PipeTypes'
    BY <1>0, <2>1, <2>2 DEF RegistryTypes, PipeTypes
  <2>4. CallTypes' /\ CountTypes'
    BY <1>0, <2>1, <2>2 DEF CallTypes, CountTypes
  <2> QED
    BY <2>3, <2>4 DEF TypeOK
<1>13. ASSUME NEW b \in Brokers, Die(b) \/ Undecodable(b) PROVE TypeOK'
  <2>1. responses[b] \in Seq(Lines)
    BY <1>0 DEF PipeTypes
  <2>2. /\ ReaderEnds(b, responses[b])
        /\ UNCHANGED <<brokers, stopping, outlived, lock, pc, key, command, request, broker, calls, closing>>
        /\ noise' \in {noise, noise + 1}
        /\ Down(b) \/ UNCHANGED <<process, stdin>>
    BY <1>13 DEF Die, Undecodable, callVars, registryVars
  <2>3. process' \in [Brokers -> {"none", "up", "down"}] /\ stdin' \in [Brokers -> Seq(Calls)]
    BY <1>0, <2>2, DownEffect DEF RegistryTypes, PipeTypes
  <2>4. reading' \in [Brokers -> BOOLEAN] /\ responses' \in [Brokers -> Seq(Lines)]
    BY <1>0, <2>1, <2>2, ReaderEffect
  <2>5. RegistryTypes' /\ PipeTypes'
    BY <1>0, <2>2, <2>3, <2>4 DEF RegistryTypes, PipeTypes
  <2>6. CallTypes' /\ CountTypes'
    BY <1>0, <2>2 DEF CallTypes, CountTypes
  <2> QED
    BY <2>5, <2>6 DEF TypeOK
<1>14. CASE UNCHANGED vars
  BY <1>0, <1>14
  DEF vars, registryVars, callVars, workerVars, TypeOK, RegistryTypes, PipeTypes, CallTypes, CountTypes
<1> QED
  BY <1>1, <1>2, <1>3, <1>4, <1>5, <1>6, <1>7, <1>8, <1>9, <1>10, <1>11, <1>12, <1>13, <1>14,
     <1>15
  DEF Next, Work

(* Every variable always has its type.                                      *)
THEOREM Types == Spec => []TypeOK
<1>1. Init => TypeOK
  BY InitTypes
<1>2. TypeOK /\ [Next]_vars => TypeOK'
  BY StepTypes
<1> QED
  BY <1>1, <1>2, PTL DEF Spec

-----------------------------------------------------------------------------
(* The lock of a broker *)

(* What the end of a call changes.                                          *)
LEMMA EndEffect ==
  ASSUME CallTypes, NEW t \in Threads, broker[t] \in Brokers, End(t)
  PROVE  /\ pc'[t] = "idle" /\ lock'[broker[t]] = NoThread
         /\ \A b \in Brokers \ {broker[t]} : lock'[b] = lock[b]
         /\ \A u \in Threads \ {t} :
              pc'[u] = pc[u] /\ broker'[u] = broker[u] /\ request'[u] = request[u]
<1>1. lock' = [lock EXCEPT ![broker[t]] = NoThread] /\ pc' = [pc EXCEPT ![t] = "idle"]
  BY DEF End, Goto, Unlock
<1>2. request' = [request EXCEPT ![t] = 0] /\ broker' = [broker EXCEPT ![t] = NoBroker]
  BY DEF End, Forget
<1> QED
  BY <1>1, <1>2 DEF CallTypes

(* What a call that goes on changes: its place in the code.                 *)
LEMMA GoOnEffect ==
  ASSUME CallTypes, NEW t \in Threads, NEW label, GoOn(t, label)
  PROVE  /\ pc'[t] = label /\ lock' = lock /\ broker' = broker /\ request' = request
         /\ \A u \in Threads \ {t} : pc'[u] = pc[u]
  BY DEF GoOn, Goto, callVars, CallTypes

(* Who ends a call inside a lock gives it back.                             *)
LEMMA EndLock ==
  ASSUME TypeOK, LockRight, NEW t \in Threads, End(t),
         pc[t] \in {"write", "wait", "alias", "discard"}
  PROVE  LockRight'
<1> USE BrokerAssumption DEF TypeOK
<1>1. broker[t] \in Brokers /\ lock[broker[t]] = t
  BY DEF CallTypes, LockRight
<1>2. /\ pc'[t] = "idle" /\ lock'[broker[t]] = NoThread
      /\ \A b \in Brokers \ {broker[t]} : lock'[b] = lock[b]
      /\ \A u \in Threads \ {t} : pc'[u] = pc[u] /\ broker'[u] = broker[u]
  BY <1>1, EndEffect
<1>3. ASSUME NEW u \in Threads, pc'[u] \in {"write", "wait", "alias", "discard"}
      PROVE  lock'[broker'[u]] = u
  <2>1. u # t /\ pc[u] = pc'[u] /\ broker'[u] = broker[u] /\ lock[broker[u]] = u
    BY <1>2, <1>3 DEF LockRight
  <2>2. broker[u] \in Brokers /\ broker[u] # broker[t]
    BY <1>1, <1>3, <2>1 DEF CallTypes
  <2> QED
    BY <1>2, <2>1, <2>2
<1>4. ASSUME NEW b \in Brokers, lock'[b] # NoThread
      PROVE  /\ broker'[lock'[b]] = b
             /\ pc'[lock'[b]] \in {"write", "wait", "alias", "stop", "kill", "discard"}
  <2>1. b # broker[t] /\ lock'[b] = lock[b] /\ lock[b] \in Threads
    BY <1>2, <1>4 DEF CallTypes
  <2>2. broker[lock[b]] = b
    BY <1>4, <2>1 DEF LockRight
  <2> QED
    BY <1>2, <1>4, <2>1, <2>2 DEF LockRight
<1> QED
  BY <1>3, <1>4 DEF LockRight

(* Who goes on inside a lock keeps it.                                      *)
LEMMA GoOnLock ==
  ASSUME TypeOK, LockRight, NEW t \in Threads,
         NEW label \in {"wait", "alias", "stop", "kill"}, GoOn(t, label),
         label \in {"wait", "alias"} => lock[broker[t]] = t
  PROVE  LockRight'
<1>1. /\ pc'[t] = label /\ lock' = lock /\ broker' = broker
      /\ \A u \in Threads \ {t} : pc'[u] = pc[u]
  BY GoOnEffect DEF TypeOK
<1>2. lock \in [Brokers -> Threads \cup {NoThread}]
  BY DEF TypeOK, CallTypes
<1> QED
  BY <1>1, <1>2 DEF LockRight

(* A lock is never held by two: who is inside has it, and who has it is at    *)
(* work on that broker.                                                      *)
LEMMA StepLock == TypeOK /\ LockRight /\ [Next]_vars => LockRight'
<1> SUFFICES ASSUME TypeOK, LockRight, [Next]_vars PROVE LockRight'
  OBVIOUS
<1> USE BrokerAssumption
<1>0. /\ lock \in [Brokers -> Threads \cup {NoThread}] /\ pc \in [Threads -> Labels]
      /\ broker \in [Threads -> Brokers \cup {NoBroker}]
      /\ \A t \in Threads : pc[t] # "idle" => broker[t] \in Brokers
  BY DEF TypeOK, CallTypes
<1>1. ASSUME NEW t \in Threads, NEW k \in Keys, NEW cmd \in Commands, Execute(t, k, cmd)
      PROVE  LockRight'
  <2>1. pc[t] = "idle" /\ pc' = [pc EXCEPT ![t] = "lock"] /\ lock' = lock
    BY <1>1 DEF Execute, Goto
  <2>2. \A u \in Threads \ {t} : broker'[u] = broker[u]
    BY <1>0, <1>1 DEF Execute, BrokerFor, Spawn, Use
  <2>3. \A b \in Brokers : lock[b] # t
    BY <1>0, <2>1 DEF LockRight
  <2> QED
    BY <1>0, <2>1, <2>2, <2>3 DEF LockRight
<1>2. ASSUME NEW t \in Threads, Enter(t) PROVE LockRight'
  <2>1. pc[t] = "lock" /\ broker[t] \in Brokers /\ lock[broker[t]] = NoThread
    BY <1>0, <1>2 DEF Enter
  <2>2. CASE Alive(broker[t])
    <3>1. lock' = [lock EXCEPT ![broker[t]] = t] /\ pc' = [pc EXCEPT ![t] = "write"]
          /\ broker' = broker
      BY <1>2, <2>2 DEF Enter, Locked, Goto, callVars
    <3> QED
      BY <1>0, <2>1, <3>1 DEF LockRight
  <2>3. CASE ~Alive(broker[t])
    <3>1. lock' = lock /\ pc' = [pc EXCEPT ![t] = "idle"]
          /\ broker' = [broker EXCEPT ![t] = NoBroker]
      BY <1>2, <2>3 DEF Enter, Forget, Goto
    <3> QED
      BY <1>0, <2>1, <3>1 DEF LockRight
  <2> QED
    BY <2>2, <2>3
<1>3. ASSUME NEW t \in Threads, Write(t) PROVE LockRight'
  <2>1. pc[t] = "write" /\ lock[broker[t]] = t /\ (GoOn(t, "wait") \/ End(t))
    BY <1>3 DEF Write, LockRight
  <2> QED
    BY <2>1, GoOnLock, EndLock
<1>4. ASSUME NEW t \in Threads, TimeOut(t) PROVE LockRight'
  BY <1>4, GoOnLock DEF TimeOut
<1>5. ASSUME NEW t \in Threads, Answered(t) PROVE LockRight'
  <2>1. pc[t] = "wait" /\ lock[broker[t]] = t
    BY <1>5 DEF Answered, LockRight
  <2>2. End(t) \/ GoOn(t, "stop") \/ GoOn(t, "alias")
    BY <1>5, AnsweredCases
  <2> QED
    BY <2>1, <2>2, GoOnLock, EndLock
<1>6. ASSUME NEW t \in Threads, NEW names \in SUBSET Keys, Register(t, names) PROVE LockRight'
  <2>1. pc[t] = "alias" /\ (End(t) \/ GoOn(t, "stop"))
    BY <1>6 DEF Register
  <2> QED
    BY <2>1, GoOnLock, EndLock
<1>7. ASSUME NEW t \in Threads, Mark(t) PROVE LockRight'
  BY <1>7, GoOnLock DEF Mark
<1>8. ASSUME NEW t \in Threads, Kill(t) PROVE LockRight'
  <2>1. pc[t] = "kill" /\ broker[t] \in Brokers /\ lock[broker[t]] \in {NoThread, t}
        /\ lock' = [lock EXCEPT ![broker[t]] = t] /\ pc' = [pc EXCEPT ![t] = "discard"]
        /\ broker' = broker
    BY <1>0, <1>8 DEF Kill, Locked, Goto, callVars
  <2> QED
    BY <1>0, <2>1 DEF LockRight
<1>9. ASSUME NEW t \in Threads, Discard(t) PROVE LockRight'
  BY <1>9, EndLock DEF Discard
<1>10. ASSUME NEW t \in Threads, NEW b \in Brokers, CloseNext(t, b) PROVE LockRight'
  <2>1. pc[t] = "idle" /\ pc' = [pc EXCEPT ![t] = "stop"] /\ lock' = lock
        /\ broker' = [broker EXCEPT ![t] = b]
    BY <1>10 DEF CloseNext, Goto, Use
  <2>2. \A c \in Brokers : lock[c] # t
    BY <1>0, <2>1 DEF LockRight
  <2> QED
    BY <1>0, <2>1, <2>2 DEF LockRight
<1>11. CASE UNCHANGED <<lock, pc, broker>>
  BY <1>11 DEF LockRight
<1>12. ASSUME NEW t \in Threads, Close(t) PROVE LockRight'
  BY <1>11, <1>12 DEF Close, callVars
<1>13. ASSUME NEW b \in Brokers, NEW code \in Codes, Serve(b, code) PROVE LockRight'
  BY <1>11, <1>13 DEF Serve, callVars
<1>14. ASSUME NEW b \in Brokers, Die(b) \/ Undecodable(b) PROVE LockRight'
  BY <1>11, <1>14 DEF Die, Undecodable, callVars
<1>15. CASE UNCHANGED vars
  BY <1>11, <1>15 DEF vars, callVars
<1>16. ASSUME NEW t \in Threads, KillFails(t) PROVE LockRight'
  <2>1. pc[t] = "kill" /\ broker[t] \in Brokers /\ lock[broker[t]] \in {NoThread, t}
        /\ End(t)
    BY <1>0, <1>16 DEF KillFails
  <2>2. /\ pc'[t] = "idle" /\ lock'[broker[t]] = NoThread
        /\ \A b \in Brokers \ {broker[t]} : lock'[b] = lock[b]
        /\ \A u \in Threads \ {t} : pc'[u] = pc[u] /\ broker'[u] = broker[u]
    BY <2>1, EndEffect DEF TypeOK
  <2>3. ASSUME NEW u \in Threads, pc'[u] \in {"write", "wait", "alias", "discard"}
        PROVE  lock'[broker'[u]] = u
    <3>1. u # t /\ pc[u] = pc'[u] /\ broker'[u] = broker[u] /\ lock[broker[u]] = u
          /\ broker[u] \in Brokers
      BY <1>0, <2>2, <2>3 DEF LockRight
    <3> QED
      BY <2>1, <2>2, <3>1
  <2>4. ASSUME NEW b \in Brokers, lock'[b] # NoThread
        PROVE  /\ broker'[lock'[b]] = b
               /\ pc'[lock'[b]] \in {"write", "wait", "alias", "stop", "kill", "discard"}
    <3>1. b # broker[t] /\ lock'[b] = lock[b] /\ lock[b] \in Threads
      BY <1>0, <2>2, <2>4
    <3>2. broker[lock[b]] = b
      BY <2>4, <3>1 DEF LockRight
    <3> QED
      BY <2>2, <2>4, <3>1, <3>2 DEF LockRight
  <2> QED
    BY <2>3, <2>4 DEF LockRight
<1> QED
  BY <1>1, <1>2, <1>3, <1>4, <1>5, <1>6, <1>7, <1>8, <1>9, <1>10, <1>12, <1>13, <1>14, <1>15, <1>16
  DEF Next, Work

-----------------------------------------------------------------------------
(* The pipes of a worker *)

(* A line that is read.                                                     *)
LEMMA ReadEffect ==
  ASSUME PipeTypes, NEW b \in Brokers, responses[b] # << >>,
         responses' = [responses EXCEPT ![b] = Tail(@)]
  PROVE  /\ responses[b] \in Seq(Lines) /\ Len(responses[b]) \in Nat \ {0}
         /\ responses'[b] \in Seq(Lines) /\ Len(responses'[b]) = Len(responses[b]) - 1
         /\ Head(responses[b]) = responses[b][1]
         /\ \A i \in 1 .. Len(responses'[b]) : responses'[b][i] = responses[b][i + 1]
         /\ \A c \in Brokers \ {b} : responses'[c] = responses[c]
<1>1. responses[b] \in Seq(Lines)
  BY DEF PipeTypes
<1>2. responses'[b] = Tail(responses[b]) /\ \A c \in Brokers \ {b} : responses'[c] = responses[c]
  BY DEF PipeTypes
<1>3. Len(responses[b]) \in Nat \ {0} /\ Head(responses[b]) = responses[b][1]
  BY <1>1
<1>4. /\ Tail(responses[b]) \in Seq(Lines) /\ Len(Tail(responses[b])) = Len(responses[b]) - 1
      /\ \A i \in 1 .. Len(Tail(responses[b])) : Tail(responses[b])[i] = responses[b][i + 1]
  BY <1>1, HeadTailProperties
<1> QED
  BY <1>1, <1>2, <1>3, <1>4

(* The pipes are right as long as each broker's are.                        *)
LEMMA PipesOf ==
  ASSUME PipesRight, NEW b \in Brokers,
         \A c \in Brokers \ {b} : /\ reading'[c] = reading[c] /\ process'[c] = process[c]
                                  /\ stdin'[c] = stdin[c] /\ responses'[c] = responses[c],
         reading'[b] => Len(stdin'[b]) <= 1,
         process'[b] # "up" => stdin'[b] = << >>,
         \A i \in DOMAIN responses'[b] :
           responses'[b][i] = EOF => ~reading'[b] /\ i = Len(responses'[b])
  PROVE  PipesRight'
<1>1. ASSUME NEW c \in Brokers
      PROVE  /\ reading'[c] => Len(stdin'[c]) <= 1
             /\ process'[c] # "up" => stdin'[c] = << >>
             /\ \A i \in DOMAIN responses'[c] :
                  responses'[c][i] = EOF => ~reading'[c] /\ i = Len(responses'[c])
  <2>1. CASE c = b
    BY <2>1
  <2>2. CASE c # b
    BY <2>2 DEF PipesRight
  <2> QED
    BY <2>1, <2>2
<1> QED
  BY <1>1 DEF PipesRight

(* A reader that ends, with its process or before it, keeps the pipes right.  *)
LEMMA ReaderPipes ==
  ASSUME TypeOK, PipesRight, NEW b \in Brokers, ReaderEnds(b, responses[b]),
         Down(b) \/ UNCHANGED <<process, stdin>>
  PROVE  PipesRight'
<1>1. responses[b] \in Seq(Lines) /\ Len(responses[b]) \in Nat
  BY DEF TypeOK, PipeTypes
<1>2. /\ ~reading'[b] /\ responses' \in [Brokers -> Seq(Lines)]
      /\ \A c \in Brokers \ {b} : reading'[c] = reading[c] /\ responses'[c] = responses[c]
      /\ ~reading[b] => responses' = responses
      /\ reading[b] => /\ Len(responses'[b]) = Len(responses[b]) + 1
                       /\ responses'[b][Len(responses[b]) + 1] = EOF
                       /\ \A i \in 1 .. Len(responses[b]) : responses'[b][i] = responses[b][i]
  BY <1>1, ReaderEffect DEF TypeOK
<1>3. /\ process'[b] # "up" => stdin'[b] = << >>
      /\ \A c \in Brokers \ {b} : process'[c] = process[c] /\ stdin'[c] = stdin[c]
  <2>1. CASE Down(b)
    BY <2>1, DownEffect DEF TypeOK
  <2>2. CASE UNCHANGED <<process, stdin>>
    BY <2>2 DEF PipesRight
  <2> QED
    BY <2>1, <2>2
<1>4. ASSUME NEW i \in DOMAIN responses'[b], responses'[b][i] = EOF
      PROVE  i = Len(responses'[b])
  <2>1. CASE reading[b]
    <3>1. i \in 1 .. Len(responses[b]) + 1
      BY <1>2, <2>1
    <3>2. i \notin 1 .. Len(responses[b])
      <4>1. SUFFICES ASSUME i \in 1 .. Len(responses[b]) PROVE FALSE
        OBVIOUS
      <4>2. i \in DOMAIN responses[b] /\ responses[b][i] = EOF
        BY <1>1, <1>2, <1>4, <2>1, <4>1
      <4> QED
        BY <2>1, <4>2 DEF PipesRight
    <3> QED
      BY <1>1, <1>2, <2>1, <3>1, <3>2
  <2>2. CASE ~reading[b]
    BY <1>2, <1>4, <2>2 DEF PipesRight
  <2> QED
    BY <2>1, <2>2
<1> QED
  BY <1>2, <1>3, <1>4, PipesOf

(* Nothing is left of a sequence of at most one element.                    *)
LEMMA SingleSeq ==
  ASSUME NEW S, NEW s \in Seq(S), s # << >>, Len(s) <= 1
  PROVE  Tail(s) = << >> /\ Head(s) = s[1] /\ 1 \in DOMAIN s
<1>1. Len(s) \in Nat \ {0}
  BY EmptySeq
<1>2. Len(s) = 1
  BY <1>1
<1>3. Tail(s) \in Seq(S) /\ Len(Tail(s)) = 0
  BY <1>2, HeadTailProperties
<1>4. Tail(s) = << >>
  BY <1>3, EmptySeq
<1> QED
  BY <1>2, <1>4

(* A worker that reads its request leaves none behind.                      *)
LEMMA OnlyRequest ==
  ASSUME TypeOK, PipesRight, NEW b \in Brokers, reading[b], stdin[b] # << >>
  PROVE  Tail(stdin[b]) = << >> /\ Head(stdin[b]) = stdin[b][1] /\ 1 \in DOMAIN stdin[b]
<1>1. stdin[b] \in Seq([id : Nat, command : Commands]) /\ Len(stdin[b]) <= 1
  BY DEF TypeOK, PipeTypes, PipesRight
<1> QED
  BY <1>1, SingleSeq

(* One request at a time, and nothing after the reader's None.               *)
LEMMA StepPipes ==
  TypeOK /\ LockRight /\ PipesRight /\ ExchangesRight /\ [Next]_vars => PipesRight'
<1> SUFFICES ASSUME TypeOK, LockRight, PipesRight, ExchangesRight, [Next]_vars
             PROVE  PipesRight'
  OBVIOUS
<1> USE BrokerAssumption
<1>0. RegistryTypes /\ PipeTypes /\ CallTypes
  BY DEF TypeOK
<1>1. ASSUME NEW t \in Threads, NEW k \in Keys, NEW cmd \in Commands, Execute(t, k, cmd)
      PROVE  PipesRight'
  <2>1. \A b \in Brokers :
          process'[b] = process[b] \/ (process[b] = "none" /\ process'[b] = "up")
    BY <1>0, <1>1 DEF Execute, BrokerFor, Spawn, registryVars, RegistryTypes
  <2>2. UNCHANGED <<stdin, responses, reading>>
    BY <1>1 DEF Execute, workerVars
  <2> QED
    BY <2>1, <2>2 DEF PipesRight
<1>2. CASE UNCHANGED <<process, stdin, responses, reading>>
  BY <1>2 DEF PipesRight
<1>3. ASSUME NEW t \in Threads, Write(t) PROVE PipesRight'
  <2>1. CASE process[broker[t]] # "up"
    BY <1>2, <1>3, <2>1 DEF Write, registryVars, workerVars
  <2>2. CASE process[broker[t]] = "up"
    <3> DEFINE b == broker[t]
               asked == [id |-> request[t], command |-> command[t]]
    <3>1. b \in Brokers /\ lock[b] = t /\ pc[t] = "write"
      BY <1>0, <1>3 DEF Write, CallTypes, LockRight
    <3>2. reading[b] => stdin[b] = << >>
      BY <3>1, BrokerAssumption DEF ExchangesRight, Held, Left, Clean
    <3>3. stdin' = [stdin EXCEPT ![b] = Append(@, asked)] /\ UNCHANGED <<process, responses, reading>>
      BY <1>3, <2>2 DEF Write, registryVars, workerVars
    <3>4. stdin'[b] = Append(stdin[b], asked) /\ \A c \in Brokers \ {b} : stdin'[c] = stdin[c]
      BY <1>0, <3>1, <3>3 DEF PipeTypes
    <3>5. reading[b] => Len(stdin'[b]) <= 1
      <4> SUFFICES ASSUME reading[b] PROVE Len(stdin'[b]) <= 1
        OBVIOUS
      <4>1. PICK one : one = asked
        OBVIOUS
      <4>2. stdin'[b] = Append(<< >>, one)
        BY <3>2, <3>4, <4>1
      <4>3. Append(<< >>, one) = <<one>> /\ Len(<<one>>) = 1
        OBVIOUS
      <4> QED
        BY <4>2, <4>3
    <3>6. \A i \in DOMAIN responses'[b] :
            responses'[b][i] = EOF => ~reading'[b] /\ i = Len(responses'[b])
      BY <3>1, <3>3 DEF PipesRight
    <3> QED
      BY <2>2, <3>1, <3>3, <3>4, <3>5, <3>6, PipesOf
  <2> QED
    BY <2>1, <2>2
<1>4. ASSUME NEW t \in Threads, Answered(t) PROVE PipesRight'
  <2> DEFINE b == broker[t]
  <2>1. b \in Brokers /\ responses[b] # << >> /\ responses' = [responses EXCEPT ![b] = Tail(@)]
        /\ UNCHANGED <<process, stdin, reading>>
    BY <1>0, <1>4 DEF Answered, CallTypes, workerVars
  <2>2. /\ responses[b] \in Seq(Lines) /\ Len(responses[b]) \in Nat \ {0}
        /\ responses'[b] \in Seq(Lines) /\ Len(responses'[b]) = Len(responses[b]) - 1
        /\ \A i \in 1 .. Len(responses'[b]) : responses'[b][i] = responses[b][i + 1]
        /\ \A c \in Brokers \ {b} : responses'[c] = responses[c]
    BY <1>0, <2>1, ReadEffect
  <2>3. ASSUME NEW i \in DOMAIN responses'[b], responses'[b][i] = EOF
        PROVE  ~reading'[b] /\ i = Len(responses'[b])
    <3>1. i \in 1 .. Len(responses'[b])
      BY <2>2
    <3>2. i + 1 \in 1 .. Len(responses[b]) /\ i \in Nat
      BY <2>2, <3>1
    <3>3. i + 1 \in DOMAIN responses[b] /\ responses[b][i + 1] = EOF
      BY <2>2, <2>3, <3>1, <3>2
    <3>4. ~reading[b] /\ i + 1 = Len(responses[b])
      BY <2>1, <3>3 DEF PipesRight
    <3> QED
      BY <2>1, <2>2, <3>2, <3>4
  <2>4. (reading'[b] => Len(stdin'[b]) <= 1) /\ (process'[b] # "up" => stdin'[b] = << >>)
    BY <2>1 DEF PipesRight
  <2>6. \A c \in Brokers \ {b} : /\ process'[c] = process[c] /\ stdin'[c] = stdin[c]
                                /\ responses'[c] = responses[c] /\ reading'[c] = reading[c]
    BY <2>1, <2>2
  <2> QED
    BY <2>1, <2>3, <2>4, <2>6, PipesOf
<1>5. ASSUME NEW t \in Threads, Kill(t) PROVE PipesRight'
  <2>1. PICK b \in Brokers : b = broker[t]
    BY <1>0, <1>5 DEF Kill, CallTypes
  <2>2. /\ responses' = [responses EXCEPT ![b] = << >>] /\ reading' = [reading EXCEPT ![b] = FALSE]
        /\ IF process[b] = "up" THEN Down(b) ELSE UNCHANGED <<process, stdin>>
    BY <1>5, <2>1 DEF Kill
  <2>3. /\ process'[b] # "up" => stdin'[b] = << >>
        /\ \A c \in Brokers \ {b} : process'[c] = process[c] /\ stdin'[c] = stdin[c]
    <3>1. CASE Down(b)
      BY <1>0, <3>1, DownEffect
    <3>2. CASE UNCHANGED <<process, stdin>>
      BY <3>2 DEF PipesRight
    <3> QED
      BY <2>2, <3>1, <3>2
  <2>4. /\ ~reading'[b] /\ responses'[b] = << >>
        /\ \A c \in Brokers \ {b} : reading'[c] = reading[c] /\ responses'[c] = responses[c]
    BY <1>0, <2>2 DEF PipeTypes
  <2>5. DOMAIN responses'[b] = {}
    BY <2>4
  <2> QED
    BY <2>3, <2>4, <2>5, PipesOf
<1>6. ASSUME NEW t \in Threads, Discard(t) \/ KillFails(t) PROVE PipesRight'
  BY <1>2, <1>6 DEF Discard, KillFails, registryVars, workerVars
<1>7. ASSUME NEW b \in Brokers, NEW code \in Codes, Serve(b, code) PROVE PipesRight'
  <2> DEFINE answer == Answer(Head(stdin[b]).id, code)
  <2>0. PICK r : r = responses[b]
    OBVIOUS
  <2>1. /\ responses' \in [Brokers -> Seq(Lines)]
        /\ stdin[b] # << >> /\ stdin'[b] \in {<< >>, Tail(stdin[b])}
        /\ process'[b] # "up" => stdin'[b] = << >>
        /\ \A c \in Brokers \ {b} : /\ stdin'[c] = stdin[c] /\ responses'[c] = responses[c]
                                    /\ reading'[c] = reading[c] /\ process'[c] = process[c]
        /\ ~reading[b] => responses' = responses /\ ~reading'[b]
        /\ reading[b] =>
             /\ \A i \in 1 .. Len(r) : responses'[b][i] = r[i]
             /\ \E n \in Len(r) + 1 .. Len(responses'[b]) :
                  /\ responses'[b][n] = answer
                  /\ \A i \in Len(r) + 1 .. Len(responses'[b]) :
                       i # n => \/ responses'[b][i] = Noise
                                \/ /\ responses'[b][i] = EOF
                                   /\ i = Len(responses'[b]) /\ ~reading'[b]
    BY <1>0, <1>7, <2>0, ServeEffect
  <2>2. r \in Seq(Lines) /\ Len(r) \in Nat /\ responses'[b] \in Seq(Lines)
    <3>1. r \in Seq(Lines)
      BY <1>0, <2>0 DEF PipeTypes
    <3>2. Len(r) \in Nat
      BY <3>1
    <3>3. responses'[b] \in Seq(Lines)
      BY <2>1
    <3> QED
      BY <3>1, <3>2, <3>3
  <2>3. reading'[b] => Len(stdin'[b]) <= 1
    <3>1. reading'[b] => Tail(stdin[b]) = << >>
      BY <2>1, OnlyRequest
    <3>2. reading'[b] => stdin'[b] = << >>
      BY <2>1, <3>1
    <3> QED
      BY <3>2
  <2>4. answer # EOF /\ Noise # EOF
    BY <1>7 DEF Answer, EOF, Noise, Codes
  <2> HIDE DEF answer
  <2>5. ASSUME NEW i \in DOMAIN responses'[b], responses'[b][i] = EOF
        PROVE  ~reading'[b] /\ i = Len(responses'[b])
    <3>1. CASE ~reading[b]
      BY <2>1, <2>5, <3>1 DEF PipesRight
    <3>2. CASE reading[b]
      <4>1. i \in 1 .. Len(r) \/ i \in Len(r) + 1 .. Len(responses'[b])
        BY <2>2
      <4>2. i \notin 1 .. Len(r)
        <5>1. SUFFICES ASSUME i \in 1 .. Len(r) PROVE FALSE
          OBVIOUS
        <5>2. i \in DOMAIN responses[b] /\ responses[b][i] = EOF
          BY <2>0, <2>1, <2>2, <2>5, <3>2, <5>1
        <5> QED
          BY <3>2, <5>2 DEF PipesRight
      <4> QED
        BY <2>1, <2>4, <2>5, <3>2, <4>1, <4>2
    <3> QED
      BY <3>1, <3>2
  <2> QED
    BY <2>1, <2>3, <2>5, PipesOf
<1>8. ASSUME NEW b \in Brokers, Die(b) \/ Undecodable(b) PROVE PipesRight'
  BY <1>8, ReaderPipes DEF Die, Undecodable, registryVars
<1>9. ASSUME NEW t \in Threads, Enter(t) PROVE PipesRight'
  BY <1>2, <1>9 DEF Enter, workerVars
<1>10. ASSUME NEW t \in Threads, TimeOut(t) PROVE PipesRight'
  BY <1>2, <1>10 DEF TimeOut, registryVars, workerVars
<1>11. ASSUME NEW t \in Threads, NEW names \in SUBSET Keys, Register(t, names) PROVE PipesRight'
  BY <1>2, <1>11 DEF Register, workerVars
<1>12. ASSUME NEW t \in Threads, Mark(t) PROVE PipesRight'
  BY <1>2, <1>12 DEF Mark, workerVars
<1>13. ASSUME NEW t \in Threads, Close(t) \/ \E b \in Brokers : CloseNext(t, b) PROVE PipesRight'
  BY <1>2, <1>13 DEF Close, CloseNext, registryVars, workerVars
<1>14. CASE UNCHANGED vars
  BY <1>2, <1>14 DEF vars, registryVars, workerVars
<1> QED
  BY <1>1, <1>3, <1>4, <1>5, <1>6, <1>7, <1>8, <1>9, <1>10, <1>11, <1>12, <1>13, <1>14
  DEF Next, Work

-----------------------------------------------------------------------------
(* The processes *)

(* A process that was started stays started, and one that has ended stays so. *)
LEMMA ProcessOnly ==
  ASSUME TypeOK, [Next]_vars, NEW b \in Brokers, process[b] # "none"
  PROVE  process'[b] # "none" /\ (process[b] # "up" => process'[b] # "up")
<1>0. RegistryTypes
  BY DEF TypeOK
<1>1. ASSUME NEW t \in Threads, NEW k \in Keys, NEW cmd \in Commands, Execute(t, k, cmd)
      PROVE  process'[b] = process[b]
  BY <1>0, <1>1 DEF Execute, BrokerFor, Spawn, registryVars, RegistryTypes
<1>2. ASSUME NEW c \in Brokers, NEW code \in Codes, Serve(c, code)
      PROVE  process'[b] \in {process[b], "down"}
  <2>1. /\ process[c] = "up" /\ process'[c] \in {"up", "down"}
        /\ \A d \in Brokers \ {c} : process'[d] = process[d]
    BY <1>0, <1>2, ServeEffect DEF TypeOK
  <2> QED
    BY <2>1
<1>3. ASSUME NEW t \in Threads, Kill(t) PROVE process'[b] \in {process[b], "down"}
  <2>1. process' = process \/ process' = [process EXCEPT ![broker[t]] = "down"]
    BY <1>3 DEF Kill, Down
  <2> QED
    BY <1>0, <2>1 DEF RegistryTypes
<1>4. ASSUME NEW c \in Brokers, Die(c) \/ Undecodable(c) PROVE process'[b] \in {process[b], "down"}
  <2>1. process' = process \/ process' = [process EXCEPT ![c] = "down"]
    BY <1>4 DEF Die, Undecodable, Down, registryVars
  <2> QED
    BY <1>0, <2>1 DEF RegistryTypes
<1>5. CASE UNCHANGED process
  BY <1>5
<1>6. ASSUME NEW t \in Threads,
             Enter(t) \/ Write(t) \/ TimeOut(t) \/ Answered(t) \/ Mark(t) \/ Discard(t) \/ Close(t)
             \/ KillFails(t)
             \/ (\E names \in SUBSET Keys : Register(t, names))
             \/ \E c \in Brokers : CloseNext(t, c)
      PROVE  UNCHANGED process
  BY <1>6
  DEF Enter, Write, TimeOut, Answered, Mark, Discard, Close, KillFails, Register, CloseNext, registryVars
<1> QED
  BY <1>1, <1>2, <1>3, <1>4, <1>5, <1>6 DEF Next, Work, vars, registryVars

(* Who ends or goes on keeps Started, when the process is down where it must.  *)
LEMMA EndStarted ==
  ASSUME TypeOK, Started, [Next]_vars, NEW t \in Threads, broker[t] \in Brokers, End(t),
         brokers' = brokers \/ brokers' = Discarded(broker[t]), UNCHANGED stopping,
         closing' = closing \/ closing' = [closing EXCEPT ![t] = {}]
  PROVE  Started'
<1>1. /\ pc'[t] = "idle"
      /\ \A u \in Threads \ {t} : pc'[u] = pc[u] /\ broker'[u] = broker[u]
  BY EndEffect DEF TypeOK
<1>2. \A u \in Threads : pc'[u] # "idle" =>
        broker'[u] \in Brokers /\ process[broker'[u]] # "none"
        /\ (pc'[u] = "discard" => process[broker'[u]] # "up")
        /\ (pc'[u] \in {"kill", "discard"} => stopping'[broker'[u]])
  BY <1>1 DEF Started, TypeOK, CallTypes
<1>3. \A k \in Keys : brokers'[k] # NoBroker =>
        brokers[k] \in Brokers /\ brokers'[k] = brokers[k] /\ process[brokers[k]] # "none"
  BY DEF Started, Discarded, TypeOK, RegistryTypes
<1>4. \A u \in Threads : \A b \in closing'[u] : b \in Brokers /\ process[b] # "none"
  BY DEF Started, TypeOK, CountTypes
<1>5. \A b \in Brokers : stopping'[b] => process[b] # "none"
  BY DEF Started
<1> QED
  BY <1>2, <1>3, <1>4, <1>5, ProcessOnly DEF Started

(* Who goes on keeps Started, when it makes known no new broker.            *)
LEMMA GoOnStarted ==
  ASSUME TypeOK, Started, [Next]_vars, NEW t \in Threads, broker[t] \in Brokers, pc[t] # "idle",
         NEW label \in {"wait", "alias", "stop", "kill"}, GoOn(t, label),
         \A k \in Keys : brokers'[k] # NoBroker => \E j \in Keys : brokers'[k] = brokers[j]
                                                \/ brokers'[k] = broker[t],
         \A b \in Brokers : stopping'[b] => stopping[b] \/ b = broker[t],
         \A b \in Brokers : stopping[b] => stopping'[b], label = "kill" => stopping'[broker[t]],
         UNCHANGED closing
  PROVE  Started'
<1>1. pc'[t] = label /\ broker' = broker /\ \A u \in Threads \ {t} : pc'[u] = pc[u]
  BY GoOnEffect DEF TypeOK
<1>2. \A u \in Threads : pc'[u] # "idle" =>
        broker'[u] \in Brokers /\ process[broker'[u]] # "none"
        /\ (pc'[u] = "discard" => process[broker'[u]] # "up")
        /\ (pc'[u] \in {"kill", "discard"} => stopping'[broker'[u]])
  BY <1>1 DEF Started, TypeOK, CallTypes
<1>3. \A k \in Keys : brokers'[k] # NoBroker =>
        brokers'[k] \in Brokers /\ process[brokers'[k]] # "none"
  BY DEF Started, TypeOK, RegistryTypes
<1>4. \A u \in Threads : \A b \in closing'[u] : b \in Brokers /\ process[b] # "none"
  BY DEF Started, TypeOK, CountTypes
<1>5. \A b \in Brokers : stopping'[b] => process[b] # "none"
  BY DEF Started
<1> QED
  BY <1>2, <1>3, <1>4, <1>5, ProcessOnly DEF Started

(* Whoever knows a broker knows one whose process was started.               *)
LEMMA StepStarted == TypeOK /\ Started /\ [Next]_vars => Started'
<1> SUFFICES ASSUME TypeOK, Started, [Next]_vars PROVE Started'
  OBVIOUS
<1> USE BrokerAssumption
<1>0. RegistryTypes /\ CallTypes /\ CountTypes
  BY DEF TypeOK
<1>k. /\ \A k \in Keys : brokers[k] # NoBroker => brokers[k] \in Brokers
      /\ \A t \in Threads : pc[t] # "idle" => broker[t] \in Brokers
      /\ \A t \in Threads : closing[t] \subseteq Brokers
  BY <1>0 DEF RegistryTypes, CallTypes, CountTypes
<1>1. ASSUME NEW t \in Threads, NEW k \in Keys, NEW cmd \in Commands, Execute(t, k, cmd)
      PROVE  Started'
  <2>1. PICK b \in Brokers : /\ broker' = [broker EXCEPT ![t] = b] /\ process'[b] # "none"
                             /\ brokers' = brokers \/ brokers' = [brokers EXCEPT ![k] = b]
    <3>1. CASE Current(k)
      BY <1>0, <1>1, <3>1
      DEF Execute, BrokerFor, Current, Use, registryVars, RegistryTypes, Started
    <3>2. CASE ~Current(k)
      <4>1. PICK b \in Brokers : /\ process' = [process EXCEPT ![b] = "up"]
                                 /\ brokers' = [brokers EXCEPT ![k] = b]
                                 /\ broker' = [broker EXCEPT ![t] = b]
        BY <1>1, <3>2 DEF Execute, BrokerFor, Spawn, Use
      <4>2. process'[b] = "up"
        BY <1>0, <4>1 DEF RegistryTypes
      <4> QED
        BY <4>1, <4>2
    <3> QED
      BY <3>1, <3>2
  <2>2. pc' = [pc EXCEPT ![t] = "lock"] /\ UNCHANGED <<closing, stopping>>
    BY <1>1 DEF Execute, Goto, BrokerFor, Spawn, registryVars
  <2>3. \A u \in Threads : pc'[u] # "idle" =>
          /\ process'[broker'[u]] # "none" /\ (pc'[u] = "discard" => process'[broker'[u]] # "up")
          /\ (pc'[u] \in {"kill", "discard"} => stopping'[broker'[u]])
    <3>1. \A u \in Threads \ {t} : pc'[u] = pc[u] /\ broker'[u] = broker[u]
      BY <1>0, <2>1, <2>2 DEF CallTypes
    <3>2. broker'[t] = b /\ pc'[t] = "lock"
      BY <1>0, <2>1, <2>2 DEF CallTypes
    <3> QED
      <4>1. \A u \in Threads : pc'[u] \in {"kill", "discard"} => stopping'[broker'[u]]
        BY <2>2, <3>1, <3>2 DEF Started
      <4>2. \A u \in Threads : pc'[u] # "idle" =>
              process'[broker'[u]] # "none" /\ (pc'[u] = "discard" => process'[broker'[u]] # "up")
        <5>1. ASSUME NEW u \in Threads, u # t, pc'[u] # "idle"
              PROVE  process'[broker'[u]] # "none" /\ (pc'[u] = "discard" => process'[broker'[u]] # "up")
          <6>1. PICK c \in Brokers : c = broker[u] /\ broker'[u] = c /\ pc'[u] = pc[u]
            BY <1>k, <3>1, <5>1
          <6>2. process[c] # "none" /\ (pc[u] = "discard" => process[c] # "up")
            BY <5>1, <6>1 DEF Started
          <6> QED
            BY <6>1, <6>2, ProcessOnly
        <5> QED
          BY <2>1, <3>2, <5>1
      <4> QED
        BY <4>1, <4>2
  <2>4. \A j \in Keys : brokers'[j] # NoBroker => process'[brokers'[j]] # "none"
    <3>1. \A j \in Keys : brokers'[j] = brokers[j] \/ brokers'[j] = b
      BY <1>0, <2>1 DEF RegistryTypes
    <3> QED
      BY <1>k, <2>1, <3>1, ProcessOnly DEF Started
  <2> QED
    BY <1>k, <2>2, <2>3, <2>4, ProcessOnly DEF Started
<1>2. ASSUME NEW t \in Threads, Enter(t) PROVE Started'
  <2>1. UNCHANGED <<stopping, closing>> /\ pc[t] = "lock"
        /\ (brokers' = brokers \/ brokers' = Discarded(broker[t]))
        /\ (pc' = [pc EXCEPT ![t] = "write"] \/ pc' = [pc EXCEPT ![t] = "idle"])
        /\ (broker' = broker \/ broker' = [broker EXCEPT ![t] = NoBroker])
        /\ (pc' = [pc EXCEPT ![t] = "write"] => broker' = broker)
    BY <1>0, <1>2 DEF Enter, Goto, Forget, callVars, CallTypes
  <2>2. \A u \in Threads : pc'[u] # "idle" =>
          /\ pc[u] # "idle" /\ broker'[u] = broker[u] /\ (pc'[u] = "discard" => pc[u] = "discard")
          /\ (pc'[u] = "kill" => pc[u] = "kill")
    BY <1>0, <2>1 DEF CallTypes
  <2>3. \A k \in Keys : brokers'[k] # NoBroker => brokers'[k] = brokers[k]
    BY <1>0, <2>1 DEF Discarded, RegistryTypes
  <2>4. \A u \in Threads : pc'[u] \in {"kill", "discard"} => stopping'[broker'[u]]
    BY <2>1, <2>2 DEF Started
  <2>5. \A u \in Threads : pc'[u] # "idle" =>
          process'[broker'[u]] # "none" /\ (pc'[u] = "discard" => process'[broker'[u]] # "up")
    BY <1>k, <2>2, ProcessOnly DEF Started
  <2>6. \A j \in Keys : brokers'[j] # NoBroker => process'[brokers'[j]] # "none"
    BY <1>k, <2>3, ProcessOnly DEF Started
  <2> QED
    BY <1>k, <2>1, <2>4, <2>5, <2>6, ProcessOnly DEF Started
<1>3. ASSUME NEW t \in Threads, Write(t) \/ TimeOut(t) \/ Mark(t) PROVE Started'
  <2>1. broker[t] \in Brokers /\ pc[t] # "idle" /\ UNCHANGED <<brokers, closing>>
    BY <1>k, <1>3 DEF Write, TimeOut, Mark, registryVars
  <2>2. \A b \in Brokers : stopping'[b] => stopping[b] \/ b = broker[t]
    BY <1>0, <1>3 DEF Write, TimeOut, Mark, registryVars, RegistryTypes
  <2>3. \/ End(t) /\ UNCHANGED stopping
        \/ \E label \in {"wait", "stop"} : GoOn(t, label)
        \/ GoOn(t, "kill") /\ stopping' = [stopping EXCEPT ![broker[t]] = TRUE]
    BY <1>3 DEF Write, TimeOut, Mark, registryVars
  <2>4. \A b \in Brokers : stopping[b] => stopping'[b]
    BY <1>0, <1>3 DEF Write, TimeOut, Mark, registryVars, RegistryTypes
  <2>5. stopping' = [stopping EXCEPT ![broker[t]] = TRUE] => stopping'[broker[t]]
    BY <1>0, <2>1 DEF RegistryTypes
  <2> QED
    BY <2>1, <2>2, <2>3, <2>4, <2>5, EndStarted, GoOnStarted
<1>4. ASSUME NEW t \in Threads, Answered(t) PROVE Started'
  <2>1. broker[t] \in Brokers /\ pc[t] # "idle" /\ UNCHANGED <<stopping, closing>>
    BY <1>k, <1>4 DEF Answered
  <2>2. \/ End(t) /\ (brokers' = brokers \/ brokers' = Discarded(broker[t]))
        \/ (GoOn(t, "stop") \/ GoOn(t, "alias")) /\ brokers' = brokers
    BY <1>4, AnsweredCases
  <2> QED
    BY <2>1, <2>2, EndStarted, GoOnStarted
<1>5. ASSUME NEW t \in Threads, NEW names \in SUBSET Keys, Register(t, names) PROVE Started'
  <2>1. broker[t] \in Brokers /\ pc[t] # "idle" /\ UNCHANGED <<process, stopping, closing>>
        /\ (End(t) \/ GoOn(t, "stop"))
    BY <1>k, <1>5 DEF Register
  <2>2. \A k \in Keys : brokers'[k] = broker[t] \/ \E j \in Keys : brokers'[k] = brokers[j]
    BY <1>5 DEF Register, Conflicts
  <2>3. \A k \in Keys : brokers'[k] # NoBroker =>
          brokers'[k] \in Brokers /\ process[brokers'[k]] # "none"
    BY <1>k, <2>1, <2>2 DEF Started
  <2>4. \A u \in Threads : pc'[u] # "idle" => broker'[u] = broker[u] /\ pc[u] # "idle"
                                            /\ (pc'[u] = "discard" => pc[u] = "discard")
                                            /\ (pc'[u] = "kill" => pc[u] = "kill")
    BY <1>0, <2>1, EndEffect, GoOnEffect
  <2> QED
    BY <2>1, <2>3, <2>4 DEF Started
<1>6. ASSUME NEW t \in Threads, Kill(t) PROVE Started'
  <2>1. broker[t] \in Brokers /\ UNCHANGED <<brokers, stopping, closing, broker>> /\ pc[t] = "kill"
        /\ pc' = [pc EXCEPT ![t] = "discard"]
    BY <1>k, <1>6 DEF Kill, Goto, callVars
  <2>2. process'[broker[t]] # "up"
    BY <1>0, <1>6, <2>1 DEF Kill, Down, RegistryTypes
  <2>3. pc'[t] = "discard" /\ \A u \in Threads \ {t} : pc'[u] = pc[u]
    BY <1>0, <2>1 DEF CallTypes
  <2>4. \A u \in Threads : pc'[u] # "idle" =>
          /\ process'[broker'[u]] # "none" /\ (pc'[u] = "discard" => process'[broker'[u]] # "up")
          /\ (pc'[u] \in {"kill", "discard"} => stopping'[broker'[u]])
    BY <1>k, <2>1, <2>2, <2>3, ProcessOnly DEF Started
  <2> QED
    BY <1>k, <2>1, <2>4, ProcessOnly DEF Started
<1>7. ASSUME NEW t \in Threads, Discard(t) PROVE Started'
  <2>1. broker[t] \in Brokers /\ End(t) /\ brokers' = Discarded(broker[t])
        /\ UNCHANGED <<stopping, closing>>
    BY <1>k, <1>7 DEF Discard
  <2> QED
    BY <2>1, EndStarted
<1>13. ASSUME NEW t \in Threads, KillFails(t) PROVE Started'
  <2>1. broker[t] \in Brokers /\ End(t) /\ UNCHANGED <<brokers, stopping>>
        /\ closing' = [closing EXCEPT ![t] = {}]
    BY <1>k, <1>13 DEF KillFails, registryVars
  <2> QED
    BY <2>1, EndStarted
<1>8. ASSUME NEW t \in Threads, Close(t) PROVE Started'
  <2>1. UNCHANGED <<brokers, process, stopping, pc, broker>>
        /\ closing' = [closing EXCEPT ![t] = {brokers[k] : k \in Keys} \ {NoBroker}]
    BY <1>8 DEF Close, registryVars, callVars
  <2>2. \A u \in Threads : \A b \in closing'[u] :
          b \in closing[u] \/ (b # NoBroker /\ \E k \in Keys : b = brokers[k])
    BY <1>0, <2>1 DEF CountTypes
  <2> QED
    BY <2>1, <2>2 DEF Started
<1>9. ASSUME NEW t \in Threads, NEW b \in Brokers, CloseNext(t, b) PROVE Started'
  <2>1. b \in closing[t] /\ UNCHANGED <<brokers, process, stopping>>
        /\ closing' = [closing EXCEPT ![t] = @ \ {b}]
        /\ pc' = [pc EXCEPT ![t] = "stop"] /\ broker' = [broker EXCEPT ![t] = b]
    BY <1>9 DEF CloseNext, Goto, Use, registryVars
  <2>2. process[b] # "none"
    BY <2>1 DEF Started
  <2>3. pc'[t] = "stop" /\ broker'[t] = b
        /\ \A u \in Threads \ {t} : pc'[u] = pc[u] /\ broker'[u] = broker[u]
    BY <1>0, <2>1 DEF CallTypes
  <2>4. \A u \in Threads : closing'[u] \subseteq closing[u]
    BY <1>0, <2>1 DEF CountTypes
  <2> QED
    BY <2>1, <2>2, <2>3, <2>4 DEF Started
<1>10. ASSUME UNCHANGED <<brokers, stopping, pc, broker, closing>> PROVE Started'
  BY <1>k, <1>10, ProcessOnly DEF Started
<1>11. ASSUME NEW b \in Brokers, Die(b) \/ Undecodable(b) \/ \E code \in Codes : Serve(b, code)
       PROVE  Started'
  BY <1>10, <1>11 DEF Die, Undecodable, Serve, callVars, registryVars
<1>12. CASE UNCHANGED vars
  BY <1>10, <1>12 DEF vars, registryVars, callVars
<1> QED
  BY <1>1, <1>2, <1>3, <1>4, <1>5, <1>6, <1>7, <1>8, <1>9, <1>11, <1>12, <1>13
  DEF Next, Work

-----------------------------------------------------------------------------
(* Requests and answers *)

(* A broker that is being stopped stays so.                                 *)
LEMMA StoppingOnly ==
  ASSUME TypeOK, [Next]_vars, NEW b \in Brokers, stopping[b]
  PROVE  stopping'[b]
<1>1. CASE UNCHANGED stopping
  BY <1>1
<1>2. ASSUME NEW t \in Threads, Mark(t) PROVE stopping'[b]
  BY <1>2 DEF Mark, TypeOK, RegistryTypes
<1>3. ASSUME NEW t \in Threads, NEW k \in Keys, NEW cmd \in Commands, Execute(t, k, cmd)
      PROVE  UNCHANGED stopping
  BY <1>3 DEF Execute, BrokerFor, Spawn, registryVars
<1>4. ASSUME NEW t \in Threads,
             Enter(t) \/ Write(t) \/ TimeOut(t) \/ Answered(t) \/ Kill(t) \/ KillFails(t)
             \/ Discard(t) \/ Close(t) \/ (\E names \in SUBSET Keys : Register(t, names))
             \/ \E c \in Brokers : CloseNext(t, c)
      PROVE  UNCHANGED stopping
  BY <1>4 DEF Enter, Write, TimeOut, Answered, Kill, KillFails, Discard, Close, Register, CloseNext,
              registryVars
<1>5. ASSUME NEW c \in Brokers, Die(c) \/ Undecodable(c) \/ \E code \in Codes : Serve(c, code)
      PROVE  UNCHANGED stopping
  BY <1>5 DEF Die, Undecodable, Serve, registryVars
<1> QED
  BY <1>1, <1>2, <1>3, <1>4, <1>5 DEF Next, Work, vars, registryVars

(* The exchange of a thread whose broker nothing was done to.                *)
LEMMA ExchangeKept ==
  ASSUME NEW u \in Threads, Exchange(broker[u], request[u]),
         broker'[u] = broker[u], request'[u] = request[u],
         stdin'[broker[u]] = stdin[broker[u]], responses'[broker[u]] = responses[broker[u]],
         reading'[broker[u]] = reading[broker[u]]
  PROVE  Exchange(broker[u], request[u])'
<1>1. PICK b : b = broker[u]
  OBVIOUS
<1>2. PICK id : id = request[u]
  OBVIOUS
<1>3. PICK s, r, on : s = stdin[b] /\ r = responses[b] /\ on = reading[b]
  OBVIOUS
<1>4. broker'[u] = b /\ request'[u] = id /\ stdin'[b] = s /\ responses'[b] = r /\ reading'[b] = on
  BY <1>1, <1>2, <1>3
<1>5. /\ on => \A i \in DOMAIN s : s[i].id = id
      /\ \A i \in DOMAIN r :
           IsAnswer(r[i]) => /\ r[i].id = id
                             /\ on => s = << >>
                             /\ \A j \in DOMAIN r : IsAnswer(r[j]) => i = j
  BY <1>1, <1>2, <1>3 DEF Exchange
<1> QED
  BY <1>4, <1>5 DEF Exchange

(* The call that ends leaves its broker with nothing unanswered or unread, or *)
(* to nobody.                                                                *)
LEMMA EndExchanges ==
  ASSUME TypeOK, LockRight, ExchangesRight, [Next]_vars, NEW t \in Threads, End(t),
         pc[t] \in {"write", "wait", "alias", "kill", "discard"},
         NEW b \in Brokers, b = broker[t], lock[b] \in {NoThread, t},
         Clean(b)' \/ stopping'[b],
         \A c \in Brokers \ {b} : /\ stdin'[c] = stdin[c] /\ responses'[c] = responses[c]
                                  /\ reading'[c] = reading[c]
  PROVE  ExchangesRight'
<1> USE BrokerAssumption
<1>1. CallTypes
  BY DEF TypeOK
<1>2. /\ pc'[t] = "idle" /\ lock'[b] = NoThread /\ \A c \in Brokers \ {b} : lock'[c] = lock[c]
      /\ \A u \in Threads \ {t} :
           pc'[u] = pc[u] /\ broker'[u] = broker[u] /\ request'[u] = request[u]
  BY <1>1, EndEffect
<1>3. ASSUME NEW c \in Brokers PROVE Clean(c)' \/ Held(c)' \/ Left(c)'
  <2>1. CASE c = b
    BY <1>2, <2>1 DEF Left
  <2>2. CASE c # b
    <3>1. CASE Clean(c)
      BY <2>2, <3>1 DEF Clean, NoAnswer
    <3>2. CASE Held(c)
      <4>1. lock[c] # t
        BY <2>2, <3>2 DEF Held, LockRight
      <4>2. lock[c] \in Threads \ {t}
        BY <1>1, <3>2, <4>1 DEF Held, CallTypes
      <4> QED
        BY <1>2, <2>2, <3>2, <4>2 DEF Held
    <3>3. CASE Left(c)
      BY <1>2, <2>2, <3>3, StoppingOnly DEF Left
    <3> QED
      BY <3>1, <3>2, <3>3 DEF ExchangesRight
  <2> QED
    BY <2>1, <2>2
<1>4. ASSUME NEW u \in Threads, pc'[u] = "wait" PROVE Exchange(broker[u], request[u])'
  <2>1. u # t /\ pc[u] = "wait" /\ broker'[u] = broker[u] /\ request'[u] = request[u]
    BY <1>2, <1>4
  <2>2. broker[u] \in Brokers \ {b}
    BY <1>1, <2>1 DEF CallTypes, LockRight
  <2>3. Exchange(broker[u], request[u])
    BY <2>1 DEF ExchangesRight
  <2> QED
    BY <2>1, <2>2, <2>3, ExchangeKept
<1> QED
  BY <1>3, <1>4 DEF ExchangesRight

(* The call that goes on keeps the lock, or has touched nothing.             *)
LEMMA GoOnExchanges ==
  ASSUME TypeOK, LockRight, ExchangesRight, [Next]_vars, NEW t \in Threads,
         NEW label \in {"alias", "stop", "kill"}, GoOn(t, label),
         pc[t] # "idle", NEW b \in Brokers, b = broker[t],
         \A c \in Brokers \ {b} : /\ stdin'[c] = stdin[c] /\ responses'[c] = responses[c]
                                  /\ reading'[c] = reading[c],
         \/ lock[b] = t /\ (label = "alias" => Clean(b)')
         \/ UNCHANGED <<stdin, responses, reading>> /\ label = "kill"
  PROVE  ExchangesRight'
<1> USE BrokerAssumption
<1>1. /\ pc'[t] = label /\ lock' = lock /\ broker' = broker /\ request' = request
      /\ \A u \in Threads \ {t} : pc'[u] = pc[u]
  BY GoOnEffect DEF TypeOK
<1>2. CallTypes
  BY DEF TypeOK
<1>3. ASSUME NEW c \in Brokers PROVE Clean(c)' \/ Held(c)' \/ Left(c)'
  <2>1. CASE c = b /\ lock[b] = t
    BY <1>1, <2>1 DEF Held
  <2>2. CASE c # b \/ (UNCHANGED <<stdin, responses, reading>> /\ label = "kill")
    <3>1. CASE Clean(c)
      BY <2>2, <3>1 DEF Clean, NoAnswer
    <3>2. CASE Held(c)
      <4>1. lock[c] \in Threads
        BY <1>2, <3>2 DEF Held, CallTypes
      <4>2. lock[c] = t => label = "kill"
        BY <2>2, <3>2 DEF Held, LockRight
      <4> QED
        BY <1>1, <3>2, <4>1, <4>2 DEF Held
    <3>3. CASE Left(c)
      BY <1>1, <3>3, StoppingOnly DEF Left
    <3> QED
      BY <3>1, <3>2, <3>3 DEF ExchangesRight
  <2> QED
    BY <2>1, <2>2
<1>4. ASSUME NEW u \in Threads, pc'[u] = "wait" PROVE Exchange(broker[u], request[u])'
  <2>1. u # t /\ pc[u] = "wait" /\ broker'[u] = broker[u] /\ request'[u] = request[u]
    BY <1>1, <1>4
  <2>2. broker[u] \in Brokers /\ lock[broker[u]] = u
    BY <1>2, <2>1 DEF CallTypes, LockRight
  <2>3. /\ stdin'[broker[u]] = stdin[broker[u]] /\ responses'[broker[u]] = responses[broker[u]]
        /\ reading'[broker[u]] = reading[broker[u]]
    BY <2>1, <2>2
  <2>4. Exchange(broker[u], request[u])
    BY <2>1 DEF ExchangesRight
  <2> QED
    BY <2>1, <2>3, <2>4 DEF Exchange
<1> QED
  BY <1>3, <1>4 DEF ExchangesRight

(* The end of a reader, with its process or before it, answers nothing.      *)
LEMMA ReaderExchange ==
  ASSUME TypeOK, NEW b \in Brokers, ReaderEnds(b, responses[b]), Down(b) \/ UNCHANGED stdin,
         NEW c \in Brokers
  PROVE  /\ Clean(c) => Clean(c)'
         /\ \A id : Exchange(c, id) => Exchange(c, id)'
<1>1. responses[b] \in Seq(Lines) /\ Len(responses[b]) \in Nat
  BY DEF TypeOK, PipeTypes
<1>2. /\ ~reading'[b] /\ responses' \in [Brokers -> Seq(Lines)]
      /\ \A d \in Brokers \ {b} : reading'[d] = reading[d] /\ responses'[d] = responses[d]
      /\ ~reading[b] => responses' = responses
      /\ reading[b] => /\ Len(responses'[b]) = Len(responses[b]) + 1
                       /\ responses'[b][Len(responses[b]) + 1] = EOF
                       /\ \A i \in 1 .. Len(responses[b]) : responses'[b][i] = responses[b][i]
  BY <1>1, ReaderEffect DEF TypeOK
<1>3. ~IsAnswer(EOF)
  BY DEF EOF, IsAnswer, Codes
<1>4. \A i \in DOMAIN responses'[b] : IsAnswer(responses'[b][i]) =>
        i \in DOMAIN responses[b] /\ responses'[b][i] = responses[b][i]
  <2> SUFFICES ASSUME NEW i \in DOMAIN responses'[b], IsAnswer(responses'[b][i])
               PROVE  i \in DOMAIN responses[b] /\ responses'[b][i] = responses[b][i]
    OBVIOUS
  <2>1. CASE reading[b]
    <3>1. i \in 1 .. Len(responses[b]) + 1 /\ i # Len(responses[b]) + 1
      BY <1>2, <1>3, <2>1
    <3> QED
      BY <1>1, <1>2, <2>1, <3>1
  <2>2. CASE ~reading[b]
    BY <1>2, <2>2
  <2> QED
    BY <2>1, <2>2
<1>5. \A d \in Brokers \ {b} : stdin'[d] = stdin[d]
  BY DownEffect DEF TypeOK
<1>6. CASE c # b
  BY <1>2, <1>5, <1>6 DEF Clean, NoAnswer, Exchange
<1>7. CASE c = b
  BY <1>2, <1>4, <1>7 DEF Clean, NoAnswer, Exchange
<1> QED
  BY <1>6, <1>7

(* The answer to the one request there is, or one that nobody reads.         *)
LEMMA ServeExchange ==
  ASSUME TypeOK, PipesRight, NEW b \in Brokers, NEW code \in Codes, Serve(b, code)
  PROVE  /\ Clean(b) => Clean(b)'
         /\ \A id : Exchange(b, id) => Exchange(b, id)'
<1>r. PICK r : r = responses[b]
  OBVIOUS
<1>a. PICK answer : answer = Answer(Head(stdin[b]).id, code)
  OBVIOUS
<1>1. /\ responses' \in [Brokers -> Seq(Lines)]
      /\ stdin[b] # << >> /\ stdin'[b] \in {<< >>, Tail(stdin[b])}
      /\ ~reading[b] => responses' = responses /\ ~reading'[b]
      /\ reading[b] =>
           /\ \A i \in 1 .. Len(r) : responses'[b][i] = r[i]
           /\ \E n \in Len(r) + 1 .. Len(responses'[b]) :
                /\ responses'[b][n] = answer
                /\ \A i \in Len(r) + 1 .. Len(responses'[b]) :
                     i # n => \/ responses'[b][i] = Noise
                              \/ /\ responses'[b][i] = EOF
                                 /\ i = Len(responses'[b]) /\ ~reading'[b]
  BY <1>r, <1>a, ServeEffect DEF TypeOK
<1>2. CASE ~reading[b]
  BY <1>1, <1>2 DEF Clean, NoAnswer, Exchange
<1>3. CASE reading[b]
  <2>1. ~Clean(b)
    BY <1>1, <1>3 DEF Clean
  <2>2. Tail(stdin[b]) = << >> /\ Head(stdin[b]) = stdin[b][1] /\ 1 \in DOMAIN stdin[b]
    BY <1>1, <1>3, OnlyRequest
  <2>3. stdin'[b] = << >>
    BY <1>1, <2>2
  <2>4. DOMAIN stdin'[b] = {}
    BY <2>3
  <2>5. r \in Seq(Lines) /\ responses'[b] \in Seq(Lines)
    <3>1. r \in Seq(Lines)
      BY <1>r DEF TypeOK, PipeTypes
    <3> QED
      BY <1>1, <3>1
  <2>6. PICK n \in Len(r) + 1 .. Len(responses'[b]) :
          /\ responses'[b][n] = answer
          /\ \A i \in Len(r) + 1 .. Len(responses'[b]) :
               i # n => responses'[b][i] = Noise \/ responses'[b][i] = EOF
    BY <1>1, <1>3
  <2>7. ~IsAnswer(Noise) /\ ~IsAnswer(EOF)
    BY DEF Noise, EOF, IsAnswer, Codes
  <2>8. ASSUME NEW id, Exchange(b, id) PROVE Exchange(b, id)'
    <3>1. answer.id = id
      BY <1>3, <1>a, <2>2, <2>8 DEF Answer, Exchange
    <3>2. \A i \in 1 .. Len(r) : ~IsAnswer(r[i])
      <4>1. DOMAIN r = 1 .. Len(r)
        BY <2>5
      <4> QED
        BY <1>r, <1>1, <1>3, <2>8, <4>1 DEF Exchange
    <3>3. ASSUME NEW i \in DOMAIN responses'[b], IsAnswer(responses'[b][i]) PROVE i = n
      <4>1. Len(r) \in Nat /\ i \in 1 .. Len(responses'[b])
        BY <2>5
      <4>2. i \in 1 .. Len(r) \/ i \in Len(r) + 1 .. Len(responses'[b])
        BY <4>1
      <4>3. i \notin 1 .. Len(r)
        BY <1>1, <1>3, <3>2, <3>3
      <4> QED
        BY <2>6, <2>7, <3>3, <4>2, <4>3
    <3> QED
      BY <2>3, <2>4, <2>6, <3>1, <3>3 DEF Exchange
  <2> QED
    BY <2>1, <2>8
<1> QED
  BY <1>2, <1>3

(* Of a call that waits there is one request or one answer, and nothing is    *)
(* left of a call that is over.                                              *)
LEMMA StepExchanges ==
  TypeOK /\ Started /\ LockRight /\ PipesRight /\ ExchangesRight /\ [Next]_vars => ExchangesRight'
<1> SUFFICES ASSUME TypeOK, Started, LockRight, PipesRight, ExchangesRight, [Next]_vars
             PROVE  ExchangesRight'
  OBVIOUS
<1> USE BrokerAssumption
<1>0. RegistryTypes /\ PipeTypes /\ CallTypes
  BY DEF TypeOK
<1>k. /\ \A t \in Threads : pc[t] # "idle" => broker[t] \in Brokers
      /\ \A b \in Brokers : lock[b] # NoThread => lock[b] \in Threads
  BY <1>0 DEF CallTypes
<1>1. ASSUME NEW t \in Threads, NEW label, label # "wait", pc[t] \in {"idle", "lock"},
             pc' = [pc EXCEPT ![t] = label], UNCHANGED <<stdin, responses, reading>>,
             \A u \in Threads \ {t} : broker'[u] = broker[u] /\ request'[u] = request[u],
             \A b \in Brokers : lock'[b] = lock[b] \/ Clean(b)
      PROVE  ExchangesRight'
  <2>1. pc'[t] = label /\ \A u \in Threads \ {t} : pc'[u] = pc[u]
    BY <1>0, <1>1 DEF CallTypes
  <2>2. \A b \in Brokers : lock[b] # t
    BY <1>1 DEF LockRight
  <2>3. ASSUME NEW b \in Brokers PROVE Clean(b)' \/ Held(b)' \/ Left(b)'
    <3>1. CASE Clean(b)
      BY <1>1, <3>1 DEF Clean, NoAnswer
    <3>2. CASE ~Clean(b) /\ Held(b)
      BY <1>k, <1>1, <2>1, <2>2, <3>2 DEF Held
    <3>3. CASE ~Clean(b) /\ Left(b)
      BY <1>1, <3>3, StoppingOnly DEF Left
    <3> QED
      BY <3>1, <3>2, <3>3 DEF ExchangesRight
  <2>4. ASSUME NEW u \in Threads, pc'[u] = "wait" PROVE Exchange(broker[u], request[u])'
    <3>1. u # t /\ pc[u] = "wait"
      BY <1>1, <2>1, <2>4
    <3>2. Exchange(broker[u], request[u])
      BY <3>1 DEF ExchangesRight
    <3> QED
      BY <1>1, <3>1, <3>2, ExchangeKept
  <2> QED
    BY <2>3, <2>4 DEF ExchangesRight
<1>2. ASSUME NEW t \in Threads, NEW k \in Keys, NEW cmd \in Commands, Execute(t, k, cmd)
      PROVE  ExchangesRight'
  <2>1. pc[t] = "idle" /\ pc' = [pc EXCEPT ![t] = "lock"] /\ UNCHANGED <<stdin, responses, reading, lock>>
    BY <1>2 DEF Execute, Goto, workerVars
  <2>2. \A u \in Threads \ {t} : broker'[u] = broker[u] /\ request'[u] = request[u]
    BY <1>0, <1>2 DEF Execute, BrokerFor, Spawn, Use, CallTypes
  <2> QED
    BY <1>1, <2>1, <2>2
<1>3. ASSUME NEW t \in Threads, Enter(t) PROVE ExchangesRight'
  <2>1. pc[t] = "lock" /\ UNCHANGED <<stdin, responses, reading>> /\ lock[broker[t]] = NoThread
        /\ broker[t] \in Brokers
    BY <1>k, <1>3 DEF Enter, workerVars
  <2>2. Alive(broker[t]) => Clean(broker[t])
    BY <2>1 DEF ExchangesRight, Held, Left, Alive
  <2>3. \E label \in {"write", "idle"} : pc' = [pc EXCEPT ![t] = label]
    BY <1>3 DEF Enter, Goto
  <2>4. \A u \in Threads \ {t} : broker'[u] = broker[u] /\ request'[u] = request[u]
    BY <1>0, <1>3 DEF Enter, Forget, callVars, CallTypes
  <2>5. \A b \in Brokers : lock'[b] = lock[b] \/ Clean(b)
    <3>1. lock' = lock \/ (Alive(broker[t]) /\ lock' = [lock EXCEPT ![broker[t]] = t])
      BY <1>3 DEF Enter, Locked
    <3> QED
      BY <1>0, <2>2, <3>1 DEF CallTypes
  <2> QED
    BY <1>1, <2>1, <2>3, <2>4, <2>5
<1>4. ASSUME NEW t \in Threads, Write(t) PROVE ExchangesRight'
  <2>1. PICK b \in Brokers : b = broker[t]
    BY <1>k, <1>4 DEF Write
  <2>2. pc[t] = "write" /\ lock[b] = t
    BY <1>4, <2>1 DEF Write, LockRight
  <2>3. Clean(b)
    BY <2>2 DEF ExchangesRight, Held, Left
  <2>4. CASE process[b] # "up"
    <3>1. End(t) /\ UNCHANGED <<stdin, responses, reading>>
      BY <1>4, <2>1, <2>4 DEF Write, workerVars
    <3>2. Clean(b)'
      BY <2>3, <3>1 DEF Clean, NoAnswer
    <3> QED
      BY <2>1, <2>2, <3>1, <3>2, EndExchanges
  <2>5. CASE process[b] = "up"
    <3>0. PICK asked : asked = [id |-> request[t], command |-> command[t]]
      OBVIOUS
    <3>1. stdin' = [stdin EXCEPT ![b] = Append(@, asked)] /\ GoOn(t, "wait")
          /\ UNCHANGED <<responses, reading>>
      BY <1>4, <2>1, <2>5, <3>0 DEF Write, workerVars
    <3>2. stdin'[b] = Append(stdin[b], asked) /\ \A c \in Brokers \ {b} : stdin'[c] = stdin[c]
      BY <1>0, <3>1 DEF PipeTypes
    <3>3. /\ pc'[t] = "wait" /\ lock' = lock /\ broker' = broker /\ request' = request
          /\ \A u \in Threads \ {t} : pc'[u] = pc[u]
      BY <1>0, <3>1, GoOnEffect
    <3>4. ASSUME NEW c \in Brokers PROVE Clean(c)' \/ Held(c)' \/ Left(c)'
      <4>1. CASE c = b
        BY <2>2, <3>3, <4>1 DEF Held
      <4>2. CASE c # b /\ Clean(c)
        BY <3>1, <3>2, <4>2 DEF Clean, NoAnswer
      <4>3. CASE c # b /\ Held(c)
        BY <1>k, <3>3, <4>3 DEF Held
      <4>4. CASE Left(c)
        BY <3>3, <4>4, StoppingOnly DEF Left
      <4> QED
        BY <4>1, <4>2, <4>3, <4>4 DEF ExchangesRight
    <3>5. ASSUME NEW u \in Threads, pc'[u] = "wait" PROVE Exchange(broker[u], request[u])'
      <4>1. CASE u = t
        <5>1. reading[b] => \A i \in DOMAIN stdin'[b] : stdin'[b][i].id = request[t]
          <6> SUFFICES ASSUME reading[b] PROVE \A i \in DOMAIN stdin'[b] : stdin'[b][i].id = request[t]
            OBVIOUS
          <6>1. stdin'[b] = Append(<< >>, asked)
            BY <2>3, <3>2 DEF Clean
          <6>2. \A i \in DOMAIN Append(<< >>, asked) : Append(<< >>, asked)[i] = asked
            OBVIOUS
          <6>3. asked.id = request[t]
            BY <3>0
          <6> QED
            BY <6>1, <6>2, <6>3
        <5>2. \A i \in DOMAIN responses'[b] : ~IsAnswer(responses'[b][i])
          BY <2>3, <3>1 DEF Clean, NoAnswer
        <5>3. UNCHANGED reading
          BY <3>1
        <5> QED
          BY <2>1, <3>3, <4>1, <5>1, <5>2, <5>3 DEF Exchange
      <4>2. CASE u # t
        <5>1. broker[u] # b /\ broker[u] \in Brokers /\ pc[u] = "wait"
          BY <1>k, <2>2, <3>3, <3>5, <4>2 DEF LockRight
        <5>2. Exchange(broker[u], request[u])
          BY <5>1 DEF ExchangesRight
        <5> QED
          BY <3>1, <3>2, <3>3, <5>1, <5>2 DEF Exchange
      <4> QED
        BY <4>1, <4>2
    <3> QED
      BY <3>4, <3>5 DEF ExchangesRight
  <2> QED
    BY <2>4, <2>5
<1>5. ASSUME NEW t \in Threads, TimeOut(t) \/ Mark(t) PROVE ExchangesRight'
  <2>1. PICK b \in Brokers : b = broker[t]
    BY <1>k, <1>5 DEF TimeOut, Mark
  <2>2. \/ pc[t] = "wait" /\ GoOn(t, "stop") /\ lock[b] = t
        \/ pc[t] = "stop" /\ GoOn(t, "kill")
    BY <1>5, <2>1 DEF TimeOut, Mark, LockRight
  <2>3. UNCHANGED <<stdin, responses, reading>>
    BY <1>5 DEF TimeOut, Mark, workerVars
  <2> QED
    BY <2>1, <2>2, <2>3, GoOnExchanges
<1>6. ASSUME NEW t \in Threads, Answered(t) PROVE ExchangesRight'
  <2>1. PICK b \in Brokers : b = broker[t]
    BY <1>k, <1>6 DEF Answered
  <2>2. /\ pc[t] = "wait" /\ lock[b] = t /\ Exchange(b, request[t]) /\ responses[b] # << >>
        /\ responses' = [responses EXCEPT ![b] = Tail(@)] /\ UNCHANGED <<process, stdin, reading>>
    BY <1>6, <2>1 DEF Answered, LockRight, ExchangesRight, workerVars
  <2>3. /\ responses[b] \in Seq(Lines) /\ Len(responses[b]) \in Nat \ {0}
        /\ responses'[b] \in Seq(Lines) /\ Len(responses'[b]) = Len(responses[b]) - 1
        /\ Head(responses[b]) = responses[b][1]
        /\ \A i \in 1 .. Len(responses'[b]) : responses'[b][i] = responses[b][i + 1]
        /\ \A c \in Brokers \ {b} : responses'[c] = responses[c]
    BY <1>0, <2>2, ReadEffect
  <2>4. \A i \in DOMAIN responses'[b] : i \in Nat /\ 1 < i + 1 /\ i + 1 \in DOMAIN responses[b]
                                       /\ responses'[b][i] = responses[b][i + 1]
    <3>1. \A i \in 1 .. Len(responses'[b]) : i \in Nat /\ 1 < i + 1
                                             /\ i + 1 \in 1 .. Len(responses[b])
      BY <2>3
    <3>2. DOMAIN responses'[b] = 1 .. Len(responses'[b])
          /\ DOMAIN responses[b] = 1 .. Len(responses[b])
      BY <2>3
    <3>3. \A i \in 1 .. Len(responses'[b]) : responses'[b][i] = responses[b][i + 1]
      BY <2>3
    <3> QED
      BY <3>1, <3>2, <3>3
  <2>5. 1 \in DOMAIN responses[b]
    BY <2>3
  <2>6. CASE Head(responses[b]) = EOF /\ End(t)
    <3>1. ~reading[b] /\ Len(responses[b]) = 1
      BY <2>3, <2>5, <2>6 DEF PipesRight
    <3>2. \A i \in DOMAIN responses'[b] : ~IsAnswer(responses'[b][i])
      BY <2>3, <3>1
    <3>3. Clean(b)'
      BY <2>2, <3>1, <3>2 DEF Clean, NoAnswer
    <3> QED
      BY <2>1, <2>2, <2>3, <2>6, <3>3, EndExchanges
  <2>7. CASE GoOn(t, "stop")
    BY <2>1, <2>2, <2>3, <2>7, GoOnExchanges
  <2>8. CASE IsAnswer(Head(responses[b])) /\ (End(t) \/ GoOn(t, "alias"))
    <3>1. reading[b] => stdin[b] = << >>
      BY <2>2, <2>3, <2>5, <2>8 DEF Exchange
    <3>2. \A i \in DOMAIN responses[b] : IsAnswer(responses[b][i]) => i = 1
      BY <2>2, <2>3, <2>5, <2>8 DEF Exchange
    <3>3. \A i \in DOMAIN responses'[b] : ~IsAnswer(responses'[b][i])
      BY <2>4, <3>2
    <3>4. Clean(b)'
      BY <2>2, <3>1, <3>3 DEF Clean, NoAnswer
    <3> QED
      BY <2>1, <2>2, <2>3, <2>8, <3>4, EndExchanges, GoOnExchanges
  <2> QED
    BY <1>6, <2>1, <2>6, <2>7, <2>8, AnsweredCases
<1>7. ASSUME NEW t \in Threads, NEW names \in SUBSET Keys, Register(t, names) PROVE ExchangesRight'
  <2>1. PICK b \in Brokers : b = broker[t]
    BY <1>k, <1>7 DEF Register
  <2>2. pc[t] = "alias" /\ lock[b] = t /\ UNCHANGED <<stdin, responses, reading>>
        /\ (End(t) \/ GoOn(t, "stop"))
    BY <1>7, <2>1 DEF Register, LockRight, workerVars
  <2>3. Clean(b)
    BY <2>2 DEF ExchangesRight, Held, Left
  <2>4. Clean(b)'
    BY <2>2, <2>3 DEF Clean, NoAnswer
  <2> QED
    BY <2>1, <2>2, <2>4, EndExchanges, GoOnExchanges
<1>8. ASSUME NEW t \in Threads, Kill(t) PROVE ExchangesRight'
  <2>1. PICK b \in Brokers : b = broker[t]
    BY <1>k, <1>8 DEF Kill
  <2>2. /\ pc[t] = "kill" /\ lock[b] \in {NoThread, t}
        /\ lock' = [lock EXCEPT ![b] = t] /\ pc' = [pc EXCEPT ![t] = "discard"]
        /\ UNCHANGED <<broker, request>>
        /\ responses' = [responses EXCEPT ![b] = << >>] /\ reading' = [reading EXCEPT ![b] = FALSE]
        /\ Down(b) \/ UNCHANGED stdin
    BY <1>8, <2>1 DEF Kill, Locked, Goto, callVars
  <2>3. /\ pc'[t] = "discard" /\ \A u \in Threads \ {t} : pc'[u] = pc[u]
        /\ lock'[b] = t /\ \A c \in Brokers \ {b} : lock'[c] = lock[c]
    BY <1>0, <2>2 DEF CallTypes
  <2>4. \A c \in Brokers \ {b} : /\ stdin'[c] = stdin[c] /\ responses'[c] = responses[c]
                                 /\ reading'[c] = reading[c]
    <3>1. \A c \in Brokers \ {b} : stdin'[c] = stdin[c]
      BY <1>0, <2>2, DownEffect
    <3>2. \A c \in Brokers \ {b} : responses'[c] = responses[c] /\ reading'[c] = reading[c]
      BY <1>0, <2>2 DEF PipeTypes
    <3> QED
      BY <3>1, <3>2
  <2>5. ASSUME NEW c \in Brokers PROVE Clean(c)' \/ Held(c)' \/ Left(c)'
    <3>1. CASE c = b
      BY <2>3, <3>1 DEF Held
    <3>2. CASE c # b /\ Clean(c)
      BY <2>4, <3>2 DEF Clean, NoAnswer
    <3>3. CASE c # b /\ Held(c)
      <4>1. lock[c] \in Threads \ {t}
        BY <1>k, <2>1, <3>3 DEF Held, LockRight
      <4> QED
        BY <2>3, <3>3, <4>1 DEF Held
    <3>4. CASE c # b /\ Left(c)
      BY <2>3, <3>4, StoppingOnly DEF Left
    <3> QED
      BY <3>1, <3>2, <3>3, <3>4 DEF ExchangesRight
  <2>6. ASSUME NEW u \in Threads, pc'[u] = "wait" PROVE Exchange(broker[u], request[u])'
    <3>1. pc[u] = "wait" /\ broker'[u] = broker[u] /\ request'[u] = request[u] /\ u # t
          /\ broker[u] \in Brokers
      BY <1>k, <2>2, <2>3, <2>6
    <3>2. broker[u] # b
      BY <2>2, <3>1 DEF LockRight
    <3>3. Exchange(broker[u], request[u])
      BY <3>1 DEF ExchangesRight
    <3> QED
      BY <2>4, <3>1, <3>2, <3>3 DEF Exchange
  <2> QED
    BY <2>5, <2>6 DEF ExchangesRight
<1>9. ASSUME NEW t \in Threads, Discard(t) \/ KillFails(t) PROVE ExchangesRight'
  <2>1. PICK b \in Brokers : b = broker[t]
    BY <1>k, <1>9 DEF Discard, KillFails
  <2>2. /\ pc[t] \in {"kill", "discard"} /\ End(t) /\ lock[b] \in {NoThread, t}
        /\ UNCHANGED <<stdin, responses, reading, stopping>>
    BY <1>9, <2>1 DEF Discard, KillFails, registryVars, workerVars, LockRight
  <2>3. stopping'[b]
    BY <2>1, <2>2 DEF Started
  <2> QED
    BY <2>1, <2>2, <2>3, EndExchanges
<1>10. ASSUME NEW t \in Threads, NEW b \in Brokers, CloseNext(t, b) PROVE ExchangesRight'
  <2>1. pc[t] = "idle" /\ pc' = [pc EXCEPT ![t] = "stop"] /\ UNCHANGED <<stdin, responses, reading, lock>>
    BY <1>10 DEF CloseNext, Goto, workerVars
  <2>2. \A u \in Threads \ {t} : broker'[u] = broker[u] /\ request'[u] = request[u]
    BY <1>0, <1>10 DEF CloseNext, Use, CallTypes
  <2> QED
    BY <1>1, <2>1, <2>2
<1>11. ASSUME UNCHANGED <<lock, pc, broker, request>>,
              \A c \in Brokers : Clean(c) => Clean(c)',
              \A c \in Brokers : \A id : Exchange(c, id) => Exchange(c, id)'
       PROVE  ExchangesRight'
  <2>1. ASSUME NEW c \in Brokers PROVE Clean(c)' \/ Held(c)' \/ Left(c)'
    <3>1. Held(c) => Held(c)'
      BY <1>11 DEF Held
    <3>2. Left(c) => Left(c)'
      BY <1>11, StoppingOnly DEF Left
    <3> QED
      BY <1>11, <3>1, <3>2 DEF ExchangesRight
  <2>2. ASSUME NEW u \in Threads, pc'[u] = "wait" PROVE Exchange(broker[u], request[u])'
    <3>1. pc[u] = "wait" /\ broker'[u] = broker[u] /\ request'[u] = request[u]
          /\ broker[u] \in Brokers
      BY <1>k, <1>11, <2>2
    <3>2. PICK c \in Brokers : c = broker[u]
      BY <3>1
    <3>3. PICK id : id = request[u]
      OBVIOUS
    <3>4. Exchange(c, id)
      BY <3>1, <3>2, <3>3 DEF ExchangesRight
    <3>5. Exchange(c, id)'
      BY <1>11, <3>4
    <3> QED
      BY <3>1, <3>2, <3>3, <3>5 DEF Exchange
  <2> QED
    BY <2>1, <2>2 DEF ExchangesRight
<1>12. ASSUME NEW b \in Brokers, NEW code \in Codes, Serve(b, code) PROVE ExchangesRight'
  <2>1. UNCHANGED <<lock, pc, broker, request>>
    BY <1>12 DEF Serve, callVars
  <2>2. \A c \in Brokers \ {b} : /\ stdin'[c] = stdin[c] /\ responses'[c] = responses[c]
                                 /\ reading'[c] = reading[c]
    BY <1>0, <1>12, ServeEffect
  <2>3. ASSUME NEW c \in Brokers
        PROVE  (Clean(c) => Clean(c)') /\ \A id : Exchange(c, id) => Exchange(c, id)'
    <3>1. CASE c = b
      BY <1>12, <3>1, ServeExchange
    <3>2. CASE c # b
      BY <2>2, <3>2 DEF Clean, NoAnswer, Exchange
    <3> QED
      BY <3>1, <3>2
  <2> QED
    BY <1>11, <2>1, <2>3
<1>16. ASSUME NEW b \in Brokers, Die(b) \/ Undecodable(b) PROVE ExchangesRight'
  <2>1. UNCHANGED <<lock, pc, broker, request>> /\ ReaderEnds(b, responses[b])
        /\ (Down(b) \/ UNCHANGED stdin)
    BY <1>16 DEF Die, Undecodable, callVars, registryVars
  <2> QED
    BY <1>11, <2>1, ReaderExchange
<1>13. CASE UNCHANGED <<lock, pc, broker, request, stdin, responses, reading>>
  BY <1>11, <1>13 DEF Clean, NoAnswer, Exchange
<1>14. ASSUME NEW t \in Threads, Close(t) PROVE ExchangesRight'
  BY <1>13, <1>14 DEF Close, callVars, workerVars
<1>15. CASE UNCHANGED vars
  BY <1>13, <1>15 DEF vars, callVars, workerVars
<1> QED
  BY <1>2, <1>3, <1>4, <1>5, <1>6, <1>7, <1>8, <1>9, <1>10, <1>12, <1>14, <1>15, <1>16
  DEF Next, Work

-----------------------------------------------------------------------------
(* Brokers that are stopped *)

(* A reader that has ended is not started again.                             *)
LEMMA ReadingOnly ==
  ASSUME TypeOK, [Next]_vars, NEW b \in Brokers, reading'[b]
  PROVE  reading[b]
<1>0. PipeTypes
  BY DEF TypeOK
<1>1. CASE UNCHANGED reading
  BY <1>1
<1>2. ASSUME NEW c \in Brokers, reading' = [reading EXCEPT ![c] = FALSE] PROVE reading[b]
  BY <1>0, <1>2 DEF PipeTypes
<1>3. ASSUME NEW t \in Threads, Kill(t) PROVE reading[b]
  <2>1. broker[t] \in Brokers
    BY <1>3 DEF Kill, TypeOK, CallTypes
  <2> QED
    BY <1>2, <1>3, <2>1 DEF Kill
<1>4. ASSUME NEW c \in Brokers, Die(c) \/ Undecodable(c) PROVE reading[b]
  BY <1>2, <1>4 DEF Die, Undecodable, ReaderEnds
<1>5. ASSUME NEW c \in Brokers, NEW code \in Codes, Serve(c, code) PROVE reading[b]
  BY <1>1, <1>2, <1>5 DEF Serve, Sent, ReaderEnds
<1>6. ASSUME NEW t \in Threads,
             \/ Enter(t) \/ Write(t) \/ TimeOut(t) \/ Answered(t) \/ Mark(t) \/ KillFails(t)
             \/ Discard(t) \/ Close(t) \/ (\E names \in SUBSET Keys : Register(t, names))
             \/ (\E c \in Brokers : CloseNext(t, c))
             \/ \E k \in Keys, cmd \in Commands : Execute(t, k, cmd)
      PROVE  UNCHANGED reading
  BY <1>6 DEF Enter, Write, TimeOut, Answered, Mark, KillFails, Discard, Close, Register,
              CloseNext, Execute, workerVars
<1> QED
  BY <1>1, <1>3, <1>4, <1>5, <1>6 DEF Next, Work, vars, workerVars

(* That a process outlived its kill is not forgotten.                        *)
LEMMA OutlivedOnly ==
  ASSUME TypeOK, [Next]_vars, NEW b \in Brokers, outlived[b]
  PROVE  outlived'[b]
<1>0. PipeTypes
  BY DEF TypeOK
<1>1. CASE UNCHANGED outlived
  BY <1>1
<1>2. ASSUME NEW t \in Threads, KillFails(t) PROVE outlived'[b]
  BY <1>0, <1>2 DEF KillFails, PipeTypes
<1>3. ASSUME NEW c \in Brokers, Die(c) \/ Undecodable(c) \/ \E code \in Codes : Serve(c, code)
      PROVE  UNCHANGED outlived
  BY <1>3 DEF Die, Undecodable, Serve
<1>4. ASSUME NEW t \in Threads,
             \/ Enter(t) \/ Write(t) \/ TimeOut(t) \/ Answered(t) \/ Mark(t) \/ Kill(t)
             \/ Discard(t) \/ Close(t) \/ (\E names \in SUBSET Keys : Register(t, names))
             \/ (\E c \in Brokers : CloseNext(t, c))
             \/ \E k \in Keys, cmd \in Commands : Execute(t, k, cmd)
      PROVE  UNCHANGED outlived
  BY <1>4 DEF Enter, Write, TimeOut, Answered, Mark, Kill, Discard, Close, Register,
              CloseNext, Execute, workerVars
<1> QED
  BY <1>1, <1>2, <1>3, <1>4 DEF Next, Work, vars, workerVars

(* Who is about to stop a broker stays about to, until it has taken it out or *)
(* could not end its process.                                                *)
LEMMA DoomedKept ==
  ASSUME TypeOK, [Next]_vars, NEW b \in Brokers, Doomed(b),
         \A t \in Threads : Discard(t) => broker[t] # b
  PROVE  Doomed(b)'
<1> USE BrokerAssumption
<1> DEFINE Stops(u) == broker[u] = b /\ pc[u] \in {"stop", "kill", "discard"}
           Still(u) == broker'[u] = b /\ pc'[u] \in {"stop", "kill", "discard"}
<1>0. CallTypes
  BY DEF TypeOK
<1>a. CASE outlived[b]
  BY <1>a, OutlivedOnly DEF Doomed
<1>b. ASSUME NEW t \in Threads, KillFails(t), broker[t] = b PROVE Doomed(b)'
  BY <1>b DEF KillFails, Doomed, TypeOK, PipeTypes
<1> SUFFICES ASSUME Stopping(b), \A t \in Threads : KillFails(t) => broker[t] # b
             PROVE  Doomed(b)'
  BY <1>a, <1>b DEF Doomed
<1>1. PICK u \in Threads : Stops(u)
  BY DEF Stopping
<1>2. ASSUME NEW t \in Threads, t # u, \A v \in Threads \ {t} : pc'[v] = pc[v] /\ broker'[v] = broker[v]
      PROVE  Still(u)
  BY <1>1, <1>2
<1>3. ASSUME NEW t \in Threads, pc[t] \in {"idle", "lock", "write", "wait", "alias"},
             \A v \in Threads \ {t} : pc'[v] = pc[v] /\ broker'[v] = broker[v]
      PROVE  Still(u)
  BY <1>1, <1>3
<1>4. ASSUME NEW t \in Threads, NEW k \in Keys, NEW cmd \in Commands, Execute(t, k, cmd)
      PROVE  Still(u)
  <2>1. pc[t] = "idle" /\ \A v \in Threads \ {t} : pc'[v] = pc[v] /\ broker'[v] = broker[v]
    BY <1>0, <1>4 DEF Execute, Goto, BrokerFor, Spawn, Use, CallTypes
  <2> QED
    BY <1>3, <2>1
<1>5. ASSUME NEW t \in Threads, Enter(t) PROVE Still(u)
  <2>1. pc[t] = "lock" /\ \A v \in Threads \ {t} : pc'[v] = pc[v] /\ broker'[v] = broker[v]
    BY <1>0, <1>5 DEF Enter, Goto, Forget, callVars, CallTypes
  <2> QED
    BY <1>3, <2>1
<1>6. ASSUME NEW t \in Threads, broker[t] \in Brokers,
             End(t) \/ \E label : GoOn(t, label), pc[t] \in {"write", "wait", "alias"}
      PROVE  Still(u)
  <2>1. \A v \in Threads \ {t} : pc'[v] = pc[v] /\ broker'[v] = broker[v]
    BY <1>0, <1>6, EndEffect, GoOnEffect
  <2> QED
    BY <1>3, <1>6, <2>1
<1>7. ASSUME NEW t \in Threads, Write(t) \/ TimeOut(t) \/ \E names \in SUBSET Keys : Register(t, names)
      PROVE  Still(u)
  <2>1. pc[t] \in {"write", "wait", "alias"} /\ broker[t] \in Brokers
    BY <1>0, <1>7 DEF Write, TimeOut, Register, CallTypes
  <2>2. End(t) \/ GoOn(t, "wait") \/ GoOn(t, "stop")
    BY <1>7 DEF Write, TimeOut, Register
  <2> QED
    BY <1>6, <2>1, <2>2
<1>8. ASSUME NEW t \in Threads, Answered(t) PROVE Still(u)
  <2>1. pc[t] = "wait" /\ broker[t] \in Brokers
    BY <1>0, <1>8 DEF Answered, CallTypes
  <2>2. End(t) \/ GoOn(t, "alias") \/ GoOn(t, "stop")
    BY <1>8, AnsweredCases
  <2> QED
    BY <1>6, <2>1, <2>2
<1>9. ASSUME NEW t \in Threads, Mark(t) \/ Kill(t) PROVE Still(u)
  <2>1. UNCHANGED broker /\ \E label \in {"kill", "discard"} : pc' = [pc EXCEPT ![t] = label]
    BY <1>9 DEF Mark, Kill, GoOn, Goto, callVars
  <2> QED
    BY <1>0, <1>1, <2>1 DEF CallTypes
<1>10. ASSUME NEW t \in Threads, Discard(t) \/ KillFails(t) PROVE Still(u)
  <2>1. broker[t] \in Brokers /\ End(t) /\ t # u
    BY <1>0, <1>1, <1>10 DEF Discard, KillFails, CallTypes
  <2> QED
    BY <1>0, <1>2, <2>1, EndEffect
<1>11. ASSUME UNCHANGED <<pc, broker>> PROVE Still(u)
  BY <1>1, <1>11
<1>12. ASSUME NEW t \in Threads, Close(t) PROVE Still(u)
  BY <1>11, <1>12 DEF Close, callVars
<1>13. ASSUME NEW t \in Threads, NEW c \in Brokers, CloseNext(t, c) PROVE Still(u)
  <2>1. pc[t] = "idle" /\ \A v \in Threads \ {t} : pc'[v] = pc[v] /\ broker'[v] = broker[v]
    BY <1>0, <1>13 DEF CloseNext, Goto, Use, CallTypes
  <2> QED
    BY <1>3, <2>1
<1>14. ASSUME NEW c \in Brokers,
             Die(c) \/ Undecodable(c) \/ \E code \in Codes : Serve(c, code)
       PROVE  Still(u)
  BY <1>11, <1>14 DEF Die, Undecodable, Serve, callVars
<1>15. ASSUME UNCHANGED vars PROVE Still(u)
  BY <1>11, <1>15 DEF vars, callVars
<1>16. Still(u)
  BY <1>4, <1>5, <1>7, <1>8, <1>9, <1>10, <1>12, <1>13, <1>14, <1>15 DEF Next, Work
<1> QED
  BY <1>16 DEF Stopping, Doomed

(* A step that stops nothing new and loses nothing.                          *)
LEMMA QuietStops ==
  ASSUME TypeOK, StopsRight, [Next]_vars, UNCHANGED stopping,
         \A t \in Threads : ~Discard(t),
         \A k \in Keys : brokers'[k] # NoBroker => brokers'[k] = brokers[k],
         \A b \in Brokers : Heard(b)' =>
           Heard(b) /\ \A k \in Keys : brokers[k] = b => brokers'[k] = b,
         \A u \in Threads : pc'[u] \in {"write", "wait", "alias"} =>
           /\ broker'[u] = broker[u] /\ broker[u] \in Brokers
           /\ pc[u] \in {"write", "wait", "alias"} \/ ~stopping[broker[u]]
  PROVE  StopsRight'
<1>1. \A b \in Brokers : Doomed(b) => Doomed(b)'
  BY DoomedKept
<1>2. ASSUME NEW k \in Keys, brokers'[k] # NoBroker, stopping'[brokers'[k]]
      PROVE  Doomed(brokers[k])'
  <2>1. brokers'[k] = brokers[k] /\ brokers[k] \in Brokers /\ stopping[brokers[k]]
    <3>1. brokers'[k] = brokers[k]
      BY <1>2
    <3>2. brokers[k] \in Brokers
      BY <1>2, <3>1 DEF TypeOK, RegistryTypes
    <3> QED
      BY <1>2, <3>1, <3>2, Zenon
  <2>2. PICK b \in Brokers : b = brokers[k]
    BY <2>1
  <2>3. Doomed(b)
    BY <1>2, <2>1, <2>2 DEF StopsRight, RegistryRight
  <2>4. Doomed(b)'
    BY <1>1, <2>3
  <2> QED
    BY <2>1, <2>2, <2>4 DEF Doomed, Stopping
<1>3. ASSUME NEW b \in Brokers, Heard(b)'
      PROVE  (\E k \in Keys : brokers'[k] = b) \/ Doomed(b)'
  <2>1. (\E k \in Keys : brokers[k] = b) \/ Doomed(b)
    BY <1>3 DEF StopsRight, RegistryRight
  <2> QED
    BY <1>1, <1>3, <2>1
<1>4. ASSUME NEW u \in Threads, pc'[u] \in {"write", "wait", "alias"}, stopping'[broker'[u]]
      PROVE  Doomed(broker[u])'
  <2>1. PICK b \in Brokers : b = broker[u] /\ broker'[u] = b
    BY <1>4
  <2>2. Doomed(b)
    BY <1>4, <2>1 DEF StopsRight
  <2>3. Doomed(b)'
    BY <1>1, <2>2
  <2> QED
    BY <2>1, <2>3 DEF Doomed, Stopping
<1> QED
  BY <1>2, <1>3, <1>4 DEF StopsRight, RegistryRight

(* Whoever may stop a broker does: no key leads to a broker that nobody takes *)
(* out, no process that is up is forgotten.                                  *)
LEMMA StepStops ==
  TypeOK /\ Started /\ LockRight /\ PipesRight /\ StopsRight /\ [Next]_vars => StopsRight'
<1> SUFFICES ASSUME TypeOK, Started, LockRight, PipesRight, StopsRight, [Next]_vars
             PROVE  StopsRight'
  OBVIOUS
<1> USE BrokerAssumption
<1>0. RegistryTypes /\ PipeTypes /\ CallTypes
  BY DEF TypeOK
<1>k. /\ \A t \in Threads : pc[t] # "idle" => broker[t] \in Brokers
      /\ \A k \in Keys : brokers[k] # NoBroker => brokers[k] \in Brokers
  BY <1>0 DEF CallTypes, RegistryTypes
<1>h. ASSUME NEW b \in Brokers, Heard(b)', process[b] = "up" PROVE Heard(b)
  BY <1>h, ReadingOnly DEF Heard
<1>o. \A b \in Brokers : outlived[b] => outlived'[b]
  BY OutlivedOnly
<1>1. ASSUME NEW t \in Threads, Discard(t) PROVE StopsRight'
  <2>1. PICK b \in Brokers : b = broker[t]
    BY <1>k, <1>1 DEF Discard
  <2>2. pc[t] = "discard" /\ End(t) /\ brokers' = Discarded(b) /\ UNCHANGED <<process, stopping>>
    BY <1>1, <2>1 DEF Discard
  <2>3. process[b] # "up" /\ lock[b] = t
    BY <2>1, <2>2 DEF Started, LockRight
  <2>4. \A u \in Threads \ {t} : pc'[u] = pc[u] /\ broker'[u] = broker[u]
    BY <1>0, <2>1, <2>2, EndEffect
  <2>5. \A c \in Brokers : c # b /\ Doomed(c) => Doomed(c)'
    BY <1>o, <2>1, <2>4 DEF Doomed, Stopping
  <2>6. \A k \in Keys : brokers'[k] # NoBroker => brokers'[k] = brokers[k] /\ brokers[k] # b
    BY <2>2 DEF Discarded
  <2>7. \A k \in Keys : brokers[k] # b => brokers'[k] = brokers[k]
    BY <2>2 DEF Discarded
  <2>8. ASSUME NEW k \in Keys, brokers'[k] # NoBroker, stopping'[brokers'[k]]
        PROVE  Doomed(brokers[k])'
    <3>1. PICK c \in Brokers : c = brokers[k] /\ c # b /\ brokers'[k] = c /\ stopping[c]
      BY <1>k, <2>2, <2>6, <2>8
    <3>2. Doomed(c)'
      BY <2>5, <3>1 DEF StopsRight, RegistryRight
    <3> QED
      BY <3>1, <3>2 DEF Doomed, Stopping
  <2>9. ASSUME NEW c \in Brokers, Heard(c)'
        PROVE  (\E k \in Keys : brokers'[k] = c) \/ Doomed(c)'
    <3>1. process[c] = "up" /\ c # b
      BY <2>2, <2>3, <2>9 DEF Heard
    <3>2. (\E k \in Keys : brokers[k] = c) \/ Doomed(c)
      BY <1>h, <2>9, <3>1 DEF StopsRight, RegistryRight
    <3> QED
      BY <2>5, <2>7, <3>1, <3>2
  <2>10. ASSUME NEW u \in Threads, pc'[u] \in {"write", "wait", "alias"}, stopping'[broker'[u]]
         PROVE  Doomed(broker[u])'
    <3>1. u # t
      BY <1>0, <2>1, <2>2, <2>10, EndEffect
    <3>2. PICK c \in Brokers : c = broker[u] /\ broker'[u] = c /\ pc[u] = pc'[u]
      BY <1>k, <2>4, <2>10, <3>1
    <3>3. c # b /\ stopping[c]
      BY <2>2, <2>3, <2>10, <3>1, <3>2 DEF LockRight
    <3>4. Doomed(c)'
      BY <2>5, <2>10, <3>2, <3>3 DEF StopsRight
    <3> QED
      BY <3>2, <3>4 DEF Doomed, Stopping
  <2> QED
    BY <2>8, <2>9, <2>10 DEF StopsRight, RegistryRight
<1>2. ASSUME NEW t \in Threads, NEW k \in Keys, NEW cmd \in Commands, Execute(t, k, cmd)
      PROVE  StopsRight'
  <2>1. /\ pc[t] = "idle" /\ pc' = [pc EXCEPT ![t] = "lock"] /\ UNCHANGED stopping
        /\ \A u \in Threads \ {t} : broker'[u] = broker[u]
    BY <1>0, <1>2 DEF Execute, Goto, BrokerFor, Spawn, Use, registryVars, CallTypes
  <2>2. \A u \in Threads : pc'[u] \in {"write", "wait", "alias"} =>
          u # t /\ broker'[u] = broker[u] /\ broker[u] \in Brokers /\ pc'[u] = pc[u]
    BY <1>0, <1>k, <2>1 DEF CallTypes
  <2>3. \A b \in Brokers : Doomed(b) => Doomed(b)'
    BY <1>0, <1>o, <2>1 DEF Doomed, Stopping, CallTypes
  <2>4. ASSUME NEW u \in Threads, pc'[u] \in {"write", "wait", "alias"}, stopping'[broker'[u]]
        PROVE  Doomed(broker[u])'
    <3>1. PICK c \in Brokers : c = broker[u] /\ broker'[u] = c /\ pc[u] = pc'[u] /\ stopping[c]
      BY <2>1, <2>2, <2>4, Zenon
    <3>2. Doomed(c)'
      BY <2>3, <2>4, <3>1 DEF StopsRight
    <3> QED
      BY <3>1, <3>2 DEF Doomed, Stopping
  <2>5. CASE UNCHANGED <<brokers, process>>
    <3>1. ASSUME NEW j \in Keys, brokers'[j] # NoBroker, stopping'[brokers'[j]]
          PROVE  Doomed(brokers[j])'
      <4>1. PICK c \in Brokers : c = brokers[j] /\ brokers'[j] = c /\ stopping[c]
        BY <1>k, <2>1, <2>5, <3>1, Zenon
      <4>2. Doomed(c)'
        BY <2>3, <3>1, <4>1, <2>5 DEF StopsRight, RegistryRight
      <4> QED
        BY <4>1, <4>2 DEF Doomed, Stopping
    <3>2. \A b \in Brokers : Heard(b)' =>
            (\E j \in Keys : brokers'[j] = b) \/ Doomed(b)'
      BY <1>h, <2>3, <2>5 DEF StopsRight, RegistryRight, Heard
    <3> QED
      BY <2>4, <3>1, <3>2 DEF StopsRight, RegistryRight
  <2>6. CASE ~Current(k) /\ Spawn(t, k)
    <3>1. PICK b \in Brokers : /\ process[b] = "none" /\ process' = [process EXCEPT ![b] = "up"]
                               /\ brokers' = [brokers EXCEPT ![k] = b]
      BY <2>6 DEF Spawn
    <3>2. ~stopping[b]
      BY <3>1 DEF Started
    <3>3. /\ brokers'[k] = b /\ \A j \in Keys \ {k} : brokers'[j] = brokers[j]
          /\ \A c \in Brokers \ {b} : process'[c] = process[c]
      BY <1>0, <3>1 DEF RegistryTypes
    <3>4. ASSUME NEW j \in Keys, brokers'[j] # NoBroker, stopping'[brokers'[j]]
          PROVE  Doomed(brokers[j])' /\ brokers'[j] = brokers[j]
      <4>1. j # k
        BY <2>1, <3>2, <3>3, <3>4, Zenon
      <4>2. brokers'[j] = brokers[j]
        BY <3>3, <4>1
      <4>3. PICK c \in Brokers : c = brokers[j] /\ brokers'[j] = c /\ stopping[c]
        BY <1>k, <2>1, <3>4, <4>2, Zenon
      <4>4. Doomed(c)'
        BY <2>3, <3>4, <4>3 DEF StopsRight, RegistryRight
      <4> QED
        BY <4>2, <4>3, <4>4 DEF Doomed, Stopping
    <3>5. ASSUME NEW c \in Brokers, Heard(c)'
          PROVE  (\E j \in Keys : brokers'[j] = c) \/ Doomed(c)'
      <4>1. CASE c = b
        BY <3>3, <4>1
      <4>2. CASE c # b
        <5>1. process[c] = "up"
          BY <3>3, <3>5, <4>2 DEF Heard
        <5>2. (\E j \in Keys : brokers[j] = c) \/ Doomed(c)
          BY <1>h, <3>5, <5>1 DEF StopsRight, RegistryRight
        <5>3. brokers[k] # c
          BY <1>k, <2>6, <5>1, BrokerAssumption DEF Current
        <5> QED
          BY <2>3, <3>3, <5>2, <5>3
      <4> QED
        BY <4>1, <4>2
    <3>6. ASSUME NEW j \in Keys, brokers'[j] # NoBroker, stopping'[brokers'[j]]
          PROVE  \E c \in Brokers : c = brokers'[j] /\ Doomed(c)'
      <4>1. PICK c \in Brokers : c = brokers[j] /\ brokers'[j] = c
        BY <1>k, <3>4, <3>6
      <4> QED
        BY <3>4, <3>6, <4>1 DEF Doomed, Stopping
    <3> QED
      BY <2>4, <3>5, <3>6 DEF StopsRight, RegistryRight, Doomed, Stopping
  <2>7. UNCHANGED <<brokers, process>> \/ (~Current(k) /\ Spawn(t, k))
    BY <1>2 DEF Execute, BrokerFor, registryVars
  <2> QED
    BY <2>5, <2>6, <2>7
<1>3. ASSUME NEW t \in Threads, NEW names \in SUBSET Keys, Register(t, names) PROVE StopsRight'
  <2>1. PICK b \in Brokers : b = broker[t]
    BY <1>k, <1>3 DEF Register
  <2>2. pc[t] = "alias" /\ UNCHANGED <<process, stopping>>
    BY <1>3 DEF Register
  <2>3. \A u \in Threads \ {t} : pc'[u] = pc[u] /\ broker'[u] = broker[u]
    BY <1>0, <1>3, <2>1, EndEffect, GoOnEffect DEF Register
  <2>4. \A d \in Brokers : Doomed(d) => Doomed(d)'
    BY <1>o, <2>2, <2>3 DEF Doomed, Stopping
  <2>5. stopping[b] => Doomed(b)
    BY <2>1, <2>2 DEF StopsRight
  <2>6. \A j \in Keys : brokers[j] # NoBroker /\ stopping[brokers[j]] => Doomed(brokers[j])
    BY DEF StopsRight, RegistryRight
  <2>7. pc'[t] \in {"idle", "stop"}
    BY <1>0, <1>3, <2>1, EndEffect, GoOnEffect DEF Register
  <2>8. ASSUME NEW u \in Threads, pc'[u] \in {"write", "wait", "alias"}, stopping'[broker'[u]]
        PROVE  Doomed(broker[u])'
    <3>1. u # t
      BY <2>7, <2>8
    <3>2. pc[u] = pc'[u] /\ broker'[u] = broker[u] /\ broker[u] \in Brokers
      BY <1>k, <2>3, <2>8, <3>1
    <3>3. PICK c \in Brokers : c = broker[u] /\ broker'[u] = c /\ stopping[c]
      BY <2>2, <2>8, <3>2, Zenon
    <3>4. Doomed(c)'
      BY <2>4, <2>8, <3>2, <3>3 DEF StopsRight
    <3> QED
      BY <3>3, <3>4 DEF Doomed, Stopping
  <2>9. ASSUME NEW d \in Brokers, NEW j \in Keys, brokers[j] = d, d # b, Free(j, b), process[d] = "up"
        PROVE  Doomed(d)'
    <3>1. stopping[d]
      BY <2>9, BrokerAssumption DEF Free, Alive
    <3>2. Doomed(d)
      BY <2>6, <2>9, <3>1, BrokerAssumption
    <3> QED
      BY <2>4, <3>2
  <2>10. CASE Conflicts(b, names) = {}
    <3>1. brokers' = [j \in Keys |-> IF j \in names /\ Free(j, b) THEN b ELSE brokers[j]]
      BY <1>3, <2>1, <2>10 DEF Register
    <3>2. ASSUME NEW j \in Keys, brokers'[j] # NoBroker, stopping'[brokers'[j]]
          PROVE  \E c \in Brokers : c = brokers'[j] /\ Doomed(c)'
      <4>1. brokers'[j] = b \/ brokers'[j] = brokers[j]
        BY <3>1
      <4>2. PICK c \in Brokers : c = brokers'[j] /\ stopping[c]
        BY <1>k, <2>2, <3>2, <4>1, Zenon
      <4>3. Doomed(c)
        BY <2>5, <2>6, <3>2, <4>1, <4>2
      <4> QED
        BY <2>4, <4>2, <4>3
    <3>3. ASSUME NEW d \in Brokers, Heard(d)'
          PROVE  (\E j \in Keys : brokers'[j] = d) \/ Doomed(d)'
      <4>1. process[d] = "up"
        BY <2>2, <3>3 DEF Heard
      <4>3. (\E j \in Keys : brokers[j] = d) \/ Doomed(d)
        BY <1>h, <3>3, <4>1 DEF StopsRight, RegistryRight
      <4>2. ASSUME NEW j \in Keys, brokers[j] = d
            PROVE  brokers'[j] = d \/ Doomed(d)'
        BY <2>9, <3>1, <4>1, <4>2
      <4> QED
        BY <2>4, <4>2, <4>3
    <3> QED
      BY <2>8, <3>2, <3>3 DEF StopsRight, RegistryRight, Doomed, Stopping
  <2>11. CASE Conflicts(b, names) # {}
    <3>1. GoOn(t, "stop")
          /\ \E c \in Conflicts(b, names) :
               brokers' = [j \in Keys |-> IF brokers[j] = b \/ (j \in names /\ Free(j, b))
                                          THEN c ELSE brokers[j]]
      BY <1>3, <2>1, <2>11 DEF Register
    <3>2. PICK c \in Conflicts(b, names) :
            brokers' = [j \in Keys |-> IF brokers[j] = b \/ (j \in names /\ Free(j, b))
                                       THEN c ELSE brokers[j]]
      BY <3>1
    <3>3. c \in Brokers /\ ~stopping[c] /\ c # NoBroker
      BY <1>k DEF Conflicts, Alive
    <3>4. Doomed(b)'
      <4>1. pc'[t] = "stop" /\ broker'[t] = b
        BY <1>0, <2>1, <3>1, GoOnEffect
      <4> QED
        BY <4>1 DEF Doomed, Stopping
    <3>5. ASSUME NEW j \in Keys, brokers'[j] # NoBroker, stopping'[brokers'[j]]
          PROVE  \E d \in Brokers : d = brokers'[j] /\ Doomed(d)'
      <4>1. brokers'[j] # c
        BY <2>2, <3>3, <3>5, Zenon
      <4>2. brokers'[j] = brokers[j]
        BY <3>2, <4>1
      <4>3. PICK d \in Brokers : d = brokers'[j] /\ stopping[d]
        BY <1>k, <2>2, <3>5, <4>2, Zenon
      <4>4. Doomed(d)
        BY <2>6, <3>5, <4>2, <4>3
      <4> QED
        BY <2>4, <4>3, <4>4
    <3>6. ASSUME NEW d \in Brokers, Heard(d)'
          PROVE  (\E j \in Keys : brokers'[j] = d) \/ Doomed(d)'
      <4>1. process[d] = "up"
        BY <2>2, <3>6 DEF Heard
      <4>3. (\E j \in Keys : brokers[j] = d) \/ Doomed(d)
        BY <1>h, <3>6, <4>1 DEF StopsRight, RegistryRight
      <4>2. ASSUME NEW j \in Keys, brokers[j] = d
            PROVE  brokers'[j] = d \/ Doomed(d)'
        BY <2>9, <3>2, <3>4, <4>1, <4>2
      <4> QED
        BY <2>4, <4>2, <4>3
    <3> QED
      BY <2>8, <3>5, <3>6 DEF StopsRight, RegistryRight, Doomed, Stopping
  <2> QED
    BY <2>10, <2>11
<1>4. ASSUME NEW t \in Threads, Mark(t) PROVE StopsRight'
  <2>1. PICK b \in Brokers : b = broker[t]
    BY <1>k, <1>4 DEF Mark
  <2>2. pc[t] = "stop" /\ GoOn(t, "kill") /\ UNCHANGED <<brokers, process>>
        /\ stopping' = [stopping EXCEPT ![b] = TRUE]
    BY <1>4, <2>1 DEF Mark
  <2>3. /\ pc'[t] = "kill" /\ broker' = broker /\ \A u \in Threads \ {t} : pc'[u] = pc[u]
    BY <1>0, <2>2, GoOnEffect
  <2>4. \A d \in Brokers : Doomed(d) => Doomed(d)'
    BY <1>o, <2>3 DEF Doomed, Stopping
  <2>5. Doomed(b)'
    BY <2>1, <2>3 DEF Doomed, Stopping
  <2>6. \A d \in Brokers : stopping'[d] => d = b \/ stopping[d]
    BY <1>0, <2>2 DEF RegistryTypes
  <2>7. ASSUME NEW j \in Keys, brokers'[j] # NoBroker, stopping'[brokers'[j]]
        PROVE  \E d \in Brokers : d = brokers'[j] /\ Doomed(d)'
    <3>1. PICK d \in Brokers : d = brokers[j] /\ brokers'[j] = d
      BY <1>k, <2>2, <2>7
    <3>2. d = b \/ stopping[d]
      BY <2>6, <2>7, <3>1, Zenon
    <3>3. d = b \/ Doomed(d)
      BY <2>2, <2>7, <3>1, <3>2 DEF StopsRight, RegistryRight
    <3> QED
      BY <2>4, <2>5, <3>1, <3>3
  <2>8. ASSUME NEW u \in Threads, pc'[u] \in {"write", "wait", "alias"}, stopping'[broker'[u]]
        PROVE  Doomed(broker[u])'
    <3>1. pc[u] = pc'[u] /\ broker[u] \in Brokers /\ broker'[u] = broker[u]
      BY <1>k, <2>3, <2>8
    <3>2. PICK d \in Brokers : d = broker[u] /\ broker'[u] = d
      BY <3>1
    <3>3. d = b \/ stopping[d]
      BY <2>6, <2>8, <3>2, Zenon
    <3>4. d = b \/ Doomed(d)
      BY <2>8, <3>1, <3>2, <3>3 DEF StopsRight
    <3>5. Doomed(d)'
      BY <2>4, <2>5, <3>4
    <3> QED
      BY <3>2, <3>5 DEF Doomed, Stopping
  <2>9. \A d \in Brokers : Heard(d)' => (\E j \in Keys : brokers'[j] = d) \/ Doomed(d)'
    BY <1>h, <2>2, <2>4 DEF StopsRight, RegistryRight, Heard
  <2> QED
    BY <2>7, <2>8, <2>9 DEF StopsRight, RegistryRight, Doomed, Stopping
<1>5. ASSUME \A t \in Threads : ~Discard(t), UNCHANGED stopping,
             \A k \in Keys : brokers'[k] # NoBroker => brokers'[k] = brokers[k],
             \A b \in Brokers : process'[b] = "up" => process[b] = "up",
             \A b \in Brokers : Heard(b) => \A k \in Keys : brokers[k] = b => brokers'[k] = b,
             NEW t \in Threads, \A u \in Threads \ {t} : pc'[u] = pc[u] /\ broker'[u] = broker[u],
             pc'[t] \in {"write", "wait", "alias"} =>
               /\ broker'[t] = broker[t] /\ broker[t] \in Brokers
               /\ pc[t] \in {"write", "wait", "alias"} \/ ~stopping[broker[t]]
      PROVE  StopsRight'
  <2>1. \A u \in Threads : pc'[u] \in {"write", "wait", "alias"} =>
           /\ broker'[u] = broker[u] /\ broker[u] \in Brokers
           /\ pc[u] \in {"write", "wait", "alias"} \/ ~stopping[broker[u]]
    BY <1>k, <1>5
  <2>2. ASSUME NEW b \in Brokers, Heard(b)'
        PROVE  Heard(b) /\ \A k \in Keys : brokers[k] = b => brokers'[k] = b
    <3>1. process[b] = "up"
      BY <1>5, <2>2 DEF Heard
    <3>2. Heard(b)
      BY <1>h, <2>2, <3>1
    <3> QED
      BY <1>5, <3>2
  <2> QED
    BY <1>5, <2>1, <2>2, QuietStops
<1>6. ASSUME \A t \in Threads : ~Discard(t), NEW t \in Threads, Enter(t) PROVE StopsRight'
  <2>1. PICK b \in Brokers : b = broker[t]
    BY <1>k, <1>6 DEF Enter
  <2>2. pc[t] = "lock" /\ UNCHANGED <<process, stopping>>
    BY <1>6 DEF Enter
  <2>3. CASE Alive(b)
    <3>1. UNCHANGED <<brokers, broker>> /\ pc' = [pc EXCEPT ![t] = "write"] /\ ~stopping[b]
      BY <1>6, <2>1, <2>3 DEF Enter, Goto, callVars, Alive
    <3>2. pc'[t] = "write" /\ \A u \in Threads \ {t} : pc'[u] = pc[u]
      BY <1>0, <3>1 DEF CallTypes
    <3> QED
      BY <1>5, <1>6, <2>1, <2>2, <3>1, <3>2
  <2>4. CASE ~Alive(b)
    <3>1. /\ pc' = [pc EXCEPT ![t] = "idle"] /\ broker' = [broker EXCEPT ![t] = NoBroker]
          /\ brokers' = IF stopping[b] THEN brokers ELSE Discarded(b)
      BY <1>6, <2>1, <2>4 DEF Enter, Goto, Forget
    <3>2. pc'[t] = "idle" /\ \A u \in Threads \ {t} : pc'[u] = pc[u] /\ broker'[u] = broker[u]
      BY <1>0, <3>1 DEF CallTypes
    <3>3. \A k \in Keys : /\ brokers'[k] # NoBroker => brokers'[k] = brokers[k]
                          /\ brokers[k] # b => brokers'[k] = brokers[k]
      BY <3>1 DEF Discarded
    <3>4. process[b] # "up" \/ brokers' = brokers
      BY <2>4, <3>1 DEF Alive
    <3>5. \A c \in Brokers : Heard(c) => \A k \in Keys : brokers[k] = c => brokers'[k] = c
      BY <3>3, <3>4 DEF Heard
    <3> QED
      BY <1>5, <1>6, <2>2, <3>2, <3>3, <3>5
  <2> QED
    BY <2>3, <2>4
<1>7. ASSUME \A t \in Threads : ~Discard(t), NEW t \in Threads, Write(t) \/ TimeOut(t) PROVE StopsRight'
  <2>1. /\ pc[t] \in {"write", "wait"} /\ broker[t] \in Brokers
        /\ UNCHANGED <<brokers, process, stopping>>
        /\ End(t) \/ GoOn(t, "wait") \/ GoOn(t, "stop")
    BY <1>k, <1>7 DEF Write, TimeOut, registryVars
  <2>2. /\ \A u \in Threads \ {t} : pc'[u] = pc[u] /\ broker'[u] = broker[u]
        /\ pc'[t] # "idle" => broker'[t] = broker[t]
    BY <1>0, <2>1, EndEffect, GoOnEffect
  <2> QED
    BY <1>5, <1>7, <2>1, <2>2
<1>8. ASSUME \A t \in Threads : ~Discard(t), NEW t \in Threads, Answered(t) PROVE StopsRight'
  <2>1. PICK b \in Brokers : b = broker[t]
    BY <1>k, <1>8 DEF Answered
  <2>2. pc[t] = "wait" /\ UNCHANGED <<process, stopping>> /\ responses[b] # << >>
    BY <1>8, <2>1 DEF Answered
  <2>3. End(t) \/ GoOn(t, "stop") \/ GoOn(t, "alias")
    BY <1>8, AnsweredCases
  <2>4. brokers' = brokers \/ (brokers' = Discarded(b) /\ Head(responses[b]) = EOF)
    BY <1>8, <2>1, AnsweredCases
  <2>5. Head(responses[b]) = EOF => ~reading[b]
    <3>1. responses[b] \in Seq(Lines)
      BY <1>0 DEF PipeTypes
    <3>2. 1 \in DOMAIN responses[b] /\ Head(responses[b]) = responses[b][1]
      BY <2>2, <3>1
    <3> QED
      BY <3>2 DEF PipesRight
  <2>6. /\ \A u \in Threads \ {t} : pc'[u] = pc[u] /\ broker'[u] = broker[u]
        /\ pc'[t] # "idle" => broker'[t] = broker[t]
    BY <1>0, <2>1, <2>3, EndEffect, GoOnEffect
  <2>7. \A k \in Keys : /\ brokers'[k] # NoBroker => brokers'[k] = brokers[k]
                        /\ brokers[k] # b => brokers'[k] = brokers[k]
    BY <2>4 DEF Discarded
  <2>8. \A c \in Brokers : Heard(c) => \A k \in Keys : brokers[k] = c => brokers'[k] = c
    BY <2>4, <2>5, <2>7 DEF Heard
  <2> QED
    BY <1>5, <1>8, <2>1, <2>2, <2>6, <2>7, <2>8
<1>9. ASSUME \A t \in Threads : ~Discard(t), NEW t \in Threads, Kill(t) PROVE StopsRight'
  <2>1. UNCHANGED <<brokers, stopping, broker>> /\ pc' = [pc EXCEPT ![t] = "discard"]
    BY <1>9 DEF Kill, Goto, callVars
  <2>2. pc'[t] = "discard" /\ \A u \in Threads \ {t} : pc'[u] = pc[u]
    BY <1>0, <2>1 DEF CallTypes
  <2>3. \A b \in Brokers : process'[b] = "up" => process[b] = "up"
    <3>1. process' = process \/ process' = [process EXCEPT ![broker[t]] = "down"]
      BY <1>9 DEF Kill, Down
    <3> QED
      BY <1>0, <3>1 DEF RegistryTypes
  <2> QED
    BY <1>5, <1>9, <2>1, <2>2, <2>3
<1>10. ASSUME \A t \in Threads : ~Discard(t), NEW t \in Threads, NEW b \in Brokers, CloseNext(t, b)
       PROVE  StopsRight'
  <2>1. UNCHANGED <<brokers, process, stopping>> /\ pc' = [pc EXCEPT ![t] = "stop"]
        /\ broker' = [broker EXCEPT ![t] = b]
    BY <1>10 DEF CloseNext, Goto, Use, registryVars
  <2>2. pc'[t] = "stop" /\ \A u \in Threads \ {t} : pc'[u] = pc[u] /\ broker'[u] = broker[u]
    BY <1>0, <2>1 DEF CallTypes
  <2> QED
    BY <1>5, <1>10, <2>1, <2>2
<1>11. ASSUME \A t \in Threads : ~Discard(t), UNCHANGED <<brokers, stopping, pc, broker>>,
              \A b \in Brokers : process'[b] = "up" => process[b] = "up"
       PROVE  StopsRight'
  <2>1. \A u \in Threads : pc'[u] \in {"write", "wait", "alias"} =>
           /\ broker'[u] = broker[u] /\ broker[u] \in Brokers /\ pc[u] \in {"write", "wait", "alias"}
    BY <1>k, <1>11
  <2>2. \A b \in Brokers : Heard(b)' =>
          Heard(b) /\ \A k \in Keys : brokers[k] = b => brokers'[k] = b
    BY <1>h, <1>11 DEF Heard
  <2> QED
    BY <1>11, <2>1, <2>2, QuietStops
<1>12. ASSUME \A t \in Threads : ~Discard(t), NEW t \in Threads, Close(t) PROVE StopsRight'
  BY <1>11, <1>12 DEF Close, registryVars, callVars
<1>13. ASSUME \A t \in Threads : ~Discard(t), NEW b \in Brokers, NEW code \in Codes, Serve(b, code)
       PROVE  StopsRight'
  <2>1. UNCHANGED <<brokers, stopping, pc, broker>>
    BY <1>13 DEF Serve, callVars
  <2>2. process' = process \/ process' = [process EXCEPT ![b] = "down"]
    BY <1>13 DEF Serve, Sent, Down
  <2>3. \A c \in Brokers : process'[c] = "up" => process[c] = "up"
    BY <1>0, <2>2 DEF RegistryTypes
  <2> QED
    BY <1>11, <1>13, <2>1, <2>3
<1>14. ASSUME \A t \in Threads : ~Discard(t), NEW b \in Brokers, Die(b) PROVE StopsRight'
  <2>1. UNCHANGED <<brokers, stopping, pc, broker>> /\ process' = [process EXCEPT ![b] = "down"]
    BY <1>14 DEF Die, Down, callVars
  <2>2. \A c \in Brokers : process'[c] = "up" => process[c] = "up"
    BY <1>0, <2>1 DEF RegistryTypes
  <2> QED
    BY <1>11, <1>14, <2>1, <2>2
<1>15. ASSUME \A t \in Threads : ~Discard(t), NEW t \in Threads, KillFails(t) PROVE StopsRight'
  <2>1. broker[t] \in Brokers /\ End(t) /\ UNCHANGED <<brokers, process, stopping>>
    BY <1>k, <1>15 DEF KillFails, registryVars
  <2>2. pc'[t] = "idle" /\ \A u \in Threads \ {t} : pc'[u] = pc[u] /\ broker'[u] = broker[u]
    BY <1>0, <2>1, EndEffect
  <2> QED
    BY <1>5, <1>15, <2>1, <2>2
<1>16. ASSUME \A t \in Threads : ~Discard(t), NEW b \in Brokers, Undecodable(b) PROVE StopsRight'
  BY <1>11, <1>16 DEF Undecodable, registryVars, callVars
<1>17. ASSUME \A t \in Threads : ~Discard(t), UNCHANGED vars PROVE StopsRight'
  BY <1>11, <1>17 DEF vars, registryVars, callVars
<1> QED
  BY <1>1, <1>2, <1>3, <1>4, <1>6, <1>7, <1>8, <1>9, <1>10, <1>12, <1>13, <1>14, <1>15, <1>16,
     <1>17
  DEF Next, Work

-----------------------------------------------------------------------------
(* The theorems. *)

(* The inductive invariant holds in the initial state.                      *)
LEMMA InitInv == Init => IInv
<1> SUFFICES ASSUME Init PROVE IInv
  OBVIOUS
<1> USE BrokerAssumption
<1>1. TypeOK
  BY InitTypes
<1>2. Started /\ LockRight
  BY DEF Init, Started, LockRight
<1>3. \A b \in Brokers : Clean(b) /\ Len(stdin[b]) = 0 /\ DOMAIN responses[b] = {}
  BY DEF Init, Clean, NoAnswer
<1>4. PipesRight
  BY <1>3 DEF Init, PipesRight, Clean
<1>5. ExchangesRight
  BY <1>3 DEF Init, ExchangesRight
<1>6. StopsRight
  BY DEF Init, StopsRight, RegistryRight, Heard
<1> QED
  BY <1>1, <1>2, <1>4, <1>5, <1>6 DEF IInv

(* The inductive invariant of the brokers: locks, pipes and the registry      *)
(* agree with what the threads are doing.                                    *)
THEOREM Invariance == Spec => []IInv
<1>1. Init => IInv
  BY InitInv
<1>2. IInv /\ [Next]_vars => IInv'
  BY StepTypes, StepStarted, StepLock, StepPipes, StepExchanges, StepStops DEF IInv
<1> QED
  BY <1>1, <1>2, PTL DEF Spec

(* No thread ever finds an answer to another request than its own.           *)
THEOREM OwnAnswers == Spec => []OwnAnswer
<1>1. IInv => OwnAnswer
  BY DEF IInv, ExchangesRight, Exchange, OwnAnswer
<1> QED
  BY <1>1, Invariance, PTL

(* A key leads to a broker that is being stopped only while a thread is about *)
(* to take it out or for a process that outlived its kill, and a worker that  *)
(* is up and read can be found, is about to be stopped or outlived its kill.  *)
THEOREM RegistryIsRight == Spec => []RegistryRight
<1>1. IInv => RegistryRight
  BY DEF IInv, StopsRight
<1> QED
  BY <1>1, Invariance, PTL
=============================================================================
