-------------------------- MODULE FrameRelay_proofs --------------------------
(***************************************************************************)
(* Theorems about FrameRelay, for any sinks, capacities, pings, number of  *)
(* frames and number of lost messages.                                     *)
(***************************************************************************)
EXTENDS FrameRelay, TLAPS

Elements(s) == {s[k] : k \in DOMAIN s}
Increasing(s) == \A j, k \in DOMAIN s : j < k => s[j] < s[k]
Below(S, T) == \A x \in S, y \in T : x < y
Running == {running} \ {None}
Received == Elements(relayed) \cup Elements(queue) \cup Running

(* The generator waits for a response: one goal at most is on its way, the  *)
(* next one, and it is not resent.                                          *)
GeneratorInv ==
  /\ \A n \in Frames : n > next => goal[n] = "unsent"
  /\ next \in Frames => (goal[next] = "unsent" <=> generator # "waiting")
  /\ \A n \in Frames : n < next => goal[n] \notin {"unsent", "sent", "received"}
  /\ generator = "waiting" => next \in Frames

(* The callbacks are at one goal, whose handle nobody has yet. *)
ServerInv ==
  /\ server.at = "idle" <=> server.goal = None
  /\ server.at \in {"enqueue", "accept", "reject"} => goal[server.goal] = "received"
  /\ server.at = "accepted" => goal[server.goal] = "executing"
  /\ server.goal \notin resolved
  /\ server.at = "enqueue" => server.goal \notin Received
  /\ \A n \in Received \cup resolved \cup entries : goal[n] \notin {"unsent", "sent"}
  /\ running # None /\ at # "payload" => running \in resolved

OrderInv ==
  /\ Increasing(queue) /\ Increasing(relayed)
  /\ Below(Elements(relayed) \cup Running, Elements(queue))
  /\ at = "payload" => Below(Elements(relayed), Running)
  /\ config.sink = "sync" =>
       /\ queue = <<>> /\ running = None
       /\ server.at # "idle" => Below(Elements(relayed), {server.goal})

EntryInv ==
  /\ entries \cap config.pings = {}
  /\ ~IsPublisher => entries = {}
  /\ server.at = "reject" => server.goal \notin entries
  /\ server.at \in {"accept", "accepted"} /\ config.sink # "sync" =>
       server.goal \in config.pings \cup Elements(queue) \cup Running
  /\ \A n \in entries \ lost :
       n = server.goal \/ n = running \/ (goal[n] = "executing" /\ n \in Elements(queue))

(* What has succeeded was published, if it could be. *)
TruthInv ==
  /\ \A n \in Frames \ config.pings :
       goal[n] = "succeeded" /\ MayRelay(n) = {TRUE} => n \in Elements(relayed)
  /\ running # None /\ at # "payload" /\ MayRelay(running) = {TRUE} =>
       running \in Elements(relayed)

IInv ==
  TypeOK /\ GeneratorInv /\ ServerInv /\ OrderInv /\ EntryInv /\ TruthInv

-----------------------------------------------------------------------------
LEMMA AppendToIncreasing ==
  ASSUME NEW s \in Seq(Frames), NEW e \in Frames
  PROVE  /\ Append(s, e) \in Seq(Frames)
         /\ Elements(Append(s, e)) = Elements(s) \cup {e}
         /\ Increasing(s) /\ Below(Elements(s), {e}) => Increasing(Append(s, e))
<1>1. /\ Append(s, e) \in Seq(Frames) /\ Len(s) \in Nat
      /\ DOMAIN s = 1 .. Len(s) /\ DOMAIN Append(s, e) = 1 .. Len(s) + 1
      /\ \A k \in 1 .. Len(s) : Append(s, e)[k] = s[k]
      /\ Append(s, e)[Len(s) + 1] = e
  OBVIOUS
<1>2. 1 .. Len(s) + 1 = (1 .. Len(s)) \cup {Len(s) + 1}
  BY <1>1
<1>3. Elements(Append(s, e)) = Elements(s) \cup {e}
  BY <1>1, <1>2 DEF Elements
<1>4. ASSUME Increasing(s), Below(Elements(s), {e})
      PROVE  Increasing(Append(s, e))
  <2> SUFFICES ASSUME NEW j \in 1 .. Len(s) + 1, NEW k \in 1 .. Len(s) + 1, j < k
               PROVE  Append(s, e)[j] < Append(s, e)[k]
    BY <1>1 DEF Increasing
  <2>1. j \in 1 .. Len(s) /\ Append(s, e)[j] = s[j]
    BY <1>1
  <2>2. CASE k \in 1 .. Len(s)
    BY <1>1, <1>4, <2>1, <2>2 DEF Increasing
  <2>3. CASE k = Len(s) + 1
    BY <1>1, <1>4, <2>1, <2>3 DEF Below, Elements
  <2> QED BY <1>2, <2>2, <2>3
<1> QED BY <1>1, <1>3, <1>4

LEMMA HeadOfIncreasing ==
  ASSUME NEW s \in Seq(Frames), s # <<>>, Increasing(s)
  PROVE  /\ Tail(s) \in Seq(Frames) /\ Head(s) \in Frames /\ Len(Tail(s)) = Len(s) - 1
         /\ Increasing(Tail(s)) /\ Elements(s) = Elements(Tail(s)) \cup {Head(s)}
         /\ Below({Head(s)}, Elements(Tail(s)))
<1>1. /\ Tail(s) \in Seq(Frames) /\ Len(s) \in Nat /\ Len(s) > 0
      /\ DOMAIN s = 1 .. Len(s) /\ DOMAIN Tail(s) = 1 .. Len(s) - 1
      /\ \A k \in 1 .. Len(s) - 1 : Tail(s)[k] = s[k + 1]
      /\ Head(s) = s[1] /\ Head(s) \in Frames /\ Len(Tail(s)) = Len(s) - 1
  OBVIOUS
<1>2. \A k \in 1 .. Len(s) - 1 : k + 1 \in 1 .. Len(s) /\ 1 < k + 1
  BY <1>1
<1>3. \A k \in 1 .. Len(s) : k = 1 \/ \E j \in 1 .. Len(s) - 1 : k = j + 1
  <2> SUFFICES ASSUME NEW k \in 1 .. Len(s), k # 1
               PROVE  \E j \in 1 .. Len(s) - 1 : k = j + 1
    OBVIOUS
  <2>1. k - 1 \in 1 .. Len(s) - 1 /\ k = (k - 1) + 1
    BY <1>1
  <2> QED BY <2>1
<1>4. 1 \in DOMAIN s
  BY <1>1
<1>5. Increasing(Tail(s))
  <2> SUFFICES ASSUME NEW j \in 1 .. Len(s) - 1, NEW k \in 1 .. Len(s) - 1, j < k
               PROVE  s[j + 1] < s[k + 1]
    BY <1>1 DEF Increasing
  <2>1. j + 1 \in DOMAIN s /\ k + 1 \in DOMAIN s /\ j + 1 < k + 1
    BY <1>1
  <2> QED BY <2>1 DEF Increasing
<1>6. Below({Head(s)}, Elements(Tail(s)))
  BY <1>1, <1>2, <1>4 DEF Increasing, Below, Elements
<1>7. Elements(s) = Elements(Tail(s)) \cup {Head(s)}
  <2>1. ASSUME NEW x \in Elements(s)
        PROVE  x \in Elements(Tail(s)) \cup {Head(s)}
    <3>1. PICK k \in 1 .. Len(s) : x = s[k]
      BY <1>1, <2>1 DEF Elements
    <3>2. CASE k = 1
      BY <1>1, <3>1, <3>2
    <3>3. CASE k # 1
      <4>1. PICK j \in 1 .. Len(s) - 1 : k = j + 1
        BY <1>3, <3>1, <3>3
      <4>2. x = Tail(s)[j] /\ j \in DOMAIN Tail(s)
        BY <1>1, <3>1, <4>1
      <4> QED BY <4>2 DEF Elements
    <3> QED BY <3>2, <3>3
  <2>2. Elements(Tail(s)) \subseteq Elements(s) /\ Head(s) \in Elements(s)
    BY <1>1, <1>2, <1>4 DEF Elements
  <2> QED BY <2>1, <2>2
<1> QED BY <1>1, <1>5, <1>6, <1>7

LEMMA EmptyIncreasing ==
  Elements(<<>>) = {} /\ Increasing(<<>>)
BY DEF Elements, Increasing

(* What the types say of the sets above. *)
LEMMA SetFacts ==
  ASSUME TypeOK
  PROVE  /\ Received \subseteq Frames /\ Elements(queue) \subseteq Frames
         /\ Elements(relayed) \subseteq Frames /\ Running \subseteq Frames
         /\ config.pings \subseteq Frames /\ config.capacity \in Nat
         /\ Frames \subseteq Nat /\ None \notin Frames /\ next \in Nat
<1>1. Frames \subseteq Nat /\ None \notin Frames /\ next \in Nat
  BY BoundAssumption DEF Frames, TypeOK
<1>2. \A s \in Seq(Frames) : Elements(s) \subseteq Frames
  BY DEF Elements
<1>3. config.pings \subseteq Frames /\ config.capacity \in Nat
  BY ConfigAssumption DEF TypeOK, RelayConfigs
<1> QED BY <1>1, <1>2, <1>3 DEF TypeOK, Received, Running

(* The sink and the images stay what they are. *)
LEMMA SinkStays ==
  ASSUME config' = config, image' = image
  PROVE  /\ IsPublisher' <=> IsPublisher
         /\ \A n : MayRelay(n)' = MayRelay(n)
BY DEF IsPublisher, MayRelay

(* The goal that the callbacks are at is the generator's next one until it  *)
(* has its response; whatever the sink has received is older.               *)
LEMMA ServerIsLast ==
  ASSUME IInv, NEW n \in Frames, goal[n] \in {"sent", "received"}
  PROVE  /\ n = next
         /\ \A m \in Received \cup resolved \cup entries :
              m \in Frames /\ m <= n /\ (goal[n] = "sent" => m # n)
<1>1. n = next
  BY SetFacts DEF IInv, GeneratorInv
<1>2. ASSUME NEW m \in Received \cup resolved \cup entries
      PROVE  m \in Frames /\ m <= n /\ (goal[n] = "sent" => m # n)
  <2>1. m \in Frames /\ goal[m] \notin {"unsent", "sent"}
    BY SetFacts DEF IInv, ServerInv, TypeOK
  <2>2. ~(m > next)
    BY <2>1 DEF IInv, GeneratorInv
  <2> QED BY <1>1, <2>1, <2>2, SetFacts DEF IInv
<1> QED BY <1>1, <1>2

LEMMA InitEstablishes ==
  ASSUME Init
  PROVE  IInv
<1>1. /\ config \in Configs /\ image \in [Frames -> Images]
      /\ stepping = TRUE /\ generator = "head" /\ next = 1
      /\ goal = [n \in Frames |-> "unsent"]
      /\ server = [goal |-> None, at |-> "idle"] /\ blocking = FALSE /\ spinning = TRUE
      /\ entries = {} /\ resolved = {} /\ queue = <<>> /\ running = None /\ at = "payload"
      /\ relayed = <<>> /\ lost = {}
  BY DEF Init, Idle
<1>2. config.capacity \in Nat
  BY <1>1, ConfigAssumption DEF RelayConfigs
<1>3. TypeOK
  <2>1. {stepping, blocking, spinning} \subseteq BOOLEAN
    BY <1>1, Zenon
  <2>2. next \in 1 .. MaxFrames + 1
    BY <1>1, BoundAssumption
  <2>3. queue \in Seq(Frames) /\ Len(queue) <= config.capacity /\ relayed \in Seq(Frames)
    BY <1>1, <1>2
  <2> QED BY <1>1, <2>1, <2>2, <2>3 DEF TypeOK
<1>4. Received = {} /\ Running = {} /\ Elements(queue) = {} /\ Elements(relayed) = {}
  BY <1>1, EmptyIncreasing DEF Received, Running
<1>5. GeneratorInv
  BY <1>1 DEF GeneratorInv
<1>6. ServerInv
  BY <1>1, <1>4 DEF ServerInv
<1>7. OrderInv
  BY <1>1, <1>4, EmptyIncreasing DEF OrderInv, Below
<1>8. EntryInv
  BY <1>1, <1>4 DEF EntryInv
<1>9. TruthInv
  BY <1>1, <1>4 DEF TruthInv
<1> QED BY <1>3, <1>5, <1>6, <1>7, <1>8, <1>9 DEF IInv

-----------------------------------------------------------------------------
(* The generator, and what does not touch the goals. *)
LEMMA GeneratorKeeps ==
  ASSUME IInv,
         SendFrame \/ GetResponse \/ StopGenerator \/ GeneratorEnds \/ Unblock \/ StopSpinning
           \/ UNCHANGED vars
  PROVE  IInv'
<1>1. UNCHANGED <<config, image, server, entries, resolved, queue, running, at, relayed, lost>>
  BY DEF SendFrame, GetResponse, StopGenerator, GeneratorEnds, Unblock, StopSpinning, vars,
         serverVars, mapVars, graphVars, generatorVars
<1>2. Received' = Received /\ Running' = Running
      /\ Elements(queue)' = Elements(queue) /\ Elements(relayed)' = Elements(relayed)
  BY <1>1 DEF Received, Running
<1>3. /\ {stepping, blocking, spinning}' \subseteq BOOLEAN
      /\ generator' \in {"head", "waiting", "done"}
  <2>1. {stepping, blocking, spinning} \subseteq BOOLEAN
        /\ generator \in {"head", "waiting", "done"}
    BY DEF IInv, TypeOK
  <2>2. /\ stepping' = stepping \/ stepping' = FALSE
        /\ blocking' = blocking \/ blocking' = FALSE
        /\ spinning' = spinning \/ spinning' = FALSE
        /\ generator' \in {generator, "head", "waiting", "done"}
    BY DEF SendFrame, GetResponse, StopGenerator, GeneratorEnds, Unblock, StopSpinning, vars,
           serverVars, generatorVars
  <2> QED BY <2>1, <2>2, Zenon
<1>4. \/ /\ next \in Frames /\ goal[next] = "unsent"
         /\ goal' = [goal EXCEPT ![next] = "sent"] /\ generator' = "waiting" /\ next' = next
      \/ /\ generator = "waiting" /\ goal[next] \notin {"sent", "received"}
         /\ goal' = goal /\ next' = next + 1 /\ generator' = "head"
      \/ /\ goal' = goal /\ next' = next
         /\ generator' = "waiting" <=> generator = "waiting"
  <2>1. CASE SendFrame
    <3>1. next \in Frames /\ generator # "waiting"
      BY <2>1 DEF SendFrame, IInv, TypeOK, Frames
    <3>2. goal[next] = "unsent"
      BY <3>1 DEF IInv, GeneratorInv
    <3> QED BY <2>1, <3>1, <3>2 DEF SendFrame
  <2>2. CASE GetResponse
    BY <2>2 DEF GetResponse
  <2>3. CASE StopGenerator \/ GeneratorEnds \/ Unblock \/ StopSpinning \/ UNCHANGED vars
    BY <2>3 DEF StopGenerator, GeneratorEnds, Unblock, StopSpinning, vars, generatorVars
  <2> QED BY <2>1, <2>2, <2>3
<1>5. /\ next \in 1 .. MaxFrames + 1 /\ MaxFrames \in Nat
      /\ goal \in [Frames -> {"unsent", "sent", "received", "rejected", "executing",
                              "canceling", "succeeded", "lost"}]
  BY BoundAssumption DEF IInv, TypeOK
<1>6. TypeOK'
  <2>1. next' \in 1 .. MaxFrames + 1
    BY <1>4, <1>5 DEF IInv, GeneratorInv, Frames
  <2>2. goal' \in [Frames -> {"unsent", "sent", "received", "rejected", "executing",
                              "canceling", "succeeded", "lost"}]
    BY <1>4, <1>5
  <2> QED BY <1>1, <1>3, <2>1, <2>2 DEF IInv, TypeOK
<1>7. GeneratorInv'
  BY <1>4, <1>5 DEF IInv, GeneratorInv, Frames
<1>8. \A n \in Frames : goal'[n] = goal[n] \/ (goal[n] = "unsent" /\ goal'[n] = "sent")
  BY <1>4, <1>5
<1>9. ServerInv'
  BY <1>1, <1>2, <1>4, <1>5, SetFacts DEF IInv, ServerInv, TypeOK
<1>10. OrderInv'
  BY <1>1, <1>2 DEF IInv, OrderInv
<1>11. EntryInv'
  BY <1>1, <1>2, <1>8, SinkStays DEF IInv, EntryInv, TypeOK
<1>12. TruthInv'
  BY <1>1, <1>2, <1>8, SinkStays DEF IInv, TruthInv
<1> QED BY <1>6, <1>7, <1>9, <1>10, <1>11, <1>12 DEF IInv

-----------------------------------------------------------------------------
(* Lost messages and cancel requests. *)
LEMMA LossKeeps ==
  ASSUME IInv, RequestLost \/ ResponseLost \/ OnGoalCanceled
  PROVE  IInv'
<1>1. /\ UNCHANGED <<config, stepping, generator, next, image, blocking, spinning, resolved,
                     queue, running, at, relayed>>
      /\ entries' \subseteq entries
  BY DEF RequestLost, ResponseLost, OnGoalCanceled, serverVars, mapVars, graphVars,
         generatorVars
<1>2. Received' = Received /\ Running' = Running
      /\ Elements(queue)' = Elements(queue) /\ Elements(relayed)' = Elements(relayed)
  BY <1>1 DEF Received, Running
<1>3. PICK n \in Frames :
        \/ /\ goal[n] = "sent" /\ lost' = lost \cup {n} /\ server' = server
           /\ goal' = [goal EXCEPT ![n] = "lost"] /\ entries' = entries
        \/ /\ n = server.goal /\ server.at \in {"accept", "reject"} /\ lost' = lost \cup {n}
           /\ goal' = [goal EXCEPT ![n] = "lost"] /\ entries' = entries
           /\ server' = [goal |-> None, at |-> "idle"]
        \/ /\ goal[n] = "executing" /\ lost' = lost
           /\ server = [goal |-> None, at |-> "idle"] /\ server' = server
           /\ goal' = [goal EXCEPT ![n] = "canceling"] /\ entries' = entries \ {n}
  <2>1. CASE RequestLost
    BY <2>1 DEF RequestLost, serverVars, mapVars
  <2>2. CASE ResponseLost
    <3>1. server.goal \in Frames
      BY <2>2 DEF ResponseLost, IInv, TypeOK, ServerInv
    <3> QED BY <2>2, <3>1 DEF ResponseLost, Idle, mapVars
  <2>3. CASE OnGoalCanceled
    BY <2>3 DEF OnGoalCanceled, Idle, serverVars
  <2> QED BY <2>1, <2>2, <2>3
<1>4. goal[n] \in {"sent", "received", "executing"} /\ n \in Frames
      /\ goal' \in [Frames -> {"lost", "canceling"} \cup {goal[m] : m \in Frames}]
      /\ goal'[n] \in {"lost", "canceling"}
      /\ \A m \in Frames : m # n => goal'[m] = goal[m]
  BY <1>3 DEF IInv, TypeOK, ServerInv
<1>5. TypeOK'
  <2>1. goal' \in [Frames -> {"unsent", "sent", "received", "rejected", "executing",
                              "canceling", "succeeded", "lost"}]
    BY <1>3 DEF IInv, TypeOK
  <2>2. /\ server' \in [goal : Frames \cup {None},
                        at : {"idle", "enqueue", "accept", "reject", "accepted"}]
        /\ entries' \subseteq Frames /\ lost' \subseteq Frames
    BY <1>3 DEF IInv, TypeOK
  <2> QED BY <1>1, <2>1, <2>2 DEF IInv, TypeOK
<1>6. GeneratorInv'
  BY <1>1, <1>4, SetFacts DEF IInv, GeneratorInv
<1>7. ServerInv'
  <2>1. \A m \in Received' \cup resolved' \cup entries' : goal'[m] \notin {"unsent", "sent"}
    BY <1>1, <1>2, <1>4, SetFacts DEF IInv, ServerInv, TypeOK
  <2>2. /\ server'.at = "idle" <=> server'.goal = None
        /\ server'.at \in {"enqueue", "accept", "reject"} => goal'[server'.goal] = "received"
        /\ server'.at = "accepted" => goal'[server'.goal] = "executing"
        /\ server'.goal \notin resolved
        /\ server'.at = "enqueue" => server'.goal \notin Received
    BY <1>3, <1>4, SetFacts DEF IInv, ServerInv, TypeOK
  <2> QED BY <1>1, <1>2, <2>1, <2>2 DEF IInv, ServerInv
<1>8. OrderInv'
  <2>1. server' = server \/ server'.at = "idle"
    BY <1>3
  <2>2. config.sink = "sync" => /\ queue' = <<>> /\ running' = None
                                /\ server'.at # "idle" =>
                                     Below(Elements(relayed), {server'.goal})
    BY <1>1, <2>1 DEF IInv, OrderInv
  <2> QED BY <1>1, <1>2, <2>2 DEF IInv, OrderInv
<1>9. EntryInv'
  <2>1. \A m \in entries' \ lost' :
          m = server'.goal \/ m = running \/ (goal'[m] = "executing" /\ m \in Elements(queue))
    <3> SUFFICES ASSUME NEW m \in entries' \ lost'
                 PROVE  \/ m = server'.goal \/ m = running
                        \/ goal'[m] = "executing" /\ m \in Elements(queue)
      OBVIOUS
    <3>1. m \in Frames /\ m \in entries \ lost /\ m # n /\ m # None
      BY <1>1, <1>3, SetFacts DEF IInv, TypeOK, ServerInv
    <3> QED BY <1>3, <1>4, <3>1 DEF IInv, EntryInv
  <2>2. /\ server'.at = "reject" => server'.goal \notin entries
        /\ server'.at \in {"accept", "accepted"} /\ config.sink # "sync" =>
             server'.goal \in config.pings \cup Elements(queue) \cup Running
    BY <1>3 DEF IInv, EntryInv
  <2> QED BY <1>1, <1>2, <2>1, <2>2, SinkStays DEF IInv, EntryInv
<1>10. TruthInv'
  BY <1>1, <1>2, <1>4, SinkStays DEF IInv, TruthInv
<1> QED BY <1>5, <1>6, <1>7, <1>8, <1>9, <1>10 DEF IInv

-----------------------------------------------------------------------------
(* The callbacks of the sink. *)
LEMMA ReceiveKeeps ==
  ASSUME IInv, OnGoalReceived
  PROVE  IInv'
<1>1. /\ UNCHANGED <<config, stepping, generator, next, image, spinning, resolved, queue,
                     running, at, relayed, lost>>
      /\ server = [goal |-> None, at |-> "idle"]
  BY DEF OnGoalReceived, graphVars, generatorVars, Idle
<1>2. Received' = Received /\ Running' = Running
      /\ Elements(queue)' = Elements(queue) /\ Elements(relayed)' = Elements(relayed)
  BY <1>1 DEF Received, Running
<1>3. PICK n \in Frames :
        /\ goal[n] = "sent" /\ goal' = [goal EXCEPT ![n] = "received"]
        /\ \/ /\ n \in config.pings /\ server' = [goal |-> n, at |-> "accept"]
              /\ blocking' = blocking /\ entries' = entries
           \/ /\ blocking' \in {blocking} \cup BOOLEAN /\ entries' = entries
              /\ server' = [goal |-> n, at |-> "reject"]
           \/ /\ blocking' \in {blocking} \cup BOOLEAN /\ n \notin config.pings
              /\ server' = [goal |-> n, at |-> "enqueue"]
              /\ entries' = IF IsPublisher THEN entries \cup {n} ELSE entries
  BY DEF OnGoalReceived, Goes
<1>4. /\ n = next /\ n \in Nat
      /\ \A m \in Received \cup resolved \cup entries : m \in Frames /\ m <= n /\ m # n
  BY <1>3, ServerIsLast, SetFacts DEF IInv
<1>5. /\ goal'[n] = "received"
      /\ \A m \in Frames : m # n => goal'[m] = goal[m]
      /\ server'.goal = n /\ server'.at \in {"accept", "reject", "enqueue"} /\ n # None
  BY <1>3, SetFacts DEF IInv, TypeOK
<1>6. TypeOK'
  <2>1. {stepping, blocking, spinning}' \subseteq BOOLEAN
    BY <1>1, <1>3 DEF IInv, TypeOK
  <2>2. goal' \in [Frames -> {"unsent", "sent", "received", "rejected", "executing",
                              "canceling", "succeeded", "lost"}]
    BY <1>3 DEF IInv, TypeOK
  <2>3. /\ server' \in [goal : Frames \cup {None},
                        at : {"idle", "enqueue", "accept", "reject", "accepted"}]
        /\ entries' \subseteq Frames
    BY <1>3 DEF IInv, TypeOK
  <2> QED BY <1>1, <2>1, <2>2, <2>3 DEF IInv, TypeOK
<1>7. GeneratorInv'
  BY <1>1, <1>3, <1>4, <1>5, SetFacts DEF IInv, GeneratorInv
<1>8. ServerInv'
  <2>1. \A m \in Received' \cup resolved' \cup entries' : goal'[m] \notin {"unsent", "sent"}
    BY <1>1, <1>2, <1>3, <1>4, <1>5 DEF IInv, ServerInv
  <2>2. n \notin resolved /\ n \notin Received
    BY <1>4
  <2> QED BY <1>1, <1>2, <1>5, <2>1, <2>2 DEF IInv, ServerInv
<1>9. OrderInv'
  <2>1. ASSUME NEW m \in Received PROVE m < n
    <3>1. m \in Frames /\ m <= n /\ m # n
      BY <1>4
    <3>2. m \in Nat /\ n \in Nat
      BY <1>4, <3>1, SetFacts DEF IInv
    <3> QED BY <3>1, <3>2
  <2>2. Below(Elements(relayed), {n})
    BY <2>1 DEF Below, Received
  <2> QED BY <1>1, <1>2, <1>5, <2>2 DEF IInv, OrderInv
<1>10. EntryInv'
  <2>1. \A m \in entries' \ lost' :
          m = server'.goal \/ m = running \/ (goal'[m] = "executing" /\ m \in Elements(queue))
    <3> SUFFICES ASSUME NEW m \in entries' \ lost', m # n
                 PROVE  m = running \/ (goal'[m] = "executing" /\ m \in Elements(queue))
      BY <1>5
    <3>1. m \in Frames /\ m \in entries \ lost /\ m # None
      BY <1>1, <1>3, <1>4, SetFacts DEF IInv
    <3> QED BY <1>1, <1>5, <3>1 DEF IInv, EntryInv
  <2>2. /\ entries' \cap config.pings = {} /\ (~IsPublisher => entries' = {})
        /\ server'.at = "reject" => server'.goal \notin entries'
        /\ server'.at \in {"accept", "accepted"} => server'.goal \in config.pings
    BY <1>3, <1>4 DEF IInv, EntryInv
  <2> QED BY <1>1, <1>2, <2>1, <2>2, SinkStays DEF IInv, EntryInv
<1>11. TruthInv'
  BY <1>1, <1>2, <1>5, SinkStays DEF IInv, TruthInv
<1> QED BY <1>6, <1>7, <1>8, <1>9, <1>10, <1>11 DEF IInv

LEMMA EnqueueKeeps ==
  ASSUME IInv, TryEnqueueGoal
  PROVE  IInv'
<1> DEFINE n == server.goal
<1>1. /\ UNCHANGED <<config, stepping, generator, next, image, goal, blocking, spinning,
                     resolved, running, at, relayed, lost>>
      /\ server.at = "enqueue"
  BY DEF TryEnqueueGoal, generatorVars
<1>2. /\ n \in Frames /\ n # None /\ goal[n] = "received" /\ n \notin Received
      /\ n \notin resolved
  BY <1>1, SetFacts DEF IInv, ServerInv, TypeOK
<1>3. \/ /\ server' = [goal |-> n, at |-> "accept"] /\ config.sink = "sync"
         /\ entries' = entries /\ queue' = queue
      \/ /\ server' = [goal |-> n, at |-> "accept"] /\ config.sink # "sync"
         /\ entries' = entries /\ queue' = Append(queue, n) /\ Len(queue) < config.capacity
      \/ /\ server' = [goal |-> n, at |-> "reject"]
         /\ entries' = entries \ {n} /\ queue' = queue
  BY DEF TryEnqueueGoal, Goes, HasRoom
<1> HIDE DEF n
<1>4. server'.goal = n /\ server'.at \in {"accept", "reject"}
  BY <1>3
<1>5. \A m \in Received : m \in Frames /\ m < n
  BY <1>2, ServerIsLast, SetFacts DEF IInv
<1>6. /\ queue \in Seq(Frames) /\ Len(queue) \in Nat /\ config.capacity \in Nat
      /\ Increasing(queue)
  BY SetFacts DEF IInv, TypeOK, OrderInv
<1>7. /\ queue' \in Seq(Frames) /\ Len(queue') <= config.capacity
      /\ Elements(queue') \in {Elements(queue), Elements(queue) \cup {n}}
      /\ queue' # queue => n \in Elements(queue') /\ config.sink # "sync"
      /\ Increasing(queue')
  <2>1. CASE queue' = queue
    BY <1>6, <2>1 DEF IInv, TypeOK
  <2>2. CASE queue' = Append(queue, n) /\ config.sink # "sync" /\ Len(queue) < config.capacity
    <3>1. Below(Elements(queue), {n})
      BY <1>5 DEF Below, Received
    <3>2. /\ queue' \in Seq(Frames) /\ Elements(queue') = Elements(queue) \cup {n}
          /\ Increasing(queue')
      BY <1>2, <1>6, <2>2, <3>1, AppendToIncreasing
    <3>3. Len(queue') <= config.capacity
      BY <1>2, <1>6, <2>2
    <3> QED BY <2>2, <3>2, <3>3
  <2> QED BY <1>3, <2>1, <2>2
<1>8. Received' \subseteq Received \cup {n} /\ Running' = Running
      /\ Elements(relayed)' = Elements(relayed)
  BY <1>1, <1>7 DEF Received, Running
<1>9. TypeOK'
  <2>1. /\ server' \in [goal : Frames \cup {None},
                        at : {"idle", "enqueue", "accept", "reject", "accepted"}]
        /\ entries' \subseteq Frames
    BY <1>2, <1>3 DEF IInv, TypeOK
  <2> QED BY <1>1, <1>7, <2>1 DEF IInv, TypeOK
<1>10. GeneratorInv'
  BY <1>1 DEF IInv, GeneratorInv
<1>11. ServerInv'
  <2>1. \A m \in Received' \cup resolved' \cup entries' : goal'[m] \notin {"unsent", "sent"}
    BY <1>1, <1>2, <1>3, <1>8 DEF IInv, ServerInv
  <2> QED BY <1>1, <1>2, <1>4, <2>1 DEF IInv, ServerInv
<1>12. OrderInv'
  <2>1. Below(Elements(relayed) \cup Running, Elements(queue'))
    BY <1>5, <1>7 DEF IInv, OrderInv, Below, Received
  <2>2. config.sink = "sync" => queue' = <<>> /\ Below(Elements(relayed), {n})
    BY <1>5, <1>7 DEF IInv, OrderInv, Below, Received
  <2> QED BY <1>1, <1>4, <1>7, <1>8, <2>1, <2>2 DEF IInv, OrderInv
<1>13. EntryInv'
  <2>1. server'.at \in {"accept", "accepted"} /\ config.sink # "sync" =>
          server'.goal \in Elements(queue')
    <3>1. CASE queue' = Append(queue, n)
      BY <1>2, <1>4, <1>6, <3>1, AppendToIncreasing
    <3>2. CASE server'.at = "reject" \/ config.sink = "sync"
      BY <3>2
    <3> QED BY <1>3, <3>1, <3>2
  <2>2. /\ entries' \subseteq entries /\ (server'.at = "reject" => n \notin entries')
    BY <1>3
  <2>3. Elements(queue) \subseteq Elements(queue')
    BY <1>7
  <2>4. \A m \in entries' \ lost' :
          m = n \/ m = running \/ (goal[m] = "executing" /\ m \in Elements(queue'))
    BY <1>1, <2>2, <2>3 DEF IInv, EntryInv, n
  <2> QED BY <1>1, <1>4, <2>1, <2>2, <2>4, SinkStays DEF IInv, EntryInv
<1>14. TruthInv'
  BY <1>1, <1>8, SinkStays DEF IInv, TruthInv
<1> QED BY <1>9, <1>10, <1>11, <1>12, <1>13, <1>14 DEF IInv

(* What a sink publishes, and what it therefore may say succeeded. *)
LEMMA RelayFacts ==
  ASSUME IInv, NEW n \in Frames, Relay(n), Below(Elements(relayed), {n})
  PROVE  /\ relayed' \in Seq(Frames) /\ Increasing(relayed')
         /\ Elements(relayed) \subseteq Elements(relayed')
         /\ Elements(relayed') \subseteq Elements(relayed) \cup {n}
         /\ MayRelay(n) = {TRUE} => n \in Elements(relayed')
<1>1. PICK relays \in MayRelay(n) : relayed' = IF relays THEN Append(relayed, n) ELSE relayed
  BY DEF Relay
<1>2. relayed \in Seq(Frames) /\ Increasing(relayed)
  BY DEF IInv, TypeOK, OrderInv
<1>3. /\ Append(relayed, n) \in Seq(Frames) /\ Increasing(Append(relayed, n))
      /\ Elements(Append(relayed, n)) = Elements(relayed) \cup {n}
  BY <1>2, AppendToIncreasing
<1>4. ASSUME MayRelay(n) = {TRUE}
      PROVE  relayed' = Append(relayed, n)
  <2>1. relays = TRUE
    BY <1>4, Zenon
  <2> QED BY <1>1, <2>1, Zenon
<1>5. relayed' = Append(relayed, n) \/ relayed' = relayed
  BY <1>1, Zenon
<1> QED BY <1>2, <1>3, <1>4, <1>5

LEMMA RespondKeeps ==
  ASSUME IInv, Respond \/ OnGoalAccepted
  PROVE  IInv'
<1> DEFINE n == server.goal
<1>1. /\ UNCHANGED <<config, stepping, generator, next, image, blocking, spinning,
                     queue, running, at, lost>>
      /\ server.at \in {"accept", "reject", "accepted"}
  BY DEF Respond, OnGoalAccepted, generatorVars, graphVars
<1>2. /\ n \in Frames /\ n # None /\ n \in Nat
      /\ goal[n] \in {"received", "executing"} /\ n \notin resolved
      /\ running # None /\ at # "payload" => running # n
  BY <1>1, SetFacts DEF IInv, ServerInv, TypeOK
<1>3. \/ /\ server.at = "accept" /\ server' = [goal |-> n, at |-> "accepted"]
         /\ goal' = [goal EXCEPT ![n] = "executing"]
         /\ UNCHANGED <<entries, resolved, relayed>>
      \/ /\ server.at = "reject" /\ server' = [goal |-> None, at |-> "idle"]
         /\ goal' = [goal EXCEPT ![n] = "rejected"]
         /\ UNCHANGED <<entries, resolved, relayed>>
      \/ /\ server.at = "accepted" /\ server' = [goal |-> None, at |-> "idle"]
         /\ n \in config.pings /\ goal' = [goal EXCEPT ![n] = "succeeded"]
         /\ UNCHANGED <<entries, resolved, relayed>>
      \/ /\ server.at = "accepted" /\ server' = [goal |-> None, at |-> "idle"]
         /\ n \notin config.pings /\ config.sink = "sync" /\ Relay(n)
         /\ goal' = [goal EXCEPT ![n] = "succeeded"]
         /\ resolved' = resolved \cup {n} /\ entries' = entries \ {n}
      \/ /\ server.at = "accepted" /\ server' = [goal |-> None, at |-> "idle"]
         /\ n \notin config.pings /\ config.sink # "sync"
         /\ goal' = goal
         /\ resolved' = resolved \cup {n} /\ UNCHANGED <<entries, relayed>>
  BY <1>1 DEF Respond, OnGoalAccepted, Goes, Idle, Succeed, mapVars
<1> HIDE DEF n
<1>3a. /\ \/ /\ server' = [goal |-> n, at |-> "accepted"] /\ server.at = "accept"
             /\ goal' = [goal EXCEPT ![n] = "executing"] /\ resolved' = resolved
          \/ server' = [goal |-> None, at |-> "idle"]
        /\ entries' \subseteq entries /\ resolved' \subseteq resolved \cup {n}
  BY <1>3
<1>4. /\ \A m \in Frames : m # n => goal'[m] = goal[m]
      /\ goal'[n] \in {"executing", "rejected", "succeeded"}
      /\ goal' \in [Frames -> {"unsent", "sent", "received", "rejected", "executing",
                               "canceling", "succeeded", "lost"}]
  BY <1>2, <1>3 DEF IInv, TypeOK, ServerInv, n
<1>5. /\ relayed' \in Seq(Frames) /\ Increasing(relayed')
      /\ Elements(relayed) \subseteq Elements(relayed')
      /\ Elements(relayed') \subseteq Elements(relayed) \cup {n}
  <2>1. CASE relayed' = relayed
    BY <2>1 DEF IInv, TypeOK, OrderInv
  <2>2. CASE config.sink = "sync" /\ Relay(n)
    <3>1. Below(Elements(relayed), {n})
      BY <1>1, <2>2 DEF IInv, OrderInv, n
    <3> QED BY <1>2, <2>2, <3>1, RelayFacts
  <2> QED BY <1>3, <2>1, <2>2
<1>6. relayed' # relayed => config.sink = "sync"
  BY <1>3
<1>7. Received' \subseteq Received \cup {n} /\ Running' = Running
      /\ Elements(queue)' = Elements(queue)
  BY <1>1, <1>5 DEF Received, Running
<1>8. TypeOK'
  <2>1. /\ server' \in [goal : Frames \cup {None},
                        at : {"idle", "enqueue", "accept", "reject", "accepted"}]
    BY <1>2, <1>3a
  <2>2. entries' \subseteq Frames /\ resolved' \subseteq Frames
    BY <1>2, <1>3a DEF IInv, TypeOK
  <2> QED BY <1>1, <1>4, <1>5, <2>1, <2>2 DEF IInv, TypeOK
<1>9. GeneratorInv'
  BY <1>1, <1>2, <1>4, SetFacts DEF IInv, GeneratorInv
<1>10. ServerInv'
  <2>1. resolved' \subseteq resolved \cup {n} /\ entries' \subseteq entries
    BY <1>3
  <2>2. ASSUME NEW m \in Received' \cup resolved' \cup entries'
        PROVE  goal'[m] \notin {"unsent", "sent"}
    <3>1. CASE m = n
      BY <1>4, <3>1
    <3>2. CASE m # n
      <4>1. m \in Received \cup resolved \cup entries /\ m \in Frames
        BY <1>7, <2>1, <3>2, SetFacts DEF IInv, TypeOK
      <4> QED BY <1>4, <3>2, <4>1 DEF IInv, ServerInv
    <3> QED BY <3>1, <3>2
  <2>3. /\ server'.at = "idle" <=> server'.goal = None
        /\ server'.at \in {"idle", "accepted"}
        /\ server'.at = "accepted" => goal'[server'.goal] = "executing"
        /\ server'.goal \notin resolved'
    <3>1. resolved \cup {n} \subseteq Frames /\ None \notin Frames
      BY <1>2, SetFacts DEF IInv, TypeOK
    <3>2. goal \in [Frames -> {"unsent", "sent", "received", "rejected", "executing",
                              "canceling", "succeeded", "lost"}]
      BY DEF IInv, TypeOK
    <3> QED BY <1>2, <1>3a, <3>1, <3>2
  <2>4. running # None /\ at # "payload" => running \in resolved'
    BY <1>3 DEF IInv, ServerInv
  <2> QED BY <1>1, <2>2, <2>3, <2>4 DEF ServerInv
<1>11. OrderInv'
  <2>1. CASE relayed' = relayed
    <3>1. config.sink = "sync" /\ server'.at # "idle" =>
            Below(Elements(relayed), {server'.goal})
      <4>1. server'.at # "idle" => server'.goal = n
        BY <1>3a
      <4>2. config.sink = "sync" => Below(Elements(relayed), {n})
        BY <1>1 DEF IInv, OrderInv, n
      <4> QED BY <4>1, <4>2
    <3> QED BY <1>1, <1>7, <2>1, <3>1 DEF IInv, OrderInv
  <2>2. CASE relayed' # relayed
    <3>1. config.sink = "sync" /\ queue = <<>> /\ Running = {} /\ server'.at = "idle"
      BY <1>3, <1>6, <2>2 DEF IInv, OrderInv, Running
    <3> QED BY <1>1, <1>5, <1>7, <3>1, EmptyIncreasing DEF IInv, OrderInv, Below
  <2> QED BY <2>1, <2>2
<1>12. EntryInv'
  <2>1. /\ entries' \subseteq entries
        /\ server'.at \in {"accepted", "idle"} /\ server'.goal \in {n, None}
        /\ server'.at = "accepted" => server.at = "accept" /\ server'.goal = n
    BY <1>3
  <2>2. server'.at \in {"accept", "accepted"} /\ config.sink # "sync" =>
          server'.goal \in config.pings \cup Elements(queue) \cup Running
    BY <2>1 DEF IInv, EntryInv, n
  <2>3. ASSUME NEW m \in entries' \ lost', m # server'.goal, m # running
        PROVE  goal'[m] = "executing" /\ m \in Elements(queue)
    <3>1. m \in entries /\ m \notin lost /\ m \in Frames /\ m \notin config.pings
      BY <1>1, <2>1 DEF IInv, EntryInv, TypeOK
    <3>2. CASE m # n
      BY <1>4, <2>3, <3>1, <3>2 DEF IInv, EntryInv, n
    <3>3. CASE m = n
      <4>1. server.at = "accepted" /\ config.sink # "sync" /\ goal' = goal
        BY <1>2, <1>3, <2>3, <3>1, <3>3 DEF IInv, EntryInv, n
      <4> QED BY <2>3, <3>1, <3>3, <4>1 DEF IInv, EntryInv, ServerInv, Running, n
    <3> QED BY <3>2, <3>3
  <2> QED BY <1>1, <1>7, <2>1, <2>2, <2>3, SinkStays DEF IInv, EntryInv
<1>13. TruthInv'
  <2>1. ASSUME NEW m \in Frames \ config.pings, goal'[m] = "succeeded", MayRelay(m) = {TRUE}
        PROVE  m \in Elements(relayed')
    <3>1. CASE m # n
      BY <1>4, <1>5, <2>1, <3>1 DEF IInv, TruthInv
    <3>2. CASE m = n
      <4>1. config.sink = "sync" /\ Relay(n)
        <5>1. goal[n] # "succeeded" /\ n \in DOMAIN goal
          BY <1>2 DEF IInv, TypeOK
        <5>2. n \notin config.pings /\ goal'[n] = "succeeded"
          BY <2>1, <3>2
        <5> QED BY <1>3, <5>1, <5>2
      <4>2. Below(Elements(relayed), {n})
        BY <1>1, <4>1 DEF IInv, OrderInv, n
      <4> QED BY <1>2, <2>1, <3>2, <4>1, <4>2, RelayFacts
    <3> QED BY <3>1, <3>2
  <2> QED BY <1>1, <1>5, <2>1, SinkStays DEF IInv, TruthInv
<1> QED BY <1>8, <1>9, <1>10, <1>11, <1>12, <1>13 DEF IInv

-----------------------------------------------------------------------------
(* The graph of a publisher and the step thread of a node. *)
LEMMA BeginKeeps ==
  ASSUME IInv, GraphBegins \/ NodePops
  PROVE  IInv'
<1> DEFINE n == Head(queue)
<1>1. /\ UNCHANGED <<config, stepping, generator, next, image, goal, server, blocking, spinning,
                     entries, resolved, relayed, lost>>
      /\ running = None /\ queue # <<>> /\ config.sink # "sync"
      /\ running' = n /\ queue' = Tail(queue) /\ at' = "payload"
  BY DEF GraphBegins, NodePops, Begin, generatorVars, serverVars, mapVars, Nodes
<1>2. queue \in Seq(Frames) /\ Increasing(queue) /\ Len(queue) <= config.capacity
      /\ Len(queue) \in Nat /\ config.capacity \in Nat
  BY SetFacts DEF IInv, TypeOK, OrderInv
<1>3. /\ queue' \in Seq(Frames) /\ n \in Frames /\ Len(queue') = Len(queue) - 1
      /\ Increasing(queue') /\ Elements(queue) = Elements(queue') \cup {n}
      /\ Below({n}, Elements(queue'))
  BY <1>1, <1>2, HeadOfIncreasing
<1> HIDE DEF n
<1>4. n # None /\ Running = {} /\ Running' = {n} /\ Elements(relayed)' = Elements(relayed)
      /\ Received' = Received
  BY <1>1, <1>3, SetFacts DEF IInv, Running, Received
<1>5. TypeOK'
  <2>1. Len(queue') <= config.capacity
    BY <1>2, <1>3
  <2> QED BY <1>1, <1>3, <2>1 DEF IInv, TypeOK
<1>6. GeneratorInv' /\ ServerInv'
  BY <1>1, <1>4 DEF IInv, GeneratorInv, ServerInv
<1>7. OrderInv'
  <2>1. Below(Elements(relayed), {n}) /\ Below(Elements(relayed), Elements(queue'))
    BY <1>3 DEF IInv, OrderInv, Below
  <2>2. Below(Elements(relayed) \cup {n}, Elements(queue'))
    BY <1>3, <2>1 DEF Below
  <2> QED BY <1>1, <1>3, <1>4, <2>1, <2>2 DEF IInv, OrderInv
<1>8. EntryInv'
  BY <1>1, <1>3, <1>4, SetFacts, SinkStays DEF IInv, EntryInv, TypeOK
<1>9. TruthInv'
  BY <1>1, <1>4, SinkStays DEF IInv, TruthInv
<1> QED BY <1>5, <1>6, <1>7, <1>8, <1>9 DEF IInv

LEMMA DeliverKeeps ==
  ASSUME IInv, DeliverFrame \/ NodeRelays
  PROVE  IInv'
<1>1. /\ UNCHANGED <<config, stepping, generator, next, image, goal, server, blocking, spinning,
                     entries, resolved, queue, running, lost>>
      /\ running \in resolved /\ at = "payload" /\ at' = "answer" /\ Relay(running)
      /\ config.sink # "sync"
  BY DEF DeliverFrame, NodeRelays, generatorVars, serverVars, mapVars, Nodes
<1>2. running \in Frames /\ Running = {running}
  BY <1>1, SetFacts DEF IInv, TypeOK, Running
<1>3. /\ relayed' \in Seq(Frames) /\ Increasing(relayed')
      /\ Elements(relayed) \subseteq Elements(relayed')
      /\ Elements(relayed') \subseteq Elements(relayed) \cup {running}
      /\ MayRelay(running) = {TRUE} => running \in Elements(relayed')
  <2>1. Below(Elements(relayed), {running})
    BY <1>1, <1>2 DEF IInv, OrderInv
  <2> QED BY <1>1, <1>2, <2>1, RelayFacts
<1>4. Received' = Received /\ Running' = Running /\ Elements(queue)' = Elements(queue)
  BY <1>1, <1>2, <1>3 DEF Received, Running
<1>5. TypeOK'
  BY <1>1, <1>3 DEF IInv, TypeOK
<1>6. GeneratorInv' /\ ServerInv'
  BY <1>1, <1>4 DEF IInv, GeneratorInv, ServerInv
<1>7. OrderInv'
  <2>1. Below(Elements(relayed') \cup Running, Elements(queue))
    BY <1>2, <1>3 DEF IInv, OrderInv, Below
  <2> QED BY <1>1, <1>3, <1>4, <2>1 DEF IInv, OrderInv
<1>8. EntryInv'
  BY <1>1, <1>4, SinkStays DEF IInv, EntryInv
<1>9. TruthInv'
  BY <1>1, <1>3, SinkStays DEF IInv, TruthInv
<1> QED BY <1>5, <1>6, <1>7, <1>8, <1>9 DEF IInv

LEMMA AnswerKeeps ==
  ASSUME IInv, DeliverResult \/ EraseEntry \/ NodeAnswers
  PROVE  IInv'
<1>1. /\ UNCHANGED <<config, stepping, generator, next, image, server, blocking, spinning,
                     resolved, queue, relayed, lost>>
      /\ running # None /\ at \in {"answer", "erase"} /\ config.sink # "sync"
  BY DEF DeliverResult, EraseEntry, NodeAnswers, generatorVars, serverVars, Nodes, mapVars
<1>2. /\ running \in Frames /\ running \in resolved /\ running # server.goal
      /\ goal[running] \notin {"unsent", "sent"} /\ Running = {running}
  BY <1>1 DEF IInv, ServerInv, TypeOK, Running
<1>3. \/ /\ goal' = [goal EXCEPT ![running] = "succeeded"] /\ at' = "erase"
         /\ running' = running /\ entries' = entries
      \/ /\ goal' = goal /\ at' = "payload" /\ running' = None
         /\ entries' = entries \ {running}
      \/ /\ goal' = [goal EXCEPT ![running] = "succeeded"] /\ at' = "payload"
         /\ running' = None /\ entries' = entries /\ ~IsPublisher
  BY DEF DeliverResult, EraseEntry, NodeAnswers, Succeed, mapVars, IsPublisher, Publishers, Nodes
<1>4. /\ \A m \in Frames : m # running => goal'[m] = goal[m]
      /\ goal'[running] \notin {"unsent", "sent"}
      /\ goal'[running] = goal[running] \/ goal'[running] = "succeeded"
      /\ goal' \in [Frames -> {"unsent", "sent", "received", "rejected", "executing",
                               "canceling", "succeeded", "lost"}]
  <2>1. goal \in [Frames -> {"unsent", "sent", "received", "rejected", "executing",
                             "canceling", "succeeded", "lost"}]
    BY DEF IInv, TypeOK
  <2> QED BY <1>2, <1>3, <2>1
<1>5. /\ Elements(queue)' = Elements(queue) /\ Elements(relayed)' = Elements(relayed)
      /\ Running' \subseteq Running /\ Received' \subseteq Received /\ entries' \subseteq entries
  BY <1>1, <1>3 DEF Running, Received
<1>6. TypeOK'
  BY <1>1, <1>3, <1>4 DEF IInv, TypeOK
<1>7. GeneratorInv'
  <2>1. ASSUME goal'[running] # goal[running]
        PROVE  running <= next /\ (running = next => generator = "waiting")
    BY <1>2, SetFacts DEF IInv, GeneratorInv
  <2> QED BY <1>1, <1>2, <1>4, <2>1, SetFacts DEF IInv, GeneratorInv
<1>8. ServerInv'
  <2>1. \A m \in Received' \cup resolved' \cup entries' : goal'[m] \notin {"unsent", "sent"}
    BY <1>1, <1>4, <1>5, SetFacts DEF IInv, ServerInv, TypeOK
  <2>2. server.goal # None => server.goal \in Frames /\ goal'[server.goal] = goal[server.goal]
    BY <1>2, <1>4 DEF IInv, TypeOK
  <2>3. running' # None => running' \in resolved
    BY <1>2, <1>3
  <2> QED BY <1>1, <1>5, <2>1, <2>2, <2>3 DEF IInv, ServerInv
<1>9. OrderInv'
  <2>1. at' = "payload" => Running' = {}
    BY <1>3 DEF Running
  <2>2. /\ Below(Elements(relayed) \cup Running', Elements(queue))
        /\ at' = "payload" => Below(Elements(relayed), Running')
    BY <1>5, <2>1 DEF IInv, OrderInv, Below
  <2> QED BY <1>1, <1>5, <2>2 DEF IInv, OrderInv
<1>10. EntryInv'
  <2>1. server.goal \notin Running
    BY <1>2
  <2>2. ASSUME NEW m \in entries' \ lost', m # server.goal, m # running'
        PROVE  goal'[m] = "executing" /\ m \in Elements(queue)
    <3>1. m # running /\ m \in entries /\ m \notin lost /\ m \in Frames
      BY <1>1, <1>3, <2>2 DEF IInv, EntryInv, TypeOK
    <3> QED BY <1>4, <2>2, <3>1 DEF IInv, EntryInv
  <2> QED BY <1>1, <1>5, <2>1, <2>2, SinkStays DEF IInv, EntryInv
<1>11. TruthInv'
  <2>1. MayRelay(running) = {TRUE} => running \in Elements(relayed)
    BY <1>1 DEF IInv, TruthInv
  <2>2. running' = running \/ at' = "payload"
    BY <1>3
  <2> QED BY <1>1, <1>2, <1>4, <1>5, <2>1, <2>2, SinkStays DEF IInv, TruthInv
<1> QED BY <1>6, <1>7, <1>8, <1>9, <1>10, <1>11 DEF IInv

-----------------------------------------------------------------------------
LEMMA Invariance ==
  Spec => []IInv
<1>1. Init => IInv
  BY InitEstablishes
<1>2. IInv /\ [Next]_vars => IInv'
  BY GeneratorKeeps, LossKeeps, ReceiveKeeps, EnqueueKeeps, RespondKeeps, BeginKeeps,
     DeliverKeeps, AnswerKeeps DEF Next
<1> QED BY <1>1, <1>2, PTL DEF Spec

(* Every variable of the generator and the sink stays in its type, and no   *)
(* queue holds more than its capacity.                                      *)
THEOREM TypeCorrect ==
  Spec => []TypeOK
<1>1. IInv => TypeOK
  BY DEF IInv
<1> QED BY <1>1, Invariance, PTL

(* A sink publishes the frames in the order the generator made them and     *)
(* never says SUCCEEDED of one that it still has to publish: by the time    *)
(* the generator has its response, the frame has its place in the queue.    *)
THEOREM FramesKeepOrder ==
  Spec => []RelayedInOrder
<1>1. ASSUME IInv
      PROVE  RelayedInOrder
  <2>1. Increasing(relayed)
    BY <1>1 DEF IInv, OrderInv
  <2>2. \A n \in Frames \ config.pings :
          goal[n] = "succeeded" /\ MayRelay(n) = {TRUE} => n \in Elements(relayed)
    BY <1>1 DEF IInv, TruthInv
  <2> QED BY <2>1, <2>2 DEF RelayedInOrder, Increasing, Elements
<1> QED BY <1>1, Invariance, PTL

(* A goal that was refused, canceled or delivered leaves no entry in        *)
(* m_goal2payload, in whatever order the callbacks and the graph erase it:  *)
(* only a lost response leaves one.                                         *)
THEOREM EntriesAreErased ==
  Spec => []NoEntryIsLeft
<1>1. IInv => NoEntryIsLeft
  BY DEF IInv, EntryInv, NoEntryIsLeft, Elements
<1> QED BY <1>1, Invariance, PTL
=============================================================================
