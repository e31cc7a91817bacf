----------------------- MODULE CallActionDriver_proofs -----------------------
(***************************************************************************)
(* The safety of CallActionDriver for any set of goals and control         *)
(* signals, any refusing hooks, any capacities, and any number of          *)
(* activations and lost answers.                                           *)
(***************************************************************************)
EXTENDS CallActionDriver, TLAPS

(* Which ports are started in each phase, and where the step thread lives. *)
PhaseInv ==
  /\ phase = "inactive" => started = {}
  /\ phase \in {"active", "joining"} => started = {"input"} \cup OutputPorts
  /\ step.at # "none" => phase \in {"active", "joining"}
  /\ "callee" \in started => "output" \in started

UseInv == TypeOK /\ PhaseInv /\ PortsOutliveTheirUsers

-----------------------------------------------------------------------------
(* _stop() comes to the output port only behind the callee port.            *)
LEMMA OutputIsStoppedLast ==
  ASSUME Stopping("output")
  PROVE  "callee" \notin started
<1>1. PICK k \in DOMAIN StopOrder :
        StopOrder[k] = "output" /\ \A j \in 1 .. k - 1 : StopOrder[j] \notin started
  BY DEF Stopping
<1>2. DOMAIN StopOrder = 1 .. 3 /\ StopOrder[1] = "input"
        /\ StopOrder[2] = "callee" /\ StopOrder[3] = "output"
  BY DEF StopOrder
<1>3. k = 3
  BY <1>1, <1>2
<1> QED
  BY <1>1, <1>2, <1>3

LEMMA UseInit == Init => UseInv
<1> SUFFICES ASSUME Init PROVE UseInv
  OBVIOUS
<1> USE GoalAssumption, SizeAssumption DEF Init, Nothing
<1>1. TypeOK
  BY DEF TypeOK, OutputPorts
<1>2. PhaseInv
  BY DEF PhaseInv, OutputPorts
<1>3. PortsOutliveTheirUsers
  BY DEF PortsOutliveTheirUsers, IsBusy, OutputPorts
<1> QED
  BY <1>1, <1>2, <1>3 DEF UseInv

LEMMA UseNext == UseInv /\ [Next]_vars => UseInv'
<1> SUFFICES ASSUME UseInv, [Next]_vars PROVE UseInv'
  OBVIOUS
<1> USE GoalAssumption, SizeAssumption DEF UseInv, OutputPorts, Nothing,
      nodeVars, inputVars, portVars, outcomeVars
<1>1. CASE Activate
  <2>1. TypeOK'
    <3>1. step.at = "none"
      BY <1>1 DEF TypeOK, PhaseInv, Activate
    <3>2. step' = [at |-> "head", goal |-> NoGoal]
      BY <1>1, <3>1 DEF TypeOK, Activate
    <3>3. /\ phase' = "active" /\ started' \subseteq {"input"} \cup OutputPorts
          /\ starts' \in Nat
          /\ step' \in [at : {"none", "head"}, goal : {NoGoal}]
      <4>1. starts \in Nat
        BY DEF TypeOK
      <4>2. phase' = "active" /\ starts' = starts + 1
            /\ started' = {"input"} \cup OutputPorts
        BY <1>1 DEF Activate
      <4>3. step' \in [at : {"none", "head"}, goal : {NoGoal}]
        BY <3>2
      <4> QED
        BY <4>1, <4>2, <4>3
    <3>4. UNCHANGED <<caller, inputVars, portVars, outcomeVars, losses>>
      BY <1>1 DEF Activate
    <3> QED
      BY <3>3, <3>4 DEF TypeOK
  <2>2. PhaseInv'
    BY <1>1 DEF TypeOK, PhaseInv, PortsOutliveTheirUsers, IsBusy, Activate
  <2>3. PortsOutliveTheirUsers'
    BY <1>1 DEF TypeOK, PhaseInv, PortsOutliveTheirUsers, IsBusy, Activate
  <2> QED
    BY <2>1, <2>2, <2>3
<1>2. ASSUME NEW who \in {"executor", "thread"}, Deactivate(who) PROVE UseInv'
  <2>1. TypeOK'
    BY <1>2 DEF TypeOK, Deactivate
  <2>2. PhaseInv'
    BY <1>2 DEF TypeOK, PhaseInv, PortsOutliveTheirUsers, IsBusy, Deactivate
  <2>3. PortsOutliveTheirUsers'
    BY <1>2 DEF TypeOK, PhaseInv, PortsOutliveTheirUsers, IsBusy, Deactivate
  <2> QED
    BY <2>1, <2>2, <2>3
<1>3. CASE Joined
  <2>1. TypeOK'
    BY <1>3 DEF TypeOK, Joined
  <2>2. PhaseInv'
    BY <1>3 DEF TypeOK, PhaseInv, PortsOutliveTheirUsers, IsBusy, Joined
  <2>3. PortsOutliveTheirUsers'
    BY <1>3 DEF TypeOK, PhaseInv, PortsOutliveTheirUsers, IsBusy, Joined
  <2> QED
    BY <2>1, <2>2, <2>3
<1>4. CASE StopInput
  <2>1. TypeOK'
    BY <1>4 DEF TypeOK, StopInput, Stopping
  <2>2. PhaseInv'
    BY <1>4 DEF TypeOK, PhaseInv, PortsOutliveTheirUsers, IsBusy, StopInput, Stopping
  <2>3. PortsOutliveTheirUsers'
    BY <1>4 DEF TypeOK, PhaseInv, PortsOutliveTheirUsers, IsBusy, StopInput, Stopping
  <2> QED
    BY <2>1, <2>2, <2>3
<1>5. ASSUME NEW p \in OutputPorts, StopOutputPort(p) PROVE UseInv'
  <2>1. TypeOK'
    BY <1>5 DEF TypeOK, StopOutputPort, Stopping
  <2>2. PhaseInv'
    BY <1>5, OutputIsStoppedLast DEF TypeOK, PhaseInv, PortsOutliveTheirUsers, IsBusy, StopOutputPort, Stopping
  <2>3. PortsOutliveTheirUsers'
    BY <1>5, OutputIsStoppedLast DEF TypeOK, PhaseInv, PortsOutliveTheirUsers, IsBusy, StopOutputPort, Stopping
  <2> QED
    BY <2>1, <2>2, <2>3
<1>6. CASE Deactivated
  <2>1. TypeOK'
    BY <1>6 DEF TypeOK, Deactivated
  <2>2. PhaseInv'
    BY <1>6 DEF TypeOK, PhaseInv, PortsOutliveTheirUsers, IsBusy, Deactivated
  <2>3. PortsOutliveTheirUsers'
    BY <1>6 DEF TypeOK, PhaseInv, PortsOutliveTheirUsers, IsBusy, Deactivated
  <2> QED
    BY <2>1, <2>2, <2>3
<1>7. ASSUME NEW g \in Goals, ReceiveGoal(g) PROVE UseInv'
  <2>1. TypeOK'
    <3>1. goal' \in [Goals -> {"unsent", "executing", "rejected", "succeeded",
                             "aborted"}]
      <4>1. \/ goal' = [goal EXCEPT ![g] = "executing"]
            \/ goal' = [goal EXCEPT ![g] = "rejected"]
        BY <1>7 DEF ReceiveGoal
      <4> QED
        BY <1>7, <4>1 DEF TypeOK
    <3>2. input' \in Seq(Goals) /\ accepted' \in Seq(Goals)
      <4>1. input \in Seq(Goals) /\ accepted \in Seq(Goals)
        BY DEF TypeOK
      <4>2. \/ input' = Append(input, g) /\ accepted' = Append(accepted, g)
            \/ UNCHANGED <<input, accepted>>
        BY <1>7 DEF ReceiveGoal
      <4>3. Append(input, g) \in Seq(Goals) /\ Append(accepted, g) \in Seq(Goals)
        BY <4>1
      <4> QED
        BY <4>1, <4>2, <4>3
    <3>3. Len(input') <= InputCapacity
      BY <1>7 DEF TypeOK, ReceiveGoal
    <3>4. UNCHANGED <<nodeVars, step, portVars, outcomeVars, losses>>
      BY <1>7 DEF ReceiveGoal
    <3> QED
      BY <3>1, <3>2, <3>3, <3>4 DEF TypeOK
  <2>2. PhaseInv'
    BY <1>7 DEF TypeOK, PhaseInv, PortsOutliveTheirUsers, IsBusy, ReceiveGoal
  <2>3. PortsOutliveTheirUsers'
    BY <1>7 DEF TypeOK, PhaseInv, PortsOutliveTheirUsers, IsBusy, ReceiveGoal
  <2> QED
    BY <2>1, <2>2, <2>3
<1>8. CASE StepEnds
  <2>1. TypeOK'
    BY <1>8 DEF TypeOK, StepEnds
  <2>2. PhaseInv'
    BY <1>8 DEF TypeOK, PhaseInv, PortsOutliveTheirUsers, IsBusy, StepEnds
  <2>3. PortsOutliveTheirUsers'
    BY <1>8 DEF TypeOK, PhaseInv, PortsOutliveTheirUsers, IsBusy, StepEnds
  <2> QED
    BY <2>1, <2>2, <2>3
<1>9. CASE StepPops
  <2>1. TypeOK'
    BY <1>9 DEF TypeOK, StepPops
  <2>2. PhaseInv'
    BY <1>9 DEF TypeOK, PhaseInv, PortsOutliveTheirUsers, IsBusy, StepPops
  <2>3. PortsOutliveTheirUsers'
    BY <1>9 DEF TypeOK, PhaseInv, PortsOutliveTheirUsers, IsBusy, StepPops
  <2> QED
    BY <2>1, <2>2, <2>3
<1>10. CASE StepProcesses
  <2>1. TypeOK'
    <3>1. step.goal \in Goals
      BY <1>10 DEF TypeOK, StepProcesses
    <3>2. CASE step.goal \in BadInputs
      <4>1. goal' = [goal EXCEPT ![step.goal] = "aborted"]
            /\ step' = [at |-> "head", goal |-> NoGoal]
        BY <1>10, <3>2 DEF StepProcesses, Answer
      <4>2. UNCHANGED <<nodeVars, input, accepted, portVars, outcomeVars, losses>>
        BY <1>10 DEF StepProcesses
      <4>3. /\ goal' \in [Goals -> {"unsent", "executing", "rejected",
                                   "succeeded", "aborted"}]
            /\ step' \in [at : {"none", "head"}, goal : {NoGoal}]
        BY <3>1, <4>1 DEF TypeOK
      <4> QED
        BY <4>2, <4>3 DEF TypeOK
    <3>3. CASE step.goal \notin BadInputs
      <4>1. step' = [at |-> "pushing", goal |-> step.goal]
        BY <1>10, <3>3 DEF TypeOK, StepProcesses
      <4> QED
        BY <1>10, <3>1, <3>3, <4>1 DEF TypeOK, StepProcesses
    <3> QED
      BY <3>2, <3>3
  <2>2. PhaseInv'
    BY <1>10 DEF TypeOK, PhaseInv, PortsOutliveTheirUsers, IsBusy, StepProcesses, Answer
  <2>3. PortsOutliveTheirUsers'
    BY <1>10 DEF TypeOK, PhaseInv, PortsOutliveTheirUsers, IsBusy, StepProcesses, Answer
  <2> QED
    BY <2>1, <2>2, <2>3
<1>11. CASE StepPushes
  <2>1. TypeOK'
    BY <1>11 DEF TypeOK, StepPushes, Answer, MayPush, HasRoom, Enqueue
  <2>2. PhaseInv'
    BY <1>11 DEF TypeOK, PhaseInv, PortsOutliveTheirUsers, IsBusy, StepPushes, Answer, MayPush, HasRoom, Enqueue
  <2>3. PortsOutliveTheirUsers'
    BY <1>11 DEF TypeOK, PhaseInv, PortsOutliveTheirUsers, IsBusy, StepPushes, Answer, MayPush, HasRoom, Enqueue
  <2> QED
    BY <2>1, <2>2, <2>3
<1>12. CASE StepDrops
  <2>1. TypeOK'
    BY <1>12 DEF TypeOK, StepDrops, Answer
  <2>2. PhaseInv'
    BY <1>12 DEF TypeOK, PhaseInv, PortsOutliveTheirUsers, IsBusy, StepDrops, Answer
  <2>3. PortsOutliveTheirUsers'
    BY <1>12 DEF TypeOK, PhaseInv, PortsOutliveTheirUsers, IsBusy, StepDrops, Answer
  <2> QED
    BY <2>1, <2>2, <2>3
<1>13. ASSUME NEW p \in OutputPorts, DeliveryBegin(p) PROVE UseInv'
  <2>1. TypeOK'
    <3>1. /\ Head(queue[p]) \in Goals /\ Tail(queue[p]) \in Seq(Goals)
          /\ Len(Tail(queue[p])) = Len(queue[p]) - 1
      BY <1>13 DEF TypeOK, DeliveryBegin
    <3>2. queue' = [queue EXCEPT ![p] = Tail(queue[p])]
          /\ delivery' = [delivery EXCEPT
                            ![p] = [at |-> "sending", goal |-> Head(queue[p])]]
          /\ delivery[p].at = "idle"
      BY <1>13 DEF DeliveryBegin, Delivers
    <3>3. /\ queue' \in [OutputPorts -> Seq(Goals)]
          /\ delivery' \in [OutputPorts -> {Nothing} \cup
               [at : {"sending", "waiting", "responding", "lost"}, goal : Goals]]
      BY <3>1, <3>2 DEF TypeOK
    <3>4. ASSUME NEW q \in OutputPorts
          PROVE  Len(queue'[q]) + (IF delivery'[q].at = "idle" THEN 0 ELSE 1)
                   <= Capacity
      <4>1. CASE q = p
        <5>1. Len(queue'[q]) = Len(queue[q]) - 1 /\ delivery'[q].at = "sending"
          BY <3>1, <3>2, <4>1 DEF TypeOK
        <5>2. Len(queue[q]) <= Capacity /\ Len(queue[q]) \in Nat
          BY <3>2, <4>1 DEF TypeOK
        <5> QED
          BY <5>1, <5>2
      <4>2. CASE q # p
        <5>1. queue'[q] = queue[q] /\ delivery'[q] = delivery[q]
          BY <3>2, <4>2 DEF TypeOK
        <5> QED
          BY <5>1 DEF TypeOK
      <4> QED
        BY <4>1, <4>2
    <3>5. UNCHANGED <<nodeVars, inputVars, step, outcomeVars, losses>>
      BY <1>13 DEF DeliveryBegin
    <3> QED
      BY <3>3, <3>4, <3>5 DEF TypeOK
  <2>2. PhaseInv'
    BY <1>13 DEF TypeOK, PhaseInv, PortsOutliveTheirUsers, IsBusy, DeliveryBegin, Delivers
  <2>3. PortsOutliveTheirUsers'
    BY <1>13 DEF TypeOK, PhaseInv, PortsOutliveTheirUsers, IsBusy, DeliveryBegin, Delivers
  <2> QED
    BY <2>1, <2>2, <2>3
<1>14. ASSUME NEW p \in OutputPorts, GiveUp(p) PROVE UseInv'
  <2>1. TypeOK'
    BY <1>14 DEF TypeOK, GiveUp, Delivers
  <2>2. PhaseInv'
    BY <1>14 DEF TypeOK, PhaseInv, PortsOutliveTheirUsers, IsBusy, GiveUp, Delivers
  <2>3. PortsOutliveTheirUsers'
    BY <1>14 DEF TypeOK, PhaseInv, PortsOutliveTheirUsers, IsBusy, GiveUp, Delivers
  <2> QED
    BY <2>1, <2>2, <2>3
<1>15. CASE CalleeAccepts
  <2>1. TypeOK'
    BY <1>15 DEF TypeOK, CalleeAccepts, Delivers
  <2>2. PhaseInv'
    BY <1>15 DEF TypeOK, PhaseInv, PortsOutliveTheirUsers, IsBusy, CalleeAccepts, Delivers
  <2>3. PortsOutliveTheirUsers'
    BY <1>15 DEF TypeOK, PhaseInv, PortsOutliveTheirUsers, IsBusy, CalleeAccepts, Delivers
  <2> QED
    BY <2>1, <2>2, <2>3
<1>16. CASE DownstreamAccepts
  <2>1. TypeOK'
    BY <1>16 DEF TypeOK, DownstreamAccepts, Delivers
  <2>2. PhaseInv'
    BY <1>16 DEF TypeOK, PhaseInv, PortsOutliveTheirUsers, IsBusy, DownstreamAccepts, Delivers
  <2>3. PortsOutliveTheirUsers'
    BY <1>16 DEF TypeOK, PhaseInv, PortsOutliveTheirUsers, IsBusy, DownstreamAccepts, Delivers
  <2> QED
    BY <2>1, <2>2, <2>3
<1>17. ASSUME NEW p \in OutputPorts, Lose(p) PROVE UseInv'
  <2>1. TypeOK'
    BY <1>17 DEF TypeOK, Lose, Delivers
  <2>2. PhaseInv'
    BY <1>17 DEF TypeOK, PhaseInv, PortsOutliveTheirUsers, IsBusy, Lose, Delivers
  <2>3. PortsOutliveTheirUsers'
    BY <1>17 DEF TypeOK, PhaseInv, PortsOutliveTheirUsers, IsBusy, Lose, Delivers
  <2> QED
    BY <2>1, <2>2, <2>3
<1>18. CASE CalleeSucceeds
  <2>1. TypeOK'
    BY <1>18 DEF TypeOK, CalleeSucceeds, Delivers
  <2>2. PhaseInv'
    BY <1>18 DEF TypeOK, PhaseInv, PortsOutliveTheirUsers, IsBusy, CalleeSucceeds, Delivers
  <2>3. PortsOutliveTheirUsers'
    BY <1>18 DEF TypeOK, PhaseInv, PortsOutliveTheirUsers, IsBusy, CalleeSucceeds, Delivers
  <2> QED
    BY <2>1, <2>2, <2>3
<1>19. CASE CalleeAborts
  <2>1. TypeOK'
    BY <1>19 DEF TypeOK, CalleeAborts, Delivers
  <2>2. PhaseInv'
    BY <1>19 DEF TypeOK, PhaseInv, PortsOutliveTheirUsers, IsBusy, CalleeAborts, Delivers
  <2>3. PortsOutliveTheirUsers'
    BY <1>19 DEF TypeOK, PhaseInv, PortsOutliveTheirUsers, IsBusy, CalleeAborts, Delivers
  <2> QED
    BY <2>1, <2>2, <2>3
<1>20. CASE PushResponse
  <2>1. TypeOK'
    BY <1>20 DEF TypeOK, PushResponse, Delivers, MayPush, HasRoom, Enqueue
  <2>2. PhaseInv'
    BY <1>20 DEF TypeOK, PhaseInv, PortsOutliveTheirUsers, IsBusy, PushResponse, Delivers, MayPush, HasRoom, Enqueue
  <2>3. PortsOutliveTheirUsers'
    BY <1>20 DEF TypeOK, PhaseInv, PortsOutliveTheirUsers, IsBusy, PushResponse, Delivers, MayPush, HasRoom, Enqueue
  <2> QED
    BY <2>1, <2>2, <2>3
<1>21. CASE DropResponse
  <2>1. TypeOK'
    BY <1>21 DEF TypeOK, DropResponse, Delivers
  <2>2. PhaseInv'
    BY <1>21 DEF TypeOK, PhaseInv, PortsOutliveTheirUsers, IsBusy, DropResponse, Delivers
  <2>3. PortsOutliveTheirUsers'
    BY <1>21 DEF TypeOK, PhaseInv, PortsOutliveTheirUsers, IsBusy, DropResponse, Delivers
  <2> QED
    BY <2>1, <2>2, <2>3
<1>22. CASE UNCHANGED vars
  BY <1>22 DEF vars, TypeOK, PhaseInv, PortsOutliveTheirUsers, IsBusy
<1> QED
  BY <1>1, <1>2, <1>3, <1>4, <1>5, <1>6, <1>7, <1>8, <1>9, <1>10, <1>11, <1>12, <1>13, <1>14, <1>15, <1>16, <1>17, <1>18, <1>19, <1>20, <1>21, <1>22
     DEF Next, Deactivating, Stop, Step, CalleeAnswers, CalleeReturns, Respond,
         DownstreamAnswers

-----------------------------------------------------------------------------
(* Every variable of the driver keeps its type, and no queue or delivery    *)
(* graph holds more than its capacity.                                      *)
THEOREM TypeCorrect == Spec => []TypeOK
<1>1. UseInv => TypeOK
  BY DEF UseInv
<1> QED
  BY <1>1, UseInit, UseNext, PTL DEF Spec

(* _stop() never stops a port that the step thread or a delivery under way  *)
(* can still push to, whoever deactivates the node and when.                *)
THEOREM PortsAreStoppedInOrder == Spec => []PortsOutliveTheirUsers
<1>1. UseInv => PortsOutliveTheirUsers
  BY DEF UseInv
<1> QED
  BY <1>1, UseInit, UseNext, PTL DEF Spec

-----------------------------------------------------------------------------
(* The order of goals, from the input port to downstream.                   *)

Elements(s) == {s[k] : k \in DOMAIN s}

(* The sequence `order' has g somewhere before h. *)
Before(order, g, h) ==
  \E m, n \in DOMAIN order : m < n /\ order[m] = g /\ order[n] = h
Precede(order, S, T) == \A g \in S, h \in T : Before(order, g, h)
Sorted(order, s) ==
  \A j, k \in DOMAIN s : j < k => Before(order, s[j], s[k])

Held(d) == IF d.at = "idle" THEN {} ELSE {d.goal}

(* The places a goal passes through, the last one first. *)
Line == <<Elements(received),
          Held(delivery["output"]), Elements(queue["output"]),
          Held(delivery["callee"]), Elements(queue["callee"]),
          IF step.at \in {"processing", "pushing"} THEN {step.goal} ELSE {},
          Elements(input)>>

InOrder(order, line) ==
  \A j, k \in 1 .. 7 : j < k => Precede(order, line[j], line[k])

(* Each queue is in the order of the input port, and whatever is nearer to  *)
(* downstream was accepted earlier.                                         *)
SortedInv ==
  \A s \in {received, queue["output"], queue["callee"], input} :
    Sorted(accepted, s)
LineInv ==
  /\ InOrder(accepted, Line)
  /\ \A k \in 1 .. 7 : Line[k] \subseteq Elements(accepted)
OrderInv == SortedInv /\ LineInv

(* What an accepted goal leaves behind it: the earlier ones are before it.  *)
LEMMA AcceptedGoalIsLast ==
  ASSUME NEW order \in Seq(Goals), NEW g \in Goals
  PROVE  LET longer == Append(order, g)
         IN  /\ Elements(longer) = Elements(order) \cup {g}
             /\ \A x, y : Before(order, x, y) => Before(longer, x, y)
             /\ Precede(longer, Elements(order), {g})
<1> DEFINE longer == Append(order, g)
<1>1. /\ Len(order) \in Nat /\ DOMAIN order = 1 .. Len(order)
      /\ DOMAIN longer = 1 .. Len(order) + 1
      /\ longer[Len(order) + 1] = g
      /\ \A k \in 1 .. Len(order) : longer[k] = order[k]
  OBVIOUS
<1> HIDE DEF longer
<1>2. Elements(longer) = Elements(order) \cup {g}
  <2>1. \A k \in DOMAIN longer : k \in DOMAIN order \/ k = Len(order) + 1
    BY <1>1
  <2>2. \A k \in DOMAIN order : k \in DOMAIN longer /\ longer[k] = order[k]
    BY <1>1
  <2>3. Len(order) + 1 \in DOMAIN longer
    BY <1>1
  <2> QED
    BY <1>1, <2>1, <2>2, <2>3 DEF Elements
<1>3. ASSUME NEW x, NEW y, Before(order, x, y) PROVE Before(longer, x, y)
  BY <1>1, <1>3 DEF Before
<1>4. ASSUME NEW x \in Elements(order) PROVE Before(longer, x, g)
  <2>1. PICK k \in 1 .. Len(order) : order[k] = x
    BY <1>1 DEF Elements
  <2>2. k < Len(order) + 1 /\ k \in DOMAIN longer /\ longer[k] = x
        /\ Len(order) + 1 \in DOMAIN longer
    BY <1>1, <2>1
  <2> QED
    BY <1>1, <2>2 DEF Before
<1> QED
  BY <1>2, <1>3, <1>4 DEF Precede, longer

(* The elements of a sequence are its head and those behind it.             *)
LEMMA ElementsOfTail ==
  ASSUME NEW s \in Seq(Goals), s # <<>>
  PROVE  Elements(s) = Elements(Tail(s)) \cup {Head(s)}
<1>1. /\ Len(s) \in Nat /\ Len(s) > 0
      /\ DOMAIN s = 1 .. Len(s) /\ DOMAIN Tail(s) = 1 .. Len(s) - 1
      /\ \A k \in 1 .. Len(s) - 1 : Tail(s)[k] = s[k + 1]
      /\ Head(s) = s[1]
  OBVIOUS
<1>2. \A k \in DOMAIN s : k = 1 \/ (k - 1 \in DOMAIN Tail(s) /\ Tail(s)[k - 1] = s[k])
  BY <1>1
<1>3. \A k \in DOMAIN Tail(s) : k + 1 \in DOMAIN s /\ Tail(s)[k] = s[k + 1]
  BY <1>1
<1>4. 1 \in DOMAIN s
  BY <1>1
<1>5. ASSUME NEW k \in DOMAIN s PROVE s[k] \in Elements(Tail(s)) \cup {Head(s)}
  <2>1. CASE k = 1
    BY <1>1, <2>1
  <2>2. CASE k - 1 \in DOMAIN Tail(s) /\ Tail(s)[k - 1] = s[k]
    BY <2>2 DEF Elements
  <2> QED
    BY <1>2, <2>1, <2>2
<1>6. Elements(Tail(s)) \cup {Head(s)} \subseteq Elements(s)
  BY <1>1, <1>3, <1>4 DEF Elements
<1> QED
  BY <1>5, <1>6 DEF Elements

LEMMA HeadAndTail ==
  ASSUME NEW order, NEW s \in Seq(Goals), s # <<>>, Sorted(order, s)
  PROVE  /\ Sorted(order, Tail(s))
         /\ Elements(s) = Elements(Tail(s)) \cup {Head(s)}
         /\ Precede(order, {Head(s)}, Elements(Tail(s)))
<1>1. /\ Len(s) \in Nat /\ Len(s) > 0
      /\ DOMAIN s = 1 .. Len(s) /\ DOMAIN Tail(s) = 1 .. Len(s) - 1
      /\ \A k \in 1 .. Len(s) - 1 : Tail(s)[k] = s[k + 1]
      /\ Head(s) = s[1]
  OBVIOUS
<1>2. Sorted(order, Tail(s))
  <2> SUFFICES ASSUME NEW j \in 1 .. Len(s) - 1, NEW k \in 1 .. Len(s) - 1, j < k
               PROVE  Before(order, Tail(s)[j], Tail(s)[k])
    BY <1>1 DEF Sorted
  <2>1. j + 1 \in DOMAIN s /\ k + 1 \in DOMAIN s /\ j + 1 < k + 1
    BY <1>1
  <2> QED
    BY <1>1, <2>1 DEF Sorted
<1>3. Elements(s) = Elements(Tail(s)) \cup {Head(s)}
  BY ElementsOfTail
<1>4. Precede(order, {Head(s)}, Elements(Tail(s)))
  <2> SUFFICES ASSUME NEW k \in 1 .. Len(s) - 1
               PROVE  Before(order, Head(s), Tail(s)[k])
    BY <1>1 DEF Precede, Elements
  <2>1. 1 \in DOMAIN s /\ k + 1 \in DOMAIN s /\ 1 < k + 1
    BY <1>1
  <2> QED
    BY <1>1, <2>1 DEF Sorted
<1> QED
  BY <1>2, <1>3, <1>4

LEMMA PutBehind ==
  ASSUME NEW order, NEW s \in Seq(Goals), NEW g \in Goals, Sorted(order, s),
         Precede(order, Elements(s), {g})
  PROVE  /\ Sorted(order, Append(s, g))
         /\ Elements(Append(s, g)) = Elements(s) \cup {g}
<1>1. /\ Len(s) \in Nat /\ DOMAIN s = 1 .. Len(s)
      /\ DOMAIN Append(s, g) = 1 .. Len(s) + 1
      /\ Append(s, g)[Len(s) + 1] = g
      /\ \A k \in 1 .. Len(s) : Append(s, g)[k] = s[k]
  OBVIOUS
<1>2. ASSUME NEW j \in 1 .. Len(s) + 1, NEW k \in 1 .. Len(s) + 1, j < k
      PROVE  Before(order, Append(s, g)[j], Append(s, g)[k])
  <2>1. j \in DOMAIN s /\ Append(s, g)[j] = s[j]
    BY <1>1, <1>2
  <2>2. CASE k = Len(s) + 1
    BY <1>1, <2>1, <2>2 DEF Precede, Elements
  <2>3. CASE k \in DOMAIN s
    BY <1>1, <1>2, <2>1, <2>3 DEF Sorted
  <2> QED
    BY <1>1, <2>2, <2>3
<1>3. Elements(Append(s, g)) = Elements(s) \cup {g}
  BY AcceptedGoalIsLast
<1> QED
  BY <1>1, <1>2, <1>3 DEF Sorted

(* The first goal of a place moves on to the next one; others may be gone.  *)
LEMMA MovingOnKeepsOrder ==
  ASSUME NEW order, NEW line, NEW after, NEW k \in 2 .. 7, NEW g, NEW rest,
         InOrder(order, line),
         line[k] = rest \cup {g}, Precede(order, {g}, rest),
         after[k] \subseteq rest, after[k - 1] \subseteq line[k - 1] \cup {g},
         \A j \in 1 .. 7 : j # k /\ j # k - 1 => after[j] \subseteq line[j]
  PROVE  InOrder(order, after)
<1> SUFFICES ASSUME NEW i \in 1 .. 7, NEW j \in 1 .. 7, i < j,
                    NEW x \in after[i], NEW y \in after[j]
             PROVE  Before(order, x, y)
  BY DEF InOrder, Precede
<1>0. \A a, b \in 1 .. 7 : \A u \in line[a], v \in line[b] :
        a < b => Before(order, u, v)
  BY DEF InOrder, Precede
<1>1. x \in line[i] \/ (i = k - 1 /\ x = g)
  <2>1. CASE i = k
    BY <2>1
  <2>2. CASE i = k - 1
    BY <2>2
  <2> QED
    BY <2>1, <2>2
<1>2. y \in line[j] \/ (j = k - 1 /\ y = g)
  <2>1. CASE j = k
    BY <2>1
  <2>2. CASE j = k - 1
    BY <2>2
  <2> QED
    BY <2>1, <2>2
<1>3. CASE x \in line[i] /\ y \in line[j]
  BY <1>0, <1>3
<1>4. CASE i = k - 1 /\ x = g
  <2>1. g \in line[k]
    OBVIOUS
  <2>2. CASE j = k
    BY <1>4, <2>2 DEF Precede
  <2>3. CASE j > k
    BY <1>0, <1>2, <1>4, <2>1, <2>3
  <2> QED
    BY <1>4, <2>2, <2>3
<1>5. CASE j = k - 1 /\ y = g
  <2>1. g \in line[k] /\ x \in line[i] /\ i < k
    BY <1>1, <1>5
  <2> QED
    BY <1>0, <1>5, <2>1
<1> QED
  BY <1>1, <1>2, <1>3, <1>4, <1>5

(* Goals that leave the line disturb nothing. *)
LEMMA DroppingKeepsOrder ==
  ASSUME NEW order, NEW line, NEW after, InOrder(order, line),
         \A k \in 1 .. 7 : after[k] \subseteq line[k]
  PROVE  InOrder(order, after)
  BY DEF InOrder, Precede

LEMMA OrderInit == Init => OrderInv
<1> SUFFICES ASSUME Init PROVE OrderInv
  OBVIOUS
<1>1. \A k \in 1 .. 7 : Line[k] = {}
  BY DEF Init, Line, Elements, Held, Nothing, OutputPorts
<1>2. SortedInv
  BY DEF Init, SortedInv, Sorted, OutputPorts
<1> QED
  BY <1>1, <1>2 DEF OrderInv, LineInv, InOrder, Precede

(* Each step drops goals, hands the first goal of a place to the next one,  *)
(* or lets in a goal behind all others.                                     *)
LEMMA OrderStep == UseInv /\ OrderInv /\ [Next]_vars => OrderInv'
<1> SUFFICES ASSUME UseInv, OrderInv, [Next]_vars PROVE OrderInv'
  OBVIOUS
<1> USE DEF nodeVars, inputVars, portVars, outcomeVars
<1>t. /\ TypeOK /\ SortedInv /\ InOrder(accepted, Line)
      /\ \A k \in 1 .. 7 : Line[k] \subseteq Elements(accepted)
  BY DEF UseInv, OrderInv, LineInv
<1>a. /\ Line[1] = Elements(received)
      /\ Line[2] = Held(delivery["output"])
      /\ Line[3] = Elements(queue["output"])
      /\ Line[4] = Held(delivery["callee"])
      /\ Line[5] = Elements(queue["callee"])
      /\ Line[6] = IF step.at \in {"processing", "pushing"} THEN {step.goal} ELSE {}
      /\ Line[7] = Elements(input)
  BY DEF Line
<1>b. /\ Line'[1] = Elements(received')
      /\ Line'[2] = Held(delivery'["output"])
      /\ Line'[3] = Elements(queue'["output"])
      /\ Line'[4] = Held(delivery'["callee"])
      /\ Line'[5] = Elements(queue'["callee"])
      /\ Line'[6] = IF step'.at \in {"processing", "pushing"} THEN {step'.goal} ELSE {}
      /\ Line'[7] = Elements(input')
  BY DEF Line
<1>n. /\ 1 .. 7 = {1, 2, 3, 4, 5, 6, 7}
      /\ 2 = 1 + 1 /\ 3 = 2 + 1 /\ 4 = 3 + 1 /\ 5 = 4 + 1 /\ 6 = 5 + 1 /\ 7 = 6 + 1
  OBVIOUS
<1>d. (* goals leave the line *)
  ASSUME UNCHANGED <<accepted, received>>,
         \A p \in OutputPorts : queue'[p] = queue[p]
           /\ Held(delivery'[p]) \subseteq Held(delivery[p]),
         Line'[6] \subseteq Line[6],
         input' = input \/ input' = <<>>
  PROVE  OrderInv'
  <2>1. Elements(input') \subseteq Elements(input) /\ Sorted(accepted, input')
    BY <1>d, <1>t DEF Elements, Sorted, SortedInv
  <2>2. \A k \in 1 .. 7 : Line'[k] \subseteq Line[k]
    BY <1>a, <1>b, <1>d, <1>n, <2>1 DEF OutputPorts
  <2>3. InOrder(accepted, Line')
    BY <1>t, <2>2, DroppingKeepsOrder
  <2>4. LineInv'
    BY <1>d, <1>t, <2>2, <2>3 DEF LineInv
  <2>5. SortedInv'
    BY <1>d, <1>t, <2>1 DEF SortedInv, OutputPorts
  <2> QED
    BY <2>4, <2>5 DEF OrderInv
<1>m. (* a goal is handed on from place k to place i *)
  ASSUME UNCHANGED accepted, SortedInv',
         NEW i \in 1 .. 7, NEW k \in 1 .. 7, k = i + 1, NEW g, NEW rest,
         Line[k] = rest \cup {g}, Precede(accepted, {g}, rest),
         Line'[k] = rest, Line'[i] = Line[i] \cup {g},
         \A j \in 1 .. 7 : j # k /\ j # i => Line'[j] = Line[j]
  PROVE  OrderInv'
  <2>0. k \in 2 .. 7 /\ k - 1 = i
    BY <1>m
  <2>1. InOrder(accepted, Line')
    BY <1>m, <1>t, <2>0, MovingOnKeepsOrder
  <2>2. ASSUME NEW j \in 1 .. 7 PROVE Line'[j] \subseteq Elements(accepted)
    BY <1>m, <1>t
  <2> QED
    BY <1>m, <2>1, <2>2 DEF OrderInv, LineInv
<1>s. /\ \A p \in OutputPorts : Sorted(accepted, queue[p]) /\ queue[p] \in Seq(Goals)
      /\ Sorted(accepted, received) /\ Sorted(accepted, input)
      /\ received \in Seq(Goals) /\ input \in Seq(Goals) /\ accepted \in Seq(Goals)
      /\ \A p \in OutputPorts : delivery[p].at # "idle" => delivery[p].goal \in Goals
      /\ step.at \in {"processing", "pushing"} => step.goal \in Goals
      /\ DOMAIN queue = OutputPorts /\ DOMAIN delivery = OutputPorts
  BY <1>t DEF TypeOK, SortedInv, OutputPorts, Nothing
<1>p. \A i, j \in 1 .. 7 : i < j => Precede(accepted, Line[i], Line[j])
  BY <1>t DEF InOrder
<1>1. CASE Activate
  <2>1. step.at = "none" /\ step' = [step EXCEPT !.at = "head"]
    BY <1>1 DEF UseInv, TypeOK, PhaseInv, Activate
  <2>2. Line'[6] = {}
    BY <1>b, <1>t, <2>1 DEF TypeOK
  <2> QED
    BY <1>1, <1>d, <2>2 DEF Activate
<1>2. ASSUME NEW who \in {"executor", "thread"}, Deactivate(who) PROVE OrderInv'
  BY <1>2, <1>d, <1>a, <1>b DEF Deactivate
<1>3. CASE Joined
  BY <1>3, <1>d, <1>a, <1>b DEF Joined
<1>4. CASE StopInput
  BY <1>4, <1>d, <1>a, <1>b DEF StopInput
<1>5. ASSUME NEW p \in OutputPorts, StopOutputPort(p) PROVE OrderInv'
  BY <1>5, <1>d, <1>a, <1>b DEF StopOutputPort
<1>6. CASE Deactivated
  BY <1>6, <1>d, <1>a, <1>b DEF Deactivated
<1>7. ASSUME NEW g \in Goals, ReceiveGoal(g) PROVE OrderInv'
  <2>1. CASE UNCHANGED <<input, accepted>>
    BY <1>7, <2>1, <1>d, <1>a, <1>b DEF ReceiveGoal
  <2>2. CASE input' = Append(input, g) /\ accepted' = Append(accepted, g)
    <3>1. UNCHANGED <<received, queue, delivery, step>>
      BY <1>7 DEF ReceiveGoal
    <3>2. /\ Elements(accepted') = Elements(accepted) \cup {g}
          /\ \A x, y : Before(accepted, x, y) => Before(accepted', x, y)
          /\ Precede(accepted', Elements(accepted), {g})
      BY <1>7, <1>s, <2>2, AcceptedGoalIsLast
    <3>3. \A s : Sorted(accepted, s) => Sorted(accepted', s)
      BY <3>2 DEF Sorted
    <3>4. Precede(accepted', Elements(input), {g})
      BY <1>t, <1>a, <1>n, <3>2 DEF Precede
    <3>5. Sorted(accepted', input') /\ Elements(input') = Elements(input) \cup {g}
      BY <1>7, <1>s, <2>2, <3>3, <3>4, PutBehind
    <3>6. SortedInv'
      BY <1>s, <3>1, <3>3, <3>5 DEF SortedInv, OutputPorts
    <3>7. Line'[7] = Line[7] \cup {g}
          /\ \A j \in 1 .. 7 : j # 7 => Line'[j] = Line[j]
      BY <1>a, <1>b, <1>n, <3>1, <3>5
    <3>8. ASSUME NEW i \in 1 .. 7, NEW j \in 1 .. 7, i < j
          PROVE  Precede(accepted', Line'[i], Line'[j])
      <4>1. Line'[i] = Line[i]
        BY <3>7, <3>8
      <4>2. ASSUME NEW x \in Line[i], NEW y \in Line'[j]
            PROVE  Before(accepted', x, y)
        <5>1. CASE y \in Line[j]
          BY <1>p, <3>2, <3>8, <4>2, <5>1 DEF Precede
        <5>2. CASE y = g
          BY <1>t, <3>2, <4>2, <5>2 DEF Precede
        <5> QED
          BY <3>7, <4>2, <5>1, <5>2
      <4> QED
        BY <4>1, <4>2 DEF Precede
    <3>9. \A k \in 1 .. 7 : Line'[k] \subseteq Elements(accepted')
      BY <1>t, <3>2, <3>7
    <3> QED
      BY <3>6, <3>8, <3>9 DEF OrderInv, LineInv, InOrder
  <2> QED
    BY <1>7, <2>1, <2>2 DEF ReceiveGoal
<1>8. CASE StepEnds
  <2>1. Line'[6] = {}
    BY <1>8, <1>b, <1>t DEF StepEnds, TypeOK
  <2> QED
    BY <1>8, <1>d, <2>1 DEF StepEnds
<1>9. CASE StepPops
  <2>1. /\ step' = [at |-> "processing", goal |-> Head(input)]
        /\ input' = Tail(input) /\ input # <<>> /\ step.at = "head"
        /\ UNCHANGED <<accepted, received, queue, delivery>>
    BY <1>9 DEF StepPops
  <2>2. /\ Sorted(accepted, Tail(input))
        /\ Elements(input) = Elements(Tail(input)) \cup {Head(input)}
        /\ Precede(accepted, {Head(input)}, Elements(Tail(input)))
    BY <1>s, <2>1, HeadAndTail
  <2>3. SortedInv'
    BY <1>s, <2>1, <2>2 DEF SortedInv, OutputPorts
  <2>4. Line'[7] = Elements(Tail(input)) /\ Line'[6] = Line[6] \cup {Head(input)}
        /\ Line[7] = Elements(Tail(input)) \cup {Head(input)}
        /\ \A j \in 1 .. 7 : j # 7 /\ j # 6 => Line'[j] = Line[j]
    BY <1>a, <1>b, <1>n, <2>1, <2>2
  <2> DEFINE g == Head(input)
             rest == Elements(Tail(input))
  <2>6. /\ Precede(accepted, {g}, rest)
        /\ Line'[7] = rest /\ Line'[6] = Line[6] \cup {g} /\ Line[7] = rest \cup {g}
        /\ \A j \in 1 .. 7 : j # 7 /\ j # 6 => Line'[j] = Line[j]
    BY <2>2, <2>4
  <2>7. UNCHANGED accepted
    BY <2>1
  <2> HIDE DEF g, rest
  <2> QED
    BY <1>m, <2>3, <2>6, <2>7
<1>10. CASE StepProcesses
  <2>1. CASE step.goal \in BadInputs
    <3>1. step'.at = "head"
      BY <1>10, <2>1 DEF StepProcesses, Answer
    <3> QED
      BY <1>10, <1>d, <1>b, <3>1 DEF StepProcesses
  <2>2. CASE step.goal \notin BadInputs
    <3>1. step.at = "processing" /\ step'.goal = step.goal
      BY <1>10, <1>t, <2>2 DEF StepProcesses, TypeOK
    <3>2. Line'[6] \subseteq Line[6]
      BY <1>a, <1>b, <3>1
    <3> QED
      BY <1>10, <1>d, <3>2 DEF StepProcesses
  <2> QED
    BY <2>1, <2>2
<1>11. CASE StepPushes
  <2>1. /\ queue' = [queue EXCEPT !["callee"] = Append(@, step.goal)]
        /\ step'.at = "head" /\ step.at = "pushing"
        /\ UNCHANGED <<accepted, received, input, delivery>>
    BY <1>11 DEF StepPushes, Enqueue, Answer
  <2>2. queue'["callee"] = Append(queue["callee"], step.goal)
        /\ queue'["output"] = queue["output"]
    BY <1>s, <2>1 DEF OutputPorts
  <2>3. Line[6] = {step.goal} /\ step.goal \in Goals
    BY <1>a, <1>s, <2>1
  <2>4. Precede(accepted, Elements(queue["callee"]), {step.goal})
    BY <1>a, <1>p, <1>n, <2>3
  <2>5. Sorted(accepted, queue'["callee"])
        /\ Elements(queue'["callee"]) = Elements(queue["callee"]) \cup {step.goal}
    <3>1. queue["callee"] \in Seq(Goals) /\ Sorted(accepted, queue["callee"])
      BY <1>s DEF OutputPorts
    <3> QED
      BY <2>2, <2>3, <2>4, <3>1, PutBehind
  <2>6. SortedInv'
    BY <1>s, <2>1, <2>2, <2>5 DEF SortedInv, OutputPorts
  <2>7. Line[6] = {} \cup {step.goal}
        /\ Line'[6] = {} /\ Line'[5] = Line[5] \cup {step.goal}
        /\ \A j \in 1 .. 7 : j # 6 /\ j # 5 => Line'[j] = Line[j]
    BY <1>a, <1>b, <1>n, <2>1, <2>2, <2>5
  <2>8. Precede(accepted, {step.goal}, {})
    BY DEF Precede
  <2>9. UNCHANGED accepted
    BY <2>1
  <2> DEFINE g == step.goal
  <2>10. /\ Line[6] = {} \cup {g} /\ Precede(accepted, {g}, {})
         /\ Line'[6] = {} /\ Line'[5] = Line[5] \cup {g}
         /\ \A j \in 1 .. 7 : j # 6 /\ j # 5 => Line'[j] = Line[j]
    BY <2>7, <2>8
  <2> HIDE DEF g
  <2> QED
    BY <1>n, <1>m, <2>6, <2>9, <2>10
<1>12. CASE StepDrops
  BY <1>12, <1>d, <1>b DEF StepDrops, Answer
<1>13. ASSUME NEW p \in OutputPorts, DeliveryBegin(p) PROVE OrderInv'
  <2>1. /\ delivery[p].at = "idle" /\ queue[p] # <<>>
        /\ delivery' = [delivery EXCEPT
                          ![p] = [at |-> "sending", goal |-> Head(queue[p])]]
        /\ queue' = [queue EXCEPT ![p] = Tail(@)]
        /\ UNCHANGED <<accepted, received, input, step>>
    BY <1>13 DEF DeliveryBegin, Delivers
  <2> DEFINE g == Head(queue[p])
             rest == Elements(Tail(queue[p]))
  <2>2. /\ Sorted(accepted, Tail(queue[p]))
        /\ Elements(queue[p]) = rest \cup {g}
        /\ Precede(accepted, {g}, rest)
    BY <1>s, <2>1, HeadAndTail
  <2>3. /\ queue'[p] = Tail(queue[p])
        /\ Held(delivery'[p]) = {g} /\ Held(delivery[p]) = {}
        /\ \A q \in OutputPorts : q # p => queue'[q] = queue[q]
                                           /\ delivery'[q] = delivery[q]
    BY <1>s, <2>1 DEF Held
  <2> HIDE DEF g, rest
  <2>4. SortedInv'
    <3>1. \A q \in OutputPorts : Sorted(accepted, queue'[q])
      BY <1>s, <2>2, <2>3
    <3> QED
      BY <1>s, <2>1, <3>1 DEF SortedInv, OutputPorts
  <2>7. UNCHANGED accepted
    BY <2>1
  <2>5. CASE p = "output"
    <3>1. Line'[3] = rest /\ Line'[2] = Line[2] \cup {g} /\ Line[3] = rest \cup {g}
          /\ \A j \in 1 .. 7 : j # 3 /\ j # 2 => Line'[j] = Line[j]
      BY <1>a, <1>b, <1>n, <2>1, <2>2, <2>3, <2>5 DEF OutputPorts, rest
    <3> QED
      BY <1>n, <1>m, <2>2, <2>4, <2>7, <3>1
  <2>6. CASE p = "callee"
    <3>1. Line'[5] = rest /\ Line'[4] = Line[4] \cup {g} /\ Line[5] = rest \cup {g}
          /\ \A j \in 1 .. 7 : j # 5 /\ j # 4 => Line'[j] = Line[j]
      <4>1. "callee" \in OutputPorts /\ "output" \in OutputPorts /\ "output" # "callee"
        BY DEF OutputPorts
      <4>2. queue'["output"] = queue["output"] /\ delivery'["output"] = delivery["output"]
            /\ Elements(queue'["callee"]) = rest
        BY <2>3, <2>6, <4>1 DEF rest
      <4>3. Line'[4] = {g} /\ Line[4] = {} /\ Line[5] = rest \cup {g}
        BY <1>a, <1>b, <2>2, <2>3, <2>6
      <4> QED
        BY <1>a, <1>b, <1>n, <2>1, <4>2, <4>3
    <3> QED
      BY <1>n, <1>m, <2>2, <2>4, <2>7, <3>1
  <2> QED
    BY <2>5, <2>6 DEF OutputPorts
<1>14. ASSUME NEW p \in OutputPorts, GiveUp(p) PROVE OrderInv'
  <2>1. \A q \in OutputPorts : Held(delivery'[q]) \subseteq Held(delivery[q])
    BY <1>14, <1>s DEF GiveUp, Delivers, Held
  <2> QED
    BY <1>14, <1>d, <1>a, <1>b, <2>1 DEF GiveUp
<1>15. CASE CalleeAccepts
  <2>1. \A q \in OutputPorts : Held(delivery'[q]) \subseteq Held(delivery[q])
    BY <1>15, <1>s DEF CalleeAccepts, Delivers, Held
  <2> QED
    BY <1>15, <1>d, <1>a, <1>b, <2>1 DEF CalleeAccepts
<1>16. CASE DownstreamAccepts
  <2> DEFINE g == delivery["output"].goal
  <2>1. /\ received' = Append(received, g) /\ delivery["output"].at = "sending"
        /\ delivery' = [delivery EXCEPT !["output"] = [at |-> "idle", goal |-> NoGoal]]
        /\ UNCHANGED <<accepted, queue, input, step>>
    BY <1>16 DEF DownstreamAccepts, Delivers
  <2>2. /\ Held(delivery'["output"]) = {} /\ Held(delivery["output"]) = {g}
        /\ delivery'["callee"] = delivery["callee"] /\ g \in Goals
    BY <1>s, <2>1 DEF Held, OutputPorts
  <2> HIDE DEF g
  <2>3. Precede(accepted, Elements(received), {g})
    BY <1>a, <1>p, <1>n, <2>2
  <2>4. Sorted(accepted, received')
        /\ Elements(received') = Elements(received) \cup {g}
    BY <1>s, <2>1, <2>2, <2>3, PutBehind
  <2>5. SortedInv'
    BY <1>s, <2>1, <2>4 DEF SortedInv, OutputPorts
  <2>6. Line'[2] = {} /\ Line'[1] = Line[1] \cup {g} /\ Line[2] = {} \cup {g}
        /\ \A j \in 1 .. 7 : j # 2 /\ j # 1 => Line'[j] = Line[j]
    BY <1>a, <1>b, <1>n, <2>1, <2>2, <2>4
  <2>7. Precede(accepted, {g}, {})
    BY DEF Precede
  <2> QED
    BY <1>n, <1>m, <2>1, <2>5, <2>6, <2>7
<1>17. ASSUME NEW p \in OutputPorts, Lose(p) PROVE OrderInv'
  <2>1. \A q \in OutputPorts : Held(delivery'[q]) \subseteq Held(delivery[q])
    BY <1>17, <1>s DEF Lose, Delivers, Held
  <2> QED
    BY <1>17, <1>d, <1>a, <1>b, <2>1 DEF Lose
<1>18. CASE CalleeSucceeds
  <2>1. \A q \in OutputPorts : Held(delivery'[q]) \subseteq Held(delivery[q])
    <3>1. delivery["callee"].at = "waiting"
      BY <1>18 DEF CalleeSucceeds
    <3>2. \/ delivery' = [delivery EXCEPT !["callee"] = [at |-> "idle", goal |-> NoGoal]]
          \/ delivery' = [delivery EXCEPT !["callee"] =
                            [at |-> "responding", goal |-> delivery["callee"].goal]]
      BY <1>18 DEF CalleeSucceeds, Delivers
    <3>3. /\ Held(delivery'["callee"]) \subseteq {delivery["callee"].goal}
          /\ delivery'["output"] = delivery["output"]
      BY <1>s, <3>2 DEF Held, OutputPorts
    <3>4. Held(delivery["callee"]) = {delivery["callee"].goal}
      BY <3>1 DEF Held
    <3> QED
      BY <3>3, <3>4 DEF OutputPorts
  <2> QED
    BY <1>18, <1>d, <1>a, <1>b, <2>1 DEF CalleeSucceeds
<1>19. CASE CalleeAborts
  <2>1. \A q \in OutputPorts : Held(delivery'[q]) \subseteq Held(delivery[q])
    BY <1>19, <1>s DEF CalleeAborts, Delivers, Held
  <2> QED
    BY <1>19, <1>d, <1>a, <1>b, <2>1 DEF CalleeAborts
<1>20. CASE PushResponse
  <2> DEFINE g == delivery["callee"].goal
  <2>1. /\ queue' = [queue EXCEPT !["output"] = Append(@, g)]
        /\ delivery["callee"].at = "responding"
        /\ delivery' = [delivery EXCEPT !["callee"] = [at |-> "idle", goal |-> NoGoal]]
        /\ UNCHANGED <<accepted, received, input, step>>
    BY <1>20 DEF PushResponse, Enqueue, Delivers
  <2>2. /\ Held(delivery'["callee"]) = {} /\ Held(delivery["callee"]) = {g}
        /\ delivery'["output"] = delivery["output"] /\ g \in Goals
        /\ queue'["output"] = Append(queue["output"], g)
        /\ queue'["callee"] = queue["callee"]
    BY <1>s, <2>1 DEF Held, OutputPorts
  <2> HIDE DEF g
  <2>3. Precede(accepted, Elements(queue["output"]), {g})
    <3>1. Precede(accepted, Line[3], Line[4])
      BY <1>p
    <3> QED
      BY <1>a, <2>2, <3>1
  <2>4. Sorted(accepted, queue'["output"])
        /\ Elements(queue'["output"]) = Elements(queue["output"]) \cup {g}
    BY <1>s, <2>2, <2>3, PutBehind DEF OutputPorts
  <2>5. SortedInv'
    BY <1>s, <2>1, <2>2, <2>4 DEF SortedInv, OutputPorts
  <2>6. Line'[4] = {} /\ Line'[3] = Line[3] \cup {g} /\ Line[4] = {} \cup {g}
        /\ \A j \in 1 .. 7 : j # 4 /\ j # 3 => Line'[j] = Line[j]
    BY <1>a, <1>b, <1>n, <2>1, <2>2, <2>4
  <2>7. Precede(accepted, {g}, {})
    BY DEF Precede
  <2> QED
    BY <1>n, <1>m, <2>1, <2>5, <2>6, <2>7
<1>21. CASE DropResponse
  <2>1. \A q \in OutputPorts : Held(delivery'[q]) \subseteq Held(delivery[q])
    BY <1>21, <1>s DEF DropResponse, Delivers, Held
  <2> QED
    BY <1>21, <1>d, <1>a, <1>b, <2>1 DEF DropResponse
<1>22. CASE UNCHANGED vars
  BY <1>22, <1>d, <1>a, <1>b DEF vars
<1> QED
  BY <1>1, <1>2, <1>3, <1>4, <1>5, <1>6, <1>7, <1>8, <1>9, <1>10, <1>11, <1>12, <1>13, <1>14, <1>15, <1>16, <1>17, <1>18, <1>19, <1>20, <1>21, <1>22
     DEF Next, Deactivating, Stop, Step, CalleeAnswers, CalleeReturns, Respond,
         DownstreamAnswers, OutputPorts

(* What downstream receives from a driver is in the order in which upstream *)
(* sent it, across all three ports, whatever is dropped, refused or lost on *)
(* the way and however often the node is stopped and started again.         *)
THEOREM ResponsesKeepOrder == Spec => []NothingOvertakes
<1>1. OrderInv => NothingOvertakes
  BY DEF OrderInv, SortedInv, Sorted, Before, NothingOvertakes
<1> QED
  BY <1>1, UseInit, UseNext, OrderInit, OrderStep, PTL DEF Spec
-----------------------------------------------------------------------------
(* Control signals that neither hook refuses, and where they can be once    *)
(* the step thread took them.                                               *)
GoodSignals == Signals \ (BadInputs \cup BadResults)
Kept(s) ==
  \/ step.goal = s
  \/ \E p \in OutputPorts : s \in Elements(queue[p]) \cup Held(delivery[p])
  \/ s \in Elements(received) \cup failed

(* No step loses a signal that is under way, whatever stops or is refused.  *)
LEMMA SignalsStay ==
  ASSUME UseInv, [Next]_vars, NEW s \in GoodSignals, Kept(s)
  PROVE  Kept(s)'
<1>g. s \in Goals /\ s # NoGoal /\ s \in Signals /\ s \notin BadInputs \cup BadResults
  BY GoalAssumption DEF GoodSignals
<1>t. /\ queue \in [OutputPorts -> Seq(Goals)] /\ received \in Seq(Goals)
      /\ delivery \in [OutputPorts -> {Nothing} \cup
           [at : {"sending", "waiting", "responding", "lost"}, goal : Goals]]
      /\ step \in [at : {"none", "head"}, goal : {NoGoal}]
           \cup [at : {"processing", "pushing"}, goal : Goals]
  BY DEF UseInv, TypeOK
<1>a. ASSUME NEW g \in Goals, NEW q \in Seq(Goals)
      PROVE  Elements(Append(q, g)) = Elements(q) \cup {g}
  BY AcceptedGoalIsLast
<1>b. ASSUME NEW q \in Seq(Goals), q # <<>>
      PROVE  Elements(q) = Elements(Tail(q)) \cup {Head(q)}
  BY <1>b, ElementsOfTail
<1>c. ASSUME step'.goal = s \/ step'.goal = step.goal \/ step.goal = NoGoal
             \/ s \in Elements(queue'["callee"]),
             \A p \in OutputPorts :
               /\ Elements(queue[p]) \subseteq Elements(queue'[p])
                    \cup Held(delivery'[p])
               /\ s \in Held(delivery[p]) =>
                    \/ s \in Held(delivery'[p])
                    \/ s \in Elements(queue'["output"])
                    \/ s \in Elements(received') \cup failed',
             Elements(received) \cup failed \subseteq Elements(received') \cup failed'
      PROVE  Kept(s)'
  BY <1>c, <1>g DEF Kept, OutputPorts
<1>d. ASSUME UNCHANGED <<queue, delivery, received, failed>>,
             step'.goal = step.goal \/ step.goal = NoGoal
      PROVE  Kept(s)'
  BY <1>c, <1>d
<1>1. CASE Activate \/ Deactivating \/ StepEnds \/ StepPops
           \/ (\E who \in {"executor", "thread"} : Deactivate(who))
           \/ (\E g \in Goals : ReceiveGoal(g))
           \/ UNCHANGED vars
  <2>1. UNCHANGED <<queue, delivery, received, failed>>
    BY <1>1 DEF Activate, Deactivating, Joined, Stop, StopInput, StopOutputPort,
         Deactivated, StepEnds, StepPops, Deactivate, ReceiveGoal, vars, portVars,
         outcomeVars
  <2>2. step'.goal = step.goal \/ step.goal = NoGoal
    BY <1>1, <1>t DEF Activate, Deactivating, Joined, Stop, StopInput, StopOutputPort,
         Deactivated, StepEnds, StepPops, Deactivate, ReceiveGoal, vars
  <2> QED
    BY <1>d, <2>1, <2>2
<1>2. CASE StepProcesses
  <2>1. UNCHANGED <<queue, delivery, received, failed>>
    BY <1>2 DEF StepProcesses, portVars, outcomeVars
  <2>2. CASE step.goal \in BadInputs
    BY <1>g, <2>1, <2>2 DEF Kept
  <2>3. CASE step.goal \notin BadInputs
    BY <1>2, <1>t, <1>d, <2>1, <2>3 DEF StepProcesses
  <2> QED
    BY <2>2, <2>3
<1>3. CASE StepPushes
  <2>1. /\ queue' = [queue EXCEPT !["callee"] = Append(@, step.goal)]
        /\ UNCHANGED <<delivery, received, failed>> /\ step.goal \in Goals
    BY <1>3, <1>t DEF StepPushes, Enqueue, outcomeVars
  <2>2. /\ Elements(queue'["callee"]) = Elements(queue["callee"]) \cup {step.goal}
        /\ queue'["output"] = queue["output"]
    BY <1>t, <1>a, <2>1 DEF OutputPorts
  <2> QED
    BY <2>1, <2>2 DEF Kept, OutputPorts
<1>4. CASE StepDrops
  BY <1>4, <1>g DEF StepDrops, Kept, portVars, outcomeVars
<1>5. ASSUME NEW p \in OutputPorts, DeliveryBegin(p)
      PROVE  Kept(s)'
  <2>1. /\ UNCHANGED <<step, received, failed>>
        /\ delivery[p].at = "idle" /\ queue[p] # <<>>
        /\ delivery' = [delivery EXCEPT ![p] = [at |-> "sending", goal |-> Head(queue[p])]]
        /\ queue' = [queue EXCEPT ![p] = Tail(@)]
    BY <1>5 DEF DeliveryBegin, Delivers, outcomeVars
  <2>2. /\ Elements(queue[p]) = Elements(queue'[p]) \cup Held(delivery'[p])
        /\ Held(delivery[p]) = {}
        /\ \A q \in OutputPorts : q # p =>
             queue'[q] = queue[q] /\ delivery'[q] = delivery[q]
    BY <1>t, <1>b, <2>1 DEF Held
  <2> QED
    BY <1>c, <2>1, <2>2
<1>6. ASSUME NEW p \in OutputPorts, GiveUp(p) \/ Lose(p)
      PROVE  Kept(s)'
  <2>1. /\ UNCHANGED <<step, queue, received, failed>>
        /\ \/ /\ delivery[p].goal \notin Signals /\ delivery[p].at = "sending"
              /\ delivery' = [delivery EXCEPT ![p] = [at |-> "idle", goal |-> NoGoal]]
           \/ /\ delivery[p].at # "idle"
              /\ delivery' = [delivery EXCEPT ![p] = [at |-> "lost", goal |-> @.goal]]
    BY <1>6, <1>t DEF GiveUp, Lose, Delivers, outcomeVars
  <2>2. /\ s \in Held(delivery[p]) => s \in Held(delivery'[p])
        /\ \A q \in OutputPorts : q # p => delivery'[q] = delivery[q]
    BY <1>t, <1>g, <2>1 DEF Held
  <2> QED
    BY <1>c, <2>1, <2>2
<1>7. CASE CalleeAccepts \/ CalleeSucceeds \/ DropResponse
  <2>1. /\ UNCHANGED <<step, queue, received, failed>>
        /\ delivery["callee"].at # "idle"
        /\ \/ /\ delivery["callee"].goal \in BadResults \/ delivery["callee"].goal \notin Signals
              /\ delivery' = [delivery EXCEPT !["callee"] = [at |-> "idle", goal |-> NoGoal]]
           \/ \E at \in {"waiting", "responding"} :
                delivery' = [delivery EXCEPT !["callee"] = [at |-> at, goal |-> @.goal]]
    BY <1>7, <1>t DEF CalleeAccepts, CalleeSucceeds, DropResponse, Delivers, outcomeVars
  <2>2. /\ s \in Held(delivery["callee"]) => s \in Held(delivery'["callee"])
        /\ delivery'["output"] = delivery["output"]
    BY <1>t, <1>g, <2>1 DEF Held, OutputPorts
  <2> QED
    BY <1>c, <2>1, <2>2 DEF OutputPorts
<1>8. CASE CalleeAborts
  <2>1. /\ UNCHANGED <<step, queue, received>>
        /\ delivery["callee"].at = "waiting"
        /\ failed' = failed \cup {delivery["callee"].goal}
        /\ delivery' = [delivery EXCEPT !["callee"] = [at |-> "idle", goal |-> NoGoal]]
    BY <1>8 DEF CalleeAborts, Delivers
  <2>2. delivery'["output"] = delivery["output"]
        /\ (s \in Held(delivery["callee"]) => s \in failed')
    BY <1>t, <2>1 DEF Held, OutputPorts
  <2> QED
    BY <1>c, <2>1, <2>2 DEF OutputPorts
<1>9. CASE PushResponse
  <2>1. /\ UNCHANGED <<step, received, failed>>
        /\ delivery["callee"].at = "responding" /\ delivery["callee"].goal \in Goals
        /\ queue' = [queue EXCEPT !["output"] = Append(@, delivery["callee"].goal)]
        /\ delivery' = [delivery EXCEPT !["callee"] = [at |-> "idle", goal |-> NoGoal]]
    BY <1>9, <1>t DEF PushResponse, Enqueue, Delivers, outcomeVars, OutputPorts, Nothing
  <2>2. /\ Elements(queue'["output"]) =
             Elements(queue["output"]) \cup {delivery["callee"].goal}
        /\ queue'["callee"] = queue["callee"] /\ delivery'["output"] = delivery["output"]
        /\ Held(delivery["callee"]) = {delivery["callee"].goal}
    BY <1>t, <1>a, <2>1 DEF Held, OutputPorts
  <2> QED
    BY <1>c, <2>1, <2>2 DEF OutputPorts
<1>10. CASE DownstreamAccepts
  <2>1. /\ UNCHANGED <<step, queue, failed>>
        /\ delivery["output"].at = "sending" /\ delivery["output"].goal \in Goals
        /\ received' = Append(received, delivery["output"].goal)
        /\ delivery' = [delivery EXCEPT !["output"] = [at |-> "idle", goal |-> NoGoal]]
    BY <1>10, <1>t DEF DownstreamAccepts, Delivers, OutputPorts, Nothing
  <2>2. /\ Elements(received') = Elements(received) \cup {delivery["output"].goal}
        /\ delivery'["callee"] = delivery["callee"]
        /\ Held(delivery["output"]) = {delivery["output"].goal}
    BY <1>t, <1>a, <2>1 DEF Held, OutputPorts
  <2> QED
    BY <1>c, <2>1, <2>2 DEF OutputPorts
<1> QED
  BY <1>1, <1>2, <1>3, <1>4, <1>5, <1>6, <1>7, <1>8, <1>9, <1>10
     DEF Next, Step, CalleeAnswers, CalleeReturns, Respond, DownstreamAnswers, OutputPorts

(* "Abnormal signal must be delivered reliably": a control signal that the  *)
(* step thread took stays in a port, in a hand, or with those downstream,   *)
(* until the callee fails on it; and upstream is told that it succeeded     *)
(* only then.  No stop(), full port or rejection makes the driver drop it.  *)
(* This is what is safe in SignalsAreForwarded.                             *)
THEOREM SignalsAreKept ==
  Spec => /\ [][\A s \in GoodSignals : Kept(s) => Kept(s)']_vars
          /\ [](\A s \in GoodSignals : goal[s] = "succeeded" => Kept(s))
<1> DEFINE Told == \A s \in GoodSignals : goal[s] = "succeeded" => Kept(s)
<1>1. UseInv /\ [Next]_vars => [\A s \in GoodSignals : Kept(s) => Kept(s)']_vars
  BY SignalsStay
<1>2. Init => Told
  BY GoalAssumption DEF Init, GoodSignals
<1>3. UseInv /\ Told /\ [Next]_vars => Told'
  <2> SUFFICES ASSUME UseInv, Told, [Next]_vars, NEW s \in GoodSignals,
                      goal'[s] = "succeeded"
               PROVE  Kept(s)'
    OBVIOUS
  <2>1. s \in Goals /\ goal \in [Goals -> {"unsent", "executing", "rejected",
                                          "succeeded", "aborted"}]
    BY GoalAssumption DEF GoodSignals, UseInv, TypeOK
  <2>2. CASE goal' = goal
    BY <2>2, SignalsStay
  <2>3. CASE goal' # goal
    <3>1. \/ \E g \in Goals : ReceiveGoal(g)
          \/ StepProcesses \/ StepPushes \/ StepDrops
      BY <2>3 DEF Next, Activate, Deactivating, Joined, Stop, StopInput, StopOutputPort,
           Deactivated, Deactivate, Step, StepEnds, StepPops, DeliveryBegin, Lose,
           CalleeAnswers, CalleeAccepts, GiveUp, CalleeReturns, CalleeSucceeds,
           CalleeAborts, Respond, PushResponse, DropResponse, DownstreamAnswers,
           DownstreamAccepts, inputVars, vars
    <3>2. goal[s] = "succeeded" \/ step.goal = s
      BY <2>1, <3>1 DEF ReceiveGoal, StepProcesses, StepPushes, StepDrops, Answer
    <3>3. Kept(s)
      BY <3>2 DEF Kept
    <3> QED
      BY <3>3, SignalsStay
  <2> QED
    BY <2>2, <2>3
<1> QED
  BY <1>1, <1>2, <1>3, UseInit, UseNext, PTL DEF Spec
=============================================================================
