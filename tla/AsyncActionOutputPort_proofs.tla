-------------------- MODULE AsyncActionOutputPort_proofs --------------------
(***************************************************************************)
(* Theorems about AsyncActionOutputPort, for any number of requests,       *)
(* downstreams, retries, crashes and timeouts, and any policies.           *)
(***************************************************************************)
EXTENDS AsyncActionOutputPort, SequenceTheorems, TLAPS

(* What a sequence holds after an element joins it, or leaves it. *)
LEMMA HasAppended ==
  ASSUME NEW S, NEW s \in Seq(S), NEW e \in S
  PROVE  /\ Append(s, e) \in Seq(S)
         /\ \A x : Has(Append(s, e), x) <=> Has(s, x) \/ x = e
         /\ NoDuplicates(s) /\ ~Has(s, e) => NoDuplicates(Append(s, e))
<1>1. /\ Append(s, e) \in Seq(S) /\ Len(s) \in Nat
      /\ DOMAIN s = 1 .. Len(s) /\ DOMAIN Append(s, e) = 1 .. Len(s) + 1
      /\ \A k \in 1 .. Len(s) : Append(s, e)[k] = s[k]
      /\ Append(s, e)[Len(s) + 1] = e
  OBVIOUS
<1>2. 1 .. Len(s) + 1 = (1 .. Len(s)) \cup {Len(s) + 1} /\ Len(s) + 1 \notin 1 .. Len(s)
  BY <1>1
<1> QED
  BY <1>1, <1>2 DEF Has, NoDuplicates

(* Without its k-th element a sequence without duplicates holds everything  *)
(* but that element.                                                        *)
Without(s, k) == SubSeq(s, 1, k - 1) \o SubSeq(s, k + 1, Len(s))

LEMMA HasWithout ==
  ASSUME NEW S, NEW s \in Seq(S), NEW k \in DOMAIN s
  PROVE  /\ Without(s, k) \in Seq(S)
         /\ \A x : Has(Without(s, k), x) => Has(s, x)
         /\ \A x : Has(s, x) => x = s[k] \/ Has(Without(s, k), x)
         /\ NoDuplicates(s) => NoDuplicates(Without(s, k)) /\ ~Has(Without(s, k), s[k])
<1> DEFINE before == SubSeq(s, 1, k - 1)
           after == SubSeq(s, k + 1, Len(s))
           from(j) == IF j < k THEN j ELSE j + 1
<1>1. k \in 1 .. Len(s) /\ Len(s) \in Nat /\ DOMAIN s = 1 .. Len(s)
  OBVIOUS
<1>2. /\ before \in Seq(S) /\ Len(before) = k - 1
      /\ after \in Seq(S) /\ Len(after) = Len(s) - k
  BY <1>1
<1>3. /\ \A j \in 1 .. k - 1 : before[j] = s[j]
      /\ \A j \in 1 .. Len(s) - k : after[j] = s[j + k]
  BY <1>1
<1>4. /\ before \o after \in Seq(S)
      /\ Len(before \o after) = Len(s) - 1
      /\ \A j \in 1 .. Len(s) - 1 : (before \o after)[j] = s[from(j)]
  <2> HIDE DEF before, after
  <2>1. before \o after \in Seq(S) /\ Len(before \o after) = Len(before) + Len(after)
    <3> HIDE DEF from
    <3> QED BY <1>2, ConcatProperties
  <2>2. Len(before) + Len(after) = Len(s) - 1
    BY <1>1, <1>2, <1>3
  <2>3. ASSUME NEW j \in 1 .. Len(s) - 1
        PROVE  (before \o after)[j] = s[from(j)]
    <3>1. CASE j < k
      <4>1. (before \o after)[j] = before[j]
        BY <1>1, <1>2, <3>1
      <4> QED BY <1>1, <1>3, <3>1, <4>1
    <3>2. CASE j >= k
      <4>1. (before \o after)[j] = after[j - (k - 1)]
        BY <1>1, <1>2, <3>2
      <4>2. after[j - (k - 1)] = s[(j - (k - 1)) + k]
        BY <1>1, <1>3, <3>2
      <4>3. (j - (k - 1)) + k = j + 1
        BY <1>1
      <4> QED BY <1>1, <3>2, <4>1, <4>2, <4>3
    <3>3. j < k \/ j >= k
      BY <1>1
    <3> HIDE DEF from
    <3> QED BY <3>1, <3>2, <3>3
  <2> QED BY <2>1, <2>2, <2>3
<1>5. Without(s, k) = before \o after
  BY DEF Without
<1> DEFINE rest == Without(s, k)
<1>6. /\ rest \in Seq(S) /\ DOMAIN rest = 1 .. Len(s) - 1
      /\ \A j \in 1 .. Len(s) - 1 : rest[j] = s[from(j)]
      /\ \A j \in 1 .. Len(s) - 1 : from(j) \in 1 .. Len(s) /\ from(j) # k
  <2> HIDE DEF before, after
  <2>1. rest \in Seq(S) /\ Len(rest) = Len(s) - 1
    BY <1>4, <1>5
  <2>2. DOMAIN rest = 1 .. Len(s) - 1
    <3> HIDE DEF rest
    <3> QED BY <2>1
  <2>3. \A j \in 1 .. Len(s) - 1 : from(j) \in 1 .. Len(s) /\ from(j) # k
    BY <1>1
  <2>4. \A j \in 1 .. Len(s) - 1 : rest[j] = s[from(j)]
    <3> HIDE DEF from
    <3> QED BY <1>4, <1>5
  <2> QED BY <2>1, <2>2, <2>3, <2>4
<1>7. \A i \in 1 .. Len(s) : i # k => \E j \in 1 .. Len(s) - 1 : from(j) = i
  <2> SUFFICES ASSUME NEW i \in 1 .. Len(s), i # k
               PROVE  \E j \in 1 .. Len(s) - 1 : from(j) = i
    OBVIOUS
  <2>1. CASE i < k
    <3>1. i \in 1 .. Len(s) - 1 /\ from(i) = i
      BY <2>1, <1>1
    <3> QED BY <3>1
  <2>2. CASE i > k
    <3>1. i - 1 \in 1 .. Len(s) - 1 /\ from(i - 1) = i
      BY <2>2, <1>1
    <3> QED BY <3>1
  <2> QED BY <2>1, <2>2, <1>1
<1>8. \A i, j \in 1 .. Len(s) - 1 : from(i) = from(j) => i = j
  BY <1>1
<1> HIDE DEF rest, from
<1>9. \A x : Has(rest, x) => Has(s, x)
  BY <1>1, <1>6 DEF Has
<1>10. \A x : Has(s, x) => x = s[k] \/ Has(rest, x)
  BY <1>1, <1>6, <1>7 DEF Has
<1>11. NoDuplicates(s) => NoDuplicates(rest) /\ ~Has(rest, s[k])
  BY <1>1, <1>6, <1>8 DEF Has, NoDuplicates
<1> QED
  BY <1>6, <1>9, <1>10, <1>11 DEF rest

-----------------------------------------------------------------------------
(* The inductive invariant.  A request is on one way only: pushed, queued,  *)
(* begun, done.                                                             *)
EnqueueInv ==
  /\ NoDuplicates(enqueued) /\ NoDuplicates(queue)
  /\ \A r \in Requests :
       /\ pushing[r].step \in {"idle", "trying", "connecting", "checked", "raised"} =>
            ~Has(enqueued, r)
       /\ pushing[r].step \in {"enqueued", "true"} => Has(enqueued, r)
       /\ pushing[r].step = "false" =>
            \/ ~Has(enqueued, r)
            \/ config.enqueue[r].strategy = "NoDrop" /\ IsShuttingDown
       /\ Has(queue, r) => Has(enqueued, r) /\ delivery[r].step = "idle"
       /\ delivery[r].step # "idle" => Has(enqueued, r)

(* A goal that was sent is that of the current attempt, and the only one of *)
(* its request; it was accepted just if the downstream has the request.     *)
GoalInv ==
  /\ \A g \in goals :
       /\ g.goal = Goal(g.goal.request)
       /\ delivery[g.goal.request].step \in {"sent", "waiting", "unanswered", "done"}
       /\ result[g.goal.request] = "none"
       /\ g.answer = "accept" <=> Has(acceptedBy[g.goal.ds], g.goal.request)
  /\ \A g, h \in goals : g.goal.request = h.goal.request => g = h

(* Nobody has a request before its turn comes: downstreams are served one   *)
(* after the other, and none is asked again once it has accepted.           *)
AcceptInv ==
  \A d \in Downstreams :
    /\ NoDuplicates(acceptedBy[d])
    /\ \A r \in Requests : Has(acceptedBy[d], r) =>
         /\ delivery[r].step \notin {"idle", "ping"}
         /\ d <= delivery[r].ds
         /\ delivery[r].step = "attempt" => d < delivery[r].ds

(* any_delivered speaks of the downstreams that were served.                *)
ResultInv ==
  \A r \in Requests :
    /\ delivery[r].step \in {"attempt", "sent", "waiting", "unanswered"} =>
         (delivery[r].delivered <=>
            \E d \in Downstreams : d < delivery[r].ds /\ Has(acceptedBy[d], r))
    /\ result[r] # "none" => delivery[r].step = "done"
    /\ delivery[r].step = "done" => result[r] # "none" \/ raised # {}

(* What stop() waits for is in the port, or was.                            *)
StopInv ==
  stopper # "idle" => \A r \in due : Has(queue, r) \/ delivery[r].step # "idle"

IInv ==
  /\ TypeOK /\ EnqueueInv /\ GoalInv /\ AcceptInv /\ ResultInv
  /\ ResultIsTruthful /\ StopInv /\ StopSettles

-----------------------------------------------------------------------------
Deliveries ==
  [step : Steps, ds : Downstreams, attempt : Nat, timeouts : Nat, ready : Nat,
   delivered : BOOLEAN]
Codes == {"none", "NotTried", "Success", "TriedButFailed"}

(* What is left of a delivery when some of its fields change.               *)
LEMMA WithNextDownstream ==
  ASSUME NEW ds \in Downstreams, NEW flag \in BOOLEAN
  PROVE  LET e == [NotBegun EXCEPT !.step = "attempt", !.ds = ds, !.delivered = flag]
         IN e \in Deliveries /\ e.step = "attempt" /\ e.ds = ds /\ e.delivered = flag
<1>1. 1 \in Downstreams /\ NotBegun \in Deliveries
  BY SizeAssumption DEF NotBegun, Deliveries, Downstreams, Steps
<1> QED BY <1>1 DEF NotBegun, Deliveries, Steps

LEMMA WithNextAttempt ==
  ASSUME NEW d \in Deliveries, NEW n \in Nat
  PROVE  LET e == [d EXCEPT !.step = "attempt", !.timeouts = 0, !.attempt = n]
         IN /\ e \in Deliveries /\ e.step = "attempt" /\ e.ds = d.ds
            /\ e.delivered = d.delivered
<1>1. "attempt" \in Steps /\ 0 \in Nat
  BY DEF Steps
<1>2. LET e == [d EXCEPT !.step = "attempt", !.timeouts = 0, !.attempt = n]
      IN e \in Deliveries
  BY <1>1, Zenon DEF Deliveries
<1>3. LET e == [d EXCEPT !.step = "attempt", !.timeouts = 0, !.attempt = n]
      IN e.step = "attempt" /\ e.ds = d.ds /\ e.delivered = d.delivered
  BY DEF Deliveries
<1> QED BY <1>2, <1>3

(* What DeliveredTo does: the next downstream, or the result.               *)
LEMMA DeliveredToCases ==
  ASSUME TypeOK, NEW r \in Requests, NEW success \in BOOLEAN,
         DeliveredTo(r, success)
  PROVE  /\ delivery' \in [Requests -> Deliveries]
         /\ result' \in [Requests -> Codes]
         /\ \A q \in Requests : q # r =>
              delivery'[q] = delivery[q] /\ result'[q] = result[q]
         /\ \/ /\ delivery[r].ds < NumDownstreams
               /\ result' = result
               /\ delivery'[r].step = "attempt"
               /\ delivery'[r].ds = delivery[r].ds + 1
               /\ delivery'[r].delivered = (delivery[r].delivered \/ success)
            \/ /\ delivery[r].ds = NumDownstreams
               /\ delivery'[r].step = "done"
               /\ delivery'[r].ds = delivery[r].ds
               /\ result'[r] = IF delivery[r].delivered \/ success
                               THEN "Success" ELSE "TriedButFailed"
<1> DEFINE any == delivery[r].delivered \/ success
<1>1. /\ delivery \in [Requests -> Deliveries] /\ result \in [Requests -> Codes]
      /\ delivery[r] \in Deliveries
  BY DEF TypeOK, Deliveries, Codes
<1>2. NumDownstreams \in Nat \ {0} /\ delivery[r].ds \in 1 .. NumDownstreams
  BY <1>1, SizeAssumption DEF Deliveries, Downstreams
<1>3. any \in BOOLEAN
  OBVIOUS
<1>4. CASE delivery[r].ds < NumDownstreams
  <2> DEFINE next == [NotBegun EXCEPT !.step = "attempt", !.ds = delivery[r].ds + 1,
                                      !.delivered = any]
  <2>1. delivery' = [delivery EXCEPT ![r] = next] /\ result' = result
    BY <1>4 DEF DeliveredTo, Goes
  <2>2. /\ next \in Deliveries /\ next.step = "attempt"
        /\ next.ds = delivery[r].ds + 1 /\ next.delivered = any
    <3> HIDE DEF any
    <3>1. delivery[r].ds + 1 \in Downstreams
      BY <1>2, <1>4 DEF Downstreams
    <3> QED BY <1>3, <3>1, WithNextDownstream, Zenon
  <2> HIDE DEF next
  <2> QED BY <1>1, <1>4, <2>1, <2>2
<1>5. CASE delivery[r].ds = NumDownstreams
  <2> DEFINE done == [delivery[r] EXCEPT !.step = "done"]
             code == IF any THEN "Success" ELSE "TriedButFailed"
  <2>1. delivery' = [delivery EXCEPT ![r] = done] /\ result' = [result EXCEPT ![r] = code]
    BY <1>2, <1>5 DEF DeliveredTo, Goes, Finish
  <2>2. done \in Deliveries /\ done.step = "done" /\ done.ds = delivery[r].ds
    BY <1>1 DEF Deliveries, Steps
  <2>3. code \in Codes
    BY DEF Codes
  <2> HIDE DEF done
  <2> QED BY <1>1, <1>5, <2>1, <2>2, <2>3
<1> QED BY <1>2, <1>4, <1>5

(* An attempt is made again with the same downstream. *)
LEMMA NextAttemptProperties ==
  ASSUME TypeOK, NEW r \in Requests
  PROVE  /\ NextAttempt(r) \in Deliveries
         /\ NextAttempt(r).step = "attempt" /\ NextAttempt(r).ds = delivery[r].ds
         /\ NextAttempt(r).delivered = delivery[r].delivered
<1>1. delivery[r] \in Deliveries
  BY DEF TypeOK, Deliveries
<1> DEFINE n == IF delivery[r].attempt < MaxAttempts(r, delivery[r].ds)
                THEN delivery[r].attempt + 1 ELSE delivery[r].attempt
<1>2. n \in Nat
  BY <1>1 DEF Deliveries
<1>3. NextAttempt(r) = [delivery[r] EXCEPT !.step = "attempt", !.timeouts = 0, !.attempt = n]
  BY DEF NextAttempt
<1> HIDE DEF n
<1> QED BY <1>1, <1>2, <1>3, WithNextAttempt, Zenon

(* Where Goes leaves the deliveries.                                        *)
LEMMA GoesProperties ==
  ASSUME TypeOK, NEW r \in Requests, NEW changed \in Deliveries, Goes(r, changed)
  PROVE  /\ delivery' \in [Requests -> Deliveries] /\ delivery'[r] = changed
         /\ \A q \in Requests : q # r => delivery'[q] = delivery[q]
BY DEF Goes, TypeOK, Deliveries

-----------------------------------------------------------------------------
(* What the steps of a delivery amount to, as far as the invariant looks.   *)
DeliveryFrame(r) ==
  /\ delivery' \in [Requests -> Deliveries] /\ result' \in [Requests -> Codes]
  /\ \A q \in Requests : q # r =>
       delivery'[q] = delivery[q] /\ result'[q] = result[q]
  /\ delivery[r].step \notin {"idle", "done"} /\ delivery'[r].step # "idle"
  /\ raised = {}
  /\ UNCHANGED <<portVars, pushVars, queue, acceptedBy, due>>

Pinged(r) ==
  /\ delivery[r].step = "ping" /\ raised' = raised /\ goals' = goals
  /\ \/ delivery'[r].step = "ping" /\ result'[r] = result[r]
     \/ /\ delivery'[r].step = "attempt" /\ delivery'[r].ds = 1
        /\ delivery'[r].delivered = FALSE /\ result'[r] = result[r]
     \/ delivery'[r].step = "done" /\ result'[r] = "NotTried"

Passed(r, success) ==
  /\ raised' = raised
  /\ \/ /\ delivery[r].ds < NumDownstreams
        /\ result'[r] = result[r]
        /\ delivery'[r].step = "attempt"
        /\ delivery'[r].ds = delivery[r].ds + 1
        /\ delivery'[r].delivered = (delivery[r].delivered \/ success)
     \/ /\ delivery[r].ds = NumDownstreams
        /\ delivery'[r].step = "done"
        /\ delivery'[r].ds = delivery[r].ds
        /\ result'[r] = IF delivery[r].delivered \/ success
                        THEN "Success" ELSE "TriedButFailed"

Again(r) ==
  /\ raised' = raised /\ result'[r] = result[r]
  /\ delivery'[r].step = "attempt" /\ delivery'[r].ds = delivery[r].ds
  /\ delivery'[r].delivered = delivery[r].delivered

SameGoal(r) ==
  /\ result'[r] = result[r] /\ delivery'[r].ds = delivery[r].ds
  /\ delivery'[r].attempt = delivery[r].attempt
  /\ delivery'[r].delivered = delivery[r].delivered

Sent(r) ==
  /\ delivery[r].step = "attempt" /\ raised' = raised
  /\ delivery'[r].step \in {"sent", "waiting", "unanswered"}
  /\ SameGoal(r)
  /\ \/ goals' = goals
     \/ goals' = goals \cup {[goal |-> Goal(r), answer |-> "none"]}

Waited(r) ==
  /\ delivery[r].step \in {"sent", "waiting", "unanswered"} /\ goals' = goals
  /\ \/ delivery'[r].step \in {"sent", "waiting"} /\ raised' = raised
     \/ delivery'[r].step = "done" /\ raised' # {}
  /\ SameGoal(r)

Answered(r) ==
  /\ delivery[r].step = "waiting"
  /\ \E g \in goals :
       /\ g.goal = Goal(r) /\ goals' = goals \ {g}
       /\ \/ g.answer = "accept" /\ Passed(r, TRUE)
          \/ g.answer # "accept" /\ Again(r)

Moved(r) ==
  \/ Pinged(r)
  \/ delivery[r].step = "attempt" /\ goals' = goals /\ Passed(r, FALSE)
  \/ delivery[r].step = "attempt" /\ goals' = goals /\ Again(r)
  \/ Sent(r) \/ Waited(r) \/ Answered(r)

LEMMA PingMoves ==
  ASSUME TypeOK, NEW r \in Requests, Ping(r)
  PROVE  DeliveryFrame(r) /\ Pinged(r)
<1> DEFINE d == delivery[r]
<1>1. /\ delivery \in [Requests -> Deliveries] /\ result \in [Requests -> Codes]
      /\ d \in Deliveries /\ d.step = "ping" /\ raised = {}
      /\ NumDownstreams \in Nat \ {0} /\ d.ds \in 1 .. NumDownstreams
  BY SizeAssumption DEF TypeOK, Deliveries, Codes, Ping, Downstreams
<1>2. UNCHANGED <<portVars, pushVars, queue, goals, raised, acceptedBy, due>>
  BY DEF Ping, downstreamVars
<1>3. PICK isReady \in BOOLEAN :
        LET ready == IF isReady THEN d.ready + 1 ELSE d.ready IN
          \/ /\ Goes(r, [NotBegun EXCEPT !.step = "attempt"])
             /\ UNCHANGED result
          \/ /\ d.ds < NumDownstreams
             /\ Goes(r, [d EXCEPT !.ready = ready, !.ds = d.ds + 1])
             /\ UNCHANGED result
          \/ Finish(r, "NotTried")
  BY Zenon DEF Ping
<1> DEFINE ready == IF isReady THEN d.ready + 1 ELSE d.ready
<1>4. ready \in Nat
  BY <1>1 DEF Deliveries
<1>5. CASE Goes(r, [NotBegun EXCEPT !.step = "attempt"]) /\ UNCHANGED result
  <2> DEFINE e == [NotBegun EXCEPT !.step = "attempt"]
  <2>1. e \in Deliveries /\ e.step = "attempt" /\ e.ds = 1 /\ e.delivered = FALSE
    <3>1. 1 \in Downstreams /\ NotBegun \in Deliveries
      BY <1>1 DEF NotBegun, Deliveries, Downstreams, Steps
    <3> QED BY <3>1 DEF NotBegun, Deliveries, Steps
  <2> HIDE DEF e
  <2>2. /\ delivery' \in [Requests -> Deliveries] /\ delivery'[r] = e
        /\ \A q \in Requests : q # r => delivery'[q] = delivery[q]
    BY <1>5, <2>1, GoesProperties DEF e
  <2> QED BY <1>1, <1>2, <1>5, <2>1, <2>2 DEF DeliveryFrame, Pinged
<1>6. CASE /\ d.ds < NumDownstreams
           /\ Goes(r, [d EXCEPT !.ready = ready, !.ds = d.ds + 1])
           /\ UNCHANGED result
  <2> DEFINE e == [d EXCEPT !.ready = ready, !.ds = d.ds + 1]
  <2>1. d.ds + 1 \in Downstreams
    BY <1>1, <1>6 DEF Downstreams
  <2>2. e \in Deliveries /\ e.step = "ping"
    <3> HIDE DEF ready
    <3> QED BY <1>1, <1>4, <2>1 DEF Deliveries
  <2> HIDE DEF e
  <2>3. /\ delivery' \in [Requests -> Deliveries] /\ delivery'[r] = e
        /\ \A q \in Requests : q # r => delivery'[q] = delivery[q]
    BY <1>6, <2>2, GoesProperties DEF e
  <2> QED BY <1>1, <1>2, <1>6, <2>2, <2>3 DEF DeliveryFrame, Pinged
<1>7. CASE Finish(r, "NotTried")
  <2> DEFINE e == [d EXCEPT !.step = "done"]
  <2>1. e \in Deliveries /\ e.step = "done"
    BY <1>1 DEF Deliveries, Steps
  <2> HIDE DEF e
  <2>2. /\ delivery' \in [Requests -> Deliveries] /\ delivery'[r] = e
        /\ \A q \in Requests : q # r => delivery'[q] = delivery[q]
    BY <1>7, <2>1, GoesProperties DEF e, Finish
  <2>3. /\ result' \in [Requests -> Codes] /\ result'[r] = "NotTried"
        /\ \A q \in Requests : q # r => result'[q] = result[q]
    BY <1>1, <1>7 DEF Finish, Codes
  <2> QED BY <1>1, <1>2, <2>1, <2>2, <2>3 DEF DeliveryFrame, Pinged
<1> HIDE DEF d
<1> QED BY <1>3, <1>5, <1>6, <1>7

(* A delivery goes on as DeliveredTo says. *)
LEMMA DeliveredToMoves ==
  ASSUME TypeOK, NEW r \in Requests, NEW success \in BOOLEAN,
         DeliveredTo(r, success), delivery[r].step \notin {"idle", "done"},
         raised = {}, raised' = raised,
         UNCHANGED <<portVars, pushVars, queue, acceptedBy, due>>
  PROVE  DeliveryFrame(r) /\ Passed(r, success)
BY DeliveredToCases DEF DeliveryFrame, Passed

LEMMA AgainMoves ==
  ASSUME TypeOK, NEW r \in Requests,
         Goes(r, NextAttempt(r)), delivery[r].step \notin {"idle", "done"},
         raised = {}, raised' = raised, result' = result,
         UNCHANGED <<portVars, pushVars, queue, acceptedBy, due>>
  PROVE  DeliveryFrame(r) /\ Again(r)
BY NextAttemptProperties, GoesProperties DEF DeliveryFrame, Again, TypeOK, Codes

LEMMA GiveUpMoves ==
  ASSUME TypeOK, NEW r \in Requests, GiveUp(r)
  PROVE  /\ DeliveryFrame(r) /\ Passed(r, FALSE)
         /\ delivery[r].step = "attempt" /\ goals' = goals
BY DeliveredToMoves DEF GiveUp, downstreamVars

LEMMA NobodyThereMoves ==
  ASSUME TypeOK, NEW r \in Requests, AttemptNobodyThere(r)
  PROVE  /\ DeliveryFrame(r) /\ Again(r)
         /\ delivery[r].step = "attempt" /\ goals' = goals
BY AgainMoves DEF AttemptNobodyThere, downstreamVars

(* Only the step, and perhaps the count of timeouts, changes. *)
LEMMA StepMoves ==
  ASSUME TypeOK, NEW r \in Requests, NEW step \in Steps, NEW n \in Nat,
         delivery[r].step \notin {"idle", "done"}, step # "idle",
         \/ Goes(r, [delivery[r] EXCEPT !.step = step])
         \/ Goes(r, [delivery[r] EXCEPT !.step = step, !.timeouts = n]),
         raised = {}, result' = result,
         UNCHANGED <<portVars, pushVars, queue, acceptedBy, due>>
  PROVE  DeliveryFrame(r) /\ SameGoal(r) /\ delivery'[r].step = step
<1> DEFINE e == [delivery[r] EXCEPT !.step = step]
           f == [delivery[r] EXCEPT !.step = step, !.timeouts = n]
<1>1. delivery[r] \in Deliveries /\ result \in [Requests -> Codes]
  BY DEF TypeOK, Deliveries, Codes
<1>2. /\ e \in Deliveries /\ e.step = step /\ e.ds = delivery[r].ds
      /\ e.attempt = delivery[r].attempt /\ e.delivered = delivery[r].delivered
  BY <1>1 DEF Deliveries
<1>3. /\ f \in Deliveries /\ f.step = step /\ f.ds = delivery[r].ds
      /\ f.attempt = delivery[r].attempt /\ f.delivered = delivery[r].delivered
  BY <1>1 DEF Deliveries
<1> HIDE DEF e, f
<1>4. CASE Goes(r, e)
  BY <1>1, <1>2, <1>4, GoesProperties DEF DeliveryFrame, SameGoal
<1>5. CASE Goes(r, f)
  BY <1>1, <1>3, <1>5, GoesProperties DEF DeliveryFrame, SameGoal
<1> QED BY <1>4, <1>5 DEF e, f

LEMMA PolicyForType ==
  ASSUME TypeOK, NEW r \in Requests, NEW d \in Downstreams
  PROVE  PolicyFor(r, d) \in Policies
<1> DEFINE candidates == IF OwnPolicy(r) = {} THEN {DownstreamPolicy(d)} ELSE OwnPolicy(r)
<1>1. config.own[r] \subseteq Policies /\ config.downstream \in [Downstreams -> Policies]
  BY ConfigAssumption DEF TypeOK, IsInitConfig
<1>2. candidates \subseteq Policies /\ candidates # {}
  BY <1>1 DEF OwnPolicy, DownstreamPolicy
<1>3. PolicyFor(r, d) = CHOOSE policy \in candidates : TRUE
  BY DEF PolicyFor
<1> HIDE DEF candidates
<1> QED BY <1>2, <1>3

LEMMA AttemptSendMoves ==
  ASSUME TypeOK, NEW r \in Requests, AttemptSend(r)
  PROVE  DeliveryFrame(r) /\ Sent(r)
<1> DEFINE wait == PolicyFor(r, delivery[r].ds).retry.wait
           step == CASE wait = "positive" -> "sent"
                     [] wait = "negative" -> "waiting"
                     [] wait = "zero" -> "unanswered"
<1>1. delivery[r].step = "attempt" /\ raised = {} /\ raised' = raised
      /\ Goes(r, [delivery[r] EXCEPT !.step = step]) /\ result' = result
      /\ UNCHANGED <<portVars, pushVars, queue, acceptedBy, due>>
  BY DEF AttemptSend, downstreamVars
<1>2. \/ goals' = goals
      \/ goals' = goals \cup {[goal |-> Goal(r), answer |-> "none"]}
  BY DEF AttemptSend
<1>3. wait \in {"positive", "negative", "zero"}
  BY PolicyForType DEF TypeOK, Policies, RetryPolicies
<1>4. step \in {"sent", "waiting", "unanswered"} /\ step \in Steps
  BY <1>3 DEF Steps
<1> HIDE DEF step
<1> QED BY <1>1, <1>2, <1>4, StepMoves DEF Sent

LEMMA WaitMoves ==
  ASSUME TypeOK, NEW r \in Requests,
         WaitLoop(r) \/ WaitTimeout(r) \/ NoResponseCode(r)
  PROVE  DeliveryFrame(r) /\ Waited(r)
<1>1. /\ delivery[r].step \in {"sent", "waiting", "unanswered"} /\ raised = {}
      /\ goals' = goals /\ result' = result
      /\ UNCHANGED <<portVars, pushVars, queue, acceptedBy, due>>
  BY DEF WaitLoop, WaitTimeout, NoResponseCode, downstreamVars
<1>2. \/ \E what : Raise(r, what)
      \/ Goes(r, [delivery[r] EXCEPT !.step = "waiting"]) /\ raised' = raised
      \/ /\ Goes(r, [delivery[r] EXCEPT !.step = "sent", !.timeouts = delivery[r].timeouts + 1])
         /\ raised' = raised
  BY Zenon DEF WaitLoop, WaitTimeout, NoResponseCode
<1>3. {"done", "waiting", "sent"} \subseteq Steps /\ delivery[r].timeouts + 1 \in Nat
  BY DEF TypeOK, Steps
<1>4. CASE \E what : Raise(r, what)
  <2>1. Goes(r, [delivery[r] EXCEPT !.step = "done"]) /\ raised' # {}
    BY <1>4 DEF Raise
  <2> QED BY <1>1, <1>3, <2>1, StepMoves DEF Waited
<1>5. CASE Goes(r, [delivery[r] EXCEPT !.step = "waiting"]) /\ raised' = raised
  BY <1>1, <1>3, <1>5, StepMoves DEF Waited
<1>6. CASE /\ Goes(r, [delivery[r] EXCEPT !.step = "sent", !.timeouts = delivery[r].timeouts + 1])
           /\ raised' = raised
  BY <1>1, <1>3, <1>6, StepMoves DEF Waited
<1> QED BY <1>2, <1>4, <1>5, <1>6

LEMMA ReceiveAnswerMoves ==
  ASSUME TypeOK, NEW r \in Requests, ReceiveAnswer(r)
  PROVE  DeliveryFrame(r) /\ Answered(r)
<1>1. /\ delivery[r].step = "waiting" /\ raised = {} /\ raised' = raised
      /\ UNCHANGED <<portVars, pushVars, queue, acceptedBy, due>>
  BY DEF ReceiveAnswer, downstreamVars
<1>2. PICK g \in goals :
        /\ g.goal = Goal(r) /\ goals' = goals \ {g}
        /\ \/ g.answer = "accept" /\ DeliveredTo(r, TRUE)
           \/ g.answer # "accept" /\ Goes(r, NextAttempt(r)) /\ result' = result
  BY Zenon DEF ReceiveAnswer
<1>3. CASE g.answer = "accept" /\ DeliveredTo(r, TRUE)
  BY <1>1, <1>2, <1>3, DeliveredToMoves DEF Answered
<1>4. CASE g.answer # "accept" /\ Goes(r, NextAttempt(r)) /\ result' = result
  BY <1>1, <1>2, <1>4, AgainMoves DEF Answered
<1> QED BY <1>2, <1>3, <1>4

LEMMA DeliverMoves ==
  ASSUME TypeOK, NEW r \in Requests, Deliver(r)
  PROVE  DeliveryFrame(r) /\ Moved(r)
BY PingMoves, GiveUpMoves, NobodyThereMoves, AttemptSendMoves, WaitMoves,
   ReceiveAnswerMoves DEF Deliver, Moved

(* Facts of a goal in the current attempt, and of one that is not.          *)
LEMMA GoalFacts ==
  ASSUME TypeOK
  PROVE  /\ \A r \in Requests : Goal(r) \in
              [request : Requests, ds : Downstreams, attempt : Nat]
         /\ \A r \in Requests : Goal(r).request = r /\ Goal(r).ds = delivery[r].ds
         /\ \A g \in goals : /\ g.goal.request \in Requests
                             /\ g.goal.ds \in Downstreams
                             /\ g.answer \in {"none", "accept", "reject"}
BY DEF TypeOK, Goal

(* Deliveries keep every part of the invariant. *)
LEMMA DeliverType ==
  ASSUME TypeOK, NEW r \in Requests, DeliveryFrame(r), Moved(r)
  PROVE  TypeOK'
<1>1. delivery' \in [Requests -> Deliveries] /\ result' \in [Requests -> Codes]
      /\ UNCHANGED <<portVars, pushVars, queue, acceptedBy, due>>
  BY DEF DeliveryFrame
<1>2. goals' \subseteq goals \cup {[goal |-> Goal(r), answer |-> "none"]}
  BY DEF Moved, Pinged, Sent, Waited, Answered
<1>3. goals' \subseteq
       [goal : [request : Requests, ds : Downstreams, attempt : Nat],
        answer : {"none", "accept", "reject"}]
  <2>1. Goal(r) \in [request : Requests, ds : Downstreams, attempt : Nat]
    BY GoalFacts
  <2> QED BY <1>2, <2>1 DEF TypeOK
<1> QED
  BY <1>1, <1>3 DEF TypeOK, portVars, pushVars, Deliveries, Codes

LEMMA DeliverEnqueue ==
  ASSUME TypeOK, EnqueueInv, NEW r \in Requests, DeliveryFrame(r)
  PROVE  EnqueueInv'
BY DEF DeliveryFrame, EnqueueInv, portVars, pushVars, IsShuttingDown

LEMMA DeliverGoal ==
  ASSUME TypeOK, GoalInv, AcceptInv, ResultInv, NEW r \in Requests,
         DeliveryFrame(r), Moved(r)
  PROVE  GoalInv'
<1>1. /\ \A q \in Requests : q # r =>
           delivery'[q] = delivery[q] /\ result'[q] = result[q] /\ Goal(q)' = Goal(q)
      /\ acceptedBy' = acceptedBy
  BY DEF DeliveryFrame, Goal
<1>2. \A g \in goals : g.goal.request \in Requests
  BY GoalFacts
<1>3. CASE goals' = goals /\ \A g \in goals : g.goal.request # r
  BY <1>1, <1>2, <1>3 DEF GoalInv
<1>4. CASE delivery[r].step \in {"ping", "attempt"} /\ goals' = goals
  BY <1>3, <1>4 DEF GoalInv
<1>5. CASE Sent(r)
  <2> DEFINE new == [goal |-> Goal(r), answer |-> "none"]
  <2>1. CASE goals' = goals
    BY <1>4, <1>5, <2>1 DEF Sent
  <2>2. CASE goals' = goals \cup {new}
    <3>1. \A g \in goals : g.goal.request # r
      BY <1>5 DEF Sent, GoalInv
    <3>2. Goal(r)' = Goal(r) /\ new.goal = Goal(r) /\ new.answer = "none"
          /\ Goal(r).request = r /\ Goal(r).ds = delivery[r].ds
      BY <1>5 DEF Sent, SameGoal, Goal
    <3>3. delivery'[r].step \in {"sent", "waiting", "unanswered"} /\ result'[r] = result[r]
      BY <1>5 DEF Sent, SameGoal
    <3>4. ~Has(acceptedBy[delivery[r].ds], r) /\ result[r] = "none"
      <4>1. delivery[r].step = "attempt" /\ delivery[r].ds \in 1 .. NumDownstreams
            /\ NumDownstreams \in Nat
        BY <1>5, SizeAssumption DEF Sent, TypeOK, Downstreams
      <4> QED BY <4>1 DEF AcceptInv, ResultInv, Downstreams
    <3>5. \A g \in goals' : g = new \/ g \in goals
      BY <2>2
    <3> HIDE DEF new
    <3> QED BY <1>1, <1>2, <3>1, <3>2, <3>3, <3>4, <3>5 DEF GoalInv
  <2> QED BY <1>5, <2>1, <2>2 DEF Sent
<1>6. CASE Waited(r)
  <2>1. Goal(r)' = Goal(r) /\ result'[r] = result[r] /\ goals' = goals
        /\ delivery'[r].step \in {"sent", "waiting", "done"}
    BY <1>6 DEF Waited, SameGoal, Goal
  <2> QED BY <1>1, <1>2, <2>1 DEF GoalInv
<1>7. CASE Answered(r)
  <2>1. \A g \in goals' : g \in goals /\ g.goal.request # r
    BY <1>7, GoalFacts DEF Answered, GoalInv
  <2> QED BY <1>1, <1>2, <2>1 DEF GoalInv
<1> QED BY <1>4, <1>5, <1>6, <1>7 DEF Moved, Pinged

LEMMA DeliverAccept ==
  ASSUME TypeOK, AcceptInv, GoalInv, NEW r \in Requests, DeliveryFrame(r), Moved(r)
  PROVE  AcceptInv'
<1>1. /\ \A q \in Requests : q # r => delivery'[q] = delivery[q]
      /\ acceptedBy' = acceptedBy
      /\ delivery[r].ds \in 1 .. NumDownstreams /\ NumDownstreams \in Nat
      /\ Downstreams = 1 .. NumDownstreams
  BY SizeAssumption DEF DeliveryFrame, TypeOK, Downstreams
<1> SUFFICES ASSUME NEW d \in Downstreams, Has(acceptedBy[d], r)
             PROVE  /\ delivery'[r].step \notin {"idle", "ping"}
                    /\ d <= delivery'[r].ds
                    /\ delivery'[r].step = "attempt" => d < delivery'[r].ds
  BY <1>1, Zenon DEF AcceptInv
<1>2. /\ delivery[r].step \notin {"idle", "ping"} /\ d <= delivery[r].ds
      /\ delivery[r].step = "attempt" => d < delivery[r].ds
  BY DEF AcceptInv
<1>3. CASE \E success \in BOOLEAN : Passed(r, success)
  BY <1>1, <1>2, <1>3 DEF Passed
<1>4. CASE delivery[r].step = "attempt" /\ Again(r)
  BY <1>2, <1>4 DEF Again
<1>5. CASE Sent(r)
  BY <1>2, <1>5 DEF Sent, SameGoal
<1>6. CASE Waited(r)
  BY <1>2, <1>6 DEF Waited, SameGoal
<1>7. CASE \E g \in goals : g.goal = Goal(r) /\ g.answer # "accept" /\ Again(r)
  <2>1. ~Has(acceptedBy[delivery[r].ds], r)
    BY <1>7, GoalFacts DEF GoalInv
  <2>2. d # delivery[r].ds
    BY <2>1
  <2> QED BY <1>1, <1>2, <1>7, <2>2 DEF Again
<1> QED BY <1>2, <1>3, <1>4, <1>5, <1>6, <1>7 DEF Moved, Pinged, Answered

(* A result that is known stays, and one that comes is right.               *)
LEMMA DeliverResult ==
  ASSUME TypeOK, AcceptInv, GoalInv, ResultInv, ResultIsTruthful,
         NEW r \in Requests, DeliveryFrame(r), Moved(r)
  PROVE  ResultInv' /\ ResultIsTruthful'
<1> DEFINE has(d) == Has(acceptedBy[d], r)
           now == delivery[r].ds
<1>1. /\ \A q \in Requests : q # r =>
           delivery'[q] = delivery[q] /\ result'[q] = result[q]
      /\ acceptedBy' = acceptedBy
      /\ now \in 1 .. NumDownstreams /\ NumDownstreams \in Nat
      /\ Downstreams = 1 .. NumDownstreams
      /\ raised = {} /\ delivery[r].step \notin {"idle", "done"}
      /\ result[r] = "none" /\ delivery'[r] \in Deliveries
  BY SizeAssumption DEF DeliveryFrame, TypeOK, Downstreams, ResultInv
<1>2. \A q \in Requests : q # r =>
        /\ delivery[q].step \in {"attempt", "sent", "waiting", "unanswered"} =>
             (delivery[q].delivered <=>
                \E d \in Downstreams : d < delivery[q].ds /\ Has(acceptedBy[d], q))
        /\ result[q] # "none" => delivery[q].step = "done"
        /\ delivery[q].step = "done" => result[q] # "none"
        /\ result[q] # "none" =>
             (result[q] = "Success" <=> \E d \in Downstreams : Has(acceptedBy[d], q))
  BY <1>1 DEF ResultInv, ResultIsTruthful
<1>3. ASSUME /\ delivery'[r].step \in {"attempt", "sent", "waiting", "unanswered"} =>
                  (delivery'[r].delivered <=>
                     \E d \in Downstreams : d < delivery'[r].ds /\ has(d)),
             result'[r] # "none" =>
               /\ delivery'[r].step = "done"
               /\ result'[r] = "Success" <=> \E d \in Downstreams : has(d),
             delivery'[r].step = "done" => result'[r] # "none" \/ raised' # {}
      PROVE  ResultInv' /\ ResultIsTruthful'
  <2>1. ResultInv'
    <3> SUFFICES ASSUME NEW q \in Requests
                 PROVE /\ delivery'[q].step \in {"attempt", "sent", "waiting", "unanswered"} =>
                            (delivery'[q].delivered <=>
                               \E d \in Downstreams : d < delivery'[q].ds /\ Has(acceptedBy[d], q))
                       /\ result'[q] # "none" => delivery'[q].step = "done"
                       /\ delivery'[q].step = "done" => result'[q] # "none" \/ raised' # {}
      BY <1>1 DEF ResultInv
    <3>1. CASE q = r
      BY <1>3, <3>1, Zenon
    <3>2. CASE q # r
      BY <1>1, <1>2, <3>2, Zenon
    <3> QED BY <3>1, <3>2
  <2>2. ResultIsTruthful'
    BY <1>1, <1>2, <1>3, Zenon DEF ResultIsTruthful
  <2> QED BY <2>1, <2>2
<1>4. /\ delivery[r].step = "ping" => \A d \in Downstreams : ~has(d)
      /\ \A d \in Downstreams : has(d) => d <= now
      /\ delivery[r].step = "attempt" => \A d \in Downstreams : has(d) => d < now
      /\ delivery[r].step # "ping" =>
           (delivery[r].delivered <=> \E d \in Downstreams : d < now /\ has(d))
  <2>1. delivery[r].step \in Steps
    BY DEF TypeOK
  <2> QED BY <1>1, <2>1 DEF AcceptInv, ResultInv, Steps
<1> HIDE DEF has
<1>5. CASE Pinged(r)
  <2>1. delivery[r].step = "ping" /\ \A d \in Downstreams : ~has(d)
    BY <1>4, <1>5 DEF Pinged
  <2> QED BY <1>1, <1>3, <1>5, <2>1 DEF Pinged
<1>6. ASSUME NEW success \in BOOLEAN, Passed(r, success), success <=> has(now),
             delivery[r].step # "ping"
      PROVE  ResultInv' /\ ResultIsTruthful'
  <2>1. (delivery[r].delivered \/ success) <=> \E d \in Downstreams : d <= now /\ has(d)
    BY <1>1, <1>4, <1>6
  <2>2. CASE now < NumDownstreams
    <3>1. /\ result'[r] = "none" /\ delivery'[r].step = "attempt"
          /\ delivery'[r].ds = now + 1
          /\ delivery'[r].delivered = (delivery[r].delivered \/ success)
      BY <1>1, <1>6, <2>2 DEF Passed
    <3>2. (\E d \in Downstreams : d <= now /\ has(d)) <=>
          (\E d \in Downstreams : d < now + 1 /\ has(d))
      BY <1>1
    <3> QED BY <1>3, <2>1, <3>1, <3>2
  <2>3. CASE now = NumDownstreams
    <3>1. /\ delivery'[r].step = "done"
          /\ result'[r] = IF delivery[r].delivered \/ success
                          THEN "Success" ELSE "TriedButFailed"
      BY <1>1, <1>6, <2>3 DEF Passed
    <3>2. (\E d \in Downstreams : d <= now /\ has(d)) <=>
          (\E d \in Downstreams : has(d))
      BY <1>1, <2>3
    <3> QED BY <1>3, <2>1, <3>1, <3>2
  <2> QED BY <1>1, <2>2, <2>3
<1>7. CASE Again(r) /\ delivery[r].step # "ping"
  <2>1. delivery'[r].delivered = delivery[r].delivered /\ delivery'[r].ds = now
        /\ delivery'[r].step = "attempt" /\ result'[r] = "none"
    BY <1>1, <1>7 DEF Again
  <2> QED BY <1>3, <1>4, <1>7, <2>1
<1>8. CASE SameGoal(r) /\ delivery[r].step # "ping" /\ (delivery'[r].step = "done" => raised' # {})
  <2>1. delivery'[r].delivered = delivery[r].delivered /\ delivery'[r].ds = now
        /\ result'[r] = "none"
    BY <1>1, <1>8 DEF SameGoal
  <2> QED BY <1>3, <1>4, <1>8, <2>1
<1>9. CASE delivery[r].step = "attempt" /\ Passed(r, FALSE)
  <2>1. ~has(now)
    BY <1>1, <1>4, <1>9
  <2> QED BY <1>6, <1>9, <2>1
<1>10. CASE Answered(r)
  <2>1. PICK g \in goals : /\ g.goal = Goal(r)
                           /\ \/ g.answer = "accept" /\ Passed(r, TRUE)
                              \/ g.answer # "accept" /\ Again(r)
    BY <1>10 DEF Answered
  <2>2. g.answer = "accept" <=> has(now)
    BY <2>1, GoalFacts DEF GoalInv, has
  <2> QED BY <1>6, <1>7, <1>10, <2>1, <2>2 DEF Answered
<1> QED BY <1>5, <1>7, <1>8, <1>9, <1>10 DEF Moved, Sent, Waited

LEMMA DeliverStop ==
  ASSUME TypeOK, ResultInv, StopInv, StopSettles, NEW r \in Requests, DeliveryFrame(r)
  PROVE  StopInv' /\ StopSettles'
<1>1. /\ stopper' = stopper /\ due' = due /\ queue' = queue /\ due \subseteq Requests
      /\ \A q \in Requests : q # r =>
           delivery'[q] = delivery[q] /\ result'[q] = result[q]
      /\ delivery'[r].step # "idle" /\ result[r] = "none"
  BY DEF DeliveryFrame, portVars, ResultInv, TypeOK
<1> QED BY <1>1 DEF StopInv, StopSettles

LEMMA DeliverKeeps ==
  ASSUME IInv, NEW r \in Requests, Deliver(r)
  PROVE  IInv'
<1>1. DeliveryFrame(r) /\ Moved(r)
  BY DeliverMoves DEF IInv
<1> QED
  BY <1>1, DeliverType, DeliverEnqueue, DeliverGoal, DeliverAccept, DeliverResult,
     DeliverStop DEF IInv

-----------------------------------------------------------------------------
(* The other steps.  A delivery begins with a request that nobody has.      *)
LEMMA DeliveryBeginKeeps ==
  ASSUME IInv, NEW k \in 1 .. PipelineCapacity, DeliveryBegin(k)
  PROVE  IInv'
<1> DEFINE r == queue[k]
           step == IF PreconditionOf(r) \in {"DontCare", "NoPrecondition"}
                   THEN "attempt" ELSE "ping"
           begun == [NotBegun EXCEPT !.step = step]
<1> USE DEF IInv
<1>1. /\ k \in DOMAIN queue /\ queue \in Seq(Requests) /\ r \in Requests
      /\ queue' = Without(queue, k)
      /\ Goes(r, begun) /\ raised = {}
      /\ UNCHANGED <<portVars, pushVars, result, goals, raised, acceptedBy, due>>
  BY DEF DeliveryBegin, TypeOK, Without, downstreamVars
<1>2. /\ begun \in Deliveries /\ begun.step = step /\ begun.ds = 1
      /\ begun.delivered = FALSE
  <2>1. 1 \in Downstreams /\ NotBegun \in Deliveries
    BY SizeAssumption DEF NotBegun, Deliveries, Downstreams, Steps
  <2>2. step \in Steps
    BY DEF Steps
  <2> HIDE DEF step
  <2> QED BY <2>1, <2>2 DEF NotBegun, Deliveries
<1>3. step \in {"attempt", "ping"}
  OBVIOUS
<1>4. Has(queue, r) /\ delivery[r].step = "idle" /\ Has(enqueued, r)
  BY <1>1 DEF Has, EnqueueInv
<1>5. /\ queue' \in Seq(Requests)
      /\ \A x : Has(queue', x) => Has(queue, x)
      /\ \A x : Has(queue, x) => x = r \/ Has(queue', x)
      /\ NoDuplicates(queue') /\ ~Has(queue', r)
  BY <1>1, HasWithout DEF EnqueueInv
<1> HIDE DEF begun, step, r
<1>6. /\ delivery' \in [Requests -> Deliveries] /\ delivery'[r] = begun
      /\ \A q \in Requests : q # r => delivery'[q] = delivery[q]
  BY <1>1, <1>2, GoesProperties
<1>7. TypeOK'
  BY <1>1, <1>5, <1>6 DEF TypeOK, portVars, pushVars, Deliveries
<1>8. EnqueueInv'
  BY <1>1, <1>2, <1>3, <1>4, <1>5, <1>6
     DEF EnqueueInv, portVars, pushVars, IsShuttingDown
<1>9. GoalInv'
  <2>1. \A g \in goals : g.goal.request # r /\ g.goal.request \in Requests
    BY <1>4, GoalFacts DEF GoalInv
  <2>2. \A q \in Requests : q # r => Goal(q)' = Goal(q)
    BY <1>6 DEF Goal
  <2> QED BY <1>1, <1>6, <2>1, <2>2 DEF GoalInv
<1>10. AcceptInv' /\ \A d \in Downstreams : ~Has(acceptedBy[d], r)
  BY <1>1, <1>4, <1>6 DEF AcceptInv
<1>11. ResultInv'
  BY <1>1, <1>2, <1>3, <1>4, <1>6, <1>10 DEF ResultInv
<1>12. ResultIsTruthful'
  BY <1>1 DEF ResultIsTruthful
<1>13. StopInv' /\ StopSettles'
  <2>1. stopper' = stopper /\ due' = due /\ result' = result /\ due \subseteq Requests
    BY <1>1 DEF portVars, TypeOK
  <2> QED BY <1>2, <1>3, <1>5, <1>6, <2>1 DEF StopInv, StopSettles
<1> QED BY <1>7, <1>8, <1>9, <1>10, <1>11, <1>12, <1>13

(* A push touches nothing but what was pushed. *)
LEMMA PushKeeps ==
  ASSUME IInv, NEW r \in Requests, Push(r)
  PROVE  IInv'
<1> USE DEF IInv
<1>1. /\ UNCHANGED <<config, status, stopper, down, delivery, result, goals, raised,
                     acceptedBy, due>>
      /\ checked' \in BOOLEAN
  BY DEF Push, PushBegin, PushCheck, PushConnected, PushRaises, PushAccepted,
         PushFailed, PushReturn, portVars, deliveryVars, downstreamVars, TypeOK
<1>2. GoalInv' /\ AcceptInv' /\ ResultInv' /\ ResultIsTruthful' /\ StopSettles'
  BY <1>1 DEF GoalInv, AcceptInv, ResultInv, ResultIsTruthful, StopSettles, Goal
<1>3. PICK step \in {"trying", "connecting", "checked", "enqueued", "true", "false",
                    "raised"},
           attempt \in Nat : Pushed(r, step, attempt)
  <2> DEFINE last == pushing[r].attempt
             next == IF config.enqueue[r].strategy = "NoDrop" THEN 0 ELSE last + 1
             answer == IF config.enqueue[r].strategy = "NoDrop" /\ IsShuttingDown
                       THEN "false" ELSE "true"
  <2>1. last \in Nat /\ next \in Nat /\ 0 \in Nat /\ answer \in {"true", "false"}
    BY DEF TypeOK
  <2>2. \/ Pushed(r, "trying", 0) \/ Pushed(r, "checked", last)
        \/ Pushed(r, "enqueued", last) \/ Pushed(r, "trying", next)
        \/ Pushed(r, "false", last) \/ Pushed(r, answer, last)
        \/ Pushed(r, "connecting", last) \/ Pushed(r, "raised", last)
    BY Zenon DEF Push, PushBegin, PushCheck, PushConnected, PushRaises, PushAccepted,
                 PushFailed, PushReturn
  <2> HIDE DEF last, next, answer
  <2> QED BY <2>1, <2>2
<1>4. /\ pushing' \in [Requests ->
           [step : {"idle", "trying", "connecting", "checked", "enqueued", "true",
                    "false", "raised"},
            attempt : Nat]]
      /\ pushing'[r].step = step
      /\ \A q \in Requests : q # r => pushing'[q] = pushing[q]
  BY <1>3 DEF Pushed, TypeOK
<1>5. CASE PushAccepted(r)
  <2>1. /\ queue' = Append(queue, r) /\ enqueued' = Append(enqueued, r)
        /\ pushing[r].step = "checked" /\ pushing'[r].step = "enqueued"
    BY <1>5 DEF PushAccepted, Pushed, TypeOK
  <2>2. ~Has(enqueued, r) /\ ~Has(queue, r) /\ delivery[r].step = "idle"
    BY <2>1 DEF EnqueueInv
  <2>3. /\ queue' \in Seq(Requests) /\ enqueued' \in Seq(Requests)
        /\ NoDuplicates(queue') /\ NoDuplicates(enqueued')
        /\ \A x : Has(queue', x) <=> Has(queue, x) \/ x = r
        /\ \A x : Has(enqueued', x) <=> Has(enqueued, x) \/ x = r
    BY <2>1, <2>2, HasAppended DEF EnqueueInv, TypeOK
  <2>4. TypeOK'
    BY <1>1, <1>4, <2>3 DEF TypeOK
  <2>5. EnqueueInv'
    BY <1>1, <1>4, <2>1, <2>2, <2>3 DEF EnqueueInv, IsShuttingDown
  <2>6. StopInv'
    BY <1>1, <2>3 DEF StopInv, TypeOK
  <2> QED BY <1>2, <2>4, <2>5, <2>6
<1>6. CASE ~PushAccepted(r)
  <2>1. queue' = queue /\ enqueued' = enqueued
    BY <1>6 DEF Push, PushBegin, PushCheck, PushConnected, PushRaises, PushFailed,
                PushReturn
  <2>2. TypeOK' /\ StopInv'
    BY <1>1, <1>4, <2>1 DEF TypeOK, StopInv
  <2>3. /\ pushing'[r].step \in {"trying", "connecting", "checked", "raised"} =>
             ~Has(enqueued, r)
        /\ pushing'[r].step # "enqueued"
        /\ pushing'[r].step = "true" => Has(enqueued, r)
        /\ pushing'[r].step = "false" =>
             \/ ~Has(enqueued, r)
             \/ config.enqueue[r].strategy = "NoDrop" /\ IsShuttingDown
    BY <1>6 DEF Push, PushBegin, PushCheck, PushConnected, PushRaises, PushFailed,
                PushReturn, Pushed, EnqueueInv, TypeOK
  <2>4. EnqueueInv'
    BY <1>1, <1>4, <1>3, <2>1, <2>3 DEF EnqueueInv, IsShuttingDown
  <2> QED BY <1>2, <2>2, <2>4
<1> QED BY <1>5, <1>6

(* start(), stop() and what goes down. *)
LEMMA ControlKeeps ==
  ASSUME IInv,
         \/ Start \/ StopBegin \/ StopWaited \/ StopEnd
         \/ \E what \in Shutdowns : GoDown(what)
  PROVE  IInv'
<1> USE DEF IInv
<1>1. UNCHANGED <<config, pushVars, queue, deliveryVars, downstreamVars>>
  BY DEF Start, StopBegin, StopWaited, StopEnd, GoDown, portVars
<1>2. GoalInv' /\ AcceptInv' /\ ResultInv' /\ ResultIsTruthful'
  BY <1>1 DEF GoalInv, AcceptInv, ResultInv, ResultIsTruthful, Goal, deliveryVars,
              downstreamVars
<1>3. EnqueueInv'
  <2>1. IsShuttingDown => IsShuttingDown'
    BY DEF Start, StopBegin, StopWaited, StopEnd, GoDown, portVars, IsShuttingDown
  <2> QED BY <1>1, <2>1 DEF EnqueueInv, deliveryVars, pushVars
<1>4. TypeOK'
  <2>1. /\ status' \in {"STOPPED", "STARTED"} /\ checked' \in BOOLEAN
        /\ stopper' \in {"idle", "waiting", "waited"}
    BY DEF Start, StopBegin, StopWaited, StopEnd, GoDown, TypeOK
  <2>2. due' \subseteq Requests
    <3>1. Running \subseteq Requests /\ {queue[k] : k \in DOMAIN queue} \subseteq Requests
      BY DEF Running, TypeOK
    <3>2. due' = due \/ due' = Running \cup {queue[k] : k \in DOMAIN queue}
      BY DEF Start, StopBegin, StopWaited, StopEnd, GoDown
    <3> QED BY <3>1, <3>2 DEF TypeOK
  <2> QED BY <1>1, <2>1, <2>2 DEF TypeOK, deliveryVars, pushVars, downstreamVars
<1>5. StopInv' /\ StopSettles'
  <2>1. CASE stopper' = stopper /\ due' = due
    BY <1>1, <2>1 DEF StopInv, StopSettles, deliveryVars
  <2>2. CASE StopBegin
    <3>1. /\ stopper' = "waiting"
          /\ due' = Running \cup {queue[k] : k \in DOMAIN queue}
      BY <2>2 DEF StopBegin
    <3>2. \A r \in due' : Has(queue, r) \/ delivery[r].step # "idle"
      BY <3>1 DEF Running, Has
    <3> QED BY <1>1, <3>1, <3>2 DEF StopInv, StopSettles, deliveryVars
  <2>3. CASE StopWaited
    <3>1. /\ stopper = "waiting" /\ due' = due /\ due \subseteq Requests
          /\ queue = <<>> /\ Running = {} /\ raised = {}
      BY <2>3 DEF StopWaited, GraphIsIdle, TypeOK
    <3>2. \A r \in due : ~Has(queue, r)
      BY <3>1 DEF Has
    <3>3. \A r \in due : delivery[r].step = "done"
      BY <3>1, <3>2 DEF StopInv, Running
    <3>4. \A r \in due : result[r] # "none"
      BY <3>1, <3>3 DEF ResultInv
    <3>5. \A r \in due : delivery[r].step # "idle"
      BY <3>3
    <3> QED BY <1>1, <3>1, <3>4, <3>5 DEF StopInv, StopSettles, deliveryVars
  <2>4. CASE StopEnd
    BY <2>4 DEF StopEnd, StopInv, StopSettles
  <2> QED BY <2>1, <2>2, <2>3, <2>4 DEF Start, GoDown
<1> QED BY <1>2, <1>3, <1>4, <1>5

(* Downstreams answer the goals they have, and lose some. *)
LEMMA DownstreamKeeps ==
  ASSUME IInv, NEW d \in Downstreams,
         ComeOnline(d) \/ Crash(d) \/ \E r \in Requests : Accept(r, d) \/ Reject(r, d)
  PROVE  IInv'
<1> USE DEF IInv
<1>1. UNCHANGED <<portVars, pushVars, queue, delivery, result, raised, due>>
  BY DEF ComeOnline, Crash, Accept, Reject, Answer, deliveryVars
<1>2. EnqueueInv' /\ StopInv' /\ StopSettles' /\ \A r \in Requests : Goal(r)' = Goal(r)
  BY <1>1 DEF EnqueueInv, StopInv, StopSettles, Goal, portVars, pushVars, IsShuttingDown
<1>3. CASE acceptedBy' = acceptedBy /\ goals' \subseteq goals
  <2>1. TypeOK'
    BY <1>1, <1>3 DEF TypeOK, portVars, pushVars
  <2>2. GoalInv'
    BY <1>1, <1>2, <1>3, GoalFacts DEF GoalInv
  <2> QED BY <1>1, <1>2, <1>3, <2>1, <2>2 DEF AcceptInv, ResultInv, ResultIsTruthful
<1>4. ASSUME NEW g \in goals, NEW answer \in {"accept", "reject"}, Answer(g, answer)
      PROVE  IInv'
  <2> DEFINE r == g.goal.request
             ds == g.goal.ds
             h == [g EXCEPT !.answer = answer]
  <2>1. /\ r \in Requests /\ ds \in Downstreams /\ g.answer = "none" /\ g.goal = Goal(r)
        /\ h.goal = g.goal /\ h.answer = answer
        /\ goals' = (goals \ {g}) \cup {h}
        /\ h \in [goal : [request : Requests, ds : Downstreams, attempt : Nat],
                  answer : {"none", "accept", "reject"}]
    <3>1. /\ r \in Requests /\ ds \in Downstreams /\ g.answer = "none" /\ g.goal = Goal(r)
          /\ goals' = (goals \ {g}) \cup {h}
      BY <1>4, GoalFacts DEF Answer, GoalInv
    <3>2. g \in [goal : [request : Requests, ds : Downstreams, attempt : Nat],
                answer : {"none", "accept", "reject"}]
      BY DEF TypeOK
    <3>3. /\ h.goal = g.goal /\ h.answer = answer
          /\ h \in [goal : [request : Requests, ds : Downstreams, attempt : Nat],
                    answer : {"none", "accept", "reject"}]
      BY <3>2
    <3> QED BY <3>1, <3>3
  <2>2. /\ ~Has(acceptedBy[ds], r) /\ result[r] = "none" /\ delivery[r].ds = ds
        /\ delivery[r].step \in {"sent", "waiting", "unanswered", "done"}
        /\ \A f \in goals : f.goal.request = r => f = g
    BY <2>1, GoalFacts DEF GoalInv
  <2>3. acceptedBy' = IF answer = "accept"
                      THEN [acceptedBy EXCEPT ![ds] = Append(@, r)] ELSE acceptedBy
    BY <1>4 DEF Answer
  <2> HIDE DEF h, r, ds
  <2>4. /\ acceptedBy' \in [Downstreams -> Seq(Requests)]
        /\ \A e \in Downstreams : \A q :
             Has(acceptedBy'[e], q) <=>
               Has(acceptedBy[e], q) \/ (answer = "accept" /\ e = ds /\ q = r)
        /\ \A e \in Downstreams : NoDuplicates(acceptedBy'[e])
    <3>1. acceptedBy[ds] \in Seq(Requests) /\ NoDuplicates(acceptedBy[ds])
          /\ acceptedBy \in [Downstreams -> Seq(Requests)]
          /\ \A e \in Downstreams : NoDuplicates(acceptedBy[e])
      BY <2>1 DEF TypeOK, AcceptInv
    <3>2. /\ Append(acceptedBy[ds], r) \in Seq(Requests)
          /\ \A x : Has(Append(acceptedBy[ds], r), x) <=> Has(acceptedBy[ds], x) \/ x = r
          /\ NoDuplicates(Append(acceptedBy[ds], r))
      BY <2>1, <2>2, <3>1, HasAppended
    <3>3. CASE answer = "accept"
      <4>1. /\ acceptedBy' \in [Downstreams -> Seq(Requests)]
            /\ acceptedBy'[ds] = Append(acceptedBy[ds], r)
            /\ \A e \in Downstreams : e # ds => acceptedBy'[e] = acceptedBy[e]
        BY <2>1, <2>3, <3>1, <3>2, <3>3
      <4> QED BY <3>1, <3>2, <3>3, <4>1
    <3>4. CASE answer # "accept"
      BY <2>3, <3>1, <3>4
    <3> QED BY <3>3, <3>4
  <2>5. TypeOK'
    BY <1>1, <2>1, <2>4 DEF TypeOK, portVars, pushVars
  <2>6. GoalInv'
    <3>1. ASSUME NEW f \in goals'
          PROVE  /\ f.goal = Goal(f.goal.request) /\ f.goal.request \in Requests
                 /\ delivery[f.goal.request].step \in {"sent", "waiting", "unanswered", "done"}
                 /\ result[f.goal.request] = "none"
                 /\ f.answer = "accept" <=> Has(acceptedBy'[f.goal.ds], f.goal.request)
                 /\ f.goal.request = r => f = h
      <4>1. CASE f = h
        BY <2>1, <2>2, <2>4, <4>1 DEF r, ds
      <4>2. CASE f # h
        <5>1. f \in goals /\ f.goal.request # r /\ f.goal.request \in Requests
              /\ f.goal.ds \in Downstreams
          BY <2>1, <2>2, <4>2, GoalFacts
        <5> QED BY <2>4, <5>1 DEF GoalInv
      <4> QED BY <4>1, <4>2
    <3>2. \A e, f \in goals' : e.goal.request = f.goal.request => e = f
      <4>1. \A f \in goals' : f = h \/ f \in goals
        BY <2>1
      <4>2. h.goal.request = r
        BY <2>1 DEF r
      <4>3. \A f \in goals' : f.goal.request = r => f = h
        BY <3>1
      <4> QED BY <4>1, <4>2, <4>3 DEF GoalInv
    <3> QED BY <1>1, <1>2, <3>1, <3>2 DEF GoalInv
  <2>7. AcceptInv'
    <3>1. ds <= ds
      BY <2>1, SizeAssumption DEF Downstreams
    <3> QED BY <1>1, <2>2, <2>4, <3>1 DEF AcceptInv
  <2>8. ResultInv'
    <3>1. \A q \in Requests : \A e \in Downstreams :
            e < delivery[q].ds => (Has(acceptedBy'[e], q) <=> Has(acceptedBy[e], q))
      <4>1. ds \in Int
        BY <2>1, SizeAssumption DEF Downstreams
      <4> QED BY <2>2, <2>4, <4>1
    <3> QED BY <1>1, <3>1 DEF ResultInv
  <2>9. ResultIsTruthful'
    BY <1>1, <2>2, <2>4 DEF ResultIsTruthful
  <2> QED BY <1>2, <2>5, <2>6, <2>7, <2>8, <2>9
<1>5. CASE ComeOnline(d) \/ Crash(d)
  BY <1>3, <1>5 DEF ComeOnline, Crash, deliveryVars
<1>6. CASE \E r \in Requests : Accept(r, d) \/ Reject(r, d)
  BY <1>4, <1>6 DEF Accept, Reject
<1> QED BY <1>5, <1>6

-----------------------------------------------------------------------------
LEMMA InitEstablishes ==
  ASSUME Init
  PROVE  IInv
<1>1. NotBegun \in Deliveries /\ NotBegun.step = "idle"
  <2>1. 1 \in Downstreams
    BY SizeAssumption DEF Downstreams
  <2> QED BY <2>1 DEF NotBegun, Deliveries, Steps
<1>2. \A x : ~Has(<<>>, x)
  BY DEF Has
<1>3. NoDuplicates(<<>>)
  BY DEF NoDuplicates
<1>4. /\ delivery \in [Requests -> Deliveries]
      /\ \A r \in Requests : delivery[r].step = "idle" /\ result[r] = "none"
                             /\ pushing[r].step = "idle"
      /\ \A d \in Downstreams : acceptedBy[d] = <<>>
  BY <1>1 DEF Init
<1>5. TypeOK
  <2>1. pushing \in [Requests ->
          [step : {"idle", "trying", "connecting", "checked", "enqueued", "true",
                   "false", "raised"},
           attempt : Nat]]
    BY DEF Init
  <2>2. acceptedBy \in [Downstreams -> Seq(Requests)] /\ result \in [Requests -> Codes]
        /\ queue \in Seq(Requests) /\ enqueued \in Seq(Requests)
    BY DEF Init, Codes
  <2> QED BY <1>4, <2>1, <2>2 DEF Init, TypeOK, Deliveries, Codes
<1>6. EnqueueInv
  BY <1>2, <1>3, <1>4 DEF Init, EnqueueInv
<1>7. GoalInv /\ AcceptInv /\ ResultInv /\ ResultIsTruthful /\ StopInv /\ StopSettles
  BY <1>2, <1>3, <1>4
     DEF Init, GoalInv, AcceptInv, ResultInv, ResultIsTruthful, StopInv, StopSettles
<1> QED BY <1>5, <1>6, <1>7 DEF IInv

LEMMA NextKeeps ==
  ASSUME IInv, [Next]_vars
  PROVE  IInv'
<1>1. CASE Next
  BY <1>1, ControlKeeps, PushKeeps, DeliverKeeps, DeliveryBeginKeeps, DownstreamKeeps
     DEF Next
<1>2. CASE UNCHANGED vars
  BY <1>2 DEF vars, portVars, pushVars, deliveryVars, downstreamVars, IInv, TypeOK,
     EnqueueInv, GoalInv, AcceptInv, ResultInv, ResultIsTruthful, StopInv, StopSettles,
     Goal, IsShuttingDown
<1> QED BY <1>1, <1>2

LEMMA Invariance == Spec => []IInv
BY InitEstablishes, NextKeeps, PTL DEF Spec

-----------------------------------------------------------------------------
(* The order of the requests.  With preserve_request_order the queue is the *)
(* end of what was enqueued; only the request before it can be under way,   *)
(* or be answered still when an error has ended its delivery; and what a    *)
(* downstream has, came out of the queue before.                            *)
Begun == Len(enqueued) - Len(queue)

AcceptedInTurn(accepted) ==
  \A j, k \in DOMAIN accepted : j < k =>
    \A a, b \in DOMAIN enqueued :
      accepted[j] = enqueued[a] /\ accepted[k] = enqueued[b] => a < b

Ordered ==
  /\ Begun \in Nat
  /\ \A k \in DOMAIN queue : queue[k] = enqueued[Begun + k]
  /\ \A r \in Running : Begun > 0 /\ r = enqueued[Begun]
  /\ \A g \in goals : Begun > 0 /\ g.goal.request = enqueued[Begun]
  /\ \A d \in Downstreams :
       /\ \A k \in DOMAIN acceptedBy[d] :
            \E a \in 1 .. Begun : acceptedBy[d][k] = enqueued[a]
       /\ AcceptedInTurn(acceptedBy[d])

OrderInv == PreserveOrder => Ordered

LEMMA OrderFrame ==
  ASSUME TypeOK, OrderInv, UNCHANGED <<config, queue, enqueued, acceptedBy>>,
         \A q \in Running' : q \in Running,
         \A g \in goals' : \/ g.goal.request \in Running
                           \/ \E f \in goals : g.goal.request = f.goal.request
  PROVE  OrderInv'
BY DEF OrderInv, Ordered, PreserveOrder, Begun, AcceptedInTurn

LEMMA PushOrder ==
  ASSUME IInv, OrderInv, NEW r \in Requests, Push(r)
  PROVE  OrderInv'
<1>1. UNCHANGED <<config, delivery, goals, acceptedBy>>
  BY DEF Push, PushBegin, PushCheck, PushConnected, PushRaises, PushAccepted,
         PushFailed, PushReturn, portVars, deliveryVars, downstreamVars
<1>2. Running' = Running
  BY <1>1 DEF Running
<1>3. CASE PushAccepted(r)
  <2>1. queue \in Seq(Requests) /\ enqueued \in Seq(Requests)
        /\ queue' = Append(queue, r) /\ enqueued' = Append(enqueued, r)
        /\ pushing[r].step = "checked"
    BY <1>3 DEF PushAccepted, IInv, TypeOK
  <2>2. /\ Len(queue) \in Nat /\ Len(enqueued) \in Nat
        /\ DOMAIN queue = 1 .. Len(queue) /\ DOMAIN enqueued = 1 .. Len(enqueued)
        /\ DOMAIN queue' = 1 .. Len(queue) + 1
        /\ DOMAIN enqueued' = 1 .. Len(enqueued) + 1
        /\ Begun' = Begun
        /\ \A k \in DOMAIN queue : queue'[k] = queue[k]
        /\ \A k \in DOMAIN enqueued : enqueued'[k] = enqueued[k]
        /\ queue'[Len(queue) + 1] = r /\ enqueued'[Len(enqueued) + 1] = r
    BY <2>1 DEF Begun
  <2> SUFFICES ASSUME PreserveOrder' PROVE Ordered'
    BY DEF OrderInv
  <2>3. Ordered
    BY <1>1 DEF PreserveOrder, OrderInv
  <2>4. /\ \A a \in 1 .. Begun : a \in DOMAIN enqueued
        /\ Begun \in Nat /\ Begun <= Len(enqueued)
    BY <2>2, <2>3 DEF Begun, Ordered
  <2>5. \A k \in DOMAIN queue' : queue'[k] = enqueued'[Begun' + k]
    <3> SUFFICES ASSUME NEW k \in DOMAIN queue'
                 PROVE  queue'[k] = enqueued'[Begun' + k]
      OBVIOUS
    <3>1. CASE k \in DOMAIN queue
      <4>1. Begun + k \in DOMAIN enqueued
        BY <2>2, <2>4, <3>1 DEF Begun
      <4> QED BY <2>2, <2>3, <3>1, <4>1 DEF Ordered
    <3>2. CASE k = Len(queue) + 1
      <4>1. Begun + k = Len(enqueued) + 1
        BY <2>2, <3>2 DEF Begun
      <4> QED BY <2>2, <3>2, <4>1
    <3> QED BY <2>2, <3>1, <3>2
  <2>6. ~Has(enqueued, r)
    BY <2>1 DEF IInv, EnqueueInv
  <2>7. ASSUME NEW d \in Downstreams
        PROVE  /\ \A k \in DOMAIN acceptedBy'[d] :
                    \E a \in 1 .. Begun' : acceptedBy'[d][k] = enqueued'[a]
               /\ AcceptedInTurn(acceptedBy[d])'
    <3>1. \A k \in DOMAIN acceptedBy[d] :
            /\ \E a \in 1 .. Begun : acceptedBy[d][k] = enqueued[a]
            /\ acceptedBy[d][k] # r
      BY <2>3, <2>4, <2>6 DEF Has, Ordered
    <3>2. \A j, k \in DOMAIN acceptedBy[d] : j < k =>
            \A a, b \in DOMAIN enqueued :
              acceptedBy[d][j] = enqueued[a] /\ acceptedBy[d][k] = enqueued[b] => a < b
      BY <2>3 DEF AcceptedInTurn, Ordered
    <3>3. \A j \in DOMAIN acceptedBy[d], a \in DOMAIN enqueued' :
            acceptedBy[d][j] = enqueued'[a] =>
              a \in DOMAIN enqueued /\ acceptedBy[d][j] = enqueued[a]
      BY <2>2, <3>1
    <3>4. \A j, k \in DOMAIN acceptedBy[d] : j < k =>
            \A a, b \in DOMAIN enqueued' :
              acceptedBy[d][j] = enqueued'[a] /\ acceptedBy[d][k] = enqueued'[b] => a < b
      BY <3>2, <3>3, Zenon
    <3>5. \A a \in 1 .. Begun : enqueued'[a] = enqueued[a]
      BY <2>2, <2>4
    <3> QED BY <1>1, <2>2, <3>1, <3>4, <3>5 DEF AcceptedInTurn
  <2>8. \A q \in Running' : Begun' > 0 /\ q = enqueued'[Begun']
    <3>1. Begun > 0 => Begun \in DOMAIN enqueued
      BY <2>2, <2>4
    <3> QED BY <1>2, <2>2, <2>3, <3>1 DEF Ordered
  <2>9. \A g \in goals' : Begun' > 0 /\ g.goal.request = enqueued'[Begun']
    <3>1. Begun > 0 => Begun \in DOMAIN enqueued
      BY <2>2, <2>4
    <3> QED BY <1>1, <2>2, <2>3, <3>1 DEF Ordered
  <2> QED BY <2>2, <2>4, <2>5, <2>7, <2>8, <2>9 DEF Ordered
<1>4. CASE ~PushAccepted(r)
  <2>1. queue' = queue /\ enqueued' = enqueued
    BY <1>4 DEF Push, PushBegin, PushCheck, PushConnected, PushRaises, PushFailed,
                PushReturn
  <2> QED BY <1>1, <1>2, <2>1, OrderFrame DEF IInv
<1> QED BY <1>3, <1>4

LEMMA DeliverOrder ==
  ASSUME IInv, OrderInv, NEW r \in Requests, Deliver(r)
  PROVE  OrderInv'
<1>1. DeliveryFrame(r) /\ Moved(r)
  BY DeliverMoves DEF IInv
<1>2. /\ UNCHANGED <<config, queue, enqueued, acceptedBy>> /\ r \in Running
      /\ \A q \in Running' : q \in Running
  BY <1>1 DEF DeliveryFrame, portVars, pushVars, Running
<1>3. goals' \subseteq goals \cup {[goal |-> Goal(r), answer |-> "none"]}
  BY <1>1 DEF Moved, Pinged, Sent, Waited, Answered
<1>4. \A g \in goals' : g \in goals \/ g.goal.request = r
  BY <1>3, GoalFacts DEF IInv
<1> QED BY <1>2, <1>4, OrderFrame DEF IInv

(* With the order preserved only the head of the queue begins, and only     *)
(* when nothing of its predecessors is left: not even an unanswered goal.   *)
LEMMA DeliveryBeginOrder ==
  ASSUME IInv, OrderInv, NEW k \in 1 .. PipelineCapacity, DeliveryBegin(k)
  PROVE  OrderInv'
<1>1. UNCHANGED <<config, enqueued, goals, acceptedBy>>
  BY DEF DeliveryBegin, portVars, pushVars, downstreamVars
<1> SUFFICES ASSUME PreserveOrder' PROVE Ordered'
  BY DEF OrderInv
<1>2. PreserveOrder /\ Ordered
  BY <1>1 DEF OrderInv, PreserveOrder
<1>3. /\ k = 1 /\ 1 \in DOMAIN queue /\ Running = {} /\ raised = {}
      /\ queue \in Seq(Requests) /\ enqueued \in Seq(Requests)
      /\ queue' = SubSeq(queue, 1, 0) \o SubSeq(queue, 2, Len(queue))
      /\ \A q \in Requests : q # queue[1] => delivery'[q] = delivery[q]
  BY <1>2 DEF DeliveryBegin, MayBegin, IInv, TypeOK, Goes
<1>4. goals = {}
  <2>1. SUFFICES ASSUME NEW g \in goals PROVE FALSE
    OBVIOUS
  <2> DEFINE r == g.goal.request
  <2>2. r \in Requests /\ delivery[r].step \in {"sent", "waiting", "unanswered", "done"}
        /\ result[r] = "none"
    BY GoalFacts DEF IInv, GoalInv
  <2>3. delivery[r].step = "done"
    BY <1>3, <2>2 DEF Running
  <2> QED BY <1>3, <2>2, <2>3 DEF IInv, ResultInv
<1>5. /\ Len(queue) \in Nat /\ Len(queue) > 0 /\ Len(enqueued) \in Nat
      /\ DOMAIN queue = 1 .. Len(queue) /\ DOMAIN enqueued = 1 .. Len(enqueued)
  BY <1>3
<1>6. /\ queue' \in Seq(Requests) /\ Len(queue') = Len(queue) - 1
      /\ \A j \in 1 .. Len(queue) - 1 : queue'[j] = queue[j + 1]
  <2> DEFINE after == SubSeq(queue, 2, Len(queue))
  <2>1. /\ SubSeq(queue, 1, 0) = <<>> /\ after \in Seq(Requests)
        /\ Len(after) = Len(queue) - 1
        /\ \A j \in 1 .. Len(queue) - 1 : after[j] = queue[j + 1]
    BY <1>3, <1>5
  <2> HIDE DEF after
  <2>2. <<>> \o after = after
    BY <2>1, ConcatEmptySeq
  <2>3. queue' = after
    BY <1>3, <2>1, <2>2 DEF after
  <2> QED BY <2>1, <2>3
<1>7. Begun' = Begun + 1 /\ Begun \in Nat /\ Begun + 1 \in DOMAIN enqueued
      /\ queue[1] = enqueued[Begun + 1]
  <2>1. Begun \in Nat /\ queue[1] = enqueued[Begun + 1]
    BY <1>2, <1>3 DEF Ordered
  <2>2. Len(queue') = Len(queue) - 1 /\ enqueued' = enqueued
    BY <1>1, <1>6
  <2>3. Begun' = Begun + 1
    BY <1>5, <2>2 DEF Begun
  <2>4. Begun + 1 \in DOMAIN enqueued
    BY <1>5, <2>1 DEF Begun
  <2> QED BY <2>1, <2>3, <2>4
<1>8. \A j \in DOMAIN queue' : queue'[j] = enqueued[Begun' + j]
  <2>1. DOMAIN queue' = 1 .. Len(queue) - 1
    BY <1>5, <1>6
  <2>2. ASSUME NEW j \in 1 .. Len(queue) - 1
        PROVE  queue'[j] = enqueued[Begun' + j]
    <3>1. j + 1 \in DOMAIN queue /\ j \in Nat
      BY <1>5
    <3>2. queue'[j] = queue[j + 1]
      BY <1>6
    <3>3. Begun + (j + 1) = Begun' + j
      BY <1>7, <3>1
    <3>4. queue[j + 1] = enqueued[Begun + (j + 1)]
      BY <1>2, <3>1 DEF Ordered
    <3> QED BY <3>2, <3>3, <3>4
  <2> QED BY <2>1, <2>2
<1>9. \A r \in Running' : r = queue[1]
  BY <1>3 DEF Running
<1>10. \A d \in Downstreams :
         /\ \A j \in DOMAIN acceptedBy[d] :
              \E a \in 1 .. Begun + 1 : acceptedBy[d][j] = enqueued[a]
         /\ AcceptedInTurn(acceptedBy[d])
  <2>1. \A a \in 1 .. Begun : a \in 1 .. Begun + 1
    BY <1>7
  <2> QED BY <1>2, <2>1 DEF Ordered
<1> QED
  BY <1>1, <1>4, <1>7, <1>8, <1>9, <1>10 DEF Ordered, AcceptedInTurn

LEMMA DownstreamOrder ==
  ASSUME IInv, OrderInv, NEW d \in Downstreams,
         ComeOnline(d) \/ Crash(d) \/ \E r \in Requests : Accept(r, d) \/ Reject(r, d)
  PROVE  OrderInv'
<1>1. UNCHANGED <<config, queue, enqueued, delivery>>
  BY DEF ComeOnline, Crash, Accept, Reject, Answer, portVars, pushVars, deliveryVars
<1>2. Running' = Running
  BY <1>1 DEF Running
<1>3. CASE ComeOnline(d) \/ Crash(d)
  <2>1. acceptedBy' = acceptedBy /\ goals' \subseteq goals
    BY <1>3 DEF ComeOnline, Crash, deliveryVars
  <2> QED BY <1>1, <1>2, <2>1, OrderFrame DEF IInv
<1>4. ASSUME NEW g \in goals, NEW answer \in {"accept", "reject"}, Answer(g, answer)
      PROVE  OrderInv'
  <2>1. /\ g.goal.request \in Requests /\ g.goal.ds \in Downstreams
        /\ \A f \in goals' : f \in goals \/ f.goal.request = g.goal.request
        /\ ~Has(acceptedBy[g.goal.ds], g.goal.request)
        /\ enqueued \in Seq(Requests) /\ NoDuplicates(enqueued)
        /\ acceptedBy \in [Downstreams -> Seq(Requests)]
    BY <1>4, GoalFacts DEF Answer, IInv, GoalInv, TypeOK, EnqueueInv
  <2>2. CASE acceptedBy' = acceptedBy
    BY <1>1, <1>2, <2>1, <2>2, OrderFrame DEF IInv
  <2>3. CASE acceptedBy' = [acceptedBy EXCEPT ![g.goal.ds] = Append(@, g.goal.request)]
    <3> SUFFICES ASSUME PreserveOrder' PROVE Ordered'
      BY DEF OrderInv
    <3>1. Ordered /\ Begun' = Begun
      BY <1>1 DEF OrderInv, PreserveOrder, Begun
    <3> DEFINE r == g.goal.request
               ds == g.goal.ds
               old == acceptedBy[ds]
               new == Append(old, r)
    <3>2. /\ Begun \in Nat /\ Begun > 0 /\ r = enqueued[Begun]
          /\ \A f \in goals' : f.goal.request = enqueued[Begun]
          /\ \A q \in Running' : q = enqueued[Begun]
      BY <1>2, <2>1, <3>1 DEF Ordered
    <3>3. /\ acceptedBy'[ds] = new
          /\ \A e \in Downstreams : e # ds => acceptedBy'[e] = acceptedBy[e]
      BY <2>1, <2>3
    <3>4. /\ old \in Seq(Requests) /\ Len(old) \in Nat
          /\ DOMAIN old = 1 .. Len(old) /\ DOMAIN new = 1 .. Len(old) + 1
          /\ \A k \in 1 .. Len(old) : new[k] = old[k]
          /\ new[Len(old) + 1] = r
      BY <2>1
    <3>5. /\ \A k \in DOMAIN old : \E a \in 1 .. Begun : old[k] = enqueued[a]
          /\ \A j, k \in DOMAIN old : j < k =>
               \A a, b \in DOMAIN enqueued :
                 old[j] = enqueued[a] /\ old[k] = enqueued[b] => a < b
      BY <2>1, <3>1 DEF Ordered, AcceptedInTurn
    <3>6. Begun \in DOMAIN enqueued /\ 1 .. Begun \subseteq DOMAIN enqueued
      <4>1. /\ Len(enqueued) \in Nat /\ Len(queue) \in Nat
            /\ DOMAIN enqueued = 1 .. Len(enqueued)
        BY <2>1 DEF IInv, TypeOK
      <4> QED BY <3>2, <4>1 DEF Begun
    <3>7. \A k \in DOMAIN old : old[k] # r
      BY <2>1 DEF Has
    <3> HIDE DEF old, new, r, ds
    <3>8. \A k \in DOMAIN old, a \in DOMAIN enqueued : old[k] = enqueued[a] => a < Begun
      <4> SUFFICES ASSUME NEW k \in DOMAIN old, NEW a \in DOMAIN enqueued,
                          old[k] = enqueued[a]
                   PROVE  a < Begun
        OBVIOUS
      <4>1. PICK b \in 1 .. Begun : old[k] = enqueued[b]
        BY <3>5
      <4>2. a = b
        BY <2>1, <3>6, <4>1 DEF NoDuplicates
      <4>3. b # Begun
        BY <3>2, <3>7, <4>1
      <4> QED BY <3>2, <4>1, <4>2, <4>3
    <3>9. \A a \in DOMAIN enqueued : r = enqueued[a] => a = Begun
      BY <2>1, <3>2, <3>6 DEF NoDuplicates
    <3>10. \A k \in DOMAIN new : \E a \in 1 .. Begun : new[k] = enqueued[a]
      BY <3>2, <3>4, <3>5
    <3>11. AcceptedInTurn(new)
      <4> SUFFICES ASSUME NEW j \in DOMAIN new, NEW k \in DOMAIN new, j < k,
                          NEW a \in DOMAIN enqueued, NEW b \in DOMAIN enqueued,
                          new[j] = enqueued[a], new[k] = enqueued[b]
                   PROVE  a < b
        BY DEF AcceptedInTurn
      <4>1. j \in DOMAIN old /\ new[j] = old[j]
        BY <3>4
      <4>2. CASE k \in DOMAIN old
        <5>1. new[k] = old[k]
          BY <3>4, <4>2
        <5> QED BY <3>5, <4>1, <4>2, <5>1
      <4>3. CASE k = Len(old) + 1
        <5>1. b = Begun
          BY <3>4, <3>9, <4>3
        <5> QED BY <3>8, <4>1, <5>1
      <4> QED BY <3>4, <4>2, <4>3
    <3>12. \A e \in Downstreams :
             /\ \A k \in DOMAIN acceptedBy'[e] :
                  \E a \in 1 .. Begun : acceptedBy'[e][k] = enqueued[a]
             /\ AcceptedInTurn(acceptedBy'[e])
      <4> SUFFICES ASSUME NEW e \in Downstreams
                   PROVE  /\ \A k \in DOMAIN acceptedBy'[e] :
                               \E a \in 1 .. Begun : acceptedBy'[e][k] = enqueued[a]
                          /\ AcceptedInTurn(acceptedBy'[e])
        OBVIOUS
      <4>1. CASE e = ds
        <5>1. acceptedBy'[e] = new
          BY <3>3, <4>1
        <5> QED BY <3>10, <3>11, <5>1
      <4>2. CASE e # ds
        <5>1. acceptedBy'[e] = acceptedBy[e]
          BY <3>3, <4>2
        <5> QED BY <3>1, <5>1 DEF Ordered
      <4> QED BY <4>1, <4>2
    <3> QED BY <1>1, <3>1, <3>2, <3>12 DEF Ordered, AcceptedInTurn
  <2> QED BY <1>4, <2>2, <2>3 DEF Answer
<1>5. CASE \E r \in Requests : Accept(r, d) \/ Reject(r, d)
  BY <1>4, <1>5 DEF Accept, Reject
<1> QED BY <1>3, <1>5

LEMMA OrderInvariance == Spec => [](IInv /\ OrderInv)
<1>1. Init => OrderInv
  <2> SUFFICES ASSUME Init PROVE Ordered
    BY DEF OrderInv
  <2>1. /\ Len(queue) = 0 /\ Len(enqueued) = 0 /\ queue = <<>> /\ goals = {}
        /\ Running = {} /\ \A d \in Downstreams : acceptedBy[d] = <<>>
    BY DEF Init, Running, NotBegun
  <2> QED BY <2>1 DEF Ordered, Begun, AcceptedInTurn
<1>2. IInv /\ OrderInv /\ [Next]_vars => OrderInv'
  <2> SUFFICES ASSUME IInv, OrderInv, [Next]_vars PROVE OrderInv'
    OBVIOUS
  <2>1. CASE \/ Start \/ StopBegin \/ StopWaited \/ StopEnd
             \/ \E what \in Shutdowns : GoDown(what)
             \/ UNCHANGED vars
    <3>1. UNCHANGED <<config, queue, enqueued, acceptedBy, delivery, goals>>
      BY <2>1 DEF Start, StopBegin, StopWaited, StopEnd, GoDown, vars, portVars,
                  pushVars, deliveryVars, downstreamVars
    <3> QED BY <3>1, OrderFrame DEF IInv, Running
  <2>2. CASE \E r \in Requests : Push(r) \/ Deliver(r)
    BY <2>2, PushOrder, DeliverOrder
  <2>3. CASE \E k \in 1 .. PipelineCapacity : DeliveryBegin(k)
    BY <2>3, DeliveryBeginOrder
  <2>4. CASE \/ \E d \in Downstreams : ComeOnline(d) \/ Crash(d)
             \/ \E r \in Requests, d \in Downstreams : Accept(r, d) \/ Reject(r, d)
    BY <2>4, DownstreamOrder
  <2> QED BY <2>1, <2>2, <2>3, <2>4 DEF Next
<1> QED BY <1>1, <1>2, InitEstablishes, NextKeeps, PTL DEF Spec

-----------------------------------------------------------------------------
(* A request that nothing in its delivery may drop: its own policy, or that *)
(* of every downstream, says NoDrop.  MakeReliable makes such a policy.     *)
IsLossless(r) == \A d \in Downstreams : PolicyFor(r, d).strategy = "NoDrop"

(* Whoever was served before the downstream in turn has the request.        *)
LosslessInv ==
  ~IsShuttingDown => \A r \in Requests : IsLossless(r) =>
    /\ delivery[r].step \in {"attempt", "sent", "waiting", "unanswered"} =>
         \A d \in Downstreams : d < delivery[r].ds => Has(acceptedBy[d], r)
    /\ result[r] \in {"Success", "TriedButFailed"} =>
         \A d \in Downstreams : Has(acceptedBy[d], r)

(* Before the shutdown the loop over the attempts of a lossless request     *)
(* ends with an acceptance.                                                 *)
LEMMA LosslessPasses ==
  ASSUME IInv, NEW r \in Requests, Deliver(r), IsLossless(r), ~IsShuttingDown,
         NEW success \in BOOLEAN, Passed(r, success),
         ~Pinged(r), ~Again(r), ~Sent(r), ~Waited(r)
  PROVE  Has(acceptedBy[delivery[r].ds], r)
<1>1. /\ TypeOK /\ GoalInv /\ delivery[r].ds \in Downstreams
  BY DEF IInv, TypeOK
<1>2. ~GiveUp(r)
  BY <1>1 DEF GiveUp, AnotherAttempt, IsLossless
<1>3. Answered(r)
  BY <1>1, <1>2, PingMoves, NobodyThereMoves, AttemptSendMoves, WaitMoves,
     ReceiveAnswerMoves DEF Deliver
<1>4. PICK g \in goals : g.goal = Goal(r) /\ g.answer = "accept"
  BY <1>3 DEF Answered
<1> QED
  BY <1>1, <1>4, GoalFacts DEF GoalInv

LEMMA DeliverLossless ==
  ASSUME IInv, LosslessInv, NEW r \in Requests, Deliver(r)
  PROVE  LosslessInv'
<1>1. /\ TypeOK /\ AcceptInv /\ ResultInv /\ DeliveryFrame(r) /\ Moved(r)
  BY DeliverMoves DEF IInv
<1>2. /\ UNCHANGED <<config, down, acceptedBy>>
      /\ \A q \in Requests : q # r => delivery'[q] = delivery[q] /\ result'[q] = result[q]
      /\ delivery[r].step \notin {"idle", "done"} /\ result[r] = "none"
  BY <1>1 DEF DeliveryFrame, portVars, ResultInv
<1> SUFFICES ASSUME ~IsShuttingDown', NEW q \in Requests, IsLossless(q)'
             PROVE  /\ delivery'[q].step \in {"attempt", "sent", "waiting", "unanswered"} =>
                         \A d \in Downstreams : d < delivery'[q].ds => Has(acceptedBy[d], q)
                    /\ result'[q] \in {"Success", "TriedButFailed"} =>
                         \A d \in Downstreams : Has(acceptedBy[d], q)
  BY <1>2 DEF LosslessInv
<1>3. ~IsShuttingDown /\ IsLossless(q)
  BY <1>2 DEF IsShuttingDown, IsLossless, PolicyFor, OwnPolicy, DownstreamPolicy
<1>4. CASE q # r
  BY <1>2, <1>3, <1>4 DEF LosslessInv
<1>5. CASE q = r
  <2>1. /\ NumDownstreams \in Nat \ {0} /\ Downstreams = 1 .. NumDownstreams
        /\ delivery[r].ds \in 1 .. NumDownstreams
    BY <1>1, SizeAssumption DEF TypeOK, Downstreams
  <2>2. delivery[r].step \in {"attempt", "sent", "waiting", "unanswered"} =>
          \A d \in Downstreams : d < delivery[r].ds => Has(acceptedBy[d], r)
    BY <1>3, <1>5 DEF LosslessInv
  <2>3. CASE Pinged(r)
    BY <1>2, <1>5, <2>1, <2>3 DEF Pinged
  <2>4. CASE Again(r) /\ delivery[r].step \in {"attempt", "waiting"}
    BY <1>2, <1>5, <2>2, <2>4 DEF Again
  <2>5. CASE Sent(r) \/ Waited(r)
    BY <1>2, <1>5, <2>2, <2>5 DEF Sent, Waited, SameGoal
  <2>6. ASSUME NEW success \in BOOLEAN, Passed(r, success),
               ~Pinged(r), ~Again(r), ~Sent(r), ~Waited(r),
               delivery[r].step \in {"attempt", "waiting"}
        PROVE  /\ delivery'[r].step \in {"attempt", "sent", "waiting", "unanswered"} =>
                    \A d \in Downstreams : d < delivery'[r].ds => Has(acceptedBy[d], r)
               /\ result'[r] \in {"Success", "TriedButFailed"} =>
                    \A d \in Downstreams : Has(acceptedBy[d], r)
    <3>1. \A d \in Downstreams : d <= delivery[r].ds => Has(acceptedBy[d], r)
      BY <1>3, <1>5, <2>1, <2>2, <2>6, LosslessPasses
    <3> QED
      BY <1>2, <2>1, <2>6, <3>1 DEF Passed
  <2>7. \/ Pinged(r) \/ Sent(r) \/ Waited(r)
        \/ Again(r) /\ delivery[r].step \in {"attempt", "waiting"}
        \/ \E success \in BOOLEAN :
             Passed(r, success) /\ delivery[r].step \in {"attempt", "waiting"}
    BY <1>1 DEF Moved, Answered
  <2> QED
    BY <1>5, <2>3, <2>4, <2>5, <2>6, <2>7
<1> QED
  BY <1>4, <1>5

(* Nothing else serves a downstream, and nobody loses what it accepted.     *)
LEMMA OtherLossless ==
  ASSUME IInv, LosslessInv, [Next]_vars, \A r \in Requests : ~Deliver(r)
  PROVE  LosslessInv'
<1> DEFINE Kept ==
      /\ config' = config /\ result' = result /\ down \subseteq down'
      /\ \A d \in Downstreams, r \in Requests :
           Has(acceptedBy[d], r) => Has(acceptedBy'[d], r)
<1>1. ASSUME Kept,
             \A r \in Requests : \/ delivery'[r] = delivery[r]
                                 \/ delivery'[r].step = "ping"
                                 \/ delivery'[r].ds = 1
      PROVE  LosslessInv'
  <2>1. /\ ~IsShuttingDown' => ~IsShuttingDown
        /\ \A r \in Requests : IsLossless(r)' => IsLossless(r)
    BY <1>1 DEF IsShuttingDown, IsLossless, PolicyFor, OwnPolicy, DownstreamPolicy
  <2>2. \A d \in Downstreams : ~(d < 1)
    BY SizeAssumption DEF Downstreams
  <2> QED
    BY <1>1, <2>1, <2>2 DEF LosslessInv
<1>2. CASE \/ Start \/ StopBegin \/ StopWaited \/ StopEnd
           \/ \E what \in Shutdowns : GoDown(what)
           \/ \E r \in Requests : Push(r)
           \/ UNCHANGED vars
  <2>1. Kept /\ delivery' = delivery
    BY <1>2 DEF Start, StopBegin, StopWaited, StopEnd, GoDown, Push, PushBegin,
         PushCheck, PushConnected, PushRaises, PushAccepted, PushFailed, PushReturn, vars, portVars, pushVars,
         deliveryVars, downstreamVars
  <2> QED
    BY <1>1, <2>1
<1>3. ASSUME NEW k \in 1 .. PipelineCapacity, DeliveryBegin(k)
      PROVE  LosslessInv'
  <2> DEFINE r == queue[k]
             begun == [NotBegun EXCEPT !.step =
                         IF PreconditionOf(r) \in {"DontCare", "NoPrecondition"}
                         THEN "attempt" ELSE "ping"]
  <2>1. /\ r \in Requests /\ Goes(r, begun) /\ Kept
    BY <1>3 DEF DeliveryBegin, IInv, TypeOK, portVars, pushVars, downstreamVars
  <2>2. begun.ds = 1
    BY DEF NotBegun
  <2>3. delivery' = [delivery EXCEPT ![r] = begun] /\ delivery \in [Requests -> Deliveries]
    BY <2>1 DEF Goes, IInv, TypeOK, Deliveries
  <2> HIDE DEF begun, r
  <2> QED
    BY <1>1, <2>1, <2>2, <2>3
<1>4. ASSUME NEW d \in Downstreams,
             ComeOnline(d) \/ Crash(d) \/ \E r \in Requests : Accept(r, d) \/ Reject(r, d)
      PROVE  LosslessInv'
  <2>1. /\ UNCHANGED <<config, result, down, delivery>>
        /\ \/ acceptedBy' = acceptedBy
           \/ \E g \in goals : acceptedBy' =
                [acceptedBy EXCEPT ![g.goal.ds] = Append(@, g.goal.request)]
    BY <1>4 DEF ComeOnline, Crash, Accept, Reject, Answer, portVars, deliveryVars
  <2>2. TypeOK
    BY DEF IInv
  <2>3. ASSUME NEW g \in goals, acceptedBy' =
                 [acceptedBy EXCEPT ![g.goal.ds] = Append(@, g.goal.request)]
        PROVE  Kept
    <3>1. g.goal.request \in Requests /\ g.goal.ds \in Downstreams
          /\ acceptedBy \in [Downstreams -> Seq(Requests)]
      BY <2>2, GoalFacts DEF TypeOK
    <3>2. \A x : Has(acceptedBy[g.goal.ds], x) =>
                 Has(Append(acceptedBy[g.goal.ds], g.goal.request), x)
      BY <3>1, HasAppended
    <3> QED
      BY <2>1, <2>3, <3>1, <3>2
  <2> QED
    BY <1>1, <2>1, <2>3
<1> HIDE DEF Kept
<1> QED
  BY <1>2, <1>3, <1>4 DEF Next

-----------------------------------------------------------------------------
(* Every variable of the port stays in its type. *)
THEOREM TypeCorrect == Spec => []TypeOK
BY Invariance, PTL DEF IInv

(* "Should not resend if timeout": no downstream accepts a request twice,   *)
(* whatever is retried, rejected, late or lost in a crash.                  *)
THEOREM AcceptedOnce == Spec => []AcceptedAtMostOnce
<1>1. IInv => AcceptedAtMostOnce
  BY DEF IInv, AcceptInv, AcceptedAtMostOnce
<1> QED BY <1>1, Invariance, PTL

(* The DeliveryResultCode is Success just when some downstream accepted the *)
(* request.                                                                 *)
THEOREM ResultsAreTruthful == Spec => []ResultIsTruthful
BY Invariance, PTL DEF IInv

(* push_request says true only if the port took the request, once, and      *)
(* false only if it did not, or while the node shuts down.                  *)
THEOREM PushesAreTruthful == Spec => []PushIsTruthful
<1>1. IInv => PushIsTruthful
  BY DEF IInv, EnqueueInv, PushIsTruthful
<1> QED BY <1>1, Invariance, PTL

(* When stop() is through with waiting, every request it found in the port  *)
(* has its result.                                                          *)
THEOREM StopsAreSettled == Spec => []StopSettles
BY Invariance, PTL DEF IInv

(* With preserve_request_order every downstream accepts requests in the     *)
(* order they were pushed, although each is retried on its own.             *)
THEOREM DeliveriesAreInOrder == Spec => []DeliveredInOrder
<1>1. IInv /\ OrderInv => DeliveredInOrder
  <2> SUFFICES ASSUME IInv, Ordered, NEW d \in Downstreams,
                      NEW j \in DOMAIN acceptedBy[d], NEW k \in DOMAIN acceptedBy[d],
                      j < k
               PROVE  Pos(acceptedBy[d][j], enqueued) < Pos(acceptedBy[d][k], enqueued)
    BY DEF OrderInv, DeliveredInOrder
  <2>1. \A i \in DOMAIN acceptedBy[d] : \E a \in DOMAIN enqueued : acceptedBy[d][i] = enqueued[a]
    <3>1. enqueued \in Seq(Requests) /\ queue \in Seq(Requests)
      BY DEF IInv, TypeOK
    <3>2. /\ Len(enqueued) \in Nat /\ Len(queue) \in Nat
          /\ DOMAIN enqueued = 1 .. Len(enqueued)
      BY <3>1
    <3>3. 1 .. Begun \subseteq DOMAIN enqueued
      BY <3>2 DEF Begun
    <3> QED BY <3>3 DEF Ordered
  <2>2. \A i \in DOMAIN acceptedBy[d] :
          /\ Pos(acceptedBy[d][i], enqueued) \in DOMAIN enqueued
          /\ enqueued[Pos(acceptedBy[d][i], enqueued)] = acceptedBy[d][i]
    BY <2>1 DEF Pos
  <2> QED BY <2>2 DEF Ordered, AcceptedInTurn
<1> QED BY <1>1, OrderInvariance, PTL
(* Nothing that may not be dropped is given up: whatever rejects, crashes   *)
(* and timeouts there were, the delivery of a request under NoDrop ends     *)
(* only when every downstream has accepted it, or the node goes down.  This *)
(* is what is safe in NoDropDelivers.                                       *)
THEOREM LosslessIsDelivered ==
  Spec => [](\A r \in Requests :
               IsLossless(r) /\ result[r] \in {"Success", "TriedButFailed"} =>
                 IsShuttingDown \/ \A d \in Downstreams : Has(acceptedBy[d], r))
<1>1. Init => LosslessInv
  BY DEF Init, LosslessInv, NotBegun
<1>2. IInv /\ LosslessInv /\ [Next]_vars => LosslessInv'
  BY DeliverLossless, OtherLossless
<1>3. LosslessInv => \A r \in Requests :
        IsLossless(r) /\ result[r] \in {"Success", "TriedButFailed"} =>
          IsShuttingDown \/ \A d \in Downstreams : Has(acceptedBy[d], r)
  BY DEF LosslessInv
<1> QED
  BY <1>1, <1>2, <1>3, InitEstablishes, NextKeeps, PTL DEF Spec
=============================================================================
