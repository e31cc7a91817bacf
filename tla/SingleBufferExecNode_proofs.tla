-------------------- MODULE SingleBufferExecNode_proofs --------------------
(***************************************************************************)
(* Theorems about SingleBufferExecNode, for every size of the buffer, any  *)
(* number of tokens and every mode of the node.                            *)
(***************************************************************************)
EXTENDS SingleBufferExecNode, FiniteSetTheorems, TLAPS

(* Taking one element out of a sequence leaves a sequence that is shorter   *)
(* by one; when it is the first element, the rest moves up.                 *)
LEMMA RemoveAtProperties ==
  ASSUME NEW S, NEW s \in Seq(S), NEW k \in DOMAIN s
  PROVE  /\ RemoveAt(s, k) \in Seq(S)
         /\ Len(RemoveAt(s, k)) = Len(s) - 1
         /\ s[k] \in S
<1> DEFINE before == SubSeq(s, 1, k - 1)
           after == SubSeq(s, k + 1, Len(s))
<1>1. k \in 1 .. Len(s) /\ Len(s) \in Nat
  OBVIOUS
<1>2. before \in Seq(S) /\ Len(before) = k - 1
  BY <1>1
<1>3. after \in Seq(S) /\ Len(after) = Len(s) - k
  BY <1>1
<1>4. /\ before \o after \in Seq(S)
      /\ Len(before \o after) = Len(before) + Len(after)
  <2> HIDE DEF before, after
  <2> QED BY <1>2, <1>3
<1>5. RemoveAt(s, k) = before \o after
  BY DEF RemoveAt
<1>6. s[k] \in S
  BY <1>1
<1> QED
  <2> HIDE DEF before, after
  <2> QED BY <1>1, <1>2, <1>3, <1>4, <1>5, <1>6

(* Taking out the first element is the same as taking the tail.             *)
LEMMA RemoveAtFirst ==
  ASSUME NEW S, NEW s \in Seq(S), s # <<>>
  PROVE  RemoveAt(s, 1) = Tail(s)
<1>1. Len(s) \in Nat \ {0}
  OBVIOUS
<1>2. SubSeq(s, 1, 1 - 1) = <<>> /\ SubSeq(s, 1 + 1, Len(s)) = Tail(s)
  BY <1>1
<1>3. Tail(s) \in Seq(S)
  OBVIOUS
<1>4. <<>> \o Tail(s) = Tail(s)
  BY <1>3
<1> QED
  BY <1>2, <1>4 DEF RemoveAt

(* What is where after an element joins or leaves a queue. *)
LEMMA PutLast ==
  ASSUME NEW S, NEW s \in Seq(S), NEW e \in S
  PROVE  /\ Append(s, e) \in Seq(S)
         /\ Len(s) \in Nat /\ Len(Append(s, e)) = Len(s) + 1
         /\ \A k \in DOMAIN Append(s, e) :
              /\ k \in Nat
              /\ \/ k \in DOMAIN s /\ Append(s, e)[k] = s[k] /\ s[k] \in S
                 \/ k = Len(s) + 1 /\ Append(s, e)[k] = e
  OBVIOUS

(* The rest of a queue is what was behind its head, moved up by one.        *)
LEMMA TakeFirst ==
  ASSUME NEW S, NEW s \in Seq(S), s # <<>>
  PROVE  /\ Tail(s) \in Seq(S)
         /\ Len(s) \in Nat \ {0} /\ Len(Tail(s)) = Len(s) - 1
         /\ 1 \in DOMAIN s /\ Head(s) = s[1] /\ Head(s) \in S
         /\ \A k \in DOMAIN Tail(s) :
              /\ k \in Nat /\ k + 1 \in DOMAIN s
              /\ Tail(s)[k] = s[k + 1] /\ s[k + 1] \in S
  OBVIOUS

(* Removing one element keeps the others in their order.                    *)
LEMMA RemoveAtElements ==
  ASSUME NEW S, NEW s \in Seq(S), NEW k \in DOMAIN s,
         NEW j \in DOMAIN RemoveAt(s, k)
  PROVE  /\ j \in Nat
         /\ j < k => j \in DOMAIN s /\ RemoveAt(s, k)[j] = s[j]
         /\ j >= k => j + 1 \in DOMAIN s /\ RemoveAt(s, k)[j] = s[j + 1]
<1> DEFINE before == SubSeq(s, 1, k - 1)
           after == SubSeq(s, k + 1, Len(s))
<1>1. k \in 1 .. Len(s) /\ Len(s) \in Nat /\ k \in Nat
  OBVIOUS
<1>2. /\ before \in Seq(S) /\ Len(before) = k - 1
      /\ \A i \in 1 .. k - 1 : before[i] = s[i]
  BY <1>1
<1>3. /\ after \in Seq(S) /\ Len(after) = Len(s) - k
      /\ \A i \in 1 .. Len(s) - k : after[i] = s[i + k]
  BY <1>1
<1>4. RemoveAt(s, k) = before \o after
  BY DEF RemoveAt
<1>5. j \in 1 .. Len(s) - 1
  <2>1. RemoveAt(s, k) \in Seq(S) /\ Len(RemoveAt(s, k)) = Len(s) - 1
    BY RemoveAtProperties
  <2> QED
    BY <2>1
<1> HIDE DEF before, after
<1>6. CASE j < k
  <2>1. (before \o after)[j] = before[j]
    BY <1>1, <1>2, <1>3, <1>5, <1>6
  <2> QED
    BY <1>1, <1>2, <1>4, <1>5, <1>6, <2>1
<1>7. CASE j >= k
  <2>1. (before \o after)[j] = after[j - (k - 1)]
    BY <1>1, <1>2, <1>3, <1>5, <1>7
  <2>2. after[j - (k - 1)] = s[(j - (k - 1)) + k]
    BY <1>1, <1>3, <1>5, <1>7
  <2>3. (j - (k - 1)) + k = j + 1
    BY <1>1, <1>5
  <2> QED
    BY <1>1, <1>4, <1>5, <1>7, <2>1, <2>2, <2>3
<1> QED
  BY <1>1, <1>5, <1>6, <1>7

(* A user function changes nothing of the tuple but its error code. *)
LEMMA TupleProperties ==
  ASSUME NEW t \in Tuple
  PROVE  t.item \in Nat /\ t.sequence_number \in Nat /\ t.error_code \in Nat
  BY DEF Tuple

(* Setting the error code keeps the item and its sequence number.           *)
LEMMA WithCodeProperties ==
  ASSUME NEW t \in Tuple, NEW code \in Nat
  PROVE  /\ WithCode(t, code) \in Tuple
         /\ WithCode(t, code).item = t.item
         /\ WithCode(t, code).sequence_number = t.sequence_number
  BY DEF Tuple, WithCode

(* The work function and the output callback keep item and sequence number. *)
LEMMA UserProperties ==
  ASSUME NEW t \in Tuple, NEW code \in Nat
  PROVE  /\ Worked(t, code) \in Tuple
         /\ Worked(t, code).item = t.item
         /\ Worked(t, code).sequence_number = t.sequence_number
         /\ CalledBack(t, code) \in Tuple
         /\ CalledBack(t, code).item = t.item
         /\ CalledBack(t, code).sequence_number = t.sequence_number
  BY WithCodeProperties DEF Worked, CalledBack

-----------------------------------------------------------------------------
(* Every variable stays in its type: initially, and across every step. *)
LEMMA TypeInit == Init => TypeOK
  BY SizeAssumption DEF Init, TypeOK, FreshTokens

(* Every step of the graph keeps the types.                                 *)
LEMMA TypeStep == TypeOK /\ [Next]_vars => TypeOK'
<1> USE SizeAssumption, CodeAssumption DEF TypeOK
<1> SUFFICES ASSUME TypeOK, [Next]_vars
             PROVE  TypeOK'
  OBVIOUS
<1>1. CASE PutData
  BY <1>1 DEF PutData, Enqueue
<1>2. CASE PutBypass
  BY <1>2 DEF PutBypass, Enqueue
<1>3. CASE Join
  BY <1>3 DEF Join, history, Pair
<1>4. CASE Stamp
  <2>1. joined # <<>> /\ Head(joined) \in Pair
    BY <1>4 DEF Stamp
  <2>2. StampDataToken(Head(joined)) \in Tuple
    BY <2>1 DEF StampDataToken, Tuple, Pair
  <2> QED
    BY <1>4, <2>1, <2>2 DEF Stamp, history
<1>5. CASE Decrement
  BY <1>5 DEF Decrement, history
<1>6. CASE Sequence
  BY <1>6 DEF Sequence, history
<1>7. ASSUME NEW i, WorkDone(i)
      PROVE  TypeOK'
  <2>1. PICK t \in working, code \in UserCodes : WorkDone(i)!(t, code)
    BY <1>7 DEF WorkDone
  <2>2. t \in Tuple /\ code \in Nat
    OBVIOUS
  <2>3. Worked(t, code) \in Tuple
    BY <2>2, UserProperties
  <2>4. CASE PreserveOrder
    BY <2>1, <2>3, <2>4 DEF history
  <2>5. CASE ~PreserveOrder
    <3>1. callbackq' = Append(callbackq, Worked(t, code))
      BY <2>1, <2>5
    <3>2. sequencer' = sequencer
      BY <2>1, <2>5
    <3> QED
      BY <2>1, <2>3, <3>1, <3>2 DEF history
  <2> QED
    BY <2>4, <2>5
<1>8. ASSUME NEW i, CallbackEnd(i)
      PROVE  TypeOK'
  <2>1. PICK t \in calling, code \in UserCodes : CallbackEnd(i)!(t, code)
    BY <1>8 DEF CallbackEnd
  <2>2. t \in Tuple /\ code \in Nat
    OBVIOUS
  <2>3. CalledBack(t, code) \in Tuple
    BY <2>2, UserProperties
  <2> QED
    BY <2>1, <2>3 DEF history
<1>9. ASSUME NEW k, CallbackStart(k)
      PROVE  TypeOK'
  <2>1. k \in DOMAIN callbackq
    BY <1>9 DEF CallbackStart
  <2>2. callbackq[k] \in Tuple /\ RemoveAt(callbackq, k) \in Seq(Tuple)
    BY <2>1, RemoveAtProperties
  <2>3. callbackq[k].item \in Nat
    BY <2>2, TupleProperties
  <2> QED
    BY <1>9, <2>2, <2>3 DEF CallbackStart
<1>10. ASSUME NEW k, Finalize(k)
       PROVE  TypeOK'
  <2>1. k \in DOMAIN finalq
    BY <1>10 DEF Finalize
  <2>2. finalq[k] \in Tuple /\ RemoveAt(finalq, k) \in Seq(Tuple)
    BY <2>1, RemoveAtProperties
  <2>3. finalq[k].error_code \in Nat /\ finalq[k].item \in Nat
    BY <2>2, TupleProperties
  <2>4. [item |-> finalq[k].item, error_code |-> 0,
         exec_code |-> finalq[k].error_code] \in Output
    BY <2>3 DEF Output
  <2> QED
    BY <1>10, <2>2, <2>3, <2>4 DEF Finalize
<1>11. CASE ResetAndPrepare
  BY <1>11 DEF ResetAndPrepare, FreshTokens
<1>12. CASE UNCHANGED vars
  BY <1>12 DEF vars, graphVars, history
<1> QED
  BY <1>1, <1>2, <1>3, <1>4, <1>5, <1>6, <1>7, <1>8, <1>9, <1>10, <1>11,
     <1>12 DEF Next, Task

(* Every variable stays in its type. *)
THEOREM TypeCorrect == Spec => []TypeOK
  BY TypeInit, TypeStep, PTL DEF Spec

-----------------------------------------------------------------------------
(* The limiter counts what waits behind it: an item in the buffer, a joined *)
(* pair, or a stamped one whose continue message is still on its way.  Only *)
(* a bypassed item is not counted, and only such an item, whose message     *)
(* finds the count at zero, lets the two drift apart.                       *)
LimiterInv ==
  /\ count <= InputDataBufferSize
  /\ Waiting + decrements <= count + bypassed
  /\ count <= Waiting + decrements

(* The count of the limiter and the items it stands for move together.      *)
LEMMA LimiterInvariant == Spec => [](TypeOK /\ LimiterInv)
<1> USE SizeAssumption DEF TypeOK, LimiterInv, Waiting
<1>1. Init => LimiterInv
  BY DEF Init
<1>2. TypeOK /\ LimiterInv /\ [Next]_vars => LimiterInv'
  <2> SUFFICES ASSUME TypeOK, LimiterInv, [Next]_vars
               PROVE  LimiterInv'
    OBVIOUS
  <2>1. CASE PutData
    BY <2>1 DEF PutData, Enqueue
  <2>2. CASE PutBypass
    BY <2>2 DEF PutBypass, Enqueue
  <2>3. CASE Join
    BY <2>3 DEF Join, history
  <2>4. CASE Stamp
    BY <2>4 DEF Stamp, history
  <2>5. CASE Decrement
    BY <2>5 DEF Decrement, history
  <2>6. CASE ResetAndPrepare
    BY <2>6 DEF ResetAndPrepare
  <2>7. ASSUME UNCHANGED <<count, bypassed, buffer, joined, decrements>>
        PROVE  LimiterInv'
    BY <2>7
  <2>8. ASSUME Sequence \/ UNCHANGED vars
        PROVE  LimiterInv'
    BY <2>7, <2>8 DEF Sequence, vars, graphVars, history
  <2>9. ASSUME NEW i, WorkDone(i) \/ CallbackEnd(i)
        PROVE  LimiterInv'
    BY <2>7, <2>9 DEF WorkDone, CallbackEnd, history
  <2>10. ASSUME NEW k, CallbackStart(k) \/ Finalize(k)
         PROVE  LimiterInv'
    BY <2>7, <2>10 DEF CallbackStart, Finalize
  <2> QED
    BY <2>1, <2>2, <2>3, <2>4, <2>5, <2>6, <2>8, <2>9, <2>10 DEF Next, Task
<1> QED
  BY <1>1, <1>2, TypeInit, TypeStep, PTL DEF Spec

(* Without bypass the backlog stays within input_data_buffer_size; every    *)
(* call that bypasses the limiter adds at most one item to it.              *)
THEOREM BacklogIsBounded == Spec => []BacklogBounded
<1>1. TypeOK /\ LimiterInv => BacklogBounded
  BY SizeAssumption DEF TypeOK, LimiterInv, BacklogBounded, Waiting
<1> QED
  BY <1>1, LimiterInvariant, PTL

(* The limiter never counts an item that is not there: a node that is empty *)
(* takes the next item.                                                     *)
THEOREM SlotsDoNotLeak == Spec => []NoSlotLeak
<1>1. TypeOK /\ LimiterInv => NoSlotLeak
  BY DEF LimiterInv, NoSlotLeak
<1> QED
  BY <1>1, LimiterInvariant, PTL

-----------------------------------------------------------------------------
(* Items keep their arrival order up to the stamp node, so the sequence     *)
(* number of an item is its position since the last reset; from there on    *)
(* the number brings back the order that parallel work loses.               *)
StampOrder ==
  /\ base + nextSeq + Len(joined) + Len(buffer) = accepted
  /\ \A k \in DOMAIN buffer : buffer[k] = base + nextSeq + Len(joined) + k
  /\ \A k \in DOMAIN joined : joined[k].item = base + nextSeq + k
  /\ \A t \in working \cup sequencer :
       t.item = base + t.sequence_number + 1 /\ t.sequence_number < nextSeq
  /\ nextOut <= nextSeq

(* Behind the sequencer the queue of the callback node is a contiguous run  *)
(* of items, the last of which is the one the sequencer passed last.        *)
CallbackOrder ==
  PreserveOrder =>
    /\ \A k \in DOMAIN callbackq :
         callbackq[k].item + Len(callbackq) = base + nextOut + k
    /\ \A k \in DOMAIN called : called[k] + Len(callbackq) <= base + nextOut

OrderInv == StampOrder /\ CallbackOrder /\ CallbackInOrder

(* No step lets two items change places between stamp and callback.         *)
LEMMA OrderStep == TypeOK /\ OrderInv /\ [Next]_vars => OrderInv'
<1> SUFFICES ASSUME TypeOK, OrderInv, [Next]_vars
             PROVE  OrderInv'
  OBVIOUS
<1> USE DEF OrderInv
<1>0. /\ base \in Nat /\ accepted \in Nat /\ nextSeq \in Nat /\ nextOut \in Nat
      /\ buffer \in Seq(Nat) /\ joined \in Seq(Pair) /\ called \in Seq(Nat)
      /\ callbackq \in Seq(Tuple) /\ working \subseteq Tuple
      /\ sequencer \subseteq Tuple /\ UserCodes \subseteq Nat
  BY CodeAssumption DEF TypeOK
<1>a. /\ base + nextSeq + Len(joined) + Len(buffer) = accepted
      /\ nextOut <= nextSeq
  BY DEF StampOrder
<1>b. /\ base \in Nat /\ accepted \in Nat /\ nextSeq \in Nat /\ nextOut \in Nat
      /\ Len(joined) \in Nat /\ Len(buffer) \in Nat
  BY <1>0
<1>1. ASSUME Enqueue,
             UNCHANGED <<joined, nextSeq, nextOut, working, sequencer,
                         callbackq, called, base>>
      PROVE  OrderInv'
  <2>1. accepted' = accepted + 1 /\ buffer' = Append(buffer, accepted + 1)
    BY <1>1 DEF Enqueue
  <2>2. accepted + 1 \in Nat /\ Len(joined) \in Nat
    BY <1>0
  <2>3. Len(buffer') = Len(buffer) + 1 /\ Len(buffer) \in Nat
    BY <1>0, <2>1, <2>2, PutLast
  <2>4. base' + nextSeq' + Len(joined') + Len(buffer') = accepted'
    BY <1>a, <1>b, <1>1, <2>1, <2>3
  <2>5. ASSUME NEW k \in DOMAIN buffer'
        PROVE  buffer'[k] = base' + nextSeq' + Len(joined') + k
    <3>1. CASE k \in DOMAIN buffer /\ buffer'[k] = buffer[k]
      BY <1>1, <3>1 DEF StampOrder
    <3>2. CASE k = Len(buffer) + 1 /\ buffer'[k] = accepted + 1
      BY <1>a, <1>b, <1>1, <3>2
    <3> QED
      BY <1>0, <2>1, <2>2, <2>5, <3>1, <3>2, PutLast
  <2>6. StampOrder'
    BY <1>1, <2>4, <2>5 DEF StampOrder
  <2> QED
    BY <1>1, <2>6 DEF CallbackOrder, CallbackInOrder
<1>2. CASE PutData \/ PutBypass
  BY <1>1, <1>2 DEF PutData, PutBypass
<1>3. CASE Join
  <2> DEFINE pair == [item |-> Head(buffer), error_code |-> Head(tokens)]
  <2>1. /\ buffer # <<>> /\ buffer' = Tail(buffer)
        /\ joined' = Append(joined, pair)
        /\ UNCHANGED <<nextSeq, nextOut, working, sequencer, callbackq,
                       called, accepted, base>>
    BY <1>3 DEF Join, history
  <2>2. pair \in Pair /\ pair.item = Head(buffer)
    BY <1>3 DEF TypeOK, Join, Pair
  <2> HIDE DEF pair
  <2>3. Head(buffer) = base + nextSeq + Len(joined) + 1
    BY <1>0, <2>1, TakeFirst DEF StampOrder
  <2>4. StampOrder'
    <3>1. Len(joined') = Len(joined) + 1 /\ Len(buffer') = Len(buffer) - 1
          /\ Len(joined) \in Nat /\ Len(buffer) \in Nat
      BY <1>0, <2>1, <2>2, PutLast, TakeFirst
    <3>2. ASSUME NEW k \in DOMAIN buffer'
          PROVE  buffer'[k] = base' + nextSeq' + Len(joined') + k
      <4>1. k \in Nat /\ k + 1 \in DOMAIN buffer /\ buffer'[k] = buffer[k + 1]
        BY <1>0, <2>1, <3>2, TakeFirst
      <4> QED
        BY <1>0, <2>1, <3>1, <4>1 DEF StampOrder
    <3>3. ASSUME NEW k \in DOMAIN joined'
          PROVE  joined'[k].item = base' + nextSeq' + k
      <4>1. CASE k \in DOMAIN joined /\ joined'[k] = joined[k]
        BY <2>1, <4>1 DEF StampOrder
      <4>2. CASE k = Len(joined) + 1 /\ joined'[k] = pair
        BY <1>0, <2>1, <2>2, <2>3, <3>1, <4>2
      <4> QED
        BY <1>0, <2>1, <2>2, <4>1, <4>2, PutLast
    <3>4. base' + nextSeq' + Len(joined') + Len(buffer') = accepted'
      BY <1>a, <1>b, <2>1, <3>1
    <3>5. /\ nextOut' <= nextSeq'
          /\ \A t \in working' \cup sequencer' :
               /\ t.item = base' + t.sequence_number + 1
               /\ t.sequence_number < nextSeq'
      BY <2>1 DEF StampOrder
    <3> QED
      BY <3>2, <3>3, <3>4, <3>5 DEF StampOrder
  <2> QED
    BY <2>1, <2>4 DEF CallbackOrder, CallbackInOrder
<1>4. CASE Stamp
  <2> DEFINE t == StampDataToken(Head(joined))
  <2>1. /\ joined # <<>> /\ joined' = Tail(joined)
        /\ working' = working \cup {t} /\ nextSeq' = nextSeq + 1
        /\ UNCHANGED <<buffer, nextOut, sequencer, callbackq, called,
                       accepted, base>>
    BY <1>4 DEF Stamp, history
  <2>2. t.item = Head(joined).item /\ t.sequence_number = nextSeq
    BY DEF StampDataToken
  <2> HIDE DEF t
  <2>3. Head(joined).item = base + nextSeq + 1
    BY <1>0, <2>1, TakeFirst DEF StampOrder
  <2>4. StampOrder'
    <3>1. Len(joined') = Len(joined) - 1 /\ Len(joined) \in Nat
          /\ Len(buffer) \in Nat
      BY <1>0, <2>1, TakeFirst
    <3>2. ASSUME NEW k \in DOMAIN joined'
          PROVE  joined'[k].item = base' + nextSeq' + k
      <4>1. k \in Nat /\ k + 1 \in DOMAIN joined /\ joined'[k] = joined[k + 1]
        BY <1>0, <2>1, <3>2, TakeFirst
      <4> QED
        BY <1>0, <2>1, <4>1 DEF StampOrder
    <3>3. ASSUME NEW k \in DOMAIN buffer'
          PROVE  buffer'[k] = base' + nextSeq' + Len(joined') + k
      <4>1. k \in Nat /\ buffer[k] = base + nextSeq + Len(joined) + k
        BY <1>0, <2>1 DEF StampOrder
      <4> QED
        BY <1>0, <2>1, <3>1, <4>1
    <3>4. ASSUME NEW u \in working' \cup sequencer'
          PROVE  /\ u.item = base' + u.sequence_number + 1
                 /\ u.sequence_number < nextSeq'
      <4>1. CASE u = t
        BY <1>0, <2>1, <2>2, <2>3, <4>1
      <4>2. CASE u \in working \cup sequencer
        BY <1>0, <2>1, <4>2, TupleProperties DEF StampOrder
      <4> QED
        BY <2>1, <4>1, <4>2
    <3>5. /\ base' + nextSeq' + Len(joined') + Len(buffer') = accepted'
          /\ nextOut' <= nextSeq'
      BY <1>a, <1>b, <2>1, <3>1
    <3> QED
      BY <3>2, <3>3, <3>4, <3>5 DEF StampOrder
  <2> QED
    BY <2>1, <2>4 DEF CallbackOrder, CallbackInOrder
<1>5. CASE Decrement
  BY <1>5 DEF Decrement, history, StampOrder, CallbackOrder, CallbackInOrder
<1>6. CASE Sequence
  <2>1. PICK t \in sequencer : Sequence!(t)
    BY <1>6 DEF Sequence
  <2>2. /\ t \in Tuple /\ t.sequence_number = nextOut
        /\ nextOut' = nextOut + 1
        /\ sequencer' = sequencer \ {t}
        /\ callbackq' = Append(callbackq, t)
        /\ UNCHANGED <<buffer, joined, nextSeq, working, called, accepted,
                       base>>
    BY <1>0, <2>1 DEF history
  <2>3. t.item = base + nextOut + 1 /\ nextOut < nextSeq
    BY <2>2 DEF StampOrder
  <2>4. StampOrder'
    BY <1>0, <2>2, <2>3 DEF StampOrder
  <2>5. Len(callbackq') = Len(callbackq) + 1 /\ Len(callbackq) \in Nat
    BY <1>0, <2>2, PutLast
  <2>6. ASSUME PreserveOrder, NEW k \in DOMAIN callbackq'
        PROVE  callbackq'[k].item + Len(callbackq') = base' + nextOut' + k
    <3>1. CASE /\ k \in Nat /\ k \in DOMAIN callbackq /\ callbackq[k] \in Tuple
               /\ callbackq'[k] = callbackq[k]
      <4>1. callbackq[k].item + Len(callbackq) = base + nextOut + k
        BY <2>6, <3>1 DEF CallbackOrder
      <4>2. callbackq[k].item \in Nat
        BY <3>1, TupleProperties
      <4> QED
        <5>1. nextOut' = nextOut + 1 /\ base' = base
          BY <2>2
        <5>2. callbackq'[k].item = callbackq[k].item
          BY <3>1
        <5> QED
          BY <2>5, <4>1, <4>2, <5>1, <5>2, <1>b
    <3>2. CASE k = Len(callbackq) + 1 /\ callbackq'[k] = t
      BY <1>0, <2>2, <2>3, <2>5, <3>2
    <3> QED
      BY <1>0, <2>2, <2>6, <3>1, <3>2, PutLast
  <2>7. ASSUME PreserveOrder, NEW k \in DOMAIN called
        PROVE  called[k] + Len(callbackq') <= base' + nextOut'
    <3>1. called[k] + Len(callbackq) <= base + nextOut /\ called[k] \in Nat
      BY <1>0, <2>7 DEF CallbackOrder
    <3> QED
      BY <1>0, <2>2, <2>5, <3>1
  <2> QED
    BY <2>2, <2>4, <2>6, <2>7 DEF CallbackOrder, CallbackInOrder
<1>7. ASSUME NEW i, WorkDone(i)
      PROVE  OrderInv'
  <2>1. PICK t \in working, code \in UserCodes : WorkDone(i)!(t, code)
    BY <1>7 DEF WorkDone
  <2>2. t \in Tuple /\ code \in Nat
    BY <1>0
  <2>3. /\ Worked(t, code).item = t.item
        /\ Worked(t, code).sequence_number = t.sequence_number
    BY <2>2, UserProperties
  <2>4. UNCHANGED <<buffer, joined, nextSeq, nextOut, called, accepted, base>>
    BY <2>1 DEF history
  <2>5. /\ working' = working \ {t}
        /\ sequencer' \subseteq sequencer \cup {Worked(t, code)}
        /\ PreserveOrder => callbackq' = callbackq
    BY <2>1
  <2>6. StampOrder'
    BY <2>3, <2>4, <2>5 DEF StampOrder
  <2> QED
    BY <2>4, <2>5, <2>6 DEF CallbackOrder, CallbackInOrder
<1>8. ASSUME NEW i, CallbackEnd(i)
      PROVE  OrderInv'
  BY <1>8 DEF CallbackEnd, history, StampOrder, CallbackOrder, CallbackInOrder
<1>9. ASSUME NEW k, CallbackStart(k)
      PROVE  OrderInv'
  <2>1. /\ k \in DOMAIN callbackq
        /\ called' = Append(called, callbackq[k].item)
        /\ callbackq' = RemoveAt(callbackq, k)
        /\ UNCHANGED <<buffer, joined, nextSeq, nextOut, working, sequencer,
                       accepted, base>>
    BY <1>9 DEF CallbackStart
  <2>2. StampOrder'
    BY <2>1 DEF StampOrder
  <2>3. ASSUME PreserveOrder
        PROVE  CallbackOrder' /\ CallbackInOrder'
    <3>1. k = 1 /\ callbackq # <<>>
      BY <1>0, <1>9, <2>1, <2>3 DEF CallbackStart, OutputSerial
    <3>2. callbackq' = Tail(callbackq)
      BY <1>0, <2>1, <3>1, RemoveAtFirst
    <3>3. Len(callbackq') = Len(callbackq) - 1 /\ Len(callbackq) \in Nat \ {0}
      BY <1>0, <3>1, <3>2, TakeFirst
    <3> DEFINE i == callbackq[1].item
    <3>4. i \in Nat /\ i + Len(callbackq) = base + nextOut + 1
      <4>1. 1 \in DOMAIN callbackq /\ callbackq[1] \in Tuple
        BY <1>0, <3>1, TakeFirst
      <4> QED
        BY <2>3, <4>1, TupleProperties DEF CallbackOrder
    <3>5. called' = Append(called, i)
      BY <2>1, <3>1
    <3> HIDE DEF i
    <3>6. ASSUME NEW j \in DOMAIN callbackq'
          PROVE  callbackq'[j].item + Len(callbackq') = base' + nextOut' + j
      <4>1. /\ j \in Nat /\ j + 1 \in DOMAIN callbackq
            /\ callbackq'[j] = callbackq[j + 1] /\ callbackq[j + 1] \in Tuple
        BY <1>0, <3>1, <3>2, TakeFirst
      <4>2. callbackq[j + 1].item + Len(callbackq) = base + nextOut + (j + 1)
        BY <2>3, <4>1 DEF CallbackOrder
      <4>3. callbackq[j + 1].item \in Nat
        BY <4>1, TupleProperties
      <4> QED
        <5>1. nextOut' = nextOut /\ base' = base
          BY <2>1
        <5>2. callbackq'[j].item = callbackq[j + 1].item
          BY <4>1
        <5>3. j \in Nat
          BY <4>1
        <5>4. Len(callbackq) \in Nat /\ base + nextOut \in Nat
          BY <1>b, <3>3
        <5>5. callbackq[j + 1].item + (Len(callbackq) - 1)
                = base + nextOut + j
          <6> DEFINE x == callbackq[j + 1].item
                     n == Len(callbackq)
                     y == base + nextOut
          <6>1. x \in Nat /\ n \in Nat /\ y \in Nat
            BY <4>3, <5>4
          <6>2. x + n = y + (j + 1)
            BY <4>2
          <6> HIDE DEF x, n, y
          <6>3. x + (n - 1) = y + j
            BY <5>3, <6>1, <6>2
          <6> QED
            BY <6>3 DEF x, n, y
        <5> QED
          BY <3>3, <5>1, <5>2, <5>5
    <3>7. \A j \in DOMAIN called :
            called[j] \in Nat /\ called[j] + Len(callbackq) <= base + nextOut
      BY <1>0, <2>3 DEF CallbackOrder
    <3>8. /\ Len(called) \in Nat
          /\ \A j \in DOMAIN called' :
               /\ j \in Nat
               /\ \/ j \in DOMAIN called /\ called'[j] = called[j]
                  \/ j = Len(called) + 1 /\ called'[j] = i
      BY <1>0, <3>4, <3>5, PutLast
    <3>9. \A j \in DOMAIN called' :
            called'[j] + Len(callbackq') <= base' + nextOut'
      BY <1>0, <2>1, <3>3, <3>4, <3>7, <3>8
    <3>10. ASSUME NEW j \in DOMAIN called', NEW l \in DOMAIN called', j < l
           PROVE  called'[j] < called'[l]
      <4>1. j \in DOMAIN called /\ called'[j] = called[j]
        BY <1>0, <3>5, <3>8, <3>10, PutLast
      <4>2. CASE l \in DOMAIN called /\ called'[l] = called[l]
        BY <2>3, <3>10, <4>1, <4>2 DEF CallbackInOrder
      <4>3. CASE called'[l] = i
        BY <1>0, <3>3, <3>4, <3>7, <4>1, <4>3
      <4> QED
        BY <3>8, <4>2, <4>3
    <3> QED
      BY <3>6, <3>9, <3>10 DEF CallbackOrder, CallbackInOrder
  <2> QED
    BY <2>2, <2>3 DEF CallbackOrder, CallbackInOrder
<1>10. ASSUME NEW k, Finalize(k)
       PROVE  OrderInv'
  BY <1>10 DEF Finalize, StampOrder, CallbackOrder, CallbackInOrder
<1>11. CASE ResetAndPrepare
  <2>1. /\ base' = accepted /\ buffer' = <<>> /\ joined' = <<>>
        /\ working' = {} /\ sequencer' = {} /\ nextOut' = 0
        /\ callbackq' = <<>> /\ nextSeq' = 0
        /\ UNCHANGED <<accepted, called>>
    BY <1>11 DEF ResetAndPrepare
  <2>2. StampOrder'
    BY <1>0, <2>1 DEF StampOrder
  <2>3. base + nextOut <= accepted
    BY <1>0 DEF StampOrder
  <2>4. ASSUME PreserveOrder, NEW k \in DOMAIN called
        PROVE  called[k] <= accepted
    <3>1. called[k] + Len(callbackq) <= base + nextOut /\ called[k] \in Nat
          /\ Len(callbackq) \in Nat
      BY <1>0, <2>4 DEF CallbackOrder
    <3> QED
      BY <1>0, <2>3, <3>1
  <2>5. CallbackOrder'
    <3>1. \A k \in DOMAIN called : called[k] \in Nat
      BY <1>0
    <3> QED
      BY <1>0, <2>1, <2>4, <3>1 DEF CallbackOrder
  <2> QED
    BY <2>1, <2>2, <2>5 DEF CallbackInOrder
<1>12. CASE UNCHANGED vars
  BY <1>12
  DEF vars, graphVars, history, StampOrder, CallbackOrder, CallbackInOrder
<1> QED
  BY <1>2, <1>3, <1>4, <1>5, <1>6, <1>7, <1>8, <1>9, <1>10, <1>11, <1>12
  DEF Next, Task

(* "The output callback will be called in the order of the input data"      *)
(* when preserve_order is set, whatever the work functions do.              *)
THEOREM CallbacksKeepOrder == Spec => []CallbackInOrder
<1>1. Init => OrderInv
  BY DEF Init, OrderInv, StampOrder, CallbackOrder, CallbackInOrder
<1>2. OrderInv => CallbackInOrder
  BY DEF OrderInv
<1> QED
  BY <1>1, <1>2, OrderStep, TypeInit, TypeStep, PTL DEF Spec

(* Every place where an execution token can be holds it once: no two tuples *)
(* behind the stamp node share a sequence number.                           *)
Apart(S, T) == \A t \in S, u \in T : t.sequence_number # u.sequence_number
Unique(S) == \A t, u \in S : t.sequence_number = u.sequence_number => t = u
CallbackSet == {callbackq[k] : k \in DOMAIN callbackq}

NumberInv ==
  /\ \A t \in working \cup sequencer \cup calling \cup CallbackSet :
       t.sequence_number < nextSeq
  /\ Unique(working) /\ Unique(sequencer)
  /\ \A j, k \in DOMAIN callbackq :
       callbackq[j].sequence_number = callbackq[k].sequence_number => j = k
  /\ Apart(working, sequencer) /\ Apart(working, CallbackSet)
  /\ Apart(working, calling) /\ Apart(sequencer, CallbackSet)
  /\ Apart(sequencer, calling) /\ Apart(CallbackSet, calling)

TokenInv ==
  /\ IsFiniteSet(working) /\ IsFiniteSet(sequencer) /\ IsFiniteSet(calling)
  /\ TokensConserved

(* No step gives a sequence number away twice or skips one.                 *)
LEMMA NumberStep == TypeOK /\ NumberInv /\ [Next]_vars => NumberInv'
<1> SUFFICES ASSUME TypeOK, NumberInv, [Next]_vars
             PROVE  NumberInv'
  OBVIOUS
<1> USE DEF NumberInv, Apart, Unique, CallbackSet
<1>0. /\ nextSeq \in Nat /\ UserCodes \subseteq Nat
      /\ callbackq \in Seq(Tuple) /\ working \subseteq Tuple
      /\ sequencer \subseteq Tuple /\ calling \subseteq Tuple
  BY CodeAssumption DEF TypeOK
<1>1. ASSUME UNCHANGED <<working, sequencer, callbackq, calling, nextSeq>>
      PROVE  NumberInv'
  BY <1>1
<1>2. CASE PutData \/ PutBypass \/ Join \/ Decrement \/ UNCHANGED vars
  BY <1>1, <1>2
  DEF PutData, PutBypass, Join, Decrement, vars, graphVars, history
<1>3. CASE Stamp
  <2> DEFINE t == StampDataToken(Head(joined))
  <2>1. /\ working' = working \cup {t} /\ nextSeq' = nextSeq + 1
        /\ UNCHANGED <<sequencer, callbackq, calling>>
    BY <1>3 DEF Stamp
  <2>2. t.sequence_number = nextSeq
    BY DEF StampDataToken
  <2> HIDE DEF t
  <2>3. \A u \in working \cup sequencer \cup calling \cup CallbackSet :
          /\ u.sequence_number # nextSeq
          /\ u.sequence_number < nextSeq + 1
    <3>1. \A u \in CallbackSet : u \in Tuple
      BY <1>0
    <3>2. \A u \in working \cup sequencer \cup calling \cup CallbackSet :
            u.sequence_number \in Nat /\ u.sequence_number < nextSeq
      BY <1>0, <3>1, TupleProperties
    <3> QED
      BY <1>0, <3>2
  <2> QED
    BY <1>0, <2>1, <2>2, <2>3
<1>4. CASE Sequence
  <2>1. PICK t \in sequencer :
          /\ sequencer' = sequencer \ {t} /\ callbackq' = Append(callbackq, t)
          /\ UNCHANGED <<working, calling, nextSeq>>
    BY <1>4 DEF Sequence
  <2>2. /\ Len(callbackq) \in Nat
        /\ \A k \in DOMAIN callbackq' :
             \/ k \in DOMAIN callbackq /\ callbackq'[k] = callbackq[k]
             \/ k = Len(callbackq) + 1 /\ callbackq'[k] = t
    BY <1>0, <2>1, PutLast
  <2>3. CallbackSet' \subseteq CallbackSet \cup {t}
    BY <2>2
  <2>4. \A u \in CallbackSet : u.sequence_number # t.sequence_number
    BY <2>1
  <2> QED
    BY <2>1, <2>2, <2>3, <2>4
<1>5. ASSUME NEW i, WorkDone(i)
      PROVE  NumberInv'
  <2>1. PICK t \in working, code \in UserCodes : WorkDone(i)!(t, code)
    BY <1>5 DEF WorkDone
  <2> DEFINE out == Worked(t, code)
  <2>2. out \in Tuple /\ out.sequence_number = t.sequence_number
    BY <1>0, UserProperties
  <2> HIDE DEF out
  <2>3. working' = working \ {t} /\ UNCHANGED <<calling, nextSeq>>
    BY <2>1
  <2>4. CASE sequencer' = sequencer \cup {out} /\ callbackq' = callbackq
    BY <2>2, <2>3, <2>4
  <2>5. CASE callbackq' = Append(callbackq, out) /\ sequencer' = sequencer
    <3>1. /\ Len(callbackq) \in Nat
          /\ \A k \in DOMAIN callbackq' :
               \/ k \in DOMAIN callbackq /\ callbackq'[k] = callbackq[k]
               \/ k = Len(callbackq) + 1 /\ callbackq'[k] = out
      BY <1>0, <2>2, <2>5, PutLast
    <3>2. CallbackSet' \subseteq CallbackSet \cup {out}
      BY <3>1
    <3>3. \A u \in CallbackSet : u.sequence_number # t.sequence_number
      OBVIOUS
    <3> QED
      BY <2>2, <2>3, <2>5, <3>1, <3>2, <3>3
  <2> QED
    BY <2>1, <2>4, <2>5 DEF out
<1>6. ASSUME NEW i, CallbackEnd(i)
      PROVE  NumberInv'
  <2>1. calling' \subseteq calling
        /\ UNCHANGED <<working, sequencer, callbackq, nextSeq>>
    BY <1>6 DEF CallbackEnd
  <2> QED
    BY <2>1
<1>7. ASSUME NEW k, CallbackStart(k)
      PROVE  NumberInv'
  <2>1. /\ k \in DOMAIN callbackq
        /\ calling' = calling \cup {callbackq[k]}
        /\ callbackq' = RemoveAt(callbackq, k)
        /\ UNCHANGED <<working, sequencer, nextSeq>>
    BY <1>7 DEF CallbackStart
  <2>2. k \in Nat
    BY <1>0, <2>1
  <2>3. \A j \in DOMAIN callbackq' :
          /\ j \in Nat
          /\ j < k => j \in DOMAIN callbackq /\ callbackq'[j] = callbackq[j]
          /\ j >= k => /\ j + 1 \in DOMAIN callbackq
                       /\ callbackq'[j] = callbackq[j + 1]
    BY <1>0, <2>1, RemoveAtElements
  <2>4. \A j \in DOMAIN callbackq' : \E l \in DOMAIN callbackq :
          l # k /\ callbackq'[j] = callbackq[l]
    BY <2>2, <2>3
  <2>5. CallbackSet' \subseteq CallbackSet
    BY <2>4
  <2>6. \A u \in CallbackSet' :
          u.sequence_number # callbackq[k].sequence_number
    BY <2>1, <2>4
  <2>7. ASSUME NEW j \in DOMAIN callbackq', NEW l \in DOMAIN callbackq',
               callbackq'[j].sequence_number = callbackq'[l].sequence_number
        PROVE  j = l
    BY <2>2, <2>3, <2>7
  <2>8. callbackq[k] \in CallbackSet
    BY <2>1
  <2>9. Apart(CallbackSet, calling)'
    BY <2>1, <2>5, <2>6
  <2>10. Apart(working, calling)' /\ Apart(sequencer, calling)'
    BY <2>1, <2>8
  <2> HIDE DEF CallbackSet
  <2>11. Apart(working, CallbackSet)' /\ Apart(sequencer, CallbackSet)'
    BY <2>1, <2>5
  <2>12. \A t \in working' \cup sequencer' \cup calling' \cup CallbackSet' :
           t.sequence_number < nextSeq'
    BY <2>1, <2>5, <2>8
  <2>13. (Unique(working) /\ Unique(sequencer) /\ Apart(working, sequencer))'
    BY <2>1
  <2> QED
    BY <2>7, <2>9, <2>10, <2>11, <2>12, <2>13
<1>8. ASSUME NEW k, Finalize(k)
      PROVE  NumberInv'
  BY <1>1, <1>8 DEF Finalize
<1>9. CASE ResetAndPrepare
  BY <1>9 DEF ResetAndPrepare
<1> QED
  BY <1>2, <1>3, <1>4, <1>5, <1>6, <1>7, <1>8, <1>9 DEF Next, Task

(* Every step moves a token from one place to the next.                     *)
LEMMA TokenStep ==
  TypeOK /\ NumberInv /\ TokenInv /\ [Next]_vars => TokenInv'
<1> SUFFICES ASSUME TypeOK, NumberInv, TokenInv, [Next]_vars
             PROVE  TokenInv'
  OBVIOUS
<1> USE DEF TokenInv, TokensConserved, HoldingToken
<1>0. /\ nextSeq \in Nat /\ UserCodes \subseteq Nat /\ ExecuteTokenSize \in Nat
      /\ callbackq \in Seq(Tuple) /\ working \subseteq Tuple
      /\ sequencer \subseteq Tuple /\ calling \subseteq Tuple
      /\ finalq \in Seq(Tuple) /\ tokens \in Seq(Nat) /\ joined \in Seq(Pair)
  BY CodeAssumption, SizeAssumption DEF TypeOK
<1>a. /\ Len(callbackq) \in Nat /\ Len(finalq) \in Nat /\ Len(tokens) \in Nat
      /\ Len(joined) \in Nat /\ Cardinality(working) \in Nat
      /\ Cardinality(sequencer) \in Nat /\ Cardinality(calling) \in Nat
  BY <1>0, FS_CardinalityType
<1>1. ASSUME UNCHANGED <<tokens, joined, working, sequencer, callbackq,
                         calling, finalq>>
      PROVE  TokenInv'
  BY <1>1
<1>2. CASE PutData \/ PutBypass \/ Decrement \/ UNCHANGED vars
  BY <1>1, <1>2 DEF PutData, PutBypass, Decrement, vars, graphVars, history
<1>3. CASE Join
  <2>1. Len(joined') = Len(joined) + 1 /\ Len(tokens') = Len(tokens) - 1
    BY <1>0, <1>3 DEF Join
  <2>2. UNCHANGED <<working, sequencer, callbackq, calling, finalq>>
    BY <1>3 DEF Join
  <2> QED
    BY <1>a, <2>1, <2>2
<1>4. CASE Stamp
  <2> DEFINE t == StampDataToken(Head(joined))
  <2>1. Len(joined') = Len(joined) - 1
    BY <1>0, <1>4 DEF Stamp
  <2>2. /\ working' = working \cup {t}
        /\ UNCHANGED <<tokens, sequencer, callbackq, calling, finalq>>
    BY <1>4 DEF Stamp
  <2>3. t \notin working
    <3>1. t.sequence_number = nextSeq
      BY DEF StampDataToken
    <3> QED
      BY <1>0, <3>1 DEF NumberInv
  <2> HIDE DEF t
  <2>4. IsFiniteSet(working') /\ Cardinality(working') = Cardinality(working) + 1
    BY <2>2, <2>3, FS_AddElement
  <2> QED
    BY <1>a, <2>1, <2>2, <2>4
<1>5. CASE Sequence
  <2>1. PICK t \in sequencer :
          /\ sequencer' = sequencer \ {t} /\ callbackq' = Append(callbackq, t)
          /\ UNCHANGED <<tokens, joined, working, calling, finalq>>
    BY <1>5 DEF Sequence
  <2>2. /\ IsFiniteSet(sequencer')
        /\ Cardinality(sequencer') = Cardinality(sequencer) - 1
    BY <2>1, FS_RemoveElement
  <2>3. Len(callbackq') = Len(callbackq) + 1
    BY <1>0, <2>1
  <2> QED
    BY <1>a, <2>1, <2>2, <2>3
<1>6. ASSUME NEW i, WorkDone(i)
      PROVE  TokenInv'
  <2>1. PICK t \in working, code \in UserCodes : WorkDone(i)!(t, code)
    BY <1>6 DEF WorkDone
  <2> DEFINE out == Worked(t, code)
  <2>2. out \in Tuple /\ out.sequence_number = t.sequence_number
    BY <1>0, UserProperties
  <2>3. working' = working \ {t} /\ UNCHANGED <<tokens, joined, calling, finalq>>
    BY <2>1
  <2>4. /\ IsFiniteSet(working')
        /\ Cardinality(working') = Cardinality(working) - 1
    BY <2>3, FS_RemoveElement
  <2>5. \/ sequencer' = sequencer \cup {out} /\ callbackq' = callbackq
        \/ callbackq' = Append(callbackq, out) /\ sequencer' = sequencer
    BY <2>1
  <2> HIDE DEF out
  <2>6. CASE sequencer' = sequencer \cup {out} /\ callbackq' = callbackq
    <3>1. out \notin sequencer
      BY <2>2 DEF NumberInv, Apart
    <3>2. /\ IsFiniteSet(sequencer')
          /\ Cardinality(sequencer') = Cardinality(sequencer) + 1
      BY <2>6, <3>1, FS_AddElement
    <3> QED
      BY <1>a, <2>3, <2>4, <2>6, <3>2
  <2>7. CASE callbackq' = Append(callbackq, out) /\ sequencer' = sequencer
    <3>1. Len(callbackq') = Len(callbackq) + 1
      BY <1>0, <2>2, <2>7
    <3> QED
      BY <1>a, <2>3, <2>4, <2>7, <3>1
  <2> QED
    BY <2>5, <2>6, <2>7
<1>7. ASSUME NEW i, CallbackEnd(i)
      PROVE  TokenInv'
  <2>1. PICK t \in calling, code \in UserCodes : CallbackEnd(i)!(t, code)
    BY <1>7 DEF CallbackEnd
  <2>2. /\ calling' = calling \ {t} /\ finalq' = Append(finalq, CalledBack(t, code))
        /\ UNCHANGED <<tokens, joined, working, sequencer, callbackq>>
    BY <2>1
  <2>3. /\ IsFiniteSet(calling')
        /\ Cardinality(calling') = Cardinality(calling) - 1
    BY <2>2, FS_RemoveElement
  <2>4. Len(finalq') = Len(finalq) + 1
    BY <1>0, <2>2
  <2> QED
    BY <1>a, <2>2, <2>3, <2>4
<1>8. ASSUME NEW k, CallbackStart(k)
      PROVE  TokenInv'
  <2>1. /\ k \in DOMAIN callbackq
        /\ calling' = calling \cup {callbackq[k]}
        /\ callbackq' = RemoveAt(callbackq, k)
        /\ UNCHANGED <<tokens, joined, working, sequencer, finalq>>
    BY <1>8 DEF CallbackStart
  <2>2. callbackq[k] \notin calling
    BY <2>1 DEF NumberInv, Apart, CallbackSet
  <2>3. /\ IsFiniteSet(calling')
        /\ Cardinality(calling') = Cardinality(calling) + 1
    BY <2>1, <2>2, FS_AddElement
  <2>4. Len(callbackq') = Len(callbackq) - 1
    BY <1>0, <2>1, RemoveAtProperties
  <2> QED
    BY <1>a, <2>1, <2>3, <2>4
<1>9. ASSUME NEW k, Finalize(k)
      PROVE  TokenInv'
  <2>1. /\ k \in DOMAIN finalq
        /\ finalq' = RemoveAt(finalq, k)
        /\ tokens' = Append(tokens, finalq[k].error_code)
        /\ UNCHANGED <<joined, working, sequencer, callbackq, calling>>
    BY <1>9 DEF Finalize
  <2>2. Len(finalq') = Len(finalq) - 1
    BY <1>0, <2>1, RemoveAtProperties
  <2>3. Len(tokens') = Len(tokens) + 1
    BY <1>0, <2>1
  <2>4. UNCHANGED <<joined, working, sequencer, callbackq, calling>>
    BY <2>1
  <2> QED
    BY <1>a, <2>2, <2>3, <2>4
<1>10. CASE ResetAndPrepare
  <2>1. /\ joined' = <<>> /\ working' = {} /\ sequencer' = {}
        /\ callbackq' = <<>> /\ calling' = {} /\ finalq' = <<>>
        /\ tokens' = FreshTokens
    BY <1>10 DEF ResetAndPrepare
  <2> QED
    BY <1>0, <2>1, FS_EmptySet DEF FreshTokens
<1> QED
  BY <1>2, <1>3, <1>4, <1>5, <1>6, <1>7, <1>8, <1>9, <1>10 DEF Next, Task

(* No execution token is lost or duplicated: the number of items that are   *)
(* worked on at once never exceeds, and never stays below, what             *)
(* execute_token_size says.                                                 *)
THEOREM TokensAreConserved == Spec => []TokensConserved
<1>1. Init => NumberInv
  BY DEF Init, NumberInv, Unique, Apart, CallbackSet
<1>2. Init => TokenInv
  BY SizeAssumption, FS_EmptySet
  DEF Init, TokenInv, TokensConserved, HoldingToken, FreshTokens
<1>3. TokenInv => TokensConserved
  BY DEF TokenInv
<1> QED
  BY <1>1, <1>2, <1>3, TypeInit, TypeStep, NumberStep, TokenStep, PTL
  DEF Spec

-----------------------------------------------------------------------------
(* The graph of an ordered, synchronous node is the pipeline of             *)
(* OrderedPipeline.                                                         *)

(* Behind the sequencer there is one line: finalize queue, the output whose *)
(* callback runs, callback queue.  It starts with the item that follows the *)
(* one emitted last, and ends with the one the sequencer passed last.  What *)
(* was stamped and did not pass yet is in the work node or the sequencer.   *)
OutputInv ==
  /\ \A t, u \in calling : t = u
  /\ \A t \in calling : t.item = LastOut + Len(finalq) + 1
  /\ \A k \in DOMAIN finalq : finalq[k].item = LastOut + k
  /\ LastOut + Len(finalq) + Cardinality(calling) + Len(callbackq)
       = base + nextOut
  /\ nextOut + Cardinality(sequencer) + Cardinality(working) = nextSeq

GraphInv == TypeOK /\ LimiterInv /\ OrderInv /\ NumberInv /\ TokenInv

(* The item that left last, as the abstraction sees it. *)
LEMMA LastOutProperties ==
  ASSUME TypeOK
  PROVE  LastOut \in Nat /\ LastOut >= base
<1>1. outputs \in Seq(Output) /\ base \in Nat
  BY DEF TypeOK
<1>2. CASE outputs = <<>>
  BY <1>1, <1>2 DEF LastOut
<1>3. CASE outputs # <<>>
  <2>1. Len(outputs) \in DOMAIN outputs
    BY <1>1, <1>3
  <2>2. outputs[Len(outputs)] \in Output
    BY <1>1, <2>1
  <2>3. outputs[Len(outputs)].item \in Nat
    BY <2>2 DEF Output
  <2> QED
    BY <1>1, <1>3, <2>3 DEF LastOut
<1> QED
  BY <1>2, <1>3

(* Emitting the item that follows LastOut moves it by one. *)
LEMMA LastOutMoves ==
  ASSUME TypeOK, NEW e \in Output, e.item = LastOut + 1,
         outputs' = Append(outputs, e), base' = base
  PROVE  LastOut' = LastOut + 1
<1>1. outputs \in Seq(Output) /\ base \in Nat /\ LastOut \in Nat /\ LastOut >= base
  BY LastOutProperties DEF TypeOK
<1>2. outputs' # <<>> /\ outputs'[Len(outputs')] = e
  BY <1>1
<1>3. LastOut' = LET i == e.item IN IF i > base THEN i ELSE base
  BY <1>2 DEF LastOut
<1> QED
  BY <1>1, <1>3

(* The line is as long as what is between the sequencer and the exit. *)
LEMMA LineIsBehindInput ==
  ASSUME GraphInv, OutputInv
  PROVE  /\ accepted - LastOut \in Nat
         /\ accepted - LastOut =
              Waiting + Cardinality(working) + Cardinality(sequencer)
                + Len(callbackq) + Cardinality(calling) + Len(finalq)
<1>1. /\ accepted \in Nat /\ base \in Nat /\ nextSeq \in Nat /\ nextOut \in Nat
      /\ Len(joined) \in Nat /\ Len(buffer) \in Nat
      /\ Len(callbackq) \in Nat /\ Len(finalq) \in Nat
  BY DEF GraphInv, TypeOK
<1>2. /\ Cardinality(working) \in Nat /\ Cardinality(sequencer) \in Nat
      /\ Cardinality(calling) \in Nat
  BY FS_CardinalityType DEF GraphInv, TokenInv
<1>3. base + nextSeq + Len(joined) + Len(buffer) = accepted
  BY DEF GraphInv, OrderInv, StampOrder
<1>4. LastOut \in Nat
  BY LastOutProperties DEF GraphInv
<1>5. /\ LastOut + Len(finalq) + Cardinality(calling) + Len(callbackq)
           = base + nextOut
      /\ nextOut + Cardinality(sequencer) + Cardinality(working) = nextSeq
  BY DEF OutputInv
<1>6. accepted - LastOut =
        Len(joined) + Len(buffer) + Cardinality(working) + Cardinality(sequencer)
          + Len(callbackq) + Cardinality(calling) + Len(finalq)
  <2> DEFINE behind == Len(callbackq) + Cardinality(calling) + Len(finalq)
             stamped == Cardinality(working) + Cardinality(sequencer)
  <2>1. behind \in Nat /\ stamped \in Nat
    BY <1>1, <1>2
  <2>2. LastOut + behind = base + nextOut /\ nextOut + stamped = nextSeq
    BY <1>1, <1>2, <1>4, <1>5
  <2>3. accepted - LastOut = Len(joined) + Len(buffer) + stamped + behind
    <3> HIDE DEF behind, stamped
    <3> QED
      BY <1>1, <1>3, <1>4, <2>1, <2>2
  <2> QED
    BY <1>1, <1>2, <2>3
<1> QED
  BY <1>1, <1>2, <1>6 DEF Waiting

(* A reset gives up the line: the next item to leave is one accepted later. *)
LEMMA LastOutAfterReset ==
  ASSUME GraphInv, OutputInv, ResetAndPrepare
  PROVE  LastOut' = accepted
<1>0. /\ LastOut \in Nat /\ base \in Nat /\ accepted \in Nat
      /\ outputs \in Seq(Output) /\ base <= LastOut
  BY LastOutProperties DEF GraphInv, TypeOK
<1>1. base' = accepted /\ outputs' = outputs
  BY DEF ResetAndPrepare
<1>2. LastOut <= accepted
  BY <1>0, LineIsBehindInput
<1>3. CASE outputs = <<>>
  BY <1>1, <1>3 DEF LastOut
<1>4. CASE outputs # <<>>
  <2> DEFINE i == outputs[Len(outputs)].item
  <2>1. outputs[Len(outputs)] \in Output
    BY <1>0, <1>4
  <2>2. i \in Nat
    BY <2>1 DEF Output
  <2>3. /\ LastOut = IF i > base THEN i ELSE base
        /\ LastOut' = IF i > accepted THEN i ELSE accepted
    BY <1>1, <1>4 DEF LastOut
  <2> HIDE DEF i
  <2> QED
    BY <1>0, <1>2, <2>2, <2>3
<1> QED
  BY <1>3, <1>4

(* Behind the sequencer no step breaks the line. *)
LEMMA OutputStep ==
  ASSUME PreserveOrder, ~UseAsync, GraphInv, OutputInv, [Next]_vars
  PROVE  OutputInv'
<1>0. /\ TypeOK /\ LastOut \in Nat /\ base \in Nat /\ accepted \in Nat
      /\ nextSeq \in Nat /\ nextOut \in Nat /\ UserCodes \subseteq Nat
      /\ callbackq \in Seq(Tuple) /\ finalq \in Seq(Tuple)
      /\ working \subseteq Tuple /\ sequencer \subseteq Tuple
      /\ calling \subseteq Tuple /\ outputs \in Seq(Output)
      /\ Len(callbackq) \in Nat /\ Len(finalq) \in Nat
  BY CodeAssumption, LastOutProperties DEF GraphInv, TypeOK
<1>c. /\ IsFiniteSet(working) /\ IsFiniteSet(sequencer) /\ IsFiniteSet(calling)
      /\ Cardinality(working) \in Nat /\ Cardinality(sequencer) \in Nat
      /\ Cardinality(calling) \in Nat
  BY FS_CardinalityType DEF GraphInv, TokenInv
<1>o. /\ \A t, u \in calling : t = u
      /\ \A t \in calling : t.item = LastOut + Len(finalq) + 1
      /\ \A k \in DOMAIN finalq : finalq[k].item = LastOut + k
      /\ LastOut + Len(finalq) + Cardinality(calling) + Len(callbackq)
           = base + nextOut
      /\ nextOut + Cardinality(sequencer) + Cardinality(working) = nextSeq
  BY DEF OutputInv
<1>e. /\ LastOut + Len(finalq) + Cardinality(calling) + Len(callbackq)
           = base + nextOut
      /\ nextOut + Cardinality(sequencer) + Cardinality(working) = nextSeq
  BY <1>o
<1>f. /\ LastOut \in Nat /\ base \in Nat /\ nextSeq \in Nat /\ nextOut \in Nat
      /\ Len(callbackq) \in Nat /\ Len(finalq) \in Nat
      /\ Cardinality(working) \in Nat /\ Cardinality(sequencer) \in Nat
      /\ Cardinality(calling) \in Nat
  BY <1>0, <1>c
<1>1. ASSUME UNCHANGED <<outputs, base, calling, finalq, callbackq, nextOut,
                         sequencer, working, nextSeq>>
      PROVE  OutputInv'
  BY <1>1 DEF OutputInv, LastOut
<1>2. CASE PutData \/ PutBypass \/ Join \/ Decrement \/ UNCHANGED vars
  BY <1>1, <1>2
  DEF PutData, PutBypass, Join, Decrement, vars, graphVars, history
<1>3. CASE Stamp
  <2> DEFINE t == StampDataToken(Head(joined))
  <2>1. /\ working' = working \cup {t} /\ nextSeq' = nextSeq + 1
        /\ UNCHANGED <<outputs, base, calling, finalq, callbackq, nextOut, sequencer>>
    BY <1>3 DEF Stamp, history
  <2>2. t \notin working
    <3>1. t.sequence_number = nextSeq
      BY DEF StampDataToken
    <3> QED
      BY <1>0, <3>1 DEF GraphInv, NumberInv
  <2> HIDE DEF t
  <2>3. Cardinality(working') = Cardinality(working) + 1
    BY <1>c, <2>1, <2>2, FS_AddElement
  <2>4. nextOut' + Cardinality(sequencer') + Cardinality(working') = nextSeq'
    BY <1>e, <1>f, <2>1, <2>3
  <2>5. LastOut' = LastOut
    BY <2>1 DEF LastOut
  <2> QED
    BY <1>o, <2>1, <2>4, <2>5 DEF OutputInv
<1>4. CASE Sequence
  <2>1. PICK t \in sequencer :
          /\ sequencer' = sequencer \ {t} /\ callbackq' = Append(callbackq, t)
          /\ nextOut' = nextOut + 1
          /\ UNCHANGED <<outputs, base, calling, finalq, working, nextSeq>>
    BY <1>4 DEF Sequence, history
  <2>2. /\ Cardinality(sequencer') = Cardinality(sequencer) - 1
        /\ Len(callbackq') = Len(callbackq) + 1
    <3>1. Cardinality(sequencer') = Cardinality(sequencer) - 1
      BY <1>c, <2>1, FS_RemoveElement
    <3>2. Len(callbackq') = Len(callbackq) + 1
      BY <1>0, <2>1
    <3> QED
      BY <3>1, <3>2
  <2>3. LastOut' = LastOut
    BY <2>1 DEF LastOut
  <2>4. /\ LastOut' + Len(finalq') + Cardinality(calling') + Len(callbackq')
             = base' + nextOut'
        /\ nextOut' + Cardinality(sequencer') + Cardinality(working') = nextSeq'
    BY <1>e, <1>f, <2>1, <2>2, <2>3
  <2> QED
    BY <1>o, <2>1, <2>3, <2>4 DEF OutputInv
<1>5. ASSUME NEW i, WorkDone(i)
      PROVE  OutputInv'
  <2>1. PICK t \in working, code \in UserCodes : WorkDone(i)!(t, code)
    BY <1>5 DEF WorkDone
  <2> DEFINE out == Worked(t, code)
  <2>2. out \in Tuple /\ out.sequence_number = t.sequence_number
    BY <1>0, UserProperties
  <2>3. /\ working' = working \ {t} /\ sequencer' = sequencer \cup {out}
        /\ UNCHANGED <<outputs, base, calling, finalq, callbackq, nextOut, nextSeq>>
    BY <2>1 DEF history
  <2> HIDE DEF out
  <2>4. out \notin sequencer
    BY <2>2 DEF GraphInv, NumberInv, Apart
  <2>5. /\ Cardinality(working') = Cardinality(working) - 1
        /\ Cardinality(sequencer') = Cardinality(sequencer) + 1
    BY <1>c, <2>3, <2>4, FS_RemoveElement, FS_AddElement
  <2>6. nextOut' + Cardinality(sequencer') + Cardinality(working') = nextSeq'
    BY <1>0, <1>c, <1>o, <2>3, <2>5
  <2>7. LastOut' = LastOut
    BY <2>3 DEF LastOut
  <2> QED
    BY <1>o, <2>3, <2>6, <2>7 DEF OutputInv
<1>6. ASSUME NEW k, CallbackStart(k)
      PROVE  OutputInv'
  <2> DEFINE t == callbackq[1]
  <2>1. /\ k = 1 /\ 1 \in DOMAIN callbackq /\ calling = {}
        /\ calling' = calling \cup {t} /\ callbackq' = RemoveAt(callbackq, 1)
        /\ UNCHANGED <<outputs, base, finalq, nextOut, sequencer, working, nextSeq>>
    BY <1>6 DEF CallbackStart, OutputSerial
  <2>2. Len(callbackq') = Len(callbackq) - 1
    BY <1>0, <2>1, RemoveAtProperties
  <2>3. Cardinality(calling) = 0 /\ calling' = {t} /\ Cardinality(calling') = 1
    <3>1. calling = {} /\ calling' = {t}
      BY <2>1
    <3>2. Cardinality(calling) = 0
      BY <3>1, FS_EmptySet
    <3>3. Cardinality(calling') = 1
      BY <3>1, FS_Singleton
    <3> QED
      BY <3>1, <3>2, <3>3
  <2>4. LastOut' = LastOut
    BY <2>1 DEF LastOut
  <2>5. t.item = LastOut + Len(finalq) + 1
    <3>1. t.item + Len(callbackq) = base + nextOut + 1 /\ t \in Tuple
      BY <1>0, <2>1 DEF GraphInv, OrderInv, CallbackOrder
    <3>2. t.item \in Nat
      BY <3>1, TupleProperties
    <3> QED
      BY <1>0, <1>o, <2>3, <3>1, <3>2
  <2> HIDE DEF t
  <2>6. LastOut' + Len(finalq') + Cardinality(calling') + Len(callbackq')
          = base' + nextOut'
    BY <1>e, <1>f, <2>1, <2>2, <2>3, <2>4
  <2> QED
    BY <1>o, <2>1, <2>3, <2>4, <2>5, <2>6 DEF OutputInv
<1>7. ASSUME NEW i, CallbackEnd(i)
      PROVE  OutputInv'
  <2>1. PICK t \in calling, code \in UserCodes : CallbackEnd(i)!(t, code)
    BY <1>7 DEF CallbackEnd
  <2> DEFINE out == CalledBack(t, code)
  <2>2. out \in Tuple /\ out.item = LastOut + Len(finalq) + 1
    BY <1>0, <1>o, UserProperties
  <2>3. /\ calling' = calling \ {t} /\ finalq' = Append(finalq, out)
        /\ UNCHANGED <<outputs, base, callbackq, nextOut, sequencer, working, nextSeq>>
    BY <2>1 DEF history
  <2> HIDE DEF out
  <2>4. calling' = {} /\ Cardinality(calling') = Cardinality(calling) - 1
    BY <1>c, <1>o, <2>3, FS_RemoveElement
  <2>5. LastOut' = LastOut
    BY <2>3 DEF LastOut
  <2>6. Len(finalq') = Len(finalq) + 1
    BY <1>0, <2>2, <2>3
  <2>7. ASSUME NEW k \in DOMAIN finalq' PROVE finalq'[k].item = LastOut + k
    <3>1. CASE k \in DOMAIN finalq /\ finalq'[k] = finalq[k]
      BY <1>o, <3>1
    <3>2. CASE k = Len(finalq) + 1 /\ finalq'[k] = out
      BY <1>0, <2>2, <3>2
    <3> QED
      BY <1>0, <2>2, <2>3, <3>1, <3>2, PutLast
  <2>8. LastOut' + Len(finalq') + Cardinality(calling') + Len(callbackq')
          = base' + nextOut'
    BY <1>e, <1>f, <2>3, <2>4, <2>5, <2>6
  <2> QED
    BY <1>o, <2>3, <2>4, <2>5, <2>7, <2>8 DEF OutputInv
<1>8. ASSUME NEW k, Finalize(k)
      PROVE  OutputInv'
  <2> DEFINE out == [item |-> finalq[1].item, error_code |-> 0,
                     exec_code |-> finalq[1].error_code]
  <2>1. /\ k = 1 /\ 1 \in DOMAIN finalq
        /\ outputs' = Append(outputs, out) /\ finalq' = RemoveAt(finalq, 1)
        /\ UNCHANGED <<base, callbackq, calling, nextOut, sequencer, working, nextSeq>>
    BY <1>8 DEF Finalize, OutputSerial
  <2>2. out \in Output /\ out.item = LastOut + 1
    <3>1. finalq[1] \in Tuple /\ finalq[1].item = LastOut + 1
      BY <1>0, <1>o, <2>1
    <3> QED
      BY <3>1, TupleProperties DEF Output
  <2> HIDE DEF out
  <2>3. LastOut' = LastOut + 1
    BY <1>0, <2>1, <2>2, LastOutMoves
  <2>4. finalq # <<>> /\ finalq' = Tail(finalq) /\ Len(finalq') = Len(finalq) - 1
    BY <1>0, <2>1, RemoveAtFirst
  <2>5. ASSUME NEW j \in DOMAIN finalq' PROVE finalq'[j].item = LastOut' + j
    <3>1. j \in Nat /\ j + 1 \in DOMAIN finalq /\ finalq'[j] = finalq[j + 1]
      BY <1>0, <2>4, TakeFirst
    <3> QED
      BY <1>0, <1>o, <2>3, <3>1
  <2>6. ASSUME NEW t \in calling' PROVE t.item = LastOut' + Len(finalq') + 1
    <3>1. t.item = LastOut + Len(finalq) + 1
      BY <1>o, <2>1
    <3>2. LastOut' + Len(finalq') = LastOut + Len(finalq)
      BY <1>f, <2>3, <2>4
    <3> QED
      BY <3>1, <3>2
  <2>7. LastOut' + Len(finalq') + Cardinality(calling') + Len(callbackq')
          = base' + nextOut'
    <3>1. LastOut' + Len(finalq') = LastOut + Len(finalq)
      BY <1>f, <2>3, <2>4
    <3> QED
      BY <1>e, <2>1, <3>1
  <2> QED
    BY <1>o, <2>1, <2>5, <2>6, <2>7 DEF OutputInv
<1>9. CASE ResetAndPrepare
  <2>1. /\ base' = accepted /\ working' = {} /\ sequencer' = {} /\ nextOut' = 0
        /\ callbackq' = <<>> /\ calling' = {} /\ finalq' = <<>> /\ nextSeq' = 0
        /\ UNCHANGED outputs
    BY <1>9 DEF ResetAndPrepare
  <2>3. LastOut' = accepted
    BY <1>9, LastOutAfterReset
  <2> QED
    BY <1>0, <2>1, <2>3, FS_EmptySet DEF OutputInv
<1> QED
  BY <1>2, <1>3, <1>4, <1>5, <1>6, <1>7, <1>8, <1>9 DEF Next, Task

(* The items from first + 1 on, n of them. *)
Run(first, n) == [k \in 1 .. n |-> first + k]
ItemsOf(s) == [k \in DOMAIN s |-> s[k].item]

(* A run grows at its end. *)
LEMMA RunGrows ==
  ASSUME NEW first \in Nat, NEW n \in Nat
  PROVE  /\ Len(Run(first, n)) = n
         /\ Run(first, n + 1) = Append(Run(first, n), first + n + 1)
<1>1. Run(first, n) \in Seq(Nat) /\ Len(Run(first, n)) = n
  BY DEF Run
<1>2. /\ DOMAIN Run(first, n + 1) = 1 .. n + 1
      /\ \A k \in 1 .. n + 1 : Run(first, n + 1)[k] = first + k
      /\ \A k \in 1 .. n : Run(first, n)[k] = first + k
  BY DEF Run
<1>3. Run(first, n + 1) \in Seq(Nat) /\ Len(Run(first, n + 1)) = n + 1
  BY DEF Run
<1> DEFINE longer == Append(Run(first, n), first + n + 1)
<1>4. /\ longer \in Seq(Nat) /\ Len(longer) = n + 1
      /\ longer[n + 1] = first + n + 1
      /\ \A k \in 1 .. n : longer[k] = Run(first, n)[k]
  BY <1>1
<1> HIDE DEF longer
<1>5. ASSUME NEW k \in 1 .. n + 1 PROVE Run(first, n + 1)[k] = longer[k]
  <2>1. CASE k \in 1 .. n
    BY <1>2, <1>4, <2>1
  <2>2. CASE k = n + 1
    <3>1. first + k = first + n + 1
      BY <2>2
    <3> QED
      BY <1>2, <1>4, <2>2, <3>1
  <2> QED
    BY <2>1, <2>2
<1>6. Run(first, n + 1) = longer
  BY <1>3, <1>4, <1>5
<1> QED
  BY <1>1, <1>6 DEF longer

(* A run shrinks at its beginning. *)
LEMMA RunShrinks ==
  ASSUME NEW first \in Nat, NEW n \in Nat
  PROVE  /\ Run(first, n + 1) # <<>>
         /\ Head(Run(first, n + 1)) = first + 1
         /\ Tail(Run(first, n + 1)) = Run(first + 1, n)
<1> DEFINE r == Run(first, n + 1)
           rest == Run(first + 1, n)
<1>1. /\ r \in Seq(Nat) /\ Len(r) = n + 1
      /\ \A k \in 1 .. n + 1 : r[k] = first + k
  BY DEF Run
<1>2. /\ rest \in Seq(Nat) /\ Len(rest) = n
      /\ \A k \in 1 .. n : rest[k] = first + 1 + k
  BY DEF Run
<1> HIDE DEF r, rest
<1>3. /\ r # <<>> /\ Head(r) = r[1] /\ Tail(r) \in Seq(Nat) /\ Len(Tail(r)) = n
      /\ \A k \in 1 .. n : Tail(r)[k] = r[k + 1]
  BY <1>1
<1>4. ASSUME NEW k \in 1 .. n PROVE Tail(r)[k] = rest[k]
  <2>1. k + 1 \in 1 .. n + 1 /\ first + (k + 1) = first + 1 + k
    OBVIOUS
  <2> QED
    BY <1>1, <1>2, <1>3, <2>1
<1>5. Tail(r) = rest
  <2> DEFINE t == Tail(r)
  <2>1. t \in Seq(Nat) /\ Len(t) = n /\ \A k \in 1 .. n : t[k] = rest[k]
    BY <1>3, <1>4
  <2> HIDE DEF t
  <2>2. t = rest
    BY <1>2, <2>1
  <2> QED
    BY <2>2 DEF t
<1> QED
  BY <1>1, <1>3, <1>5 DEF r, rest

(* The user of the pipeline sees one item more when the node emits one.     *)
LEMMA ItemsGrow ==
  ASSUME NEW s \in Seq(Output), NEW e \in Output
  PROVE  ItemsOf(Append(s, e)) = Append(ItemsOf(s), e.item)
<1>1. \A o \in Output : o.item \in Nat
  BY DEF Output
<1>2. /\ ItemsOf(s) \in Seq(Nat) /\ Len(ItemsOf(s)) = Len(s)
      /\ \A k \in 1 .. Len(s) : ItemsOf(s)[k] = s[k].item
  BY <1>1 DEF ItemsOf
<1>3. /\ Append(s, e) \in Seq(Output) /\ Len(Append(s, e)) = Len(s) + 1
      /\ Append(s, e)[Len(s) + 1] = e
      /\ \A k \in 1 .. Len(s) : Append(s, e)[k] = s[k]
      /\ Len(s) \in Nat
  OBVIOUS
<1> DEFINE longer == Append(ItemsOf(s), e.item)
           items == ItemsOf(Append(s, e))
<1>4. longer \in Seq(Nat) /\ Len(longer) = Len(s) + 1
      /\ longer[Len(s) + 1] = e.item
      /\ \A k \in 1 .. Len(s) : longer[k] = s[k].item
  BY <1>1, <1>2, <1>3
<1>5. /\ items \in Seq(Nat) /\ Len(items) = Len(s) + 1
      /\ \A k \in 1 .. Len(s) + 1 : items[k] = Append(s, e)[k].item
  BY <1>1, <1>3 DEF ItemsOf
<1> HIDE DEF longer, items
<1>6. ASSUME NEW k \in 1 .. Len(s) + 1 PROVE items[k] = longer[k]
  <2>1. CASE k \in 1 .. Len(s)
    BY <1>3, <1>4, <1>5, <2>1
  <2>2. CASE k = Len(s) + 1
    BY <1>3, <1>4, <1>5, <2>2
  <2> QED
    BY <1>3, <2>1, <2>2
<1>7. items = longer
  BY <1>4, <1>5, <1>6
<1> QED
  BY <1>7 DEF items, longer

(* An idle node holds nothing. *)
LEMMA PipelineInit == Init => Pipeline!Init
<1> SUFFICES ASSUME Init PROVE Pipeline!Init
  OBVIOUS
<1>1. accepted = 0 /\ bypassed = 0 /\ outputs = <<>> /\ base = 0
  BY DEF Init
<1>2. LastOut = 0 /\ Pending = <<>>
  BY <1>1 DEF LastOut, Pending
<1>3. [k \in DOMAIN outputs |-> outputs[k].item] = <<>>
  BY <1>1
<1> QED
  BY <1>1, <1>2, <1>3 DEF Pipeline!Init

(* Every step of the graph is a step of the pipeline or invisible: an item  *)
(* enters, leaves at the front, or the owner drops what is inside.          *)
LEMMA PipelineStep ==
  ASSUME PreserveOrder, ~UseAsync, GraphInv, OutputInv, [Next]_vars
  PROVE  [Pipeline!Next]_(Pipeline!vars)
<1> DEFINE n == accepted - LastOut
           delivered == [k \in DOMAIN outputs |-> outputs[k].item]
<1>0. /\ accepted \in Nat /\ bypassed \in Nat /\ LastOut \in Nat /\ n \in Nat
      /\ outputs \in Seq(Output) /\ finalq \in Seq(Tuple) /\ TypeOK
  BY LastOutProperties, LineIsBehindInput DEF GraphInv, TypeOK
<1>a. Pending = Run(LastOut, n) /\ delivered = ItemsOf(outputs)
  BY DEF Pending, Run, ItemsOf
<1>b. /\ Pending' = Run(LastOut', accepted' - LastOut')
      /\ delivered' = ItemsOf(outputs')
  BY DEF Pending, Run, ItemsOf
<1>u. ASSUME UNCHANGED <<accepted, bypassed, outputs, base>>
      PROVE  UNCHANGED Pipeline!vars
  <2>1. LastOut' = LastOut
    BY <1>u DEF LastOut
  <2>2. Pending' = Pending /\ delivered' = delivered
    BY <1>u, <2>1 DEF Pending
  <2> QED
    BY <1>u, <2>2 DEF Pipeline!vars
<1> HIDE DEF n, delivered
<1>1. ASSUME Enqueue, UNCHANGED <<outputs, base>>
      PROVE  Pipeline!Take
  <2>1. accepted' = accepted + 1 /\ LastOut' = LastOut
    BY <1>1 DEF Enqueue, LastOut
  <2>2. accepted' - LastOut' = n + 1 /\ LastOut + n + 1 = accepted'
    BY <1>0, <2>1 DEF n
  <2>3. Pending' = Append(Pending, accepted')
    BY <1>0, <1>a, <1>b, <2>1, <2>2, RunGrows
  <2>4. delivered' = delivered
    BY <1>1, <1>a, <1>b
  <2> QED
    BY <2>1, <2>3, <2>4 DEF Pipeline!Take, delivered
<1>2. CASE PutData
  <2>1. Len(Pending) = n
    BY <1>0, <1>a, RunGrows
  <2>2. n < InputDataBufferSize + ExecuteTokenSize + bypassed
    <3> DEFINE behind == Cardinality(working) + Cardinality(sequencer)
                 + Len(callbackq) + Cardinality(calling) + Len(finalq)
    <3>1. /\ Len(joined) \in Nat /\ Len(tokens) \in Nat /\ Len(buffer) \in Nat
          /\ Len(callbackq) \in Nat /\ Len(finalq) \in Nat
          /\ count \in Nat /\ decrements \in Nat
      BY <1>0 DEF TypeOK
    <3>2. /\ Cardinality(working) \in Nat /\ Cardinality(sequencer) \in Nat
          /\ Cardinality(calling) \in Nat
      BY FS_CardinalityType DEF GraphInv, TokenInv
    <3>3. n = Waiting + behind /\ behind \in Nat /\ Waiting \in Nat
      BY <3>1, <3>2, LineIsBehindInput DEF n, Waiting
    <3>4. Len(tokens) + Len(joined) + behind = ExecuteTokenSize
      BY <3>1, <3>2 DEF GraphInv, TokenInv, TokensConserved, HoldingToken
    <3>5. count < InputDataBufferSize /\ Waiting + decrements <= count + bypassed
      BY <1>2 DEF PutData, GraphInv, LimiterInv
    <3> HIDE DEF behind
    <3>6. InputDataBufferSize \in Nat /\ ExecuteTokenSize \in Nat
      BY SizeAssumption
    <3>7. behind <= ExecuteTokenSize
      BY <3>1, <3>3, <3>4, <3>6
    <3>8. Waiting < InputDataBufferSize + bypassed
      BY <1>0, <3>1, <3>3, <3>5, <3>6
    <3> QED
      BY <1>0, <3>3, <3>6, <3>7, <3>8
  <2>3. Pipeline!Take /\ UNCHANGED bypassed
    BY <1>1, <1>2 DEF PutData
  <2>4. Pipeline!Accept
    BY <2>1, <2>2, <2>3 DEF Pipeline!Accept
  <2> QED
    BY <2>4 DEF Pipeline!Next
<1>3. CASE PutBypass
  <2>1. Pipeline!Take /\ bypassed' = bypassed + 1
    BY <1>1, <1>3 DEF PutBypass
  <2> QED
    BY <2>1 DEF Pipeline!AcceptBypassing, Pipeline!Next
<1>4. CASE Join \/ Stamp \/ Decrement \/ Sequence \/ UNCHANGED vars
  BY <1>u, <1>4 DEF Join, Stamp, Decrement, Sequence, vars, history
<1>5. ASSUME NEW i, WorkDone(i) \/ CallbackEnd(i)
      PROVE  UNCHANGED Pipeline!vars
  BY <1>u, <1>5 DEF WorkDone, CallbackEnd, history
<1>6. ASSUME NEW k, CallbackStart(k)
      PROVE  UNCHANGED Pipeline!vars
  BY <1>u, <1>6 DEF CallbackStart
<1>7. ASSUME NEW k, Finalize(k)
      PROVE  Pipeline!Deliver
  <2> DEFINE out == [item |-> finalq[1].item, error_code |-> 0,
                     exec_code |-> finalq[1].error_code]
  <2>1. /\ 1 \in DOMAIN finalq
        /\ outputs' = Append(outputs, out)
        /\ UNCHANGED <<base, accepted, bypassed>>
    BY <1>7 DEF Finalize, OutputSerial
  <2>2. out \in Output /\ out.item = LastOut + 1
    <3>1. finalq[1] \in Tuple /\ finalq[1].item = LastOut + 1
      BY <1>0, <2>1 DEF OutputInv
    <3> QED
      BY <3>1, TupleProperties DEF Output
  <2> HIDE DEF out
  <2>3. LastOut' = LastOut + 1
    BY <1>0, <2>1, <2>2, LastOutMoves
  <2>4. n - 1 \in Nat
    <3>1. Len(finalq) \in Nat /\ Len(finalq) > 0
      BY <1>0, <2>1
    <3> DEFINE others == Waiting + Cardinality(working) + Cardinality(sequencer)
                 + Len(callbackq) + Cardinality(calling)
    <3>2. others \in Nat
      BY FS_CardinalityType DEF GraphInv, TokenInv, TypeOK, Waiting
    <3>3. n = others + Len(finalq)
      BY LineIsBehindInput DEF n
    <3> HIDE DEF others
    <3> QED
      BY <3>1, <3>2, <3>3
  <2>5. accepted' - LastOut' = n - 1 /\ n = (n - 1) + 1
    BY <1>0, <2>1, <2>3 DEF n
  <2>6. /\ Pending # <<>> /\ Head(Pending) = LastOut + 1
        /\ Pending' = Tail(Pending)
    <3>1. PICK m \in Nat : n = m + 1 /\ accepted' - LastOut' = m
      BY <2>4, <2>5
    <3>2. Pending = Run(LastOut, m + 1) /\ Pending' = Run(LastOut + 1, m)
      BY <1>a, <1>b, <2>3, <3>1
    <3> QED
      BY <1>0, <3>2, RunShrinks
  <2>7. delivered' = Append(delivered, LastOut + 1)
    BY <1>0, <1>a, <1>b, <2>1, <2>2, ItemsGrow
  <2> QED
    BY <2>1, <2>6, <2>7 DEF Pipeline!Deliver, delivered
<1>8. CASE ResetAndPrepare
  <2>1. /\ base' = accepted /\ UNCHANGED <<accepted, bypassed, outputs>>
    BY <1>8 DEF ResetAndPrepare
  <2>2. LastOut' = accepted
    BY <1>8, LastOutAfterReset
  <2>3. Pending' = <<>>
    BY <1>0, <2>1, <2>2 DEF Pending
  <2>4. delivered' = delivered
    BY <2>1 DEF delivered
  <2> QED
    BY <2>1, <2>3, <2>4 DEF Pipeline!Discard, Pipeline!Next, delivered
<1> QED
  BY <1>2, <1>3, <1>4, <1>5, <1>6, <1>7, <1>8 DEF Next, Task, Pipeline!Next

(* Seen from outside, the graph of an ordered, synchronous node is a FIFO   *)
(* of bounded size: parallel work, sequencer, limiter and token loop only   *)
(* ever take an item in, hand over the oldest one, or drop all on a reset.  *)
(* This is the safety part of ImplementsPipeline.                           *)
THEOREM GraphIsAPipeline ==
  ASSUME PreserveOrder, ~UseAsync
  PROVE  Spec => Pipeline!Spec
<1>1. Init => OrderInv /\ NumberInv /\ TokenInv /\ OutputInv
  <2> SUFFICES ASSUME Init PROVE OrderInv /\ NumberInv /\ TokenInv /\ OutputInv
    OBVIOUS
  <2>1. OrderInv
    BY DEF Init, OrderInv, StampOrder, CallbackOrder, CallbackInOrder
  <2>2. NumberInv
    BY DEF Init, NumberInv, Unique, Apart, CallbackSet
  <2>3. TokenInv
    BY SizeAssumption, FS_EmptySet
    DEF Init, TokenInv, TokensConserved, HoldingToken, FreshTokens
  <2>4. OutputInv
    BY FS_EmptySet DEF Init, OutputInv, LastOut
  <2> QED
    BY <2>1, <2>2, <2>3, <2>4
<1>2. Spec => [](TypeOK /\ LimiterInv)
  BY LimiterInvariant
<1>3. Spec => [](OrderInv /\ NumberInv /\ TokenInv)
  BY <1>1, OrderStep, NumberStep, TokenStep, TypeInit, TypeStep, PTL DEF Spec
<1>4. Spec => []GraphInv
  BY <1>2, <1>3, PTL DEF GraphInv
<1>5. GraphInv /\ OutputInv /\ [Next]_vars => OutputInv'
  BY OutputStep
<1>6. GraphInv /\ OutputInv /\ [Next]_vars => [Pipeline!Next]_(Pipeline!vars)
  BY PipelineStep
<1>7. Spec => []OutputInv
  BY <1>1, <1>4, <1>5, PTL DEF Spec
<1>8. Spec => Pipeline!Init /\ [][Pipeline!Next]_(Pipeline!vars)
  BY <1>4, <1>6, <1>7, PipelineInit, PTL DEF Spec
<1> QED
  BY <1>8 DEF Pipeline!Spec

=============================================================================
