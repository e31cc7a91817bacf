------------------------ MODULE SingleBufferExecNode ------------------------
(***************************************************************************)
(* The flow graph of async_processor::SingleBufferExecNode, the engine of  *)
(* every output port:                                                      *)
(*                                                                         *)
(*   limiter -> buffer -> join(data, exec token) -> stamp -> work          *)
(*           -> [sequencer] -> output callback -> finalize -> (token back) *)
(*                                                                         *)
(* An item is named by the position at which the node accepted it, so the  *)
(* data itself is abstracted to its arrival order.  Every arrow is an      *)
(* action of its own, because TBB runs each node body as a separate task.  *)
(***************************************************************************)
EXTENDS Naturals, Sequences, FiniteSets, SequencesExt

CONSTANTS
  InputDataBufferSize,  \* threshold of the limiter node
  ExecuteTokenSize,     \* number of execution tokens
  PreserveOrder,        \* a sequencer node sits behind the work node
  IsSerial,             \* work and output nodes have concurrency 1
  UseAsync,             \* user functions answer later, through a gateway
  HasWorkFunction,      \* otherwise the data is copied through
  HasOutputCallback,
  UserCodes,            \* error codes a user function may return
  MaxItems,             \* bound: items accepted in one behaviour
  MaxBypass,            \* bound: calls of put_data(_, bypass_limit = true)
  MaxResets             \* bound: resets of the graph followed by prepare()

ASSUME SizeAssumption ==
  /\ InputDataBufferSize \in Nat \ {0}
  /\ ExecuteTokenSize \in Nat \ {0}
ASSUME ModeAssumption ==
  {PreserveOrder, IsSerial, UseAsync, HasWorkFunction, HasOutputCallback}
    \subseteq BOOLEAN
ASSUME CodeAssumption == UserCodes \subseteq Nat
ASSUME BoundAssumption == {MaxItems, MaxBypass, MaxResets} \subseteq Nat

VARIABLES
  accepted,    \* number of items the node has taken in
  bypassed,    \* how many of them went around the limiter
  count,       \* my_count of the limiter node
  buffer,      \* queue_node of input data, and the data port of the join
  tokens,      \* queue_node of execution tokens: the error code each carries
  joined,      \* (data, token) pairs waiting for the serial stamp node
  decrements,  \* continue messages on their way to the limiter's decrementer
  nextSeq,     \* m_next_sequence_number
  working,     \* stamped data in the work node
  sequencer,   \* outputs held back by the sequencer node
  nextOut,     \* sequence number the sequencer will let pass next
  callbackq,   \* outputs queued at the output callback node
  calling,     \* outputs whose callback is running
  finalq,      \* outputs queued at the finalize node
  called,      \* history: items in the order their callback was invoked
  outputs,     \* history: what left the node, in order
  base,        \* history: items accepted before the last reset
  resets       \* history: number of resets

graphVars == <<count, buffer, tokens, joined, decrements, nextSeq, working,
               sequencer, nextOut, callbackq, calling, finalq>>
history == <<accepted, bypassed, called, outputs, base, resets>>
vars == <<graphVars, history>>

(* (data, exec token), as the join node pairs them. *)
Pair == [item : Nat, error_code : Nat]
(* (data, data token, exec token): the tuple that travels through the graph *)
Tuple == [item : Nat, sequence_number : Nat, error_code : Nat]
(* (data, data token) as it leaves the node; exec_code is what its          *)
(* execution token said at that moment.                                     *)
Output == [item : Nat, error_code : Nat, exec_code : Nat]

FreshTokens == [i \in 1 .. ExecuteTokenSize |-> 0]

Init ==
  /\ count = 0 /\ buffer = <<>> /\ tokens = FreshTokens
  /\ joined = <<>> /\ decrements = 0 /\ nextSeq = 0
  /\ working = {} /\ sequencer = {} /\ nextOut = 0
  /\ callbackq = <<>> /\ calling = {} /\ finalq = <<>>
  /\ accepted = 0 /\ bypassed = 0 /\ base = 0 /\ resets = 0
  /\ called = <<>> /\ outputs = <<>>

(* The buffer node takes the item that was put last. *)
Enqueue ==
  /\ accepted < MaxItems
  /\ accepted' = accepted + 1
  /\ buffer' = Append(buffer, accepted')

(* put_data(data): the limiter lets the item pass while it has room,        *)
(* otherwise the call returns false and nothing changes.                    *)
PutData ==
  /\ count < InputDataBufferSize
  /\ count' = count + 1
  /\ Enqueue
  /\ UNCHANGED <<tokens, joined, decrements, nextSeq, working, sequencer,
                 nextOut, callbackq, calling, finalq, bypassed, called,
                 outputs, base, resets>>

(* put_data(data, true): straight into the buffer, past the limiter. *)
PutBypass ==
  /\ bypassed < MaxBypass
  /\ bypassed' = bypassed + 1
  /\ Enqueue
  /\ UNCHANGED <<count, tokens, joined, decrements, nextSeq, working,
                 sequencer, nextOut, callbackq, calling, finalq, called,
                 outputs, base, resets>>

(* The queueing join pairs the oldest item with the oldest token. *)
Join ==
  /\ buffer # <<>> /\ tokens # <<>>
  /\ joined' = Append(joined, [item |-> Head(buffer),
                               error_code |-> Head(tokens)])
  /\ buffer' = Tail(buffer)
  /\ tokens' = Tail(tokens)
  /\ UNCHANGED <<count, decrements, nextSeq, working, sequencer, nextOut,
                 callbackq, calling, finalq, history>>

(* _stamp_data_token: the pair gets the next sequence number. *)
StampDataToken(pair) ==
  [item |-> pair.item, sequence_number |-> nextSeq,
   error_code |-> pair.error_code]

(* Mutant: only the data port of the stamp node is written. *)
StampWithoutContinue ==
  /\ joined # <<>>
  /\ working' = working \cup {StampDataToken(Head(joined))}
  /\ nextSeq' = nextSeq + 1
  /\ joined' = Tail(joined)
  /\ UNCHANGED <<count, decrements, buffer, tokens, sequencer, nextOut,
                 callbackq, calling, finalq, history>>

(* The serial stamp node feeds the work node, then the decrementer. *)
Stamp ==
  /\ joined # <<>>
  /\ working' = working \cup {StampDataToken(Head(joined))}
  /\ nextSeq' = nextSeq + 1
  /\ joined' = Tail(joined)
  /\ decrements' = decrements + 1
  /\ UNCHANGED <<count, buffer, tokens, sequencer, nextOut, callbackq,
                 calling, finalq, history>>

(* The limiter gets the continue message; TBB never counts below zero. *)
Decrement ==
  /\ decrements > 0
  /\ decrements' = decrements - 1
  /\ count' = IF count > 0 THEN count - 1 ELSE 0
  /\ UNCHANGED <<buffer, tokens, joined, nextSeq, working, sequencer,
                 nextOut, callbackq, calling, finalq, history>>

(* The user's work function ends with `code`.  A serial work node handles   *)
(* its queue in arrival order, except that an asynchronous function answers *)
(* whenever it likes.                                                       *)
WorkTurn(t) ==
  IsSerial /\ ~UseAsync =>
    \A u \in working : t.sequence_number <= u.sequence_number

(* The user's function, if there is one, decides the token's error code. *)
WithCode(t, code) == [t EXCEPT !.error_code = code]
Worked(t, code) == IF HasWorkFunction THEN WithCode(t, code) ELSE t
CalledBack(t, code) == IF HasOutputCallback THEN WithCode(t, code) ELSE t

WorkDone(i) ==
  \E t \in working, code \in UserCodes :
    /\ t.item = i
    /\ WorkTurn(t)
    /\ working' = working \ {t}
    /\ IF PreserveOrder
       THEN /\ sequencer' = sequencer \cup {Worked(t, code)}
            /\ UNCHANGED callbackq
       ELSE /\ callbackq' = Append(callbackq, Worked(t, code))
            /\ UNCHANGED sequencer
    /\ UNCHANGED <<count, buffer, tokens, joined, decrements, nextSeq,
                   nextOut, calling, finalq, history>>

(* The sequencer passes the output whose turn it is. *)
Sequence ==
  \E t \in sequencer :
    /\ t.sequence_number = nextOut
    /\ nextOut' = nextOut + 1
    /\ sequencer' = sequencer \ {t}
    /\ callbackq' = Append(callbackq, t)
    /\ UNCHANGED <<count, buffer, tokens, joined, decrements, nextSeq,
                   working, calling, finalq, history>>

(* Mutant: the output nodes run in parallel even behind a sequencer. *)
OutputSerialOnlyIfSerial == IsSerial

(* Behind a sequencer, or when serial, the output nodes run one at a time;  *)
(* an asynchronous body frees its node before the user's answer.            *)
OutputSerial == PreserveOrder \/ IsSerial

CallbackStart(k) ==
  /\ k \in DOMAIN callbackq
  /\ OutputSerial => k = 1 /\ (UseAsync \/ calling = {})
  /\ calling' = calling \cup {callbackq[k]}
  /\ called' = Append(called, callbackq[k].item)
  /\ callbackq' = RemoveAt(callbackq, k)
  /\ UNCHANGED <<count, buffer, tokens, joined, decrements, nextSeq, working,
                 sequencer, nextOut, finalq, accepted, bypassed, outputs,
                 base, resets>>

CallbackEnd(i) ==
  \E t \in calling, code \in UserCodes :
    /\ t.item = i
    /\ calling' = calling \ {t}
    /\ finalq' = Append(finalq, CalledBack(t, code))
    /\ UNCHANGED <<count, buffer, tokens, joined, decrements, nextSeq,
                   working, sequencer, nextOut, callbackq, history>>

(* Emit the output with its data token, whose own error_code nobody has     *)
(* assigned, and give the execution token back as it is.                    *)
Finalize(k) ==
  /\ k \in DOMAIN finalq
  /\ OutputSerial => k = 1
  /\ outputs' = Append(outputs, [item |-> finalq[k].item, error_code |-> 0,
                                 exec_code |-> finalq[k].error_code])
  /\ tokens' = Append(tokens, finalq[k].error_code)
  /\ finalq' = RemoveAt(finalq, k)
  /\ UNCHANGED <<count, buffer, joined, decrements, nextSeq, working,
                 sequencer, nextOut, callbackq, calling, accepted, bypassed,
                 called, base, resets>>

(* Mutant: prepare() forgets the sequence number. *)
ResetKeepingSequence ==
  /\ resets < MaxResets
  /\ calling = {} /\ (UseAsync => working = {})
  /\ resets' = resets + 1
  /\ base' = accepted
  /\ count' = 0 /\ buffer' = <<>> /\ joined' = <<>> /\ decrements' = 0
  /\ working' = {} /\ sequencer' = {} /\ nextOut' = 0
  /\ callbackq' = <<>> /\ calling' = {} /\ finalq' = <<>>
  /\ tokens' = FreshTokens
  /\ UNCHANGED <<accepted, bypassed, called, outputs, nextSeq>>

(* Mutant: prepare() refills the token queue without emptying it first. *)
ResetRefillingTokens ==
  /\ resets < MaxResets
  /\ calling = {} /\ (UseAsync => working = {})
  /\ resets' = resets + 1
  /\ base' = accepted
  /\ count' = 0 /\ buffer' = <<>> /\ joined' = <<>> /\ decrements' = 0
  /\ working' = {} /\ sequencer' = {} /\ nextOut' = 0
  /\ callbackq' = <<>> /\ calling' = {} /\ finalq' = <<>>
  /\ nextSeq' = 0
  /\ tokens' = tokens \o FreshTokens
  /\ UNCHANGED <<accepted, bypassed, called, outputs>>

(* graph::reset() empties every node; prepare() restarts the numbering and  *)
(* refills the token queue.  No body may run meanwhile.                     *)
ResetAndPrepare ==
  /\ resets < MaxResets
  /\ calling = {} /\ (UseAsync => working = {})
  /\ resets' = resets + 1
  /\ base' = accepted
  /\ count' = 0 /\ buffer' = <<>> /\ joined' = <<>> /\ decrements' = 0
  /\ working' = {} /\ sequencer' = {} /\ nextOut' = 0
  /\ callbackq' = <<>> /\ calling' = {} /\ finalq' = <<>>
  /\ nextSeq' = 0
  /\ tokens' = FreshTokens
  /\ UNCHANGED <<accepted, bypassed, called, outputs>>

(* Tasks the TBB workers run; the user functions return. *)
Task ==
  \/ Join \/ Stamp \/ Decrement \/ Sequence
  \/ \E i \in 1 .. MaxItems : WorkDone(i) \/ CallbackEnd(i)
  \/ \E k \in 1 .. ExecuteTokenSize : CallbackStart(k) \/ Finalize(k)

Next == PutData \/ PutBypass \/ Task \/ ResetAndPrepare

Spec == Init /\ [][Next]_vars

(* A spawned task is eventually run, and a user function that was entered   *)
(* eventually returns; nobody is obliged to put data.                       *)
Fairness ==
  /\ WF_vars(Join) /\ WF_vars(Stamp) /\ WF_vars(Decrement)
  /\ WF_vars(Sequence)
  /\ \A i \in 1 .. MaxItems : WF_vars(WorkDone(i)) /\ WF_vars(CallbackEnd(i))
  /\ \A k \in 1 .. ExecuteTokenSize :
       WF_vars(CallbackStart(k)) /\ WF_vars(Finalize(k))

FairSpec == Spec /\ Fairness

-----------------------------------------------------------------------------
Items(s) == {s[k].item : k \in DOMAIN s}
(* Outputs and joined pairs that hold an execution token. *)
HoldingToken ==
  Len(joined) + Cardinality(working) + Cardinality(sequencer)
    + Len(callbackq) + Cardinality(calling) + Len(finalq)

(* Items that wait for a token: what the limiter is there to bound. *)
Waiting == Len(buffer) + Len(joined)

(* Every variable stays in its type. *)
TypeOK ==
  /\ accepted \in Nat /\ bypassed \in Nat /\ base \in Nat /\ resets \in Nat
  /\ count \in Nat /\ decrements \in Nat /\ nextSeq \in Nat /\ nextOut \in Nat
  /\ buffer \in Seq(Nat)
  /\ tokens \in Seq(Nat)
  /\ joined \in Seq(Pair)
  /\ callbackq \in Seq(Tuple) /\ finalq \in Seq(Tuple)
  /\ working \subseteq Tuple /\ sequencer \subseteq Tuple
  /\ calling \subseteq Tuple
  /\ called \in Seq(Nat)
  /\ outputs \in Seq(Output)

(* No execution token is lost or duplicated on its way through the nodes:   *)
(* a lost one would throttle the node for ever, a duplicated one would let  *)
(* more work run at once than execute_token_size allows.                    *)
TokensConserved == Len(tokens) + HoldingToken = ExecuteTokenSize

(* The limiter's count and the items it stands for drift apart only by the  *)
(* calls that went around it: without bypass the backlog never exceeds      *)
(* input_data_buffer_size, and each bypass call lets it grow by one item.   *)
BacklogBounded == Waiting <= InputDataBufferSize + bypassed

(* No slot of the limiter leaks: an unoccupied node always takes an item,   *)
(* however stamping, decrementing and bypassing interleaved before.         *)
NoSlotLeak == count <= Waiting + decrements

(* m_preserve_order: "the output callback will be called in the order of    *)
(* the input data", whatever order the parallel work functions end in.      *)
CallbackInOrder ==
  PreserveOrder => \A j, k \in DOMAIN called : j < k => called[j] < called[k]

(* Every accepted item leaves the node, unless a reset drops it: the token  *)
(* loop, the sequencer and the limiter never block each other.              *)
AcceptedIsOutput ==
  \A i \in 1 .. MaxItems :
    i <= accepted ~> i <= base \/ i \in Items(outputs)

-----------------------------------------------------------------------------
(* What a synchronous, ordered node promises its user: a FIFO of bounded    *)
(* size.  Everything after the item emitted last is still pending.          *)
LastOut ==
  IF outputs = <<>> THEN base
  ELSE LET i == outputs[Len(outputs)].item IN IF i > base THEN i ELSE base

Pending == [k \in 1 .. (accepted - LastOut) |-> LastOut + k]

Pipeline == INSTANCE OrderedPipeline WITH
  Capacity <- InputDataBufferSize + ExecuteTokenSize,
  pending <- Pending,
  delivered <- [k \in DOMAIN outputs |-> outputs[k].item]

(* The graph implements the pipeline: parallel work, sequencing, limiter    *)
(* and token loop are invisible from outside.                               *)
ImplementsPipeline == Pipeline!FairSpec
=============================================================================
