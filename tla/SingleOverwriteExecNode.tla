----------------------- MODULE SingleOverwriteExecNode -----------------------
(***************************************************************************)
(* SingleOverwriteExecNode: a flow graph in which new data overwrites the  *)
(* old, and fire() says that there is data to process.  Threads put data   *)
(* and fire; the nodes of the graph run between them.                      *)
(*                                                                         *)
(* Data is represented by its version: the n-th put_data puts n.           *)
(***************************************************************************)
EXTENDS Naturals, Sequences, FiniteSets

CONSTANTS
  ExecTokens,     \* execute_token_size
  PreserveOrder,  \* preserve_order: a sequencer follows the work node
  IsSerial,       \* is_serial: one work function at a time
  MaxPuts,        \* bound on calls of put_data
  MaxFires,       \* bound on calls of fire
  MaxResets       \* bound on calls of reset() and prepare()

ASSUME ExecAssumption == ExecTokens \in Nat \ {0}
ASSUME ModeAssumption == {PreserveOrder, IsSerial} \subseteq BOOLEAN
ASSUME BoundAssumption == {MaxPuts, MaxFires, MaxResets} \subseteq Nat

VARIABLES
  data,       \* m_input_data_node: the version it holds, 0 for none
  limiter,    \* count of m_input_gate_token_limiter, whose threshold is 1
  gate,       \* m_input_gate_token_buf: for each token, the version at its fire
  exec,       \* m_execute_token_buf: tokens that are free
  joined,     \* what the join node has handed to the stamp node
  signals,    \* continue messages on their way to the decrementer
  nextSeq,    \* m_next_sequence_number
  work,       \* items whose work function runs
  worked,     \* items behind the work node
  called,     \* items whose output callback has run
  toCall,     \* sequence number the sequencer waits for
  output,     \* history: versions in the order of their callbacks
  puts, fires, accepted,  \* history: calls, and how many fires returned true
  fired,      \* history: the version of the last fire, accepted or not
  resets

inVars == <<data, limiter, gate>>
runVars == <<nextSeq, work, worked, called, toCall, output>>
callVars == <<puts, fires, accepted, fired, resets>>
vars == <<inVars, exec, joined, signals, runVars, callVars>>

Init ==
  /\ data = 0 /\ limiter = 0 /\ gate = <<>> /\ exec = ExecTokens
  /\ joined = <<>> /\ signals = 0 /\ nextSeq = 0
  /\ work = {} /\ worked = {} /\ called = {} /\ toCall = 0 /\ output = <<>>
  /\ puts = 0 /\ fires = 0 /\ accepted = 0 /\ fired = 0 /\ resets = 0

-----------------------------------------------------------------------------
(* put_data: an overwrite_node takes everything. *)
PutData ==
  /\ puts < MaxPuts
  /\ puts' = puts + 1
  /\ data' = puts'
  /\ UNCHANGED <<limiter, gate, exec, joined, signals, runVars, fires, accepted,
                 fired, resets>>

(* Mutant: the limiter lets a second token in. *)
FireOffByOne ==
  /\ fires < MaxFires
  /\ fires' = fires + 1
  /\ fired' = data
  /\ IF limiter <= 1
     THEN /\ limiter' = limiter + 1 /\ gate' = Append(gate, data)
          /\ accepted' = accepted + 1
     ELSE UNCHANGED <<limiter, gate, accepted>>
  /\ UNCHANGED <<data, exec, joined, signals, runVars, puts, resets>>

(* fire: the limiter accepts the token if it counts none. *)
Fire ==
  /\ fires < MaxFires
  /\ fires' = fires + 1
  /\ fired' = data
  /\ IF limiter < 1
     THEN /\ limiter' = limiter + 1 /\ gate' = Append(gate, data)
          /\ accepted' = accepted + 1
     ELSE UNCHANGED <<limiter, gate, accepted>>
  /\ UNCHANGED <<data, exec, joined, signals, runVars, puts, resets>>

(* The reserving join takes a token of each kind and a copy of the data,    *)
(* which stays in the overwrite_node.                                       *)
Join ==
  /\ data # 0 /\ gate # <<>> /\ exec > 0
  /\ joined' = Append(joined, [data |-> data, since |-> Head(gate)])
  /\ gate' = Tail(gate) /\ exec' = exec - 1
  /\ UNCHANGED <<data, limiter, signals, runVars, callVars>>

(* The stamp node numbers the item, hands it to the work node, and only     *)
(* then tells the limiter that there is room for another token.             *)
Stamp ==
  /\ joined # <<>>
  /\ work' = work \cup {[seq |-> nextSeq, item |-> Head(joined)]}
  /\ nextSeq' = nextSeq + 1
  /\ joined' = Tail(joined)
  /\ signals' = signals + 1
  /\ UNCHANGED <<inVars, exec, worked, called, toCall, output, callVars>>

Decrement ==
  /\ signals > 0
  /\ signals' = signals - 1 /\ limiter' = limiter - 1
  /\ UNCHANGED <<data, gate, exec, joined, runVars, callVars>>

(* The items in work, the work node runs one at a time if it is serial. *)
WorkDone(i) ==
  /\ i \in work
  /\ IsSerial => \A j \in work : i.seq <= j.seq
  /\ work' = work \ {i} /\ worked' = worked \cup {i}
  /\ UNCHANGED <<inVars, exec, joined, signals, nextSeq, called, toCall, output,
                 callVars>>

(* Mutant: no sequencer. *)
CallbackAny(i) ==
  /\ i \in worked
  /\ worked' = worked \ {i} /\ called' = called \cup {i}
  /\ toCall' = toCall + 1 /\ output' = Append(output, i.item.data)
  /\ UNCHANGED <<inVars, exec, joined, signals, nextSeq, work, callVars>>

(* The sequencer, if there is one, then the user's output callback. *)
Callback(i) ==
  /\ i \in worked
  /\ PreserveOrder => i.seq = toCall
  /\ IsSerial => \A j \in worked : i.seq <= j.seq
  /\ worked' = worked \ {i} /\ called' = called \cup {i}
  /\ toCall' = toCall + 1 /\ output' = Append(output, i.item.data)
  /\ UNCHANGED <<inVars, exec, joined, signals, nextSeq, work, callVars>>

(* Mutant: an item of data that was overwritten meanwhile keeps its token. *)
FinalizeIfNewest(i) ==
  /\ i \in called
  /\ called' = called \ {i}
  /\ exec' = IF i.item.data = data THEN exec + 1 ELSE exec
  /\ UNCHANGED <<inVars, joined, signals, nextSeq, work, worked, toCall, output,
                 callVars>>

(* The item leaves and its execution token returns. *)
Finalize(i) ==
  /\ i \in called
  /\ called' = called \ {i} /\ exec' = exec + 1
  /\ UNCHANGED <<inVars, joined, signals, nextSeq, work, worked, toCall, output,
                 callVars>>

IsIdle ==
  /\ joined = <<>> /\ signals = 0 /\ {work, worked, called} = {{}}
  /\ ~(data # 0 /\ gate # <<>> /\ exec > 0)

(* graph.reset() of an idle graph, then prepare(). *)
ResetAndPrepare ==
  /\ resets < MaxResets /\ IsIdle
  /\ resets' = resets + 1
  /\ data' = 0 /\ limiter' = 0 /\ gate' = <<>> /\ exec' = ExecTokens
  /\ nextSeq' = 0 /\ toCall' = 0 /\ output' = <<>>
  /\ accepted' = 0 /\ fired' = 0
  /\ UNCHANGED <<joined, signals, work, worked, called, puts, fires>>

Next ==
  \/ PutData \/ Fire \/ Join \/ Stamp \/ Decrement \/ ResetAndPrepare
  \/ \E i \in work : WorkDone(i)
  \/ \E i \in worked : Callback(i)
  \/ \E i \in called : Finalize(i)

Spec == Init /\ [][Next]_vars

(* Every node of the graph that has something to do gets a thread. *)
Fairness ==
  /\ WF_vars(Join) /\ WF_vars(Stamp) /\ WF_vars(Decrement)
  /\ WF_vars(\E i \in work : WorkDone(i))
  /\ WF_vars(\E i \in worked : Callback(i))
  /\ WF_vars(\E i \in called : Finalize(i))

FairSpec == Spec /\ Fairness
-----------------------------------------------------------------------------
Data == [data : Nat, since : Nat]

(* Every variable stays in its type. *)
TypeOK ==
  /\ {data, limiter, exec, signals, nextSeq, toCall} \subseteq Nat
  /\ gate \in Seq(Nat) /\ output \in Seq(Nat) /\ joined \in Seq(Data)
  /\ {work, worked, called} \subseteq SUBSET [seq : Nat, item : Data]
  /\ {puts, fires, accepted, fired, resets} \subseteq Nat

(* The execution tokens that are free and those that travel with an item    *)
(* are execute_token_size, in every life of the graph; the limiter counts   *)
(* the one gate token that has not been stamped and discounted.             *)
TokensConserved ==
  /\ exec + Len(joined) + Cardinality(work \cup worked \cup called) = ExecTokens
  /\ limiter = Len(gate) + Len(joined) + signals
  /\ limiter <= 1

(* "The data might have been overwritten before processing": but only by    *)
(* newer data.  What an accepted fire processes is as new as the data at    *)
(* that fire, and the callbacks of an ordered node never go back to older   *)
(* data.                                                                    *)
NeverGoesBack ==
  /\ \A i \in work \cup worked \cup called : i.item.data >= i.item.since
  /\ PreserveOrder =>
       \A m, n \in DOMAIN output : m < n => output[m] <= output[n]

(* "If an updated signal (input gate token) is received, the data will be   *)
(* processed eventually": every fire that was accepted ends in a callback,  *)
(* if there has been data at all.                                           *)
AcceptedIsProcessed ==
  \A n \in 1 .. MaxFires :
    (accepted = n /\ data # 0) ~> (Len(output) >= n \/ resets > 0)

=============================================================================
