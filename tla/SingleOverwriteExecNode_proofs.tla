------------------- MODULE SingleOverwriteExecNode_proofs -------------------
(***************************************************************************)
(* Theorems about SingleOverwriteExecNode, for any number of tokens, with  *)
(* the order preserved or not, and however often data is put, fired and    *)
(* the graph reset.                                                        *)
(***************************************************************************)
EXTENDS SingleOverwriteExecNode, FiniteSetTheorems, SequenceTheorems, TLAPS

Travelling == work \cup worked \cup called

(* An item has a number of its own and is in one place. *)
PlaceInv ==
  /\ IsFiniteSet(Travelling)
  /\ \A i \in Travelling : i.seq < nextSeq
  /\ \A i, j \in Travelling : i.seq = j.seq => i = j
  /\ work \cap worked = {} /\ (work \cup worked) \cap called = {}

(* Data only gets newer on its way back from the callbacks to the input.    *)
AgeInv ==
  /\ data <= puts
  /\ \A k \in DOMAIN gate : gate[k] <= data
  /\ \A k \in DOMAIN joined :
       joined[k].since <= joined[k].data /\ joined[k].data <= data
  /\ \A i \in Travelling :
       /\ i.item.since <= i.item.data /\ i.item.data <= data
       /\ \A k \in DOMAIN joined : i.item.data <= joined[k].data
  /\ \A i, j \in Travelling : i.seq < j.seq => i.item.data <= j.item.data

(* What the sequencer still holds back is no older than what it let pass.   *)
SequencerInv ==
  PreserveOrder =>
    /\ toCall <= nextSeq
    /\ \A i \in work \cup worked : toCall <= i.seq
    /\ \A m \in DOMAIN output :
         /\ output[m] <= data
         /\ \A k \in DOMAIN joined : output[m] <= joined[k].data
         /\ \A i \in work \cup worked : output[m] <= i.item.data
    /\ \A m, n \in DOMAIN output : m < n => output[m] <= output[n]

IInv == TypeOK /\ TokensConserved /\ PlaceInv /\ AgeInv /\ SequencerInv

-----------------------------------------------------------------------------
(* One token is under way at most, so the join finds the stamp node free.   *)
LEMMA JoinedIsShort ==
  ASSUME IInv
  PROVE  /\ Len(joined) \in Nat /\ Len(joined) <= 1
         /\ gate # <<>> => joined = <<>>
         /\ joined # <<>> => Head(joined) = joined[1] /\ 1 \in DOMAIN joined
                             /\ Tail(joined) = <<>> /\ Head(joined) \in Data
                             /\ Len(joined) = 1
<1>1. gate \in Seq(Nat) /\ joined \in Seq(Data) /\ signals \in Nat /\ limiter \in Nat
      /\ limiter = Len(gate) + Len(joined) + signals /\ limiter <= 1
  BY DEF IInv, TypeOK, TokensConserved
<1>2. Len(gate) \in Nat /\ Len(joined) \in Nat /\ (gate # <<>> => Len(gate) > 0)
  BY <1>1
<1>3. Len(joined) <= 1 /\ (gate # <<>> => Len(joined) = 0)
  BY <1>1, <1>2
<1>4. Len(joined) = 0 => joined = <<>>
  BY <1>1
<1>5. ASSUME joined # <<>>
      PROVE  Head(joined) = joined[1] /\ 1 \in DOMAIN joined /\ Tail(joined) = <<>>
             /\ Head(joined) \in Data /\ Len(joined) = 1
  <2>1. Len(joined) # 0
    BY <1>4, <1>5, Zenon
  <2>2. Len(joined) = 1
    BY <1>2, <1>3, <2>1
  <2>3. joined \in Seq(Data)
    BY <1>1
  <2>4. Head(joined) = joined[1] /\ 1 \in DOMAIN joined /\ Head(joined) \in Data
    BY <2>2, <2>3
  <2>5. Tail(joined) \in Seq(Data) /\ Len(Tail(joined)) = 0
    <3>1. Tail(joined) \in Seq(Data) /\ Len(Tail(joined)) = Len(joined) - 1
      BY <1>5, <2>3, HeadTailProperties
    <3> QED BY <2>2, <3>1
  <2>6. Tail(joined) = <<>>
    BY <2>5, EmptySeq
  <2> QED BY <2>2, <2>4, <2>6
<1> QED BY <1>2, <1>3, <1>4, <1>5

LEMMA InitEstablishes ==
  ASSUME Init
  PROVE  IInv
<1>1. Travelling = {} /\ Len(joined) = 0 /\ Len(gate) = 0 /\ joined = <<>> /\ gate = <<>>
      /\ output = <<>>
  BY DEF Init, Travelling
<1>2. Cardinality(Travelling) = 0 /\ IsFiniteSet(Travelling)
  BY <1>1, FS_EmptySet
<1>3. TypeOK
  BY ExecAssumption DEF Init, TypeOK, Data
<1>4. TokensConserved
  BY <1>1, <1>2, ExecAssumption DEF Init, TokensConserved, Travelling
<1>5. PlaceInv
  BY <1>1, <1>2 DEF Init, PlaceInv
<1>6. AgeInv /\ SequencerInv
  BY <1>1 DEF Init, AgeInv, SequencerInv
<1> QED BY <1>3, <1>4, <1>5, <1>6 DEF IInv

(* Data is put, and a fire is accepted or not. *)
LEMMA InputKeeps ==
  ASSUME IInv, PutData \/ Fire
  PROVE  IInv'
<1>1. /\ UNCHANGED <<exec, joined, signals, runVars>> /\ Travelling' = Travelling
      /\ data <= puts /\ data \in Nat /\ puts \in Nat /\ limiter \in Nat
      /\ fires \in Nat /\ accepted \in Nat /\ fired \in Nat /\ resets \in Nat
      /\ gate \in Seq(Nat)
  BY DEF PutData, Fire, runVars, Travelling, IInv, AgeInv, TypeOK
<1>2. CASE PutData
  <2>1. /\ UNCHANGED <<limiter, gate>> /\ data' = puts + 1 /\ puts' = puts + 1
        /\ UNCHANGED <<fires, accepted, fired, resets>>
    BY <1>2 DEF PutData
  <2>2. data' \in Nat /\ puts' \in Nat /\ data <= data' /\ data' <= puts'
    BY <1>1, <2>1
  <2>3. TypeOK'
    BY <1>1, <2>1, <2>2 DEF IInv, TypeOK, runVars
  <2>4. TokensConserved' /\ PlaceInv'
    BY <1>1, <2>1 DEF IInv, TokensConserved, PlaceInv, runVars
  <2>5. \A v \in Nat : v <= data => v <= data'
    BY <1>1, <2>2
  <2>6. /\ \A k \in DOMAIN gate : gate[k] \in Nat
        /\ \A k \in DOMAIN joined : joined[k].data \in Nat
        /\ \A i \in Travelling : i.item.data \in Nat
        /\ \A m \in DOMAIN output : output[m] \in Nat
    <3>1. gate \in Seq(Nat) /\ output \in Seq(Nat) /\ joined \in Seq(Data)
          /\ Travelling \subseteq [seq : Nat, item : Data]
      BY DEF IInv, TypeOK, Travelling
    <3>2. \A k \in DOMAIN joined : joined[k] \in Data
      BY <3>1
    <3>3. \A d \in Data : d.data \in Nat
      BY DEF Data
    <3>4. \A i \in Travelling : i.item \in Data
      BY <3>1
    <3>5. \A k \in DOMAIN gate : gate[k] \in Nat
      BY <3>1
    <3>6. \A m \in DOMAIN output : output[m] \in Nat
      BY <3>1
    <3> QED BY <3>2, <3>3, <3>4, <3>5, <3>6
  <2>7. AgeInv'
    BY <1>1, <2>1, <2>2, <2>5, <2>6 DEF IInv, AgeInv, runVars
  <2>8. SequencerInv'
    BY <1>1, <2>1, <2>2, <2>5, <2>6 DEF IInv, SequencerInv, runVars
  <2> QED BY <2>3, <2>4, <2>7, <2>8 DEF IInv
<1>3. CASE Fire
  <2>1. UNCHANGED <<data, puts, resets>> /\ fires' = fires + 1 /\ fired' = data
    BY <1>3 DEF Fire
  <2>2. CASE limiter < 1
    <3>1. limiter' = limiter + 1 /\ gate' = Append(gate, data) /\ accepted' = accepted + 1
      BY <1>3, <2>2 DEF Fire
    <3>2. /\ gate' \in Seq(Nat) /\ Len(gate') = Len(gate) + 1
          /\ \A k \in DOMAIN gate' : gate'[k] = data \/ (k \in DOMAIN gate /\ gate'[k] = gate[k])
      BY <1>1, <3>1
    <3>3. TypeOK'
      BY <1>1, <2>1, <3>1, <3>2 DEF IInv, TypeOK, runVars
    <3>4. TokensConserved'
      <4>1. Len(gate) \in Nat /\ Len(joined) \in Nat /\ signals \in Nat
        BY DEF IInv, TypeOK
      <4>2. limiter' = Len(gate') + Len(joined') + signals' /\ limiter' <= 1
        BY <1>1, <2>2, <3>1, <3>2, <4>1 DEF IInv, TokensConserved
      <4> QED BY <1>1, <4>2 DEF IInv, TokensConserved, Travelling
    <3>5. PlaceInv' /\ SequencerInv'
      BY <1>1, <2>1 DEF IInv, PlaceInv, SequencerInv, runVars
    <3>6. AgeInv'
      <4>1. \A k \in DOMAIN gate' : gate'[k] <= data
        BY <1>1, <3>2 DEF IInv, AgeInv
      <4> QED BY <1>1, <2>1, <4>1 DEF IInv, AgeInv
    <3> QED BY <3>3, <3>4, <3>5, <3>6 DEF IInv
  <2>3. CASE ~(limiter < 1)
    <3>1. UNCHANGED <<limiter, gate, accepted>>
      BY <1>3, <2>3 DEF Fire
    <3>2. TypeOK'
      BY <1>1, <2>1, <3>1 DEF IInv, TypeOK, runVars
    <3> QED BY <1>1, <2>1, <3>1, <3>2 DEF IInv, TokensConserved, PlaceInv, AgeInv,
          SequencerInv, runVars, Travelling
  <2> QED BY <2>2, <2>3
<1> QED BY <1>2, <1>3

LEMMA JoinKeeps ==
  ASSUME IInv, Join
  PROVE  IInv'
<1> DEFINE token == [data |-> data, since |-> Head(gate)]
<1>1. /\ gate # <<>> /\ exec > 0 /\ exec' = exec - 1 /\ gate' = Tail(gate)
      /\ joined = <<>> /\ joined' = Append(joined, token)
      /\ UNCHANGED <<data, limiter, signals, runVars, callVars>>
      /\ Travelling' = Travelling
  BY JoinedIsShort DEF Join, runVars, Travelling
<1>2. gate \in Seq(Nat) /\ data \in Nat /\ exec \in Nat /\ limiter \in Nat /\ signals \in Nat
  BY DEF IInv, TypeOK
<1>3. /\ gate' \in Seq(Nat) /\ Len(gate') = Len(gate) - 1 /\ Len(gate) \in Nat
      /\ Head(gate) = gate[1] /\ 1 \in DOMAIN gate /\ Head(gate) \in Nat
      /\ \A k \in DOMAIN gate' : k + 1 \in DOMAIN gate /\ gate'[k] = gate[k + 1]
  BY <1>1, <1>2
<1>4. token \in Data /\ token.since <= token.data /\ token.data = data
  BY <1>2, <1>3 DEF Data, IInv, AgeInv
<1> HIDE DEF token
<1>5. /\ joined' = <<token>> /\ Len(joined) = 0 /\ Len(joined') = 1
      /\ joined' \in Seq(Data) /\ DOMAIN joined' = {1} /\ joined'[1] = token
  BY <1>1, <1>4
<1>6. TypeOK'
  BY <1>1, <1>2, <1>3, <1>5 DEF IInv, TypeOK, runVars, callVars
<1>7. TokensConserved'
  <2>1. exec + Len(joined) + Cardinality(Travelling) = ExecTokens
        /\ Cardinality(Travelling) \in Nat
    BY FS_CardinalityType DEF IInv, TokensConserved, PlaceInv, Travelling
  <2>2. exec' + Len(joined') + Cardinality(Travelling') = ExecTokens
    BY <1>1, <1>2, <1>5, <2>1
  <2>3. limiter' = Len(gate') + Len(joined') + signals' /\ limiter' <= 1
    BY <1>1, <1>2, <1>3, <1>5 DEF IInv, TokensConserved
  <2> QED BY <2>2, <2>3 DEF TokensConserved, Travelling
<1>8. PlaceInv'
  BY <1>1 DEF IInv, PlaceInv, runVars
<1>9. AgeInv'
  BY <1>1, <1>2, <1>3, <1>4, <1>5 DEF IInv, AgeInv, runVars, callVars
<1>10. SequencerInv'
  BY <1>1, <1>4, <1>5 DEF IInv, SequencerInv, runVars, callVars
<1> QED BY <1>6, <1>7, <1>8, <1>9, <1>10 DEF IInv

LEMMA ItemTypes ==
  ASSUME TypeOK
  PROVE  /\ \A i \in Travelling : i.seq \in Nat /\ i.item \in Data
                                  /\ i.item.data \in Nat /\ i.item.since \in Nat
         /\ \A k \in DOMAIN joined : joined[k].data \in Nat
         /\ \A m \in DOMAIN output : output[m] \in Nat
<1>1. Travelling \subseteq [seq : Nat, item : Data] /\ joined \in Seq(Data)
      /\ output \in Seq(Nat)
  BY DEF TypeOK, Travelling
<1>2. \A k \in DOMAIN joined : joined[k] \in Data
  BY <1>1
<1>3. \A d \in Data : d.data \in Nat /\ d.since \in Nat
  BY DEF Data
<1>4. \A i \in Travelling : i.seq \in Nat /\ i.item \in Data
  BY <1>1
<1>5. \A m \in DOMAIN output : output[m] \in Nat
  BY <1>1
<1> QED BY <1>2, <1>3, <1>4, <1>5

(* The newest item gets the next number and joins the others. *)
LEMMA StampKeeps ==
  ASSUME IInv, Stamp
  PROVE  IInv'
<1> DEFINE new == [seq |-> nextSeq, item |-> Head(joined)]
<1>1. /\ joined # <<>> /\ work' = work \cup {new} /\ nextSeq' = nextSeq + 1
      /\ joined' = Tail(joined) /\ signals' = signals + 1
      /\ UNCHANGED <<inVars, exec, worked, called, toCall, output, callVars>>
      /\ Travelling' = Travelling \cup {new}
  BY DEF Stamp, Travelling
<1>2. /\ Head(joined) = joined[1] /\ 1 \in DOMAIN joined /\ joined' = <<>>
      /\ Head(joined) \in Data /\ Len(joined) = 1 /\ Len(joined') = 0
  BY <1>1, JoinedIsShort
<1>3. nextSeq \in Nat /\ signals \in Nat /\ toCall \in Nat /\ exec \in Nat /\ limiter \in Nat
      /\ gate \in Seq(Nat) /\ ExecTokens \in Nat
  BY ExecAssumption DEF IInv, TypeOK
<1>4. new.seq = nextSeq /\ new.item = joined[1] /\ new \in [seq : Nat, item : Data]
  BY <1>2, <1>3
<1>5. /\ \A i \in Travelling : i.seq \in Nat /\ i.seq < nextSeq
      /\ new \notin Travelling
  <2>1. \A i \in Travelling : i.seq \in Nat /\ i.seq < nextSeq
    BY ItemTypes DEF IInv, PlaceInv
  <2> QED BY <1>3, <1>4, <2>1
<1> HIDE DEF new
<1>6. TypeOK'
  <2>1. work' \in SUBSET [seq : Nat, item : Data]
    BY <1>1, <1>4 DEF IInv, TypeOK
  <2>2. nextSeq' \in Nat /\ signals' \in Nat /\ joined' \in Seq(Data)
    <3>1. nextSeq' \in Nat /\ signals' \in Nat
      BY <1>1, <1>3
    <3>2. joined' \in Seq(Data)
      BY <1>2
    <3> QED BY <3>1, <3>2
  <2> QED BY <1>1, <2>1, <2>2 DEF IInv, TypeOK, inVars, callVars
<1>7. /\ IsFiniteSet(Travelling')
      /\ Cardinality(Travelling') = Cardinality(Travelling) + 1
      /\ Cardinality(Travelling) \in Nat
  BY <1>1, <1>5, FS_AddElement, FS_CardinalityType DEF IInv, PlaceInv
<1>8. TokensConserved'
  <2>1. exec' + Len(joined') + Cardinality(Travelling') = ExecTokens
    BY <1>1, <1>2, <1>3, <1>7 DEF IInv, TokensConserved, Travelling
  <2>2. limiter' = Len(gate') + Len(joined') + signals' /\ limiter' <= 1
    <3>1. Len(gate) \in Nat /\ limiter = Len(gate) + 1 + signals /\ limiter <= 1
      BY <1>2, <1>3 DEF IInv, TokensConserved
    <3>2. limiter' = limiter /\ gate' = gate
      BY <1>1 DEF inVars
    <3> QED BY <1>1, <1>2, <1>3, <3>1, <3>2
  <2> QED BY <2>1, <2>2 DEF TokensConserved, Travelling
<1>9. PlaceInv'
  <2>1. \A i \in Travelling' : i \in Travelling \/ i = new
    BY <1>1
  <2>2. \A i \in Travelling' : i.seq < nextSeq'
    BY <1>1, <1>3, <1>4, <1>5, <2>1
  <2>3. \A i, j \in Travelling' : i.seq = j.seq => i = j
    BY <1>3, <1>4, <1>5, <2>1 DEF IInv, PlaceInv
  <2>4. work' \cap worked' = {} /\ (work' \cup worked') \cap called' = {}
    BY <1>1, <1>5 DEF IInv, PlaceInv, Travelling
  <2> QED BY <1>7, <2>2, <2>3, <2>4 DEF PlaceInv
<1>10. AgeInv'
  <2>1. data' = data /\ puts' = puts /\ gate' = gate /\ DOMAIN joined' = {}
    BY <1>1, <1>2 DEF inVars, callVars
  <2>2. /\ new.item.since <= new.item.data /\ new.item.data <= data
        /\ \A i \in Travelling : i.item.data <= new.item.data
        /\ new.item.data <= new.item.data
    BY <1>2, <1>4, ItemTypes DEF IInv, AgeInv
  <2>3. \A i \in Travelling' : i \in Travelling \/ i = new
    BY <1>1
  <2>4. \A i \in Travelling : i.seq < new.seq /\ i.seq # new.seq /\ ~(new.seq < i.seq)
    BY <1>3, <1>4, <1>5
  <2>5. \A i, j \in Travelling' : i.seq < j.seq => i.item.data <= j.item.data
    BY <2>2, <2>3, <2>4 DEF IInv, AgeInv
  <2> QED BY <2>1, <2>2, <2>3, <2>5 DEF IInv, AgeInv
<1>11. SequencerInv'
  <2>1. data' = data /\ toCall' = toCall /\ output' = output /\ DOMAIN joined' = {}
        /\ \A i \in work' \cup worked' : i \in work \cup worked \/ i = new
    BY <1>1, <1>2 DEF inVars
  <2>2. ASSUME PreserveOrder
        PROVE  toCall <= new.seq /\ \A m \in DOMAIN output : output[m] <= new.item.data
    BY <1>2, <1>4, <2>2 DEF IInv, SequencerInv
  <2>3. PreserveOrder => toCall <= nextSeq'
    BY <1>1, <1>3 DEF IInv, SequencerInv
  <2> QED BY <2>1, <2>2, <2>3 DEF IInv, SequencerInv
<1> QED BY <1>6, <1>8, <1>9, <1>10, <1>11 DEF IInv

LEMMA DecrementKeeps ==
  ASSUME IInv, Decrement
  PROVE  IInv'
<1>1. /\ signals > 0 /\ signals' = signals - 1 /\ limiter' = limiter - 1
      /\ UNCHANGED <<data, gate, exec, joined, runVars, callVars>>
      /\ signals \in Nat /\ limiter \in Nat /\ Travelling' = Travelling
  BY DEF Decrement, IInv, TypeOK, runVars, Travelling
<1>2. limiter = Len(gate) + Len(joined) + signals /\ limiter <= 1
      /\ Len(gate) \in Nat /\ Len(joined) \in Nat
  BY DEF IInv, TokensConserved, TypeOK
<1>3. TypeOK'
  BY <1>1, <1>2 DEF IInv, TypeOK, runVars, callVars
<1>4. TokensConserved'
  <2>1. limiter' = Len(gate') + Len(joined') + signals' /\ limiter' <= 1
    BY <1>1, <1>2
  <2>2. exec' + Len(joined') + Cardinality(Travelling') = ExecTokens
    BY <1>1 DEF IInv, TokensConserved, Travelling
  <2> QED BY <2>1, <2>2 DEF TokensConserved, Travelling
<1> QED
  BY <1>1, <1>3, <1>4 DEF IInv, PlaceInv, AgeInv, SequencerInv, runVars, callVars

LEMMA WorkDoneKeeps ==
  ASSUME IInv, NEW i \in work, WorkDone(i)
  PROVE  IInv'
<1>1. /\ work' = work \ {i} /\ worked' = worked \cup {i}
      /\ UNCHANGED <<inVars, exec, joined, signals, nextSeq, called, toCall, output, callVars>>
      /\ Travelling' = Travelling /\ work' \cup worked' = work \cup worked
  BY DEF WorkDone, Travelling
<1>2. TypeOK'
  BY <1>1 DEF IInv, TypeOK, inVars, callVars
<1>3. PlaceInv'
  BY <1>1 DEF IInv, PlaceInv
<1>4. TokensConserved' /\ AgeInv' /\ SequencerInv'
  BY <1>1 DEF IInv, TokensConserved, AgeInv, SequencerInv, Travelling, inVars, callVars
<1> QED BY <1>2, <1>3, <1>4 DEF IInv

(* The sequencer lets the item pass that has the lowest number of those     *)
(* before it, so the oldest data.                                           *)
LEMMA CallbackKeeps ==
  ASSUME IInv, NEW i \in worked, Callback(i)
  PROVE  IInv'
<1>1. /\ worked' = worked \ {i} /\ called' = called \cup {i}
      /\ toCall' = toCall + 1 /\ output' = Append(output, i.item.data)
      /\ UNCHANGED <<inVars, exec, joined, signals, nextSeq, work, callVars>>
      /\ Travelling' = Travelling /\ i \in Travelling
      /\ PreserveOrder => i.seq = toCall
  BY DEF Callback, Travelling
<1>2. /\ i.item.data \in Nat /\ i.seq \in Nat /\ toCall \in Nat /\ output \in Seq(Nat)
      /\ i.item.data <= i.item.data
  BY <1>1, ItemTypes DEF IInv, TypeOK
<1>3. /\ output' \in Seq(Nat)
      /\ Len(output) \in Nat /\ DOMAIN output = 1 .. Len(output)
      /\ DOMAIN output' = 1 .. Len(output) + 1
      /\ \A m \in 1 .. Len(output) : output'[m] = output[m]
      /\ output'[Len(output) + 1] = i.item.data
  BY <1>1, <1>2
<1>4. TypeOK'
  BY <1>1, <1>2, <1>3 DEF IInv, TypeOK, inVars, callVars
<1>5. PlaceInv'
  BY <1>1 DEF IInv, PlaceInv
<1>6. TokensConserved' /\ AgeInv'
  BY <1>1 DEF IInv, TokensConserved, AgeInv, Travelling, inVars, callVars
<1>7. SequencerInv'
  <2> SUFFICES ASSUME PreserveOrder PROVE SequencerInv'
    BY DEF SequencerInv
  <2>1. /\ i.seq = toCall /\ data' = data /\ joined' = joined
        /\ \A j \in work' \cup worked' : j \in Travelling /\ j # i /\ j \in work \cup worked
    BY <1>1 DEF IInv, PlaceInv, Travelling, inVars
  <2>2. ASSUME NEW j \in work' \cup worked'
        PROVE  toCall' <= j.seq /\ i.item.data <= j.item.data
    <3>1. j.seq \in Nat /\ j.seq # i.seq /\ toCall <= j.seq
      BY <1>1, <2>1, ItemTypes DEF IInv, PlaceInv, SequencerInv
    <3>2. i.seq < j.seq
      BY <1>2, <2>1, <3>1
    <3>3. toCall' <= j.seq
      BY <1>1, <1>2, <2>1, <3>1, <3>2
    <3>4. i.item.data <= j.item.data
      BY <1>1, <2>1, <3>2 DEF IInv, AgeInv
    <3> QED BY <3>3, <3>4
  <2>3. /\ \A m \in DOMAIN output' : m \in DOMAIN output \/ output'[m] = i.item.data
        /\ \A m \in DOMAIN output : output'[m] = output[m]
    BY <1>3
  <2>4. /\ i.item.data <= data
        /\ \A k \in DOMAIN joined : i.item.data <= joined[k].data
    BY <1>1 DEF IInv, AgeInv
  <2>5. \A m \in DOMAIN output' :
          /\ output'[m] <= data
          /\ \A k \in DOMAIN joined : output'[m] <= joined[k].data
          /\ \A j \in work' \cup worked' : output'[m] <= j.item.data
    BY <2>1, <2>2, <2>3, <2>4 DEF IInv, SequencerInv
  <2>6. \A m \in DOMAIN output : output[m] <= i.item.data
    BY DEF IInv, SequencerInv
  <2>7. ASSUME NEW m \in DOMAIN output', NEW n \in DOMAIN output', m < n
        PROVE  output'[m] <= output'[n]
    <3>1. m \in DOMAIN output /\ output'[m] = output[m]
      BY <1>3, <2>7
    <3>2. CASE n \in DOMAIN output
      BY <2>3, <2>7, <3>1, <3>2 DEF IInv, SequencerInv
    <3>3. CASE n \notin DOMAIN output
      BY <2>3, <2>6, <3>1, <3>3
    <3> QED BY <3>2, <3>3
  <2>8. toCall' <= nextSeq'
    <3>1. i.seq < nextSeq /\ nextSeq \in Nat /\ nextSeq' = nextSeq
      BY <1>1 DEF IInv, PlaceInv, TypeOK
    <3> QED BY <1>1, <1>2, <2>1, <3>1
  <2> QED BY <2>1, <2>2, <2>5, <2>7, <2>8 DEF SequencerInv
<1> QED BY <1>4, <1>5, <1>6, <1>7 DEF IInv

LEMMA FinalizeKeeps ==
  ASSUME IInv, NEW i \in called, Finalize(i)
  PROVE  IInv'
<1>1. /\ called' = called \ {i} /\ exec' = exec + 1
      /\ UNCHANGED <<inVars, joined, signals, nextSeq, work, worked, toCall, output, callVars>>
      /\ i \in Travelling
  BY DEF Finalize, Travelling
<1>2. Travelling' = Travelling \ {i}
  BY <1>1 DEF IInv, PlaceInv, Travelling
<1>3. /\ IsFiniteSet(Travelling')
      /\ Cardinality(Travelling') = Cardinality(Travelling) - 1
      /\ Cardinality(Travelling) \in Nat
  BY <1>1, <1>2, FS_RemoveElement, FS_CardinalityType DEF IInv, PlaceInv
<1>4. TypeOK'
  BY <1>1 DEF IInv, TypeOK, inVars, callVars
<1>5. TokensConserved'
  <2>1. exec \in Nat /\ Len(joined) \in Nat /\ ExecTokens \in Nat
    BY ExecAssumption DEF IInv, TypeOK
  <2>2. exec' + Len(joined') + Cardinality(Travelling') = ExecTokens
    BY <1>1, <1>3, <2>1 DEF IInv, TokensConserved, Travelling
  <2> QED BY <1>1, <2>2 DEF IInv, TokensConserved, Travelling, inVars
<1>6. PlaceInv'
  BY <1>1, <1>2, <1>3 DEF IInv, PlaceInv
<1>7. AgeInv' /\ SequencerInv'
  BY <1>1, <1>2 DEF IInv, AgeInv, SequencerInv, inVars, callVars
<1> QED BY <1>4, <1>5, <1>6, <1>7 DEF IInv

LEMMA ResetKeeps ==
  ASSUME IInv, ResetAndPrepare
  PROVE  IInv'
<1>1. /\ work = {} /\ worked = {} /\ called = {} /\ joined = <<>> /\ signals = 0
      /\ UNCHANGED <<joined, signals, work, worked, called, puts, fires>>
      /\ data' = 0 /\ limiter' = 0 /\ gate' = <<>> /\ exec' = ExecTokens
      /\ nextSeq' = 0 /\ toCall' = 0 /\ output' = <<>>
      /\ accepted' = 0 /\ fired' = 0 /\ resets' = resets + 1
  BY DEF ResetAndPrepare, IsIdle
<1>2. Travelling' = {} /\ Len(joined') = 0 /\ Len(gate') = 0 /\ joined' = <<>>
  BY <1>1 DEF Travelling
<1>3. Cardinality(Travelling') = 0 /\ IsFiniteSet(Travelling')
  BY <1>2, FS_EmptySet
<1>4. TypeOK'
  BY <1>1, ExecAssumption DEF IInv, TypeOK
<1>5. TokensConserved'
  BY <1>1, <1>2, <1>3, ExecAssumption DEF TokensConserved, Travelling
<1>6. PlaceInv'
  BY <1>1, <1>2, <1>3 DEF PlaceInv
<1>7. AgeInv' /\ SequencerInv'
  BY <1>1, <1>2 DEF IInv, TypeOK, AgeInv, SequencerInv
<1> QED BY <1>4, <1>5, <1>6, <1>7 DEF IInv

LEMMA Invariance == Spec => []IInv
<1>1. IInv /\ [Next]_vars => IInv'
  <2> SUFFICES ASSUME IInv, [Next]_vars PROVE IInv'
    OBVIOUS
  <2>1. CASE Next
    BY <2>1, InputKeeps, JoinKeeps, StampKeeps, DecrementKeeps, WorkDoneKeeps,
       CallbackKeeps, FinalizeKeeps, ResetKeeps DEF Next
  <2>2. CASE UNCHANGED vars
    BY <2>2 DEF vars, inVars, runVars, callVars, IInv, TypeOK, TokensConserved,
       PlaceInv, AgeInv, SequencerInv, Travelling
  <2> QED BY <2>1, <2>2
<1> QED BY <1>1, InitEstablishes, PTL DEF Spec

-----------------------------------------------------------------------------
(* Every variable of the node stays in its type. *)
THEOREM TypeCorrect == Spec => []TypeOK
BY Invariance, PTL DEF IInv

(* The execution tokens in the buffer and those that travel with items are  *)
(* execute_token_size, and the limiter counts the gate token that has not   *)
(* been discounted: neither kind is lost or multiplied, across resets too.  *)
THEOREM TokensAreConserved == Spec => []TokensConserved
BY Invariance, PTL DEF IInv

(* What a fire processes is as new as the data at that fire, and with       *)
(* preserve_order the callbacks never go back to older data.                *)
THEOREM CallbacksNeverGoBack == Spec => []NeverGoesBack
<1>1. IInv => NeverGoesBack
  <2> SUFFICES ASSUME IInv PROVE NeverGoesBack
    OBVIOUS
  <2>1. \A i \in Travelling : i.item.data >= i.item.since
    BY ItemTypes DEF IInv, AgeInv
  <2> QED BY <2>1 DEF NeverGoesBack, IInv, SequencerInv, Travelling
<1> QED BY <1>1, Invariance, PTL
=============================================================================
