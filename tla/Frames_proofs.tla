----------------------------- MODULE Frames_proofs -----------------------------
(***************************************************************************)
(* The safety of a frame's way: of FrameTransport, for any number of tasks *)
(* and clients, every set of plans and alive duration, and shutdowns at    *)
(* any time; and of VideoReader, where frames come from, for videos of any *)
(* length, every set of configurations, and any number of plays and of     *)
(* calls that interrupt them.  The two share no variable.                  *)
(***************************************************************************)
EXTENDS FrameTransport, VideoReader, TLAPS

-----------------------------------------------------------------------------
(* FrameTransport *)
Steps == {"idle", "choose", "read", "connect to put", "connect to read", "chosen",
          "get", "put", "add", "release", "return", "release to copy", "copy",
          "done"}
Messages == [ret : {"none", "ok", "failed", "raised"},
             has : {"nothing", "pixels", "token"}, of : Tasks \cup {None}]
ClientOrNone == Clients \cup {None}

TypeInv ==
  /\ plan \in Plans /\ at \in [Tasks -> Steps]
  /\ held \in [Tasks -> ClientOrNone] /\ registered \in ClientOrNone
  /\ msg \in [Tasks -> Messages]
  /\ client \in [Clients -> {"none", "alive", "closing", "dead"}]
  /\ closer \in [Clients -> Tasks \cup {None, "factory", "shutdown"}]
  /\ evictor \in [Clients -> {"off", "asleep", "evicting", "flushing"}]
  /\ todo \in [Clients -> SUBSET Tasks] /\ doomed \in [Clients -> SUBSET Tasks]
  /\ block \in [Tasks -> [cache : ClientOrNone, due : Nat]]
  /\ store \in [Tasks -> {"absent", "stored", "deleted"}]
  /\ reused \subseteq Tasks /\ undeleted \subseteq Tasks
  /\ broken \in BOOLEAN /\ down \in BOOLEAN
  /\ putAt \in [Tasks -> Nat] /\ clock \in Nat

(* A client somebody can reach lives, or its cache is being reset by the    *)
(* callback of a shutdown; one that dies otherwise is out of reach.         *)
IsReachable(c) == c = registered \/ \E t \in Tasks : held[t] = c
ClientInv ==
  \A c \in Clients : IsReachable(c) =>
    client[c] = "alive" \/ (client[c] = "closing" /\ closer[c] = "shutdown")

(* Where a task is with its block.                                          *)
BlockInv ==
  \A f \in Tasks :
    /\ at[f] \in {"put", "add"} => held[f] # None
    /\ store[f] # "absent" => at[f] \in {"add", "release", "return", "done"}
    /\ (block[f].cache # None \/ \E c \in Clients : f \in todo[c]) =>
         at[f] \in {"release", "return", "done"}

(* An eviction has tried to delete what it erases, and the last one leaves  *)
(* nothing out.                                                             *)
EvictionInv ==
  \A c \in Clients :
    /\ \A f \in doomed[c] : store[f] = "deleted" \/ IsAbandoned(f)
    /\ evictor[c] = "flushing" =>
         /\ client[c] = "closing"
         /\ \A f \in Tasks \ Kept :
              block[f].cache = c => f \in todo[c] \cup doomed[c]

(* Until ROS shuts down a client somebody can reach lives, one whose cache  *)
(* is flushed is dying, and each task makes its clients in turn.            *)
LifeInv ==
  ~down =>
    /\ \A c \in Clients : IsReachable(c) => client[c] = "alive"
    /\ \A c \in Clients : evictor[c] = "flushing" => client[c] = "closing"
    /\ \A t \in Tasks :
         at[t] \in {"idle", "choose"} => client[<<t, 1>>] = "none"
    /\ \A t \in Tasks :
         at[t] \in {"idle", "choose", "connect to put", "chosen", "read"} =>
           client[<<t, 2>>] = "none"

(* Until then a factory that has a client at first keeps this one.          *)
WarmInv ==
  plan \in Warm /\ ~down =>
    /\ registered = First
    /\ \A c \in Clients : client[c] = IF c = First THEN "alive" ELSE "none"
    /\ \A c \in Clients : evictor[c] # "flushing"
    /\ \A t \in Tasks : ~IsConnecting(t)

(* A block is deleted, and its memory used again, only after its time, or   *)
(* with a client that is lost.                                              *)
Outlived(f) == down \/ clock >= putAt[f] + Alive \/ HasLostClient

DueInv ==
  /\ \A f \in Tasks : putAt[f] <= clock
  /\ \A f \in Tasks : block[f].cache # None => block[f].due >= putAt[f] + Alive
  /\ \A c \in Clients : \A f \in todo[c] : Outlived(f)
  /\ \A f \in Tasks : store[f] = "deleted" => Outlived(f)
  /\ \A f \in reused : store[f] = "deleted"

(* The message a task works on is final; what is extracted from it shows    *)
(* its frame, or memory that was used again.                                *)
ExtractInv ==
  /\ \A t \in Tasks : at[t] = "idle" => msg[t].has = "nothing"
  /\ \A t \in Tasks : at[t] # "idle" /\ plan[t].source \in Tasks =>
       at[plan[t].source] = "done"
  /\ \A t \in Tasks : plan[t].job = "extract" =>
       at[t] \notin {"choose", "connect to put", "chosen", "put", "add"}
  /\ \A t \in Tasks : plan[t].job = "extract" /\ msg[t].has = "pixels" =>
       msg[t].of = SourceMsg(t).of \/ SourceMsg(t).of \in reused

-----------------------------------------------------------------------------
(* A message that is passed on keeps what it carries.                       *)
LEMMA MessageReturned ==
  ASSUME NEW r \in Messages
  PROVE  /\ [r EXCEPT !.ret = "ok"] \in Messages
         /\ [r EXCEPT !.ret = "ok"].has = r.has
         /\ [r EXCEPT !.ret = "ok"].of = r.of
  BY Zenon DEF Messages

(* The results of a task are messages.                                      *)
LEMMA Results ==
  /\ \A f \in Tasks \cup {None} : Pixels(f) \in Messages /\ Token(f) \in Messages
  /\ \A code \in {"ok", "failed", "raised"} :
       Nothing(code) \in Messages /\ Nothing(code).has = "nothing"
  /\ Pending \in Messages /\ Pending.has = "nothing"
  /\ \A f : Pixels(f).has = "pixels" /\ Pixels(f).of = f
  BY DEF Messages, Pixels, Token, Nothing, Pending

(* Whatever a plan names as the source of a task is a message.              *)
LEMMA SourceIsMessage ==
  ASSUME TypeInv, NEW t \in Tasks
  PROVE  SourceMsg(t) \in Messages
<1>1. plan[t].source \in Tasks \cup {"mat", "empty"}
  BY PlanAssumption DEF TypeInv
<1>2. Pixels(t) \in Messages /\ Nothing("ok") \in Messages
  BY Results
<1>3. plan[t].source \in Tasks => msg[plan[t].source] \in Messages
  BY DEF TypeInv
<1> QED
  BY <1>1, <1>2, <1>3 DEF SourceMsg

(* The end of a client's last shared_ptr.                                   *)
LEMMA DropProperties ==
  ASSUME TypeInv, NEW c \in ClientOrNone, NEW who \in Tasks \cup {"factory"},
         NEW holders, NEW reg, DropClient(c, who, holders, reg)
  PROVE  /\ client' \in [Clients -> {"none", "alive", "closing", "dead"}]
         /\ closer' \in [Clients -> Tasks \cup {None, "factory", "shutdown"}]
         /\ \A d \in Clients :
              \/ client'[d] = client[d] /\ closer'[d] = closer[d]
              \/ /\ d = c /\ d # reg /\ d \notin holders
                 /\ client[d] = "alive" /\ client'[d] = "closing"
  BY DEF DropClient, TypeInv, ClientOrNone

(* What a task may do with its message.                                     *)
LEMMA BeginProperties ==
  ASSUME TypeInv, NEW t \in Tasks, Begin(t)
  PROVE  /\ at[t] = "idle"
         /\ plan[t].source \in Tasks => at[plan[t].source] = "done"
         /\ \/ Goes(t, "choose") /\ plan[t].job = "publish" /\ UNCHANGED msg
            \/ Goes(t, "read") /\ UNCHANGED msg
            \/ /\ Goes(t, "done")
               /\ \E m \in Messages : /\ Returns(t, m) /\ m.has = SourceMsg(t).has
                                      /\ m.of = SourceMsg(t).of
         /\ \E s \in {"choose", "read", "done"} : Goes(t, s)
         /\ UNCHANGED <<plan, held, clientVars, cacheVars, storeVars, shutVars,
                        clock>>
<1>1. [SourceMsg(t) EXCEPT !.ret = "ok"] \in Messages
      /\ [SourceMsg(t) EXCEPT !.ret = "ok"].has = SourceMsg(t).has
      /\ [SourceMsg(t) EXCEPT !.ret = "ok"].of = SourceMsg(t).of
  BY SourceIsMessage, MessageReturned
<1>2. \/ Goes(t, "choose") /\ plan[t].job = "publish" /\ UNCHANGED msg
      \/ Goes(t, "read") /\ UNCHANGED msg
      \/ Goes(t, "done") /\ Returns(t, [SourceMsg(t) EXCEPT !.ret = "ok"])
  BY Zenon DEF Begin
<1>3. \E s \in {"choose", "read", "done"} : Goes(t, s)
  BY <1>2
<1> QED
  BY <1>1, <1>2, <1>3 DEF Begin

LEMMA ChooseProperties ==
  ASSUME TypeInv, NEW t \in Tasks, ChooseStorage(t)
  PROVE  /\ at[t] = "chosen"
         /\ \/ Goes(t, "read") /\ UNCHANGED msg
            \/ Goes(t, "release") /\ \E m \in Messages : Returns(t, m)
            \/ Goes(t, "put") /\ held[t] # None /\ UNCHANGED msg
         /\ UNCHANGED <<plan, held, clientVars, cacheVars, storeVars, shutVars,
                        clock>>
<1>1. /\ [SourceMsg(t) EXCEPT !.ret = "ok"] \in Messages
      /\ Nothing("raised") \in Messages
  BY SourceIsMessage, MessageReturned, Results
<1>2. \/ Goes(t, "read") /\ UNCHANGED msg
      \/ Goes(t, "release") /\ Returns(t, [SourceMsg(t) EXCEPT !.ret = "ok"])
      \/ Goes(t, "release") /\ Returns(t, Nothing("raised"))
      \/ Goes(t, "put") /\ UseShm(t) /\ held[t] # None /\ UNCHANGED msg
  BY Zenon DEF ChooseStorage
<1> QED
  BY <1>1, <1>2 DEF ChooseStorage

LEMMA GetDataProperties ==
  ASSUME TypeInv, NEW t \in Tasks, GetData(t)
  PROVE  /\ at[t] = "get"
         /\ \/ /\ Goes(t, "release")
               /\ \E m \in Messages : Returns(t, m) /\ m.has = "nothing"
            \/ Goes(t, "release to copy") /\ UNCHANGED msg
         /\ UNCHANGED <<plan, held, clientVars, cacheVars, storeVars, shutVars,
                        clock>>
<1>1. /\ Nothing("ok") \in Messages /\ Nothing("ok").has = "nothing"
      /\ Nothing("failed") \in Messages /\ Nothing("failed").has = "nothing"
  BY Results
<1>2. \/ Goes(t, "release") /\ Returns(t, Nothing("ok"))
      \/ Goes(t, "release") /\ Returns(t, Nothing("failed"))
      \/ Goes(t, "release to copy") /\ UNCHANGED msg
  BY Zenon DEF GetData
<1> QED
  BY <1>1, <1>2 DEF GetData

LEMMA CopyProperties ==
  ASSUME TypeInv, NEW t \in Tasks, Copy(t)
  PROVE  /\ at[t] = "copy" /\ Goes(t, "done")
         /\ \E m \in Messages :
              /\ Returns(t, m)
              /\ m.of = SourceMsg(t).of \/ SourceMsg(t).of \in reused
         /\ UNCHANGED <<plan, held, clientVars, cacheVars, storeVars, shutVars,
                        clock>>
<1>1. SourceMsg(t).of \in Tasks \cup {None}
  BY SourceIsMessage DEF Messages
<1>2. PICK f \in Tasks \cup {None} :
        /\ Returns(t, Pixels(f))
        /\ f = SourceMsg(t).of \/ SourceMsg(t).of \in reused
  BY <1>1 DEF Copy
<1>3. Pixels(f) \in Messages /\ Pixels(f).of = f
  BY Results
<1> QED
  BY <1>2, <1>3 DEF Copy

(* A task that answers or moves on leaves the others where they are.        *)
LEMMA ReturnsMessage ==
  ASSUME TypeInv, NEW t \in Tasks, NEW m \in Messages, Returns(t, m)
  PROVE  /\ msg' \in [Tasks -> Messages] /\ msg'[t] = m
         /\ \A u \in Tasks \ {t} : msg'[u] = msg[u]
  BY DEF TypeInv, Returns

LEMMA GoesToStep ==
  ASSUME TypeInv, NEW t \in Tasks, NEW s \in Steps, Goes(t, s)
  PROVE  /\ at' \in [Tasks -> Steps] /\ at'[t] = s
         /\ \A u \in Tasks \ {t} : at'[u] = at[u]
  BY DEF TypeInv, Goes

(* No step breaks the types of the transport.                               *)
LEMMA TypeStep == TypeInv /\ [Next]_vars => TypeInv'
<1> SUFFICES ASSUME TypeInv, [Next]_vars PROVE TypeInv'
  OBVIOUS
<1> USE DEF TypeInv, Steps, ClientOrNone, Goes, Returns, taskVars, clientVars,
            cacheVars, storeVars, shutVars
<1>1. ASSUME NEW t \in Tasks, Begin(t) PROVE TypeInv'
  <2>1. msg' \in [Tasks -> Messages] /\ at' \in [Tasks -> Steps]
    <3> HIDE DEF TypeInv, Goes, Returns
    <3>1. UNCHANGED msg \/ \E m \in Messages : Returns(t, m)
      BY <1>1, BeginProperties
    <3>2. \E s \in Steps : Goes(t, s)
      BY <1>1, BeginProperties
    <3> QED
      BY <3>1, <3>2, ReturnsMessage, GoesToStep DEF TypeInv
  <2>2. UNCHANGED <<plan, held, clientVars, cacheVars, storeVars, shutVars, clock>>
    BY <1>1 DEF Begin
  <2> QED
    BY <2>1, <2>2
<1>2. ASSUME NEW t \in Tasks, FindClient(t) PROVE TypeInv'
  BY <1>2 DEF FindClient, WantsClient, WithClient
<1>3. ASSUME NEW t \in Tasks, CreateClient(t) PROVE TypeInv'
  BY <1>3, TaskAssumption DEF CreateClient, WantsClient, Clients
<1>4. ASSUME NEW t \in Tasks, ConnectFails(t) PROVE TypeInv'
  BY <1>4, DropProperties DEF ConnectFails, IsConnecting, Connected
<1>5. ASSUME NEW t \in Tasks, Register(t) PROVE TypeInv'
  BY <1>5, DropProperties DEF Register, IsConnecting, Connected
<1>6. ASSUME NEW t \in Tasks, ChooseStorage(t) PROVE TypeInv'
  <2>1. msg' \in [Tasks -> Messages] /\ at' \in [Tasks -> Steps]
    <3> HIDE DEF TypeInv, Goes, Returns
    <3>1. UNCHANGED msg \/ \E m \in Messages : Returns(t, m)
      BY <1>6, ChooseProperties
    <3>2. \E s \in Steps : Goes(t, s)
      BY <1>6, ChooseProperties
    <3> QED
      BY <3>1, <3>2, ReturnsMessage, GoesToStep DEF TypeInv
  <2> QED
    BY <1>6, <2>1, ChooseProperties
<1>7. ASSUME NEW t \in Tasks, Put(t) PROVE TypeInv'
  BY <1>7 DEF Put
<1>8. ASSUME NEW t \in Tasks, PutFails(t) PROVE TypeInv'
  BY <1>8, Results DEF PutFails
<1>9. ASSUME NEW t \in Tasks, AddBlock(t) PROVE TypeInv'
  <2>1. msg' \in [Tasks -> Messages] /\ at' \in [Tasks -> Steps]
    BY <1>9, Results DEF AddBlock
  <2>2. [cache |-> held[t], due |-> clock + Alive]
          \in [cache : ClientOrNone, due : Nat]
    <3>1. held[t] \in ClientOrNone /\ clock \in Nat
      OBVIOUS
    <3> HIDE DEF TypeInv, ClientOrNone
    <3>2. clock + Alive \in Nat
      BY <3>1, TaskAssumption
    <3> QED
      BY <3>1, <3>2
  <2>3. block' \in [Tasks -> [cache : ClientOrNone, due : Nat]]
    BY <1>9, <2>2 DEF AddBlock
  <2> QED
    BY <1>9, <2>1, <2>3 DEF AddBlock
<1>10. ASSUME NEW t \in Tasks, Release(t) PROVE TypeInv'
  BY <1>10, DropProperties DEF Release
<1>11. ASSUME NEW t \in Tasks, Return(t) PROVE TypeInv'
  BY <1>11 DEF Return
<1>12. ASSUME NEW t \in Tasks, GetData(t) PROVE TypeInv'
  <2>1. msg' \in [Tasks -> Messages] /\ at' \in [Tasks -> Steps]
    <3> HIDE DEF TypeInv, Goes, Returns
    <3>1. UNCHANGED msg \/ \E m \in Messages : Returns(t, m)
      BY <1>12, GetDataProperties
    <3>2. \E s \in Steps : Goes(t, s)
      BY <1>12, GetDataProperties
    <3> QED
      BY <3>1, <3>2, ReturnsMessage, GoesToStep DEF TypeInv
  <2> QED
    BY <1>12, <2>1, GetDataProperties
<1>13. ASSUME NEW t \in Tasks, Copy(t) PROVE TypeInv'
  <2>1. msg' \in [Tasks -> Messages] /\ at' \in [Tasks -> Steps]
    <3> HIDE DEF TypeInv, Goes, Returns
    <3>1. UNCHANGED msg \/ \E m \in Messages : Returns(t, m)
      BY <1>13, CopyProperties
    <3>2. \E s \in Steps : Goes(t, s)
      BY <1>13, CopyProperties
    <3> QED
      BY <3>1, <3>2, ReturnsMessage, GoesToStep DEF TypeInv
  <2> QED
    BY <1>13, <2>1, CopyProperties
<1>14. ASSUME NEW c \in Clients, EvictBegin(c) PROVE TypeInv'
  BY <1>14 DEF EvictBegin, Expired, InCache
<1>15. ASSUME NEW c \in Clients, EvictEnd(c) PROVE TypeInv'
  BY <1>15 DEF EvictEnd, IsLocked, NoBlock
<1>16. ASSUME NEW c \in Clients, Flush(c) PROVE TypeInv'
  BY <1>16 DEF Flush, InCache
<1>17. ASSUME NEW c \in Clients, ResetCache(c) PROVE TypeInv'
  BY <1>17 DEF ResetCache
<1>18. ASSUME NEW c \in Clients, NEW f \in Tasks, EvictOne(c, f) PROVE TypeInv'
  <2>1. todo' \in [Clients -> SUBSET Tasks]
    BY <1>18 DEF EvictOne
  <2>2. doomed' \in [Clients -> SUBSET Tasks]
    <3>1. doomed \in [Clients -> SUBSET Tasks]
      OBVIOUS
    <3>2. doomed' = doomed \/ doomed' = [doomed EXCEPT ![c] = @ \cup {f}]
      BY <1>18 DEF EvictOne
    <3> HIDE DEF TypeInv
    <3> QED
      BY <3>1, <3>2
  <2>3. store' \in [Tasks -> {"absent", "stored", "deleted"}]
    BY <1>18 DEF EvictOne, DeleteObject
  <2>4. undeleted' \subseteq Tasks
    <3>1. undeleted \subseteq Tasks
      OBVIOUS
    <3>2. undeleted' = undeleted \/ undeleted' = undeleted \cup {f}
      BY <1>18 DEF EvictOne, DeleteObject
    <3> HIDE DEF TypeInv
    <3> QED
      BY <3>1, <3>2
  <2> QED
    BY <1>18, <2>1, <2>2, <2>3, <2>4 DEF EvictOne
<1>19. CASE ShutDown
  BY <1>19 DEF ShutDown
<1>20. CASE ClearFactory
  BY <1>20, DropProperties DEF ClearFactory
<1>21. CASE Tick
  <2>1. clock' \in Nat
    <3>1. clock \in Nat /\ clock' = clock + 1
      BY <1>21 DEF Tick
    <3> HIDE DEF TypeInv
    <3> QED
      BY <3>1
  <2> QED
    BY <1>21, <2>1 DEF Tick
<1>22. CASE UNCHANGED vars
  BY <1>22 DEF vars
<1> QED
  BY <1>1, <1>2, <1>3, <1>4, <1>5, <1>6, <1>7, <1>8, <1>9, <1>10, <1>11,
     <1>12, <1>13, <1>14, <1>15, <1>16, <1>17, <1>18, <1>19, <1>20, <1>21,
     <1>22
  DEF Next, Task, Cache

(* Only a client that nobody can reach any more begins to die with a        *)
(* shared_ptr, and nobody reaches a client that was out of reach.           *)
LEMMA DroppingProperties ==
  ASSUME TypeInv,
         \/ \E t \in Tasks : ConnectFails(t) \/ Register(t) \/ Release(t)
         \/ ClearFactory
  PROVE  /\ \A d \in Clients :
              \/ client'[d] = client[d] /\ closer'[d] = closer[d]
              \/ client[d] = "alive" /\ client'[d] = "closing" /\ ~IsReachable(d)'
         /\ \A d \in Clients : IsReachable(d)' => IsReachable(d)
         /\ \A u \in Tasks : at[u] \in {"put", "add"} =>
              at'[u] = at[u] /\ held'[u] = held[u]
         /\ UNCHANGED <<plan, cacheVars, storeVars, broken, clock>>
<1> USE DEF Goes, IsReachable, shutVars
<1>t. /\ held \in [Tasks -> ClientOrNone] /\ registered \in ClientOrNone
      /\ at \in [Tasks -> Steps] /\ None \notin Clients /\ None \in ClientOrNone
  BY TaskAssumption DEF TypeInv, ClientOrNone
<1>1. ASSUME NEW t \in Tasks, ConnectFails(t) \/ Release(t)
      PROVE  /\ \A d \in Clients :
                  \/ client'[d] = client[d] /\ closer'[d] = closer[d]
                  \/ /\ client[d] = "alive" /\ client'[d] = "closing"
                     /\ ~IsReachable(d)'
             /\ \A d \in Clients : IsReachable(d)' => IsReachable(d)
             /\ \A u \in Tasks : at[u] \in {"put", "add"} =>
                  at'[u] = at[u] /\ held'[u] = held[u]
             /\ UNCHANGED <<plan, cacheVars, storeVars, broken, clock>>
  <2>1. /\ held' = [held EXCEPT ![t] = None] /\ UNCHANGED registered
        /\ DropClient(held[t], t, HeldByOthers(t), registered)
        /\ at[t] \notin {"put", "add"} /\ \E s \in Steps : Goes(t, s)
        /\ UNCHANGED <<plan, cacheVars, storeVars, broken, clock>>
    BY <1>1 DEF ConnectFails, Release, IsConnecting, Connected, Steps
  <2>2. \A d \in Clients :
          \/ client'[d] = client[d] /\ closer'[d] = closer[d]
          \/ /\ d = held[t] /\ d # registered /\ d \notin HeldByOthers(t)
             /\ client[d] = "alive" /\ client'[d] = "closing"
    BY <2>1, <1>t, DropProperties
  <2> QED
    BY <2>1, <2>2, <1>t DEF HeldByOthers
<1>2. ASSUME NEW t \in Tasks, Register(t)
      PROVE  /\ \A d \in Clients :
                  \/ client'[d] = client[d] /\ closer'[d] = closer[d]
                  \/ /\ client[d] = "alive" /\ client'[d] = "closing"
                     /\ ~IsReachable(d)'
             /\ \A d \in Clients : IsReachable(d)' => IsReachable(d)
             /\ \A u \in Tasks : at[u] \in {"put", "add"} =>
                  at'[u] = at[u] /\ held'[u] = held[u]
             /\ UNCHANGED <<plan, cacheVars, storeVars, broken, clock>>
  <2>1. /\ registered' = held[t] /\ UNCHANGED held
        /\ DropClient(registered, t, {held[u] : u \in Tasks}, held[t])
        /\ at[t] \notin {"put", "add"} /\ \E s \in Steps : Goes(t, s)
        /\ UNCHANGED <<plan, cacheVars, storeVars, broken, clock>>
    BY <1>2 DEF Register, IsConnecting, Connected, Steps
  <2>2. \A d \in Clients :
          \/ client'[d] = client[d] /\ closer'[d] = closer[d]
          \/ /\ d = registered /\ d # held[t] /\ d \notin {held[u] : u \in Tasks}
             /\ client[d] = "alive" /\ client'[d] = "closing"
    BY <2>1, <1>t, DropProperties
  <2> QED
    BY <2>1, <2>2, <1>t
<1>3. CASE ClearFactory
  <2>1. /\ registered' = None /\ UNCHANGED <<at, held>>
        /\ DropClient(registered, "factory", {held[u] : u \in Tasks}, None)
        /\ UNCHANGED <<plan, cacheVars, storeVars, broken, clock>>
    BY <1>3 DEF ClearFactory, taskVars
  <2>2. \A d \in Clients :
          \/ client'[d] = client[d] /\ closer'[d] = closer[d]
          \/ /\ d = registered /\ d \notin {held[u] : u \in Tasks}
             /\ client[d] = "alive" /\ client'[d] = "closing"
    BY <2>1, <1>t, DropProperties
  <2> QED
    BY <2>1, <2>2, <1>t
<1> QED
  BY <1>1, <1>2, <1>3

(* A cache that was used after its end is not repaired.                     *)
LEMMA BrokenStays == [Next]_vars /\ ~broken' => ~broken
<1> SUFFICES ASSUME [Next]_vars, broken PROVE broken'
  OBVIOUS
<1> USE DEF clientVars, cacheVars, storeVars, shutVars
<1>1. ASSUME NEW t \in Tasks, Begin(t) PROVE broken'
  BY <1>1 DEF Begin
<1>2. ASSUME NEW t \in Tasks, FindClient(t) PROVE broken'
  BY <1>2 DEF FindClient, WantsClient, WithClient
<1>3. ASSUME NEW t \in Tasks, CreateClient(t) PROVE broken'
  BY <1>3 DEF CreateClient, WantsClient
<1>4. ASSUME NEW t \in Tasks, ConnectFails(t) PROVE broken'
  BY <1>4 DEF ConnectFails, IsConnecting, Connected, DropClient, HeldByOthers
<1>5. ASSUME NEW t \in Tasks, Register(t) PROVE broken'
  BY <1>5 DEF Register, IsConnecting, Connected, DropClient
<1>6. ASSUME NEW t \in Tasks, ChooseStorage(t) PROVE broken'
  BY <1>6 DEF ChooseStorage
<1>7. ASSUME NEW t \in Tasks, Put(t) PROVE broken'
  BY <1>7 DEF Put
<1>8. ASSUME NEW t \in Tasks, PutFails(t) PROVE broken'
  BY <1>8 DEF PutFails, Nothing
<1>9. ASSUME NEW t \in Tasks, AddBlock(t) PROVE broken'
  BY <1>9 DEF AddBlock, Token, IsLocked
<1>10. ASSUME NEW t \in Tasks, Release(t) PROVE broken'
  BY <1>10 DEF Release, DropClient, HeldByOthers
<1>11. ASSUME NEW t \in Tasks, Return(t) PROVE broken'
  BY <1>11 DEF Return
<1>12. ASSUME NEW t \in Tasks, GetData(t) PROVE broken'
  BY <1>12 DEF GetData, Nothing
<1>13. ASSUME NEW t \in Tasks, Copy(t) PROVE broken'
  BY <1>13 DEF Copy, Pixels
<1>14. ASSUME NEW c \in Clients, EvictBegin(c) PROVE broken'
  BY <1>14 DEF EvictBegin, Expired, InCache
<1>15. ASSUME NEW c \in Clients, EvictEnd(c) PROVE broken'
  BY <1>15 DEF EvictEnd, IsLocked, NoBlock
<1>16. ASSUME NEW c \in Clients, Flush(c) PROVE broken'
  BY <1>16 DEF Flush, InCache
<1>17. ASSUME NEW c \in Clients, ResetCache(c) PROVE broken'
  BY <1>17 DEF ResetCache
<1>18. ASSUME NEW c \in Clients, NEW f \in Tasks, EvictOne(c, f) PROVE broken'
  BY <1>18 DEF EvictOne
<1>19. CASE ShutDown
  BY <1>19 DEF ShutDown
<1>20. CASE ClearFactory
  BY <1>20 DEF ClearFactory, DropClient
<1>21. CASE Tick
  BY <1>21 DEF Tick
<1>22. CASE UNCHANGED vars
  BY <1>22 DEF vars
<1> QED
  BY <1>1, <1>2, <1>3, <1>4, <1>5, <1>6, <1>7, <1>8, <1>9, <1>10, <1>11,
     <1>12, <1>13, <1>14, <1>15, <1>16, <1>17, <1>18, <1>19, <1>20, <1>21,
     <1>22
  DEF Next, Task, Cache

(* No step leaves a reachable client without its cache.                     *)
LEMMA ClientStep ==
  TypeInv /\ (~broken => ClientInv /\ EvictionInv) /\ [Next]_vars /\ ~broken'
    => ClientInv'
<1> SUFFICES ASSUME TypeInv, ClientInv, EvictionInv, [Next]_vars, ~broken'
             PROVE  ClientInv'
  BY BrokenStays
<1> USE DEF ClientInv, IsReachable, taskVars, clientVars, cacheVars, storeVars,
            shutVars
<1>t. /\ held \in [Tasks -> ClientOrNone] /\ registered \in ClientOrNone
      /\ client \in [Clients -> {"none", "alive", "closing", "dead"}]
      /\ closer \in [Clients -> Tasks \cup {None, "factory", "shutdown"}]
      /\ None \notin Clients
  BY TaskAssumption DEF TypeInv
<1>1. ASSUME NEW t \in Tasks, Begin(t) PROVE ClientInv'
  BY <1>1, <1>t DEF Begin
<1>2. ASSUME NEW t \in Tasks, FindClient(t) PROVE ClientInv'
  BY <1>2, <1>t DEF FindClient, WantsClient, WithClient
<1>3. ASSUME NEW t \in Tasks, CreateClient(t) PROVE ClientInv'
  BY <1>3, <1>t DEF CreateClient, Clients
<1>4. ASSUME NEW t \in Tasks, ConnectFails(t) PROVE ClientInv'
  BY <1>4, <1>t, DroppingProperties
<1>5. ASSUME NEW t \in Tasks, Register(t) PROVE ClientInv'
  BY <1>5, <1>t, DroppingProperties
<1>6. ASSUME NEW t \in Tasks, ChooseStorage(t) PROVE ClientInv'
  BY <1>6, <1>t DEF ChooseStorage
<1>7. ASSUME NEW t \in Tasks, Put(t) PROVE ClientInv'
  BY <1>7, <1>t DEF Put
<1>8. ASSUME NEW t \in Tasks, PutFails(t) PROVE ClientInv'
  BY <1>8, <1>t DEF PutFails, Nothing
<1>9. ASSUME NEW t \in Tasks, AddBlock(t) PROVE ClientInv'
  BY <1>9, <1>t DEF AddBlock, Token, IsLocked
<1>10. ASSUME NEW t \in Tasks, Release(t) PROVE ClientInv'
  BY <1>10, <1>t, DroppingProperties
<1>11. ASSUME NEW t \in Tasks, Return(t) PROVE ClientInv'
  BY <1>11, <1>t DEF Return
<1>12. ASSUME NEW t \in Tasks, GetData(t) PROVE ClientInv'
  BY <1>12, <1>t DEF GetData, Nothing
<1>13. ASSUME NEW t \in Tasks, Copy(t) PROVE ClientInv'
  BY <1>13, <1>t DEF Copy, Pixels
<1>14. ASSUME NEW c \in Clients, EvictBegin(c) PROVE ClientInv'
  BY <1>14, <1>t DEF EvictBegin, Expired, InCache
<1>15. ASSUME NEW c \in Clients, EvictEnd(c) PROVE ClientInv'
  BY <1>15, <1>t DEF EvictEnd, IsLocked, EvictionInv
<1>16. ASSUME NEW c \in Clients, Flush(c) PROVE ClientInv'
  BY <1>16, <1>t DEF Flush, InCache
<1>17. ASSUME NEW c \in Clients, ResetCache(c) PROVE ClientInv'
  BY <1>17, <1>t DEF ResetCache
<1>18. ASSUME NEW c \in Clients, NEW f \in Tasks, EvictOne(c, f) PROVE ClientInv'
  BY <1>18, <1>t DEF EvictOne
<1>19. CASE ShutDown
  BY <1>19, <1>t DEF ShutDown
<1>20. CASE ClearFactory
  BY <1>20, <1>t, DroppingProperties
<1>21. CASE Tick
  BY <1>21, <1>t DEF Tick
<1>22. CASE UNCHANGED vars
  BY <1>22, <1>t DEF vars
<1> QED
  BY <1>1, <1>2, <1>3, <1>4, <1>5, <1>6, <1>7, <1>8, <1>9, <1>10, <1>11,
     <1>12, <1>13, <1>14, <1>15, <1>16, <1>17, <1>18, <1>19, <1>20, <1>21,
     <1>22
  DEF Next, Task, Cache

(* No step gives a block away before it was put.                            *)
LEMMA BlockStep == TypeInv /\ BlockInv /\ [Next]_vars => BlockInv'
<1> SUFFICES ASSUME TypeInv, BlockInv, [Next]_vars PROVE BlockInv'
  OBVIOUS
<1> USE DEF BlockInv, Goes, taskVars, clientVars, cacheVars, storeVars, shutVars
<1>t. /\ at \in [Tasks -> Steps] /\ held \in [Tasks -> ClientOrNone]
      /\ todo \in [Clients -> SUBSET Tasks]
      /\ block \in [Tasks -> [cache : ClientOrNone, due : Nat]]
      /\ store \in [Tasks -> {"absent", "stored", "deleted"}]
      /\ None \notin Clients
  BY TaskAssumption DEF TypeInv
<1>1. ASSUME NEW t \in Tasks, Begin(t) PROVE BlockInv'
  <2>1. /\ at[t] = "idle" /\ \E s \in {"choose", "read", "done"} : Goes(t, s)
        /\ UNCHANGED <<plan, held, clientVars, cacheVars, storeVars, shutVars,
                       clock>>
    BY <1>1, BeginProperties
  <2> QED
    BY <2>1, <1>t
<1>2. ASSUME NEW t \in Tasks, FindClient(t) PROVE BlockInv'
  BY <1>2, <1>t DEF FindClient, WantsClient, WithClient
<1>3. ASSUME NEW t \in Tasks, CreateClient(t) PROVE BlockInv'
  BY <1>3, <1>t DEF CreateClient, WantsClient
<1>4. ASSUME NEW t \in Tasks, ConnectFails(t) PROVE BlockInv'
  BY <1>4, <1>t DEF ConnectFails, IsConnecting, Connected
<1>5. ASSUME NEW t \in Tasks, Register(t) PROVE BlockInv'
  BY <1>5, <1>t DEF Register, IsConnecting, Connected
<1>6. ASSUME NEW t \in Tasks, ChooseStorage(t) PROVE BlockInv'
  BY <1>6, <1>t, ChooseProperties
<1>7. ASSUME NEW t \in Tasks, Put(t) PROVE BlockInv'
  BY <1>7, <1>t DEF Put
<1>8. ASSUME NEW t \in Tasks, PutFails(t) PROVE BlockInv'
  BY <1>8, <1>t DEF PutFails, Nothing
<1>9. ASSUME NEW t \in Tasks, AddBlock(t) PROVE BlockInv'
  BY <1>9, <1>t DEF AddBlock, Token, IsLocked
<1>10. ASSUME NEW t \in Tasks, Release(t) PROVE BlockInv'
  BY <1>10, <1>t DEF Release
<1>11. ASSUME NEW t \in Tasks, Return(t) PROVE BlockInv'
  BY <1>11, <1>t DEF Return
<1>12. ASSUME NEW t \in Tasks, GetData(t) PROVE BlockInv'
  BY <1>12, <1>t, GetDataProperties
<1>13. ASSUME NEW t \in Tasks, Copy(t) PROVE BlockInv'
  BY <1>13, <1>t, CopyProperties
<1>14. ASSUME NEW c \in Clients, EvictBegin(c) PROVE BlockInv'
  <2>1. \A f \in Expired(c) : f \in Tasks /\ block[f].cache # None
    BY <1>t DEF Expired, InCache
  <2>2. todo' = [todo EXCEPT ![c] = Expired(c)] /\ UNCHANGED <<at, held, block,
                                                               store>>
    BY <1>14 DEF EvictBegin
  <2> QED
    BY <2>1, <2>2, <1>t
<1>15. ASSUME NEW c \in Clients, EvictEnd(c) PROVE BlockInv'
  BY <1>15, <1>t DEF EvictEnd, IsLocked, NoBlock
<1>16. ASSUME NEW c \in Clients, Flush(c) PROVE BlockInv'
  <2>1. \A f \in InCache(c) : f \in Tasks /\ block[f].cache # None
    BY <1>t DEF InCache
  <2>2. todo' = [todo EXCEPT ![c] = InCache(c)] /\ UNCHANGED <<at, held, block,
                                                               store>>
    BY <1>16 DEF Flush
  <2> QED
    BY <2>1, <2>2, <1>t
<1>17. ASSUME NEW c \in Clients, ResetCache(c) PROVE BlockInv'
  BY <1>17, <1>t DEF ResetCache
<1>18. ASSUME NEW c \in Clients, NEW f \in Tasks, EvictOne(c, f) PROVE BlockInv'
  BY <1>18, <1>t DEF EvictOne, DeleteObject
<1>19. CASE ShutDown
  BY <1>19, <1>t DEF ShutDown
<1>20. CASE ClearFactory
  BY <1>20, <1>t DEF ClearFactory
<1>21. CASE Tick
  BY <1>21, <1>t DEF Tick
<1>22. CASE UNCHANGED vars
  BY <1>22, <1>t DEF vars
<1> QED
  BY <1>1, <1>2, <1>3, <1>4, <1>5, <1>6, <1>7, <1>8, <1>9, <1>10, <1>11,
     <1>12, <1>13, <1>14, <1>15, <1>16, <1>17, <1>18, <1>19, <1>20, <1>21,
     <1>22
  DEF Next, Task, Cache

(* No step erases from a cache what the store still has, and a cache that   *)
(* ends forgets nothing.                                                    *)
LEMMA EvictionStep ==
  TypeInv /\ BlockInv /\ (~broken => ClientInv /\ EvictionInv) /\ [Next]_vars
  /\ ~broken'
    => EvictionInv'
<1> SUFFICES ASSUME TypeInv, BlockInv, EvictionInv, [Next]_vars, ~broken'
             PROVE  EvictionInv'
  BY BrokenStays
<1> USE DEF EvictionInv, IsAbandoned, taskVars, clientVars, cacheVars, storeVars, shutVars
<1>t. /\ at \in [Tasks -> Steps] /\ held \in [Tasks -> ClientOrNone]
      /\ client \in [Clients -> {"none", "alive", "closing", "dead"}]
      /\ evictor \in [Clients -> {"off", "asleep", "evicting", "flushing"}]
      /\ todo \in [Clients -> SUBSET Tasks] /\ doomed \in [Clients -> SUBSET Tasks]
      /\ block \in [Tasks -> [cache : ClientOrNone, due : Nat]]
      /\ store \in [Tasks -> {"absent", "stored", "deleted"}]
      /\ None \notin Clients
  BY TaskAssumption DEF TypeInv
<1>1. ASSUME NEW t \in Tasks, Begin(t) PROVE EvictionInv'
  <2>1. /\ at[t] = "idle" /\ \E s \in {"choose", "read", "done"} : Goes(t, s)
        /\ UNCHANGED <<plan, held, clientVars, cacheVars, storeVars, shutVars,
                       clock>>
    BY <1>1, BeginProperties
  <2> QED
    BY <2>1, <1>t
<1>2. ASSUME NEW t \in Tasks, FindClient(t) PROVE EvictionInv'
  BY <1>2, <1>t DEF FindClient, WantsClient, WithClient
<1>3. ASSUME NEW t \in Tasks, CreateClient(t) PROVE EvictionInv'
  BY <1>3, <1>t DEF CreateClient, Clients
<1>4. ASSUME NEW t \in Tasks, ConnectFails(t) PROVE EvictionInv'
  BY <1>4, <1>t, DroppingProperties
<1>5. ASSUME NEW t \in Tasks, Register(t) PROVE EvictionInv'
  BY <1>5, <1>t, DroppingProperties
<1>6. ASSUME NEW t \in Tasks, ChooseStorage(t) PROVE EvictionInv'
  BY <1>6, <1>t, ChooseProperties
<1>7. ASSUME NEW t \in Tasks, Put(t) PROVE EvictionInv'
  BY <1>7, <1>t DEF Put, BlockInv
<1>8. ASSUME NEW t \in Tasks, PutFails(t) PROVE EvictionInv'
  BY <1>8, <1>t DEF PutFails, Nothing
<1>9. ASSUME NEW t \in Tasks, AddBlock(t) PROVE EvictionInv'
  BY <1>9, <1>t DEF AddBlock, Token, IsLocked
<1>10. ASSUME NEW t \in Tasks, Release(t) PROVE EvictionInv'
  BY <1>10, <1>t, DroppingProperties
<1>11. ASSUME NEW t \in Tasks, Return(t) PROVE EvictionInv'
  BY <1>11, <1>t DEF Return
<1>12. ASSUME NEW t \in Tasks, GetData(t) PROVE EvictionInv'
  BY <1>12, <1>t, GetDataProperties
<1>13. ASSUME NEW t \in Tasks, Copy(t) PROVE EvictionInv'
  BY <1>13, <1>t, CopyProperties
<1>14. ASSUME NEW c \in Clients, EvictBegin(c) PROVE EvictionInv'
  BY <1>14, <1>t DEF EvictBegin, Expired, InCache
<1>15. ASSUME NEW c \in Clients, EvictEnd(c) PROVE EvictionInv'
  BY <1>15, <1>t DEF EvictEnd, IsLocked, NoBlock
<1>16. ASSUME NEW c \in Clients, Flush(c) PROVE EvictionInv'
  BY <1>16, <1>t DEF Flush, InCache
<1>17. ASSUME NEW c \in Clients, ResetCache(c) PROVE EvictionInv'
  BY <1>17, <1>t DEF ResetCache
<1>18. ASSUME NEW c \in Clients, NEW f \in Tasks, EvictOne(c, f) PROVE EvictionInv'
  BY <1>18, <1>t DEF EvictOne, DeleteObject
<1>19. CASE ShutDown
  BY <1>19, <1>t DEF ShutDown
<1>20. CASE ClearFactory
  BY <1>20, <1>t, DroppingProperties
<1>21. CASE Tick
  BY <1>21, <1>t DEF Tick
<1>22. CASE UNCHANGED vars
  BY <1>22, <1>t DEF vars
<1> QED
  BY <1>1, <1>2, <1>3, <1>4, <1>5, <1>6, <1>7, <1>8, <1>9, <1>10, <1>11,
     <1>12, <1>13, <1>14, <1>15, <1>16, <1>17, <1>18, <1>19, <1>20, <1>21,
     <1>22
  DEF Next, Task, Cache

(* So no step loses a block.                                                *)
LEMMA LostStep ==
  TypeInv /\ BlockInv /\ (~broken => ClientInv /\ EvictionInv) /\ NoBlockIsLost
  /\ [Next]_vars
    => NoBlockIsLost'
<1> SUFFICES ASSUME TypeInv, BlockInv, ClientInv, EvictionInv, ~broken,
                    NoBlockIsLost, [Next]_vars, ~broken'
             PROVE  NoBlockIsLost'
  BY BrokenStays DEF NoBlockIsLost
<1> USE DEF NoBlockIsLost, IsAbandoned, Goes, taskVars, clientVars, cacheVars,
            storeVars, shutVars
<1>t. /\ at \in [Tasks -> Steps] /\ held \in [Tasks -> ClientOrNone]
      /\ client \in [Clients -> {"none", "alive", "closing", "dead"}]
      /\ evictor \in [Clients -> {"off", "asleep", "evicting", "flushing"}]
      /\ todo \in [Clients -> SUBSET Tasks] /\ doomed \in [Clients -> SUBSET Tasks]
      /\ block \in [Tasks -> [cache : ClientOrNone, due : Nat]]
      /\ store \in [Tasks -> {"absent", "stored", "deleted"}]
      /\ None \notin Clients
  BY TaskAssumption DEF TypeInv
<1>1. ASSUME NEW t \in Tasks, Begin(t) PROVE NoBlockIsLost'
  <2>1. /\ at[t] = "idle" /\ \E s \in {"choose", "read", "done"} : Goes(t, s)
        /\ UNCHANGED <<plan, held, clientVars, cacheVars, storeVars, shutVars,
                       clock>>
    BY <1>1, BeginProperties
  <2> QED
    BY <2>1, <1>t
<1>2. ASSUME NEW t \in Tasks, FindClient(t) PROVE NoBlockIsLost'
  BY <1>2, <1>t DEF FindClient, WantsClient, WithClient
<1>3. ASSUME NEW t \in Tasks, CreateClient(t) PROVE NoBlockIsLost'
  BY <1>3, <1>t DEF CreateClient, WantsClient, Clients, ClientOrNone
<1>4. ASSUME NEW t \in Tasks, ConnectFails(t) PROVE NoBlockIsLost'
  BY <1>4, <1>t, DroppingProperties DEF ClientOrNone
<1>5. ASSUME NEW t \in Tasks, Register(t) PROVE NoBlockIsLost'
  BY <1>5, <1>t, DroppingProperties DEF ClientOrNone
<1>6. ASSUME NEW t \in Tasks, ChooseStorage(t) PROVE NoBlockIsLost'
  BY <1>6, <1>t, ChooseProperties
<1>7. ASSUME NEW t \in Tasks, Put(t) PROVE NoBlockIsLost'
  BY <1>7, <1>t DEF Put, BlockInv
<1>8. ASSUME NEW t \in Tasks, PutFails(t) PROVE NoBlockIsLost'
  BY <1>8, <1>t DEF PutFails, Nothing
<1>9. ASSUME NEW t \in Tasks, AddBlock(t) PROVE NoBlockIsLost'
  BY <1>9, <1>t DEF AddBlock, BlockInv, ClientInv, IsReachable, ClientOrNone
<1>10. ASSUME NEW t \in Tasks, Release(t) PROVE NoBlockIsLost'
  BY <1>10, <1>t, DroppingProperties DEF ClientOrNone
<1>11. ASSUME NEW t \in Tasks, Return(t) PROVE NoBlockIsLost'
  BY <1>11, <1>t DEF Return
<1>12. ASSUME NEW t \in Tasks, GetData(t) PROVE NoBlockIsLost'
  BY <1>12, <1>t, GetDataProperties
<1>13. ASSUME NEW t \in Tasks, Copy(t) PROVE NoBlockIsLost'
  BY <1>13, <1>t, CopyProperties
<1>14. ASSUME NEW c \in Clients, EvictBegin(c) PROVE NoBlockIsLost'
  BY <1>14, <1>t DEF EvictBegin, Expired, InCache
<1>15. ASSUME NEW c \in Clients, EvictEnd(c) PROVE NoBlockIsLost'
  BY <1>15, <1>t
  DEF EvictEnd, IsLocked, EvictionInv, ClientInv, IsReachable, ClientOrNone, NoBlock
<1>16. ASSUME NEW c \in Clients, Flush(c) PROVE NoBlockIsLost'
  BY <1>16, <1>t DEF Flush, InCache
<1>17. ASSUME NEW c \in Clients, ResetCache(c) PROVE NoBlockIsLost'
  <2>1. /\ client' \in [Clients -> {"none", "alive", "closing", "dead"}]
        /\ \A d \in Clients :
             client[d] = "alive" => client'[d] \in {"alive", "closing"}
        /\ \A d \in Clients : client[d] = "closing" => client'[d] = "closing"
        /\ UNCHANGED <<plan, at, store, undeleted, block>>
    BY <1>17, <1>t DEF ResetCache
  <2>2. ASSUME NEW f \in Tasks \ Kept, store[f] = "stored", at[f] # "add",
               ~IsAbandoned(f)
        PROVE  /\ block[f].cache # None
               /\ client'[block[f].cache] \in {"alive", "closing"}
    <3>1. /\ block[f].cache # None
          /\ client[block[f].cache] \in {"alive", "closing"}
          /\ block[f].cache \in Clients
      BY <2>2, <1>t DEF ClientOrNone
    <3> QED
      BY <3>1, <2>1
  <2> QED
    BY <2>1, <2>2
<1>18. ASSUME NEW c \in Clients, NEW f \in Tasks, EvictOne(c, f)
       PROVE  NoBlockIsLost'
  BY <1>18, <1>t DEF EvictOne, DeleteObject
<1>19. CASE ShutDown
  BY <1>19, <1>t DEF ShutDown
<1>20. CASE ClearFactory
  BY <1>20, <1>t, DroppingProperties DEF ClientOrNone
<1>21. CASE Tick
  BY <1>21, <1>t DEF Tick
<1>22. CASE UNCHANGED vars
  BY <1>22, <1>t DEF vars
<1> QED
  BY <1>1, <1>2, <1>3, <1>4, <1>5, <1>6, <1>7, <1>8, <1>9, <1>10, <1>11,
     <1>12, <1>13, <1>14, <1>15, <1>16, <1>17, <1>18, <1>19, <1>20, <1>21,
     <1>22
  DEF Next, Task, Cache

(* The two clients a task may make are two.                                 *)
LEMMA CallsDiffer == ASSUME NEW t PROVE <<t, 1>> # <<t, 2>>
  OBVIOUS

(* A client that is dropped is out of reach, and dies.                      *)
LEMMA LifeStep == TypeInv /\ LifeInv /\ [Next]_vars => LifeInv'
<1> SUFFICES ASSUME TypeInv, LifeInv, [Next]_vars PROVE LifeInv'
  OBVIOUS
<1> USE DEF LifeInv, taskVars, clientVars, cacheVars, storeVars, shutVars
<1>t. /\ at \in [Tasks -> Steps] /\ held \in [Tasks -> ClientOrNone]
      /\ client \in [Clients -> {"none", "alive", "closing", "dead"}]
      /\ evictor \in [Clients -> {"off", "asleep", "evicting", "flushing"}]
      /\ registered \in ClientOrNone /\ down \in BOOLEAN /\ None \notin Clients
      /\ \A t \in Tasks, i \in {1, 2} : <<t, i>> \in Clients
  BY TaskAssumption DEF TypeInv, Clients
<1> DEFINE Early == {"idle", "choose", "connect to put", "chosen", "read"}
           GoesOn == \A t \in Tasks :
                       /\ at'[t] \in {"idle", "choose"} => at[t] \in {"idle", "choose"}
                       /\ at'[t] \in Early => at[t] \in Early
<1>g. ASSUME NEW t \in Tasks, NEW s, Goes(t, s),
             s \in {"idle", "choose"} => at[t] \in {"idle", "choose"},
             s \in Early => at[t] \in Early
      PROVE  GoesOn
  BY <1>g, <1>t DEF Goes
<1>k. ASSUME UNCHANGED <<held, registered, client, evictor, down>>, GoesOn
      PROVE  LifeInv'
  BY <1>k, <1>t DEF IsReachable
<1>d. ASSUME GoesOn, UNCHANGED <<evictor, down>>,
             \A d \in Clients :
               \/ client'[d] = client[d]
               \/ client[d] = "alive" /\ client'[d] = "closing" /\ ~IsReachable(d)',
             \A d \in Clients : IsReachable(d)' => IsReachable(d)
      PROVE  LifeInv'
  <2>1. \A d \in Clients : ~down' /\ IsReachable(d)' => client'[d] = "alive"
    BY <1>d
  <2>2. \A d \in Clients : ~down' /\ evictor'[d] = "flushing" => client'[d] = "closing"
    BY <1>d
  <2>3. \A d \in Clients : client[d] = "none" => client'[d] = "none"
    BY <1>d
  <2>4. \A t \in Tasks :
          ~down' /\ at'[t] \in {"idle", "choose"} => client'[<<t, 1>>] = "none"
    BY <1>d, <1>t, <2>3
  <2>5. \A t \in Tasks : ~down' /\ at'[t] \in Early => client'[<<t, 2>>] = "none"
    BY <1>d, <1>t, <2>3
  <2> QED
    BY <2>1, <2>2, <2>4, <2>5
<1> HIDE DEF GoesOn
<1>1. ASSUME NEW t \in Tasks, Begin(t) PROVE LifeInv'
  <2>1. /\ at[t] = "idle" /\ \E s \in {"choose", "read", "done"} : Goes(t, s)
        /\ UNCHANGED <<plan, held, clientVars, cacheVars, storeVars, shutVars,
                       clock>>
    BY <1>1, BeginProperties
  <2> QED
    BY <2>1, <1>g, <1>k
<1>2. ASSUME NEW t \in Tasks, FindClient(t) PROVE LifeInv'
  <2>1. \/ at[t] = "choose" /\ Goes(t, "chosen")
        \/ at[t] = "read" /\ Goes(t, "get")
    BY <1>2 DEF FindClient, WantsClient, WithClient
  <2>2. /\ registered \in Clients /\ held' = [held EXCEPT ![t] = registered]
        /\ UNCHANGED <<registered, client, evictor, down>>
    BY <1>2, <1>t DEF FindClient, ClientOrNone
  <2>3. \A d \in Clients : IsReachable(d)' => IsReachable(d)
    BY <1>t, <2>2 DEF IsReachable
  <2>4. GoesOn
    BY <1>g, <2>1
  <2> QED
    BY <1>d, <2>2, <2>3, <2>4
<1>3. ASSUME NEW t \in Tasks, CreateClient(t) PROVE LifeInv'
  <2> SUFFICES ASSUME ~down' PROVE LifeInv'
    OBVIOUS
  <2> DEFINE new == <<t, IF client[<<t, 1>>] = "none" THEN 1 ELSE 2>>
  <2>1. /\ client' = [client EXCEPT ![new] = "alive"]
        /\ evictor' = [evictor EXCEPT ![new] = "asleep"]
        /\ held' = [held EXCEPT ![t] = new]
        /\ UNCHANGED <<registered, down>>
    BY <1>3 DEF CreateClient
  <2>2. new \in Clients /\ (at[t] = "choose" => new = <<t, 1>>)
    BY <1>t, <2>1
  <2>3. \/ at[t] = "choose" /\ Goes(t, "connect to put")
        \/ at[t] = "read" /\ Goes(t, "connect to read")
    BY <1>3 DEF CreateClient, WantsClient
  <2>4. \A u \in Tasks \ {t}, i \in {1, 2} : <<u, i>> # new
    OBVIOUS
  <2>5. <<t, 1>> # <<t, 2>>
    BY CallsDiffer
  <2> HIDE DEF new
  <2>6. \A c \in Clients : IsReachable(c)' => client'[c] = "alive"
    BY <1>t, <2>1, <2>2 DEF IsReachable
  <2>7. \A c \in Clients : evictor'[c] = "flushing" => client'[c] = "closing"
    BY <1>t, <2>1, <2>2
  <2>8. \A u \in Tasks : at'[u] \in {"idle", "choose"} => client'[<<u, 1>>] = "none"
    BY <1>t, <2>1, <2>2, <2>3, <2>4 DEF Goes
  <2>9. \A u \in Tasks : at'[u] \in Early => client'[<<u, 2>>] = "none"
    BY <1>t, <2>1, <2>2, <2>3, <2>4, <2>5 DEF Goes
  <2> QED
    BY <2>6, <2>7, <2>8, <2>9
<1>4. ASSUME NEW t \in Tasks, ConnectFails(t) PROVE LifeInv'
  <2>1. /\ \/ at[t] = "connect to put" /\ Goes(t, "chosen")
           \/ at[t] = "connect to read" /\ Goes(t, "get")
        /\ UNCHANGED <<evictor, down>>
    BY <1>4 DEF ConnectFails, IsConnecting, Connected
  <2>2. GoesOn
    BY <1>g, <2>1
  <2> QED
    BY <1>4, <1>d, <2>1, <2>2, DroppingProperties
<1>5. ASSUME NEW t \in Tasks, Register(t) PROVE LifeInv'
  <2>1. /\ \/ at[t] = "connect to put" /\ Goes(t, "chosen")
           \/ at[t] = "connect to read" /\ Goes(t, "get")
        /\ UNCHANGED <<evictor, down>>
    BY <1>5 DEF Register, IsConnecting, Connected
  <2>2. GoesOn
    BY <1>g, <2>1
  <2> QED
    BY <1>5, <1>d, <2>1, <2>2, DroppingProperties
<1>6. ASSUME NEW t \in Tasks, ChooseStorage(t) PROVE LifeInv'
  <2>1. GoesOn
    <3>1. at[t] = "chosen" /\ \E s \in {"read", "release", "put"} : Goes(t, s)
      BY <1>6, ChooseProperties
    <3> QED
      BY <1>g, <3>1
  <2> QED
    BY <1>6, <1>k, <2>1, ChooseProperties
<1>7. ASSUME NEW t \in Tasks, Put(t) PROVE LifeInv'
  BY <1>7, <1>g, <1>k DEF Put
<1>8. ASSUME NEW t \in Tasks, PutFails(t) PROVE LifeInv'
  BY <1>8, <1>g, <1>k DEF PutFails
<1>9. ASSUME NEW t \in Tasks, AddBlock(t) PROVE LifeInv'
  BY <1>9, <1>g, <1>k DEF AddBlock
<1>10. ASSUME NEW t \in Tasks, Release(t) PROVE LifeInv'
  <2>1. /\ \E s \in {"return", "copy"} : Goes(t, s)
        /\ UNCHANGED <<evictor, down>>
    BY <1>10 DEF Release
  <2>2. GoesOn
    BY <1>g, <2>1
  <2> QED
    BY <1>10, <1>d, <2>1, <2>2, DroppingProperties
<1>11. ASSUME NEW t \in Tasks, Return(t) PROVE LifeInv'
  BY <1>11, <1>g, <1>k DEF Return
<1>12. ASSUME NEW t \in Tasks, GetData(t) PROVE LifeInv'
  <2>1. GoesOn
    <3>1. \E s \in {"release", "release to copy"} : Goes(t, s)
      BY <1>12, GetDataProperties
    <3> QED
      BY <1>g, <3>1
  <2> QED
    BY <1>12, <1>k, <2>1, GetDataProperties
<1>13. ASSUME NEW t \in Tasks, Copy(t) PROVE LifeInv'
  <2>1. GoesOn
    BY <1>13, <1>g, CopyProperties
  <2> QED
    BY <1>13, <1>k, <2>1, CopyProperties
<1>14. ASSUME NEW c \in Clients, EvictBegin(c) PROVE LifeInv'
  BY <1>14, <1>t DEF EvictBegin, IsReachable
<1>15. ASSUME NEW c \in Clients, EvictEnd(c) PROVE LifeInv'
  BY <1>15, <1>t DEF EvictEnd, IsLocked, IsReachable
<1>16. ASSUME NEW c \in Clients, Flush(c) PROVE LifeInv'
  BY <1>16, <1>t DEF Flush, IsReachable
<1>17. ASSUME NEW c \in Clients, ResetCache(c) PROVE LifeInv'
  BY <1>17, <1>t DEF ResetCache
<1>18. ASSUME NEW c \in Clients, NEW f \in Tasks, EvictOne(c, f) PROVE LifeInv'
  BY <1>18, <1>t DEF EvictOne, IsReachable
<1>19. CASE ShutDown
  BY <1>19, <1>t DEF ShutDown
<1>20. CASE ClearFactory
  <2>1. GoesOn /\ UNCHANGED <<evictor, down>>
    BY <1>20 DEF ClearFactory, GoesOn
  <2> QED
    BY <1>20, <1>d, <2>1, DroppingProperties
<1>21. CASE Tick
  BY <1>21, <1>t DEF Tick, IsReachable
<1>22. CASE UNCHANGED vars
  BY <1>22, <1>t DEF vars, IsReachable
<1> QED
  BY <1>1, <1>2, <1>3, <1>4, <1>5, <1>6, <1>7, <1>8, <1>9, <1>10, <1>11,
     <1>12, <1>13, <1>14, <1>15, <1>16, <1>17, <1>18, <1>19, <1>20, <1>21,
     <1>22
  DEF Next, Task, Cache

(* A client that is lost stays lost, unless ROS shuts down.                 *)
LEMMA LostStays ==
  ASSUME TypeInv, LifeInv, [Next]_vars, HasLostClient
  PROVE  HasLostClient' \/ down'
<1> SUFFICES ASSUME ~down', NEW c \in Clients, client[c] \in {"closing", "dead"}
             PROVE  plan' = plan /\ client'[c] \in {"closing", "dead"}
  BY DEF HasLostClient
<1> DEFINE Stays == plan' = plan /\ client'[c] \in {"closing", "dead"}
<1> USE DEF taskVars, clientVars, cacheVars, storeVars, shutVars
<1>t. client \in [Clients -> {"none", "alive", "closing", "dead"}]
  BY DEF TypeInv
<1>u. ASSUME UNCHANGED <<plan, client>> PROVE Stays
  BY <1>u
<1>1. ASSUME NEW t \in Tasks, Begin(t) \/ ChooseStorage(t) \/ GetData(t) \/ Copy(t)
      PROVE  Stays
  BY <1>1, BeginProperties, ChooseProperties, GetDataProperties, CopyProperties
<1>2. ASSUME NEW t \in Tasks, FindClient(t) \/ Put(t) \/ PutFails(t)
      PROVE  Stays
  BY <1>2 DEF FindClient, Put, PutFails
<1>3. ASSUME NEW t \in Tasks, AddBlock(t) \/ Return(t) PROVE Stays
  BY <1>3 DEF AddBlock, Return
<1>4. ASSUME NEW t \in Tasks, CreateClient(t) PROVE Stays
  <2>1. /\ plan' = plan /\ down' = down
        /\ \E d : client[d] = "none" /\ client' = [client EXCEPT ![d] = "alive"]
    BY <1>4 DEF CreateClient, WantsClient, LifeInv
  <2> QED
    BY <2>1, <1>t
<1>5. ASSUME \/ \E t \in Tasks : ConnectFails(t) \/ Register(t) \/ Release(t)
             \/ ClearFactory
      PROVE  Stays
  BY <1>5, DroppingProperties
<1>6. ASSUME NEW d \in Clients, EvictEnd(d) PROVE Stays
  BY <1>6, <1>t DEF EvictEnd, LifeInv, IsLocked, IsReachable
<1>7. ASSUME NEW d \in Clients,
             EvictBegin(d) \/ Flush(d) \/ \E f \in Tasks : EvictOne(d, f)
      PROVE  Stays
  BY <1>7 DEF EvictBegin, Flush, EvictOne
<1>8. ASSUME NEW d \in Clients, ResetCache(d) PROVE Stays
  BY <1>8, <1>t DEF ResetCache
<1>9. ASSUME ShutDown \/ Tick \/ UNCHANGED vars PROVE Stays
  BY <1>9 DEF ShutDown, Tick, vars
<1> QED
  BY <1>1, <1>2, <1>3, <1>4, <1>5, <1>6, <1>7, <1>8, <1>9 DEF Next, Task, Cache

(* A client that is found in the factory at first is never replaced.        *)
LEMMA WarmStep == TypeInv /\ WarmInv /\ [Next]_vars => WarmInv'
<1> SUFFICES ASSUME TypeInv, WarmInv, [Next]_vars PROVE WarmInv'
  OBVIOUS
<1> USE DEF WarmInv, Goes, IsConnecting, taskVars, clientVars, cacheVars, storeVars,
            shutVars
<1>t. /\ at \in [Tasks -> Steps] /\ held \in [Tasks -> ClientOrNone]
      /\ client \in [Clients -> {"none", "alive", "closing", "dead"}]
      /\ evictor \in [Clients -> {"off", "asleep", "evicting", "flushing"}]
      /\ down \in BOOLEAN /\ First \in Clients /\ None \notin Clients
  BY TaskAssumption DEF TypeInv, Clients
<1>1. ASSUME NEW t \in Tasks, Begin(t) PROVE WarmInv'
  <2>1. /\ at[t] = "idle" /\ \E s \in {"choose", "read", "done"} : Goes(t, s)
        /\ UNCHANGED <<plan, held, clientVars, cacheVars, storeVars, shutVars,
                       clock>>
    BY <1>1, BeginProperties
  <2> QED
    BY <2>1, <1>t
<1>2. ASSUME NEW t \in Tasks, FindClient(t) PROVE WarmInv'
  BY <1>2, <1>t DEF FindClient, WantsClient, WithClient
<1>3. ASSUME NEW t \in Tasks, CreateClient(t) PROVE WarmInv'
  BY <1>3, <1>t DEF CreateClient, WantsClient
<1>4. ASSUME NEW t \in Tasks, ConnectFails(t) PROVE WarmInv'
  BY <1>4, <1>t DEF ConnectFails
<1>5. ASSUME NEW t \in Tasks, Register(t) PROVE WarmInv'
  BY <1>5, <1>t DEF Register
<1>6. ASSUME NEW t \in Tasks, ChooseStorage(t) PROVE WarmInv'
  BY <1>6, <1>t, ChooseProperties
<1>7. ASSUME NEW t \in Tasks, Put(t) PROVE WarmInv'
  BY <1>7, <1>t DEF Put
<1>8. ASSUME NEW t \in Tasks, PutFails(t) PROVE WarmInv'
  BY <1>8, <1>t DEF PutFails, Nothing
<1>9. ASSUME NEW t \in Tasks, AddBlock(t) PROVE WarmInv'
  BY <1>9, <1>t DEF AddBlock, Token, IsLocked
<1>10. ASSUME NEW t \in Tasks, Release(t) PROVE WarmInv'
  <2>1. /\ \E s \in {"return", "copy"} : Goes(t, s)
        /\ UNCHANGED <<plan, registered, evictor, down>>
    BY <1>10 DEF Release
  <2>2. ASSUME NEW d \in Clients, plan \in Warm, ~down PROVE client'[d] = client[d]
    <3>1. ~(client[d] = "alive" /\ client'[d] = "closing" /\ ~IsReachable(d)')
      BY <2>1, <2>2 DEF IsReachable
    <3> QED
      BY <3>1, <1>10, DroppingProperties
  <2> QED
    BY <2>1, <2>2, <1>t
<1>11. ASSUME NEW t \in Tasks, Return(t) PROVE WarmInv'
  BY <1>11, <1>t DEF Return
<1>12. ASSUME NEW t \in Tasks, GetData(t) PROVE WarmInv'
  BY <1>12, <1>t, GetDataProperties
<1>13. ASSUME NEW t \in Tasks, Copy(t) PROVE WarmInv'
  BY <1>13, <1>t, CopyProperties
<1>14. ASSUME NEW c \in Clients, EvictBegin(c) PROVE WarmInv'
  BY <1>14, <1>t DEF EvictBegin, Expired, InCache
<1>15. ASSUME NEW c \in Clients, EvictEnd(c) PROVE WarmInv'
  BY <1>15, <1>t DEF EvictEnd, IsLocked, NoBlock
<1>16. ASSUME NEW c \in Clients, Flush(c) PROVE WarmInv'
  BY <1>16, <1>t DEF Flush, InCache
<1>17. ASSUME NEW c \in Clients, ResetCache(c) PROVE WarmInv'
  BY <1>17, <1>t DEF ResetCache
<1>18. ASSUME NEW c \in Clients, NEW f \in Tasks, EvictOne(c, f) PROVE WarmInv'
  BY <1>18, <1>t DEF EvictOne
<1>19. CASE ShutDown
  BY <1>19, <1>t DEF ShutDown
<1>20. CASE ClearFactory
  BY <1>20, <1>t DEF ClearFactory
<1>21. CASE Tick
  BY <1>21, <1>t DEF Tick
<1>22. CASE UNCHANGED vars
  BY <1>22, <1>t DEF vars
<1> QED
  BY <1>1, <1>2, <1>3, <1>4, <1>5, <1>6, <1>7, <1>8, <1>9, <1>10, <1>11,
     <1>12, <1>13, <1>14, <1>15, <1>16, <1>17, <1>18, <1>19, <1>20, <1>21,
     <1>22
  DEF Next, Task, Cache

(* Then no block is deleted, and no memory used again, before its time.     *)
LEMMA DueStep ==
  TypeInv /\ BlockInv /\ LifeInv /\ WarmInv /\ DueInv /\ [Next]_vars => DueInv'
<1> SUFFICES ASSUME TypeInv, BlockInv, LifeInv, WarmInv, DueInv, [Next]_vars
             PROVE  DueInv'
  OBVIOUS
<1> USE DEF DueInv, Outlived, taskVars, clientVars, cacheVars, storeVars, shutVars
<1>t. /\ at \in [Tasks -> Steps] /\ reused \subseteq Tasks
      /\ todo \in [Clients -> SUBSET Tasks]
      /\ block \in [Tasks -> [cache : ClientOrNone, due : Nat]]
      /\ store \in [Tasks -> {"absent", "stored", "deleted"}]
      /\ putAt \in [Tasks -> Nat] /\ clock \in Nat /\ Alive \in Nat
      /\ None \notin Clients
  BY TaskAssumption DEF TypeInv
<1>o. HasLostClient => HasLostClient' \/ down'
  BY LostStays
<1>1. ASSUME NEW t \in Tasks, Begin(t) PROVE DueInv'
  <2>1. /\ at[t] = "idle" /\ \E s \in {"choose", "read", "done"} : Goes(t, s)
        /\ UNCHANGED <<plan, held, clientVars, cacheVars, storeVars, shutVars,
                       clock>>
    BY <1>1, BeginProperties
  <2> QED
    BY <2>1, <1>t, <1>o
<1>2. ASSUME NEW t \in Tasks, FindClient(t) PROVE DueInv'
  BY <1>2, <1>t, <1>o DEF FindClient, WantsClient, WithClient
<1>3. ASSUME NEW t \in Tasks, CreateClient(t) PROVE DueInv'
  BY <1>3, <1>t, <1>o DEF CreateClient, WantsClient
<1>4. ASSUME NEW t \in Tasks, ConnectFails(t) PROVE DueInv'
  BY <1>4, <1>t, <1>o DEF ConnectFails
<1>5. ASSUME NEW t \in Tasks, Register(t) PROVE DueInv'
  BY <1>5, <1>t, <1>o DEF Register
<1>6. ASSUME NEW t \in Tasks, ChooseStorage(t) PROVE DueInv'
  BY <1>6, <1>t, <1>o, ChooseProperties
<1>7. ASSUME NEW t \in Tasks, Put(t) PROVE DueInv'
  BY <1>7, <1>t, <1>o DEF Put, BlockInv
<1>8. ASSUME NEW t \in Tasks, PutFails(t) PROVE DueInv'
  BY <1>8, <1>t, <1>o DEF PutFails, Nothing
<1>9. ASSUME NEW t \in Tasks, AddBlock(t) PROVE DueInv'
  BY <1>9, <1>t, <1>o DEF AddBlock, Token, IsLocked
<1>10. ASSUME NEW t \in Tasks, Release(t) PROVE DueInv'
  BY <1>10, <1>t, <1>o DEF Release
<1>11. ASSUME NEW t \in Tasks, Return(t) PROVE DueInv'
  BY <1>11, <1>t, <1>o DEF Return
<1>12. ASSUME NEW t \in Tasks, GetData(t) PROVE DueInv'
  <2>1. at[t] = "get" /\ \E s \in {"release", "release to copy"} : Goes(t, s)
    BY <1>12, GetDataProperties
  <2>2. UNCHANGED <<plan, held, clientVars, cacheVars, storeVars, shutVars, clock>>
    BY <1>12, GetDataProperties
  <2> QED
    BY <2>1, <2>2, <1>t, <1>o
<1>13. ASSUME NEW t \in Tasks, Copy(t) PROVE DueInv'
  BY <1>13, <1>t, <1>o, CopyProperties
<1>14. ASSUME NEW c \in Clients, EvictBegin(c) PROVE DueInv'
  BY <1>14, <1>t, <1>o DEF EvictBegin, Expired, InCache
<1>15. ASSUME NEW c \in Clients, EvictEnd(c) PROVE DueInv'
  BY <1>15, <1>t, <1>o DEF EvictEnd, IsLocked, NoBlock
<1>16. ASSUME NEW c \in Clients, Flush(c) PROVE DueInv'
  <2>1. ~down => HasLostClient
    BY <1>16, <1>t DEF Flush, WarmInv, HasLostClient
  <2>2. Flush(c) => UNCHANGED <<block, store, reused, putAt, clock, down>>
    BY DEF Flush
  <2> QED
    BY <1>16, <1>t, <1>o, <2>1, <2>2 DEF Flush, InCache
<1>17. ASSUME NEW c \in Clients, ResetCache(c) PROVE DueInv'
  BY <1>17, <1>t, <1>o DEF ResetCache
<1>18. ASSUME NEW c \in Clients, NEW f \in Tasks, EvictOne(c, f) PROVE DueInv'
  BY <1>18, <1>t, <1>o DEF EvictOne, DeleteObject
<1>19. CASE ShutDown
  BY <1>19, <1>t, <1>o DEF ShutDown
<1>20. CASE ClearFactory
  BY <1>20, <1>t, <1>o DEF ClearFactory
<1>21. CASE Tick
  BY <1>21, <1>t, <1>o DEF Tick
<1>22. CASE UNCHANGED vars
  BY <1>22, <1>t, <1>o DEF vars
<1> QED
  BY <1>1, <1>2, <1>3, <1>4, <1>5, <1>6, <1>7, <1>8, <1>9, <1>10, <1>11,
     <1>12, <1>13, <1>14, <1>15, <1>16, <1>17, <1>18, <1>19, <1>20, <1>21,
     <1>22
  DEF Next, Task, Cache

(* A source whose message somebody has begun to read has returned it; no    *)
(* other step of a task touches what an extraction is measured by.          *)
LEMMA ExtractMoves ==
  ASSUME TypeInv, ExtractInv, UNCHANGED plan, reused \subseteq reused',
         NEW t \in Tasks, at[t] # "done",
         NEW m \in Messages, Returns(t, m), NEW s \in Steps \ {"idle"}, Goes(t, s),
         plan[t].source \in Tasks => at[plan[t].source] = "done",
         plan[t].job = "extract" =>
           s \notin {"choose", "connect to put", "chosen", "put", "add"},
         plan[t].job = "extract" /\ m.has = "pixels" =>
           m.of = SourceMsg(t).of \/ SourceMsg(t).of \in reused
  PROVE  ExtractInv'
<1>1. /\ msg'[t] = m /\ at'[t] = s
      /\ \A u \in Tasks \ {t} : msg'[u] = msg[u] /\ at'[u] = at[u]
  BY ReturnsMessage, GoesToStep
<1>2. ASSUME NEW u \in Tasks, at'[u] # "idle"
      PROVE  /\ plan[u].source \in Tasks => at'[plan[u].source] = "done"
             /\ SourceMsg(u)' = SourceMsg(u)
  <2>1. plan[u].source \in Tasks => at[plan[u].source] = "done"
    BY <1>1, <1>2 DEF ExtractInv
  <2>2. plan[u].source \in Tasks =>
          /\ at'[plan[u].source] = "done"
          /\ msg'[plan[u].source] = msg[plan[u].source]
    BY <1>1, <2>1
  <2>3. plan[u].source \in Tasks \cup {"mat", "empty"}
    BY PlanAssumption DEF TypeInv
  <2> QED
    BY <2>2, <2>3 DEF SourceMsg
<1>3. \A u \in Tasks : at'[u] = "idle" => msg'[u].has = "nothing"
  BY <1>1 DEF ExtractInv
<1>4. \A u \in Tasks : plan[u].job = "extract" =>
        at'[u] \notin {"choose", "connect to put", "chosen", "put", "add"}
  BY <1>1 DEF ExtractInv
<1>5. ASSUME NEW u \in Tasks, plan[u].job = "extract", msg'[u].has = "pixels"
      PROVE  msg'[u].of = SourceMsg(u)'.of \/ SourceMsg(u)'.of \in reused'
  <2>1. SourceMsg(u)' = SourceMsg(u)
    BY <1>2, <1>3, <1>5
  <2> QED
    BY <1>1, <1>5, <2>1 DEF ExtractInv
<1> QED
  BY <1>2, <1>3, <1>4, <1>5 DEF ExtractInv

(* No step changes what an extracted image is compared with.                *)
LEMMA ExtractStep ==
  TypeInv /\ ExtractInv /\ [Next]_vars => ExtractInv'
<1> SUFFICES ASSUME TypeInv, ExtractInv, [Next]_vars PROVE ExtractInv'
  OBVIOUS
<1> USE DEF clientVars, cacheVars, storeVars, shutVars
<1>t. ASSUME NEW t \in Tasks
      PROVE  /\ at[t] \in Steps /\ msg[t] \in Messages
             /\ UNCHANGED msg => Returns(t, msg[t])
  BY DEF TypeInv, Returns
<1>s. ASSUME NEW t \in Tasks, at[t] \notin {"idle", "done"},
             UNCHANGED <<plan, msg>>, reused \subseteq reused',
             NEW s \in Steps \ {"idle"}, Goes(t, s),
             plan[t].job = "extract" =>
               s \notin {"choose", "connect to put", "chosen", "put", "add"}
      PROVE  ExtractInv'
  BY <1>s, <1>t, ExtractMoves DEF ExtractInv
<1>r. ASSUME NEW t \in Tasks, at[t] \notin {"idle", "done"},
             UNCHANGED <<plan, reused>>, NEW m \in Messages, Returns(t, m),
             NEW s \in {"release", "done"}, Goes(t, s),
             plan[t].job = "extract" /\ m.has = "pixels" =>
               m.of = SourceMsg(t).of \/ SourceMsg(t).of \in reused
      PROVE  ExtractInv'
  <2>1. s \in Steps \ {"idle"} /\ reused \subseteq reused'
    BY <1>r DEF Steps
  <2> QED
    BY <1>r, <2>1, ExtractMoves DEF ExtractInv
<1>u. ASSUME UNCHANGED taskVars, reused \subseteq reused' PROVE ExtractInv'
  <2>1. UNCHANGED <<plan, at, msg>>
    BY <1>u DEF taskVars
  <2>2. \A t \in Tasks : SourceMsg(t)' = SourceMsg(t)
    BY <2>1 DEF SourceMsg
  <2> QED
    BY <1>u, <2>1, <2>2 DEF ExtractInv
<1>v. {"choose", "read", "connect to put", "connect to read", "chosen", "get",
       "put", "add", "release", "return", "release to copy", "copy", "done"}
        = Steps \ {"idle"}
  BY DEF Steps
<1>1. ASSUME NEW t \in Tasks, Begin(t) PROVE ExtractInv'
  <2>1. /\ at[t] = "idle" /\ UNCHANGED <<plan, reused>>
        /\ plan[t].source \in Tasks => at[plan[t].source] = "done"
    BY <1>1, BeginProperties
  <2>2. /\ msg[t] \in Messages
        /\ UNCHANGED msg => Returns(t, msg[t])
        /\ msg[t].has = "nothing"
    BY <1>t, <2>1 DEF ExtractInv
  <2>3. CASE Goes(t, "choose") /\ plan[t].job = "publish" /\ UNCHANGED msg
    BY <1>v, <2>1, <2>2, <2>3, ExtractMoves
  <2>4. CASE Goes(t, "read") /\ UNCHANGED msg
    BY <1>v, <2>1, <2>2, <2>4, ExtractMoves
  <2>5. ASSUME NEW m \in Messages, Goes(t, "done"), Returns(t, m),
               m.of = SourceMsg(t).of
        PROVE  ExtractInv'
    BY <1>v, <2>1, <2>5, ExtractMoves
  <2> QED
    BY <1>1, <2>3, <2>4, <2>5, BeginProperties
<1>2. ASSUME NEW t \in Tasks, FindClient(t) PROVE ExtractInv'
  BY <1>2, <1>s, <1>v DEF FindClient, WantsClient, WithClient, ExtractInv
<1>3. ASSUME NEW t \in Tasks, CreateClient(t) PROVE ExtractInv'
  BY <1>3, <1>s, <1>v DEF CreateClient, WantsClient, ExtractInv
<1>4. ASSUME NEW t \in Tasks, ConnectFails(t) PROVE ExtractInv'
  BY <1>4, <1>s, <1>v DEF ConnectFails, IsConnecting, Connected, ExtractInv
<1>5. ASSUME NEW t \in Tasks, Register(t) PROVE ExtractInv'
  BY <1>5, <1>s, <1>v DEF Register, IsConnecting, Connected, ExtractInv
<1>6. ASSUME NEW t \in Tasks, ChooseStorage(t) PROVE ExtractInv'
  <2>1. at[t] = "chosen" /\ plan[t].job # "extract" /\ UNCHANGED <<plan, reused>>
    BY <1>6, ChooseProperties DEF ExtractInv
  <2>2. CASE UNCHANGED msg /\ \E s \in {"read", "put"} : Goes(t, s)
    BY <1>s, <1>v, <2>1, <2>2
  <2>3. ASSUME NEW m \in Messages, Goes(t, "release"), Returns(t, m)
        PROVE  ExtractInv'
    BY <1>r, <2>1, <2>3
  <2> QED
    BY <1>6, <2>2, <2>3, ChooseProperties
<1>7. ASSUME NEW t \in Tasks, Put(t) PROVE ExtractInv'
  BY <1>7, <1>s, <1>v DEF Put, ExtractInv
<1>8. ASSUME NEW t \in Tasks, PutFails(t) PROVE ExtractInv'
  <2>1. /\ at[t] = "put" /\ Goes(t, "release") /\ Returns(t, Nothing("failed"))
        /\ plan[t].job # "extract" /\ UNCHANGED <<plan, reused>>
    BY <1>8 DEF PutFails, ExtractInv
  <2> QED
    BY <1>r, <2>1, Results
<1>9. ASSUME NEW t \in Tasks, AddBlock(t) PROVE ExtractInv'
  <2>1. /\ at[t] = "add" /\ Goes(t, "release") /\ Returns(t, Token(t))
        /\ plan[t].job # "extract" /\ UNCHANGED <<plan, reused>>
    BY <1>9 DEF AddBlock, ExtractInv
  <2> QED
    BY <1>r, <2>1, Results
<1>10. ASSUME NEW t \in Tasks, Release(t) PROVE ExtractInv'
  BY <1>10, <1>s, <1>v DEF Release, ExtractInv
<1>11. ASSUME NEW t \in Tasks, Return(t) PROVE ExtractInv'
  BY <1>11, <1>s, <1>v DEF Return, ExtractInv
<1>12. ASSUME NEW t \in Tasks, GetData(t) PROVE ExtractInv'
  <2>1. at[t] = "get" /\ UNCHANGED <<plan, reused>>
    BY <1>12, GetDataProperties
  <2>2. CASE Goes(t, "release to copy") /\ UNCHANGED msg
    BY <1>s, <1>v, <2>1, <2>2
  <2>3. ASSUME NEW m \in Messages, m.has = "nothing",
               Goes(t, "release"), Returns(t, m)
        PROVE  ExtractInv'
    BY <1>r, <2>1, <2>3
  <2> QED
    BY <1>12, <2>2, <2>3, GetDataProperties
<1>13. ASSUME NEW t \in Tasks, Copy(t) PROVE ExtractInv'
  <2>1. at[t] = "copy" /\ Goes(t, "done") /\ UNCHANGED <<plan, reused>>
    BY <1>13, CopyProperties
  <2> QED
    BY <1>13, <1>r, <2>1, CopyProperties
<1>14. ASSUME NEW c \in Clients, EvictBegin(c) PROVE ExtractInv'
  BY <1>14, <1>u DEF EvictBegin
<1>15. ASSUME NEW c \in Clients, EvictEnd(c) PROVE ExtractInv'
  BY <1>15, <1>u DEF EvictEnd
<1>16. ASSUME NEW c \in Clients, Flush(c) PROVE ExtractInv'
  BY <1>16, <1>u DEF Flush
<1>17. ASSUME NEW c \in Clients, ResetCache(c) PROVE ExtractInv'
  BY <1>17, <1>u DEF ResetCache
<1>18. ASSUME NEW c \in Clients, NEW f \in Tasks, EvictOne(c, f) PROVE ExtractInv'
  BY <1>18, <1>u DEF EvictOne
<1>19. CASE ShutDown
  BY <1>19, <1>u DEF ShutDown
<1>20. CASE ClearFactory
  BY <1>20, <1>u DEF ClearFactory
<1>21. CASE Tick
  BY <1>21, <1>u DEF Tick
<1>22. CASE UNCHANGED vars
  BY <1>22, <1>u DEF vars
<1> QED
  BY <1>1, <1>2, <1>3, <1>4, <1>5, <1>6, <1>7, <1>8, <1>9, <1>10, <1>11,
     <1>12, <1>13, <1>14, <1>15, <1>16, <1>17, <1>18, <1>19, <1>20, <1>21,
     <1>22
  DEF Next, Task, Cache

-----------------------------------------------------------------------------
(* What keeps a block from being lost.                                      *)
LossInv ==
  TypeInv /\ BlockInv /\ (~broken => ClientInv /\ EvictionInv) /\ NoBlockIsLost

(* At first nothing was put, and no client but the first one was made.      *)
LEMMA TransportInit ==
  Init => LossInv /\ ExtractInv /\ LifeInv /\ WarmInv /\ DueInv
<1> SUFFICES ASSUME Init
             PROVE  LossInv /\ ExtractInv /\ LifeInv /\ WarmInv /\ DueInv
  OBVIOUS
<1>1. First \in Clients /\ None \notin Clients /\ Alive \in Nat
  BY TaskAssumption DEF Clients
<1>2. TypeInv
  <2>1. NoBlock \in [cache : ClientOrNone, due : Nat]
    BY DEF NoBlock, ClientOrNone
  <2>2. Pending \in Messages
    BY Results
  <2>3. /\ held \in [Tasks -> ClientOrNone] /\ registered \in ClientOrNone
        /\ block \in [Tasks -> [cache : ClientOrNone, due : Nat]]
        /\ msg \in [Tasks -> Messages]
    BY <1>1, <2>1, <2>2 DEF Init, ClientOrNone
  <2> QED
    BY <1>1, <2>3 DEF Init, TypeInv, Steps
<1>3. /\ \A f \in Tasks : /\ at[f] = "idle" /\ held[f] = None
                          /\ block[f].cache = None /\ store[f] = "absent"
                          /\ putAt[f] = 0
                          /\ msg[f].has = "nothing"
      /\ \A c \in Clients : /\ todo[c] = {} /\ doomed[c] = {}
                            /\ evictor[c] \in {"off", "asleep"}
                            /\ client[c] =
                                 IF plan \in Warm /\ c = First THEN "alive" ELSE "none"
      /\ registered = IF plan \in Warm THEN First ELSE None
      /\ reused = {} /\ clock = 0
  BY Results DEF Init, NoBlock
<1>4. BlockInv /\ ExtractInv /\ NoBlockIsLost
  BY <1>3 DEF BlockInv, ExtractInv, NoBlockIsLost
<1>5. ClientInv /\ EvictionInv
  BY <1>1, <1>3 DEF ClientInv, EvictionInv, IsReachable
<1>6. LifeInv /\ WarmInv
  <2>1. \A t \in Tasks, i \in {1, 2} : <<t, i>> \in Clients /\ <<t, i>> # First
    BY TaskAssumption DEF Clients, First
  <2> QED
    BY <1>1, <1>3, <2>1 DEF LifeInv, WarmInv, IsConnecting, IsReachable
<1>7. DueInv
  BY <1>3 DEF DueInv
<1> QED
  BY <1>2, <1>4, <1>5, <1>6, <1>7 DEF LossInv

(* FrameMediator and ExpirationCache: a block in the store belongs to a     *)
(* client that will still try to delete it, or the one attempt was made and *)
(* has failed, however clients come and go and the node is shut down, until *)
(* a callback has used a cache that is gone.                                *)
THEOREM BlocksAreAccountedFor == Spec => []NoBlockIsLost
<1>1. LossInv /\ [Next]_vars => LossInv'
  <2> SUFFICES ASSUME LossInv, [Next]_vars PROVE LossInv'
    OBVIOUS
  <2>1. TypeInv' /\ BlockInv' /\ NoBlockIsLost'
    BY TypeStep, BlockStep, LostStep DEF LossInv
  <2>2. ~broken' => ClientInv' /\ EvictionInv'
    BY ClientStep, EvictionStep DEF LossInv
  <2> QED
    BY <2>1, <2>2 DEF LossInv
<1>2. LossInv => NoBlockIsLost
  BY DEF LossInv
<1> QED
  BY TransportInit, <1>1, <1>2, PTL DEF Spec

(* to_cv_image_copy shows the frame that was published unless its block has *)
(* outlived its time, or was deleted with a client that was replaced since  *)
(* the SharedMemoryFactory made one for two tasks at once.                  *)
THEOREM ImagesAreTheirFrames == Spec => []ExtractedIsPublished
<1> DEFINE Inv == TypeInv /\ BlockInv /\ ExtractInv /\ LifeInv /\ WarmInv /\ DueInv
<1>1. Init => Inv
  BY TransportInit DEF LossInv
<1>2. Inv /\ [Next]_vars => Inv'
  BY TypeStep, BlockStep, ExtractStep, LifeStep, WarmStep, DueStep
<1>3. Inv => ExtractedIsPublished
  <2> SUFFICES ASSUME Inv, NEW t \in Tasks, plan[t].job = "extract",
                      msg[t].has = "pixels", msg[t].of # SourceMsg(t).of
               PROVE  Outlived(SourceMsg(t).of)
    BY DEF ExtractedIsPublished, Outlived
  <2>1. SourceMsg(t).of \in reused
    BY DEF ExtractInv
  <2>2. SourceMsg(t).of \in Tasks /\ store[SourceMsg(t).of] = "deleted"
    BY <2>1 DEF TypeInv, DueInv
  <2> QED
    BY <2>2 DEF DueInv
<1> QED
  BY <1>1, <1>2, <1>3, PTL DEF Spec

-----------------------------------------------------------------------------
(* VideoReader *)
States == {"unconfigured", "inactive", "active", "deactivating", "finalized"}
Requests == [signal : {"none", "Flush"}, content : Nat, number : Int,
             start : Nat, opening : Nat]

ReaderTypeInv ==
  /\ state \in States /\ stepRunning \in BOOLEAN
  /\ thread \in {"none", "head", "reading", "read", "waiting", "done"}
  /\ position \in Nat /\ starts \in Nat /\ opens \in Nat /\ asyncOf \in Nat
  /\ number \in Int
  /\ slot \in Seq(Nat)
  /\ request \in Requests
  /\ outgoing \in Seq(Requests) /\ sent \in Seq(Requests)

(* A step thread belongs to one activation, and the port holds at most the  *)
(* request the thread waits for.                                            *)
PlayInv ==
  /\ state \in {"unconfigured", "inactive"} => thread = "none"
  /\ state \in {"active", "deactivating"} => starts > 0
  /\ outgoing # <<>> => thread = "waiting" /\ outgoing = <<request>>
  /\ thread \in {"read", "waiting"} =>
       request.start = starts /\ request.opening = opens
  /\ \A k \in DOMAIN sent : sent[k].start <= starts /\ sent[k].opening <= opens

(* Behind a flush signal the step thread reads no frame of the same play.   *)
FlushInv ==
  /\ \A k \in DOMAIN sent :
       sent[k].signal = "Flush" /\ sent[k].start = starts =>
         /\ outgoing = <<>>
         /\ \/ thread = "waiting" /\ request.signal = "Flush"
            \/ thread \in {"none", "head", "done"} /\ ~stepRunning
  /\ FlushEndsThePlay

(* A frame was read and is not yet delivered. *)
FrameIsPending ==
  (thread = "read" \/ outgoing # <<>>) /\ request.signal = "none"
Fresh == IF FrameIsPending THEN 1 ELSE 0

(* The counter is at the last frame that was read; a node that failed to    *)
(* open has reset it, but reads no frame any more.                          *)
NumberInv ==
  /\ FrameIsPending => request.number = number
  /\ state # "finalized" \/ thread # "none" =>
       \A k \in DOMAIN sent :
         sent[k].signal = "none" /\ sent[k].opening = opens =>
           /\ sent[k].number + Fresh <= number
           /\ config.reliable => number - sent[k].number <= Len(sent) + Fresh - k

(* Within a play the source goes on in the video.                           *)
ContentInv ==
  /\ slot # <<>> => config.kind = "ffmpeg"
  /\ thread # "none" =>
       /\ slot # <<>> => Head(slot) <= position
       /\ FrameIsPending => /\ request.content <= position
                            /\ slot # <<>> => request.content < Head(slot)
       /\ \A k \in DOMAIN sent :
            sent[k].signal = "none" /\ sent[k].start = starts =>
              /\ sent[k].content <= position
              /\ slot # <<>> => sent[k].content < Head(slot)
              /\ FrameIsPending => sent[k].content < request.content

LastSent == sent[Len(sent)]

(* A play that nobody interrupted comes to its end with a flush signal, and *)
(* only then an _async_stop() of its own deactivates the node.              *)
EndInv ==
  /\ asyncOf <= starts
  /\ thread = "waiting" /\ request.signal = "Flush" /\ outgoing = <<>> =>
       sent # <<>> /\ LastSent = request
  /\ asyncOf = starts /\ starts > 0 =>
       sent # <<>> /\ LastSent.signal = "Flush" /\ LastSent.start = starts
  /\ state = "deactivating" => opens \in interrupted \/ asyncOf = starts
  /\ sent # <<>> /\ LastSent.signal = "none" =>
       \/ LastSent.opening \in interrupted
       \/ LastSent.opening = opens /\ state \in {"active", "finalized"}

ReadInv == ReaderTypeInv /\ PlayInv /\ FlushInv

ReaderInv ==
  /\ ReadInv /\ NumberInv /\ ContentInv /\ EndInv
  /\ NumbersGrow /\ FlushBeforeRestart

-----------------------------------------------------------------------------
(* A delivered request becomes the last one that was sent.                  *)
LEMMA Delivered ==
  ASSUME NEW s \in Seq(Requests), NEW r \in Requests
  PROVE  /\ Append(s, r) \in Seq(Requests)
         /\ Len(s) \in Nat /\ Len(Append(s, r)) = Len(s) + 1
         /\ Append(s, r) # <<>> /\ Append(s, r)[Len(s) + 1] = r
         /\ DOMAIN s = 1 .. Len(s) /\ DOMAIN Append(s, r) = 1 .. Len(s) + 1
         /\ \A k \in 1 .. Len(s) : Append(s, r)[k] = s[k]
         /\ \A k \in DOMAIN Append(s, r) : k \in DOMAIN s \/ k = Len(s) + 1
  OBVIOUS

(* The fields of a request have their types.                                *)
LEMMA RequestFields ==
  ASSUME NEW r \in Requests
  PROVE  /\ r.signal \in {"none", "Flush"} /\ r.content \in Nat /\ r.number \in Int
         /\ r.start \in Nat /\ r.opening \in Nat
  BY DEF Requests

(* So have those of every request that was sent.                            *)
LEMMA SentFields ==
  ASSUME ReaderTypeInv
  PROVE  /\ Len(sent) \in Nat /\ DOMAIN sent = 1 .. Len(sent)
         /\ sent # <<>> => Len(sent) \in DOMAIN sent
         /\ \A k \in DOMAIN sent :
              /\ k \in Nat /\ sent[k] \in Requests
              /\ sent[k].signal \in {"none", "Flush"} /\ sent[k].content \in Nat
              /\ sent[k].number \in Int /\ sent[k].start \in Nat
              /\ sent[k].opening \in Nat
<1>1. sent \in Seq(Requests)
  BY DEF ReaderTypeInv
<1>2. /\ Len(sent) \in Nat /\ DOMAIN sent = 1 .. Len(sent)
      /\ sent # <<>> => Len(sent) \in DOMAIN sent
      /\ \A k \in DOMAIN sent : k \in Nat /\ sent[k] \in Requests
  BY <1>1
<1> QED
  BY <1>2, RequestFields

(* A flush signal belongs to its play, like a frame. *)
LEMMA FlushProperties ==
  ASSUME starts \in Nat, opens \in Nat
  PROVE  /\ FlushRequest \in Requests /\ FlushRequest.signal = "Flush"
         /\ FlushRequest.start = starts /\ FlushRequest.opening = opens
<1> DEFINE F(n) == [Frame(0, n) EXCEPT !.signal = "Flush"]
<1>1. ASSUME NEW n \in Int
      PROVE  /\ F(n) \in Requests /\ F(n).signal = "Flush"
             /\ F(n).start = starts /\ F(n).opening = opens
  <2>1. 0 \in Nat
    OBVIOUS
  <2> QED
    BY <2>1, Zenon DEF Frame, Requests
<1>2. -1 \in Int
  OBVIOUS
<1>3. FlushRequest = F(-1)
  BY DEF FlushRequest
<1> HIDE DEF F
<1> QED
  BY <1>1, <1>2, <1>3

(* What a delivery does: the port held one request, the thread waits for it.*)
LEMMA DeliverProperties ==
  ASSUME ReaderTypeInv, PlayInv, Deliver
  PROVE  /\ thread = "waiting" /\ request \in Requests /\ outgoing' = <<>>
         /\ outgoing # <<>> /\ sent' = Append(sent, request)
         /\ request.start = starts /\ request.opening = opens
         /\ UNCHANGED <<config, nodeVars, threadVars,
                        sourceVars, request, starts,
                        opens>>
<1>1. outgoing # <<>> /\ outgoing = <<request>> /\ thread = "waiting"
  BY DEF Deliver, PlayInv
<1>2. request \in Requests /\ request.start = starts /\ request.opening = opens
  BY <1>1 DEF ReaderTypeInv, PlayInv
<1>3. Head(outgoing) = request /\ Tail(outgoing) = <<>>
  BY <1>1, <1>2
<1> QED
  BY <1>1, <1>2, <1>3 DEF Deliver

(* A frame that is dropped is the one the thread waits for.                 *)
LEMMA DeliveryFailsProperties ==
  ASSUME ReaderTypeInv, PlayInv, DeliveryFails
  PROVE  /\ thread = "waiting" /\ outgoing' = <<>> /\ outgoing # <<>>
         /\ request.signal = "none" /\ ~config.reliable
         /\ UNCHANGED <<config, nodeVars, threadVars,
                        sourceVars, request, sent,
                        starts, opens>>
<1>1. outgoing # <<>> /\ outgoing = <<request>> /\ thread = "waiting"
  BY DEF DeliveryFails, PlayInv
<1>2. Head(outgoing) = request /\ Tail(outgoing) = <<>>
  BY <1>1 DEF ReaderTypeInv
<1> QED
  BY <1>1, <1>2 DEF DeliveryFails, MayDrop

(* What the step thread reads. *)
LEMMA ReadProperties ==
  ASSUME ReaderTypeInv, PlayInv, ReadUrl \/ ReadFFmpeg
  PROVE  /\ thread = "reading" /\ thread' = "read" /\ outgoing = <<>>
         /\ request' \in Requests /\ number' \in Int
         /\ position' \in Nat /\ slot' \in Seq(Nat)
         /\ request'.start = starts /\ request'.opening = opens
         /\ \/ request'.signal = "Flush" /\ UNCHANGED number
            \/ /\ request'.signal = "none"
               /\ number' = number + 1 /\ request'.number = number'
         /\ UNCHANGED <<config, nodeVars, stepRunning, asyncOf, outgoing,
                        sent,
                        starts, opens>>
<1> USE DEF ReaderTypeInv, Requests, nodeVars
<1>1. /\ starts \in Nat /\ opens \in Nat /\ position \in Nat /\ number \in Int
      /\ slot \in Seq(Nat) /\ position + 1 \in Nat /\ number + 1 \in Int
  OBVIOUS
<1>2. CASE ReadUrl /\ position < Length
  <2>1. /\ request' = Frame(position + 1, number + 1) /\ thread' = "read"
        /\ number' = number + 1
    BY <1>2 DEF ReadUrl, Read
  <2> QED
    BY <1>1, <1>2, <2>1 DEF ReadUrl, PlayInv, Frame
<1>3. CASE ReadUrl /\ ~(position < Length)
  <2>1. request' = FlushRequest /\ thread' = "read" /\ UNCHANGED number
    BY <1>3 DEF ReadUrl, Read
  <2> QED
    BY <1>1, <1>3, <2>1, FlushProperties DEF ReadUrl, PlayInv
<1>4. CASE ReadFFmpeg
  <2>1. /\ request' = Frame(Head(slot), number + 1) /\ thread' = "read"
        /\ number' = number + 1 /\ Head(slot) \in Nat
    BY <1>4 DEF ReadFFmpeg, Read
  <2> QED
    BY <1>1, <1>4, <2>1 DEF ReadFFmpeg, PlayInv, Frame
<1> QED
  BY <1>2, <1>3, <1>4

(* No step breaks the types of the reader.                                  *)
LEMMA ReaderTypeStep ==
  ReaderTypeInv /\ PlayInv /\ [ReaderNext]_readerVars => ReaderTypeInv'
<1> SUFFICES ASSUME ReaderTypeInv, PlayInv, [ReaderNext]_readerVars
             PROVE  ReaderTypeInv'
  OBVIOUS
<1>0. Length \in Nat
  BY BoundAssumption
<1> USE DEF ReaderTypeInv, States, nodeVars, threadVars,
            sourceVars, portVars
<1>1. CASE Open
  <2>1. /\ state' = "inactive" /\ number' = -1 /\ opens' = opens + 1
        /\ position' = 0
        /\ UNCHANGED <<config, stepRunning, thread, starts, asyncOf, slot, request,
                       outgoing, sent>>
    BY <1>1 DEF Open, Opened
  <2>2. -1 \in Int /\ opens + 1 \in Nat /\ 0 \in Nat
    OBVIOUS
  <2> QED
    BY <2>1, <2>2
<1>2. CASE OpenFails
  BY <1>2 DEF OpenFails
<1>3. CASE Start
  BY <1>3 DEF Start, Started
<1>4. CASE Close
  BY <1>4 DEF Close
<1>5. ASSUME NEW by \in {"api", "service"}, OwnerStops(by)
      PROVE  ReaderTypeInv'
  BY <1>5 DEF OwnerStops
<1>6. CASE JoinBegin
  BY <1>6 DEF JoinBegin
<1>7. CASE JoinFails
  BY <1>7 DEF JoinFails
<1>8. CASE JoinEnd
  BY <1>8 DEF JoinEnd
<1>9. CASE StopUrl
  BY <1>9 DEF StopUrl, BaseStops
<1>10. CASE StopFFmpeg
  BY <1>0, <1>10 DEF StopFFmpeg
<1>11. CASE AsyncJoin
  BY <1>11 DEF AsyncJoin
<1>12. CASE AsyncJoined
  BY <1>12 DEF AsyncJoined
<1>13. CASE AsyncStopCall
  BY <1>13 DEF AsyncStopCall
<1>14. CASE TimerTick
  BY <1>14 DEF TimerTick
<1>15. CASE LoopEnd
  BY <1>15 DEF LoopEnd
<1>16. CASE StepBegin
  BY <1>16 DEF StepBegin, TokenAvailable
<1>17. CASE ReadUrl
  BY <1>17, ReadProperties
<1>18. CASE ReadFFmpeg
  BY <1>18, ReadProperties
<1>19. CASE Push
  BY <1>19 DEF Push
<1>20. CASE PushRefused
  BY <1>20 DEF PushRefused, MayDrop
<1>21. CASE Deliver
  <2>1. sent' = Append(sent, request) /\ outgoing' = <<>> /\ request \in Requests
        /\ UNCHANGED <<config, state, stepRunning, thread, position, starts, opens,
                       asyncOf, number, slot, request>>
    BY <1>21, DeliverProperties
  <2>2. sent' \in Seq(Requests) /\ outgoing' \in Seq(Requests)
    BY <2>1, Delivered
  <2> QED
    BY <2>1, <2>2
<1>22. CASE DeliveryFails
  <2>1. outgoing' = <<>>
        /\ UNCHANGED <<config, state, stepRunning, thread, position, starts, opens,
                       asyncOf, number, slot, request, sent>>
    BY <1>22, DeliveryFailsProperties
  <2>2. outgoing' \in Seq(Requests)
    BY <2>1
  <2> QED
    BY <2>1, <2>2
<1>23. CASE StepEnd
  BY <1>23 DEF StepEnd
<1>24. CASE EndOfVideo
  BY <1>24 DEF EndOfVideo
<1>25. CASE FeedFrame
  BY <1>25 DEF FeedFrame, Feeding
<1>26. CASE FeedEnd
  BY <1>26 DEF FeedEnd, Feeding
<1>27. CASE UNCHANGED readerVars
  BY <1>27 DEF readerVars
<1> QED
  BY <1>1, <1>2, <1>3, <1>4, <1>5, <1>6, <1>7, <1>8, <1>9, <1>10, <1>11, <1>12,
     <1>13, <1>14, <1>15, <1>16, <1>17, <1>18, <1>19, <1>20, <1>21, <1>22, <1>23,
     <1>24, <1>25, <1>26, <1>27
  DEF ReaderNext

(* No step leaves a request of an earlier play in the port.                 *)
LEMMA PlayStep ==
  ReaderTypeInv /\ PlayInv /\ [ReaderNext]_readerVars => PlayInv'
<1> SUFFICES ASSUME ReaderTypeInv, PlayInv, [ReaderNext]_readerVars
             PROVE  PlayInv'
  OBVIOUS
<1> USE DEF PlayInv, nodeVars, threadVars, sourceVars,
            portVars
<1>t. /\ starts \in Nat /\ opens \in Nat
      /\ sent \in Seq(Requests)
      /\ \A k \in DOMAIN sent : sent[k].start \in Nat /\ sent[k].opening \in Nat
  BY SentFields DEF ReaderTypeInv
<1>1. CASE Open
  BY <1>1, <1>t DEF Open, Opened
<1>2. CASE OpenFails
  BY <1>2, <1>t DEF OpenFails
<1>3. CASE Start
  BY <1>3, <1>t DEF Start, Started
<1>4. CASE Close
  BY <1>4, <1>t DEF Close
<1>5. ASSUME NEW by \in {"api", "service"}, OwnerStops(by) PROVE PlayInv'
  BY <1>5, <1>t DEF OwnerStops
<1>6. CASE JoinBegin
  BY <1>6, <1>t DEF JoinBegin
<1>7. CASE JoinFails
  BY <1>7, <1>t DEF JoinFails
<1>8. CASE JoinEnd
  BY <1>8, <1>t DEF JoinEnd
<1>9. CASE StopUrl
  BY <1>9, <1>t DEF StopUrl, BaseStops
<1>10. CASE StopFFmpeg
  BY <1>10, <1>t DEF StopFFmpeg
<1>11. CASE AsyncJoin
  BY <1>11, <1>t DEF AsyncJoin
<1>12. CASE AsyncJoined
  BY <1>12, <1>t DEF AsyncJoined
<1>13. CASE AsyncStopCall
  BY <1>13, <1>t DEF AsyncStopCall
<1>14. CASE TimerTick
  BY <1>14, <1>t DEF TimerTick
<1>15. CASE LoopEnd
  BY <1>15, <1>t DEF LoopEnd
<1>16. CASE StepBegin
  BY <1>16, <1>t DEF StepBegin, TokenAvailable
<1>17. CASE ReadUrl
  BY <1>17, ReadProperties DEF ReadUrl
<1>18. CASE ReadFFmpeg
  BY <1>18, ReadProperties DEF ReadFFmpeg
<1>19. CASE Push
  <2>1. /\ outgoing = <<>> /\ outgoing' = Append(outgoing, request)
        /\ thread = "read" /\ thread' = "waiting"
        /\ UNCHANGED <<state, request, sent, starts, opens>>
    BY <1>19 DEF Push
  <2>2. outgoing' = <<request>>
    BY <2>1 DEF ReaderTypeInv
  <2> QED
    BY <2>1, <2>2
<1>20. CASE PushRefused
  BY <1>20, <1>t DEF PushRefused, MayDrop
<1>21. CASE Deliver
  <2>1. /\ thread = "waiting" /\ outgoing' = <<>> /\ request \in Requests
        /\ request.start = starts /\ request.opening = opens
        /\ UNCHANGED <<state, thread, request, starts, opens>>
        /\ sent' = Append(sent, request) /\ sent \in Seq(Requests)
    BY <1>21, DeliverProperties DEF ReaderTypeInv
  <2>2. /\ \A k \in DOMAIN sent : sent'[k] = sent[k]
        /\ \A k \in DOMAIN sent' : k \in DOMAIN sent \/ k = Len(sent) + 1
        /\ sent'[Len(sent) + 1] = request
    BY <2>1, Delivered
  <2>3. ASSUME NEW k \in DOMAIN sent'
        PROVE  sent'[k].start <= starts /\ sent'[k].opening <= opens
    BY <1>t, <2>1, <2>3, <2>2
  <2> QED
    BY <2>1, <2>3
<1>22. CASE DeliveryFails
  BY <1>22, DeliveryFailsProperties
<1>23. CASE StepEnd
  BY <1>23, <1>t DEF StepEnd
<1>24. CASE EndOfVideo
  BY <1>24, <1>t DEF EndOfVideo
<1>25. CASE FeedFrame
  BY <1>25, <1>t DEF FeedFrame, Feeding
<1>26. CASE FeedEnd
  BY <1>26, <1>t DEF FeedEnd, Feeding
<1>27. CASE UNCHANGED readerVars
  BY <1>27, <1>t DEF readerVars
<1> QED
  BY <1>1, <1>2, <1>3, <1>4, <1>5, <1>6, <1>7, <1>8, <1>9, <1>10, <1>11, <1>12,
     <1>13, <1>14, <1>15, <1>16, <1>17, <1>18, <1>19, <1>20, <1>21, <1>22, <1>23,
     <1>24, <1>25, <1>26, <1>27
  DEF ReaderNext

(* No step reads or sends behind the flush signal of its play.              *)
LEMMA FlushStep == ReadInv /\ [ReaderNext]_readerVars => FlushInv'
<1> SUFFICES ASSUME ReaderTypeInv, PlayInv, FlushInv, [ReaderNext]_readerVars
             PROVE  FlushInv'
  BY DEF ReadInv
<1> USE DEF FlushInv, FlushEndsThePlay, nodeVars, threadVars,
            sourceVars, portVars
<1>t. /\ starts \in Nat
      /\ \A k \in DOMAIN sent : sent[k].start \in Nat /\ sent[k].start <= starts
      /\ state \in {"unconfigured", "inactive"} => thread = "none"
      /\ outgoing # <<>> => thread = "waiting" /\ outgoing = <<request>>
  BY SentFields DEF ReaderTypeInv, PlayInv
<1>1. CASE Open
  BY <1>1, <1>t DEF Open, Opened
<1>2. CASE OpenFails
  BY <1>2, <1>t DEF OpenFails
<1>3. CASE Start
  BY <1>3, <1>t DEF Start, Started
<1>4. CASE Close
  BY <1>4, <1>t DEF Close
<1>5. ASSUME NEW by \in {"api", "service"}, OwnerStops(by) PROVE FlushInv'
  BY <1>5, <1>t DEF OwnerStops
<1>6. CASE JoinBegin
  BY <1>6, <1>t DEF JoinBegin
<1>7. CASE JoinFails
  BY <1>7, <1>t DEF JoinFails
<1>8. CASE JoinEnd
  BY <1>8, <1>t DEF JoinEnd
<1>9. CASE StopUrl
  BY <1>9, <1>t DEF StopUrl, BaseStops
<1>10. CASE StopFFmpeg
  BY <1>10, <1>t DEF StopFFmpeg
<1>11. CASE AsyncJoin
  BY <1>11, <1>t DEF AsyncJoin
<1>12. CASE AsyncJoined
  BY <1>12, <1>t DEF AsyncJoined
<1>13. CASE AsyncStopCall
  BY <1>13, <1>t DEF AsyncStopCall
<1>14. CASE TimerTick
  BY <1>14, <1>t DEF TimerTick
<1>15. CASE LoopEnd
  BY <1>15, <1>t DEF LoopEnd
<1>16. CASE StepBegin
  BY <1>16, <1>t DEF StepBegin, TokenAvailable
<1>17. CASE ReadUrl
  BY <1>17, ReadProperties DEF ReadUrl
<1>18. CASE ReadFFmpeg
  BY <1>18, ReadProperties DEF ReadFFmpeg
<1>19. CASE Push
  BY <1>19, <1>t DEF Push
<1>20. CASE PushRefused
  BY <1>20, <1>t DEF PushRefused, MayDrop
<1>21. CASE Deliver
  <2>1. /\ thread = "waiting" /\ outgoing' = <<>> /\ outgoing # <<>>
        /\ request \in Requests /\ request.start = starts
        /\ UNCHANGED <<stepRunning, thread, request, starts>>
        /\ sent' = Append(sent, request) /\ sent \in Seq(Requests)
    BY <1>21, DeliverProperties DEF ReaderTypeInv
  <2>2. \A k \in DOMAIN sent : sent[k].signal = "Flush" => sent[k].start # starts
    BY <2>1
  <2>3. /\ \A k \in DOMAIN sent : sent'[k] = sent[k]
        /\ \A k \in DOMAIN sent' : k \in DOMAIN sent \/ k = Len(sent) + 1
        /\ sent'[Len(sent) + 1] = request
        /\ DOMAIN sent = 1 .. Len(sent) /\ Len(sent) \in Nat
    BY <2>1, Delivered
  <2>4. ASSUME NEW k \in DOMAIN sent', sent'[k].signal = "Flush",
               sent'[k].start = starts
        PROVE  request.signal = "Flush"
    BY <2>2, <2>3, <2>4
  <2>5. ASSUME NEW m \in DOMAIN sent', NEW n \in DOMAIN sent',
               m < n, sent'[m].start = sent'[n].start
        PROVE  sent'[m].signal = "none"
    <3>1. m \in DOMAIN sent
      BY <2>3, <2>5
    <3>2. CASE n \in DOMAIN sent
      BY <3>1, <3>2, <2>3, <2>5
    <3>3. CASE n = Len(sent) + 1
      <4>1. sent[m].start = starts
        BY <3>1, <3>3, <2>1, <2>3, <2>5
      <4> QED
        BY <4>1, <3>1, <2>2, <2>3, SentFields
    <3> QED
      BY <3>2, <3>3, <2>3
  <2> QED
    BY <2>1, <2>4, <2>5
<1>22. CASE DeliveryFails
  BY <1>22, DeliveryFailsProperties
<1>23. CASE StepEnd
  BY <1>23, <1>t DEF StepEnd
<1>24. CASE EndOfVideo
  BY <1>24, <1>t DEF EndOfVideo
<1>25. CASE FeedFrame
  BY <1>25, <1>t DEF FeedFrame, Feeding
<1>26. CASE FeedEnd
  BY <1>26, <1>t DEF FeedEnd, Feeding
<1>27. CASE UNCHANGED readerVars
  BY <1>27, <1>t DEF readerVars
<1> QED
  BY <1>1, <1>2, <1>3, <1>4, <1>5, <1>6, <1>7, <1>8, <1>9, <1>10, <1>11, <1>12,
     <1>13, <1>14, <1>15, <1>16, <1>17, <1>18, <1>19, <1>20, <1>21, <1>22, <1>23,
     <1>24, <1>25, <1>26, <1>27
  DEF ReaderNext

(* No step moves the counter away from the last frame.                      *)
LEMMA NumberStep ==
  ReadInv /\ NumberInv /\ [ReaderNext]_readerVars => NumberInv'
<1> SUFFICES ASSUME ReaderTypeInv, PlayInv, NumberInv, [ReaderNext]_readerVars
             PROVE  NumberInv'
  BY DEF ReadInv
<1> USE DEF NumberInv, Fresh, FrameIsPending, nodeVars, threadVars,
            sourceVars, portVars
<1>t. /\ opens \in Nat /\ number \in Int /\ Len(sent) \in Nat
      /\ \A k \in DOMAIN sent :
           k \in Nat /\ sent[k].number \in Int
             /\ sent[k].opening \in Nat /\ sent[k].opening <= opens
      /\ state \in {"unconfigured", "inactive"} => thread = "none"
      /\ outgoing # <<>> => thread = "waiting" /\ outgoing = <<request>>
  BY SentFields DEF ReaderTypeInv, PlayInv
<1>1. CASE Open
  BY <1>1, <1>t DEF Open, Opened
<1>2. CASE OpenFails
  BY <1>2, <1>t DEF OpenFails
<1>3. CASE Start
  BY <1>3, <1>t DEF Start, Started
<1>4. CASE Close
  BY <1>4, <1>t DEF Close
<1>5. ASSUME NEW by \in {"api", "service"}, OwnerStops(by) PROVE NumberInv'
  BY <1>5, <1>t DEF OwnerStops
<1>6. CASE JoinBegin
  BY <1>6, <1>t DEF JoinBegin
<1>7. CASE JoinFails
  BY <1>7, <1>t DEF JoinFails
<1>8. CASE JoinEnd
  BY <1>8, <1>t DEF JoinEnd
<1>9. CASE StopUrl
  BY <1>9, <1>t DEF StopUrl, BaseStops
<1>10. CASE StopFFmpeg
  BY <1>10, <1>t DEF StopFFmpeg
<1>11. CASE AsyncJoin
  BY <1>11, <1>t DEF AsyncJoin
<1>12. CASE AsyncJoined
  BY <1>12, <1>t DEF AsyncJoined
<1>13. CASE AsyncStopCall
  BY <1>13, <1>t DEF AsyncStopCall
<1>14. CASE TimerTick
  BY <1>14, <1>t DEF TimerTick
<1>15. CASE LoopEnd
  BY <1>15, <1>t DEF LoopEnd
<1>16. CASE StepBegin
  BY <1>16, <1>t DEF StepBegin, TokenAvailable
<1>17. CASE ReadUrl
  BY <1>17, <1>t, ReadProperties
<1>18. CASE ReadFFmpeg
  BY <1>18, <1>t, ReadProperties
<1>19. CASE Push
  BY <1>19, <1>t DEF Push
<1>20. CASE PushRefused
  BY <1>20, <1>t DEF PushRefused, MayDrop
<1>21. CASE Deliver
  <2>1. /\ thread = "waiting" /\ outgoing' = <<>> /\ outgoing # <<>>
        /\ request \in Requests /\ request.opening = opens
        /\ UNCHANGED <<config, state, thread, request, number, opens>>
        /\ sent' = Append(sent, request) /\ sent \in Seq(Requests)
    BY <1>21, DeliverProperties DEF ReaderTypeInv
  <2>2. /\ \A k \in DOMAIN sent : sent'[k] = sent[k]
        /\ \A k \in DOMAIN sent' : k \in DOMAIN sent \/ k = Len(sent) + 1
        /\ sent'[Len(sent) + 1] = request /\ Len(sent') = Len(sent) + 1
    BY <2>1, Delivered
  <2>3. ~FrameIsPending' /\ Fresh' = 0
    BY <2>1
  <2>4. ASSUME NEW k \in DOMAIN sent', sent'[k].signal = "none",
               sent'[k].opening = opens
        PROVE  /\ sent'[k].number <= number
               /\ config.reliable => number - sent'[k].number <= Len(sent) + 1 - k
    <3>1. CASE k \in DOMAIN sent
      <4>1. sent[k].number + Fresh <= number
            /\ (config.reliable => number - sent[k].number <= Len(sent) + Fresh - k)
        BY <3>1, <2>1, <2>2, <2>4
      <4>2. Fresh \in {0, 1}
        OBVIOUS
      <4> HIDE DEF Fresh
      <4> QED
        BY <4>1, <4>2, <3>1, <2>2, <1>t
    <3>2. CASE k = Len(sent) + 1
      <4>1. request.number = number
        BY <3>2, <2>1, <2>2, <2>4
      <4> QED
        BY <4>1, <3>2, <2>2, <1>t
    <3> QED
      BY <3>1, <3>2, <2>2
  <2> QED
    BY <2>1, <2>2, <2>3, <2>4, <1>t
<1>22. CASE DeliveryFails
  BY <1>22, <1>t, DeliveryFailsProperties
<1>23. CASE StepEnd
  BY <1>23, <1>t DEF StepEnd
<1>24. CASE EndOfVideo
  BY <1>24, <1>t DEF EndOfVideo
<1>25. CASE FeedFrame
  BY <1>25, <1>t DEF FeedFrame, Feeding
<1>26. CASE FeedEnd
  BY <1>26, <1>t DEF FeedEnd, Feeding
<1>27. CASE UNCHANGED readerVars
  BY <1>27, <1>t DEF readerVars
<1> QED
  BY <1>1, <1>2, <1>3, <1>4, <1>5, <1>6, <1>7, <1>8, <1>9, <1>10, <1>11, <1>12,
     <1>13, <1>14, <1>15, <1>16, <1>17, <1>18, <1>19, <1>20, <1>21, <1>22, <1>23,
     <1>24, <1>25, <1>26, <1>27
  DEF ReaderNext

(* No step goes back in the video within a play.                            *)
LEMMA ContentStep ==
  ReadInv /\ ContentInv /\ [ReaderNext]_readerVars => ContentInv'
<1> SUFFICES ASSUME ReaderTypeInv, PlayInv, ContentInv, [ReaderNext]_readerVars
             PROVE  ContentInv'
  BY DEF ReadInv
<1> USE DEF ContentInv, FrameIsPending, nodeVars, threadVars,
            sourceVars, portVars
<1>t. /\ starts \in Nat /\ position \in Nat
      /\ slot \in Seq(Nat) /\ (slot # <<>> => Head(slot) \in Nat)
      /\ \A k \in DOMAIN sent :
           /\ sent[k].content \in Nat /\ sent[k].start \in Nat
           /\ sent[k].start <= starts
      /\ state \in {"unconfigured", "inactive"} => thread = "none"
      /\ outgoing # <<>> => thread = "waiting" /\ outgoing = <<request>>
  BY SentFields DEF ReaderTypeInv, PlayInv
<1>1. CASE Open
  BY <1>1, <1>t DEF Open, Opened
<1>2. CASE OpenFails
  BY <1>2, <1>t DEF OpenFails
<1>3. CASE Start
  BY <1>3, <1>t DEF Start, Started
<1>4. CASE Close
  BY <1>4, <1>t DEF Close
<1>5. ASSUME NEW by \in {"api", "service"}, OwnerStops(by) PROVE ContentInv'
  BY <1>5, <1>t DEF OwnerStops
<1>6. CASE JoinBegin
  BY <1>6, <1>t DEF JoinBegin
<1>7. CASE JoinFails
  BY <1>7, <1>t DEF JoinFails
<1>8. CASE JoinEnd
  BY <1>8, <1>t DEF JoinEnd
<1>9. CASE StopUrl
  BY <1>9, <1>t DEF StopUrl, BaseStops
<1>10. CASE StopFFmpeg
  BY <1>10, <1>t DEF StopFFmpeg
<1>11. CASE AsyncJoin
  BY <1>11, <1>t DEF AsyncJoin
<1>12. CASE AsyncJoined
  BY <1>12, <1>t DEF AsyncJoined
<1>13. CASE AsyncStopCall
  BY <1>13, <1>t DEF AsyncStopCall
<1>14. CASE TimerTick
  BY <1>14, <1>t DEF TimerTick
<1>15. CASE LoopEnd
  BY <1>15, <1>t DEF LoopEnd
<1>16. CASE StepBegin
  BY <1>16, <1>t DEF StepBegin, TokenAvailable
<1>17. CASE ReadUrl
  <2>1. /\ thread = "reading" /\ outgoing = <<>> /\ slot = <<>>
        /\ UNCHANGED <<config, slot, outgoing, sent, starts>>
    BY <1>17, ReadProperties DEF ReadUrl
  <2>2. ASSUME request'.signal = "none"
        PROVE  position' = position + 1 /\ request'.content = position + 1
    <3>1. CASE position < Length
      BY <3>1, <1>17 DEF ReadUrl, Read, Frame
    <3>2. CASE ~(position < Length)
      BY <3>2, <2>2, <1>17, FlushProperties
      DEF ReadUrl, Read, ReaderTypeInv
    <3> QED
      BY <3>1, <3>2
  <2>3. position' >= position /\ position' \in Nat
    BY <1>17, <1>t DEF ReadUrl
  <2> QED
    BY <2>1, <2>2, <2>3, <1>t
<1>18. CASE ReadFFmpeg
  <2>1. /\ thread = "reading" /\ outgoing = <<>> /\ slot # <<>> /\ slot' = <<>>
        /\ request'.content = Head(slot)
        /\ UNCHANGED <<config, position, outgoing, sent, starts>>
    BY <1>18, ReadProperties DEF ReadFFmpeg, Read, Frame
  <2> QED
    BY <2>1, <1>t
<1>19. CASE Push
  BY <1>19, <1>t DEF Push
<1>20. CASE PushRefused
  BY <1>20, <1>t DEF PushRefused, MayDrop
<1>21. CASE Deliver
  <2>1. /\ thread = "waiting" /\ outgoing' = <<>> /\ outgoing # <<>>
        /\ request \in Requests /\ request.start = starts
        /\ UNCHANGED <<config, thread, request, position, slot, starts>>
        /\ sent' = Append(sent, request) /\ sent \in Seq(Requests)
    BY <1>21, DeliverProperties DEF ReaderTypeInv
  <2>2. /\ \A k \in DOMAIN sent : sent'[k] = sent[k]
        /\ \A k \in DOMAIN sent' : k \in DOMAIN sent \/ k = Len(sent) + 1
        /\ sent'[Len(sent) + 1] = request
    BY <2>1, Delivered
  <2>3. ~FrameIsPending'
    BY <2>1
  <2>4. ASSUME NEW k \in DOMAIN sent', sent'[k].signal = "none",
               sent'[k].start = starts
        PROVE  /\ sent'[k].content <= position
               /\ slot # <<>> => sent'[k].content < Head(slot)
    BY <2>1, <2>2, <2>4
  <2> QED
    BY <2>1, <2>3, <2>4
<1>22. CASE DeliveryFails
  BY <1>22, <1>t, DeliveryFailsProperties
<1>23. CASE StepEnd
  BY <1>23, <1>t DEF StepEnd
<1>24. CASE EndOfVideo
  BY <1>24, <1>t DEF EndOfVideo
<1>25. CASE FeedFrame
  <2>1. /\ config.kind = "ffmpeg" /\ position' = position + 1
        /\ slot' = <<position + 1>>
        /\ UNCHANGED <<config, thread, request, outgoing, sent, starts>>
    BY <1>25 DEF FeedFrame, Feeding
  <2>2. slot' # <<>> /\ Head(slot') = position + 1
    BY <2>1
  <2>3. request.content \in Nat
    BY RequestFields DEF ReaderTypeInv
  <2> QED
    BY <2>1, <2>2, <2>3, <1>t
<1>26. CASE FeedEnd
  BY <1>26, <1>t DEF FeedEnd, Feeding
<1>27. CASE UNCHANGED readerVars
  BY <1>27, <1>t DEF readerVars
<1> QED
  BY <1>1, <1>2, <1>3, <1>4, <1>5, <1>6, <1>7, <1>8, <1>9, <1>10, <1>11, <1>12,
     <1>13, <1>14, <1>15, <1>16, <1>17, <1>18, <1>19, <1>20, <1>21, <1>22, <1>23,
     <1>24, <1>25, <1>26, <1>27
  DEF ReaderNext

(* No step ends an uninterrupted play without a flush signal.               *)
LEMMA EndStep == ReadInv /\ EndInv /\ [ReaderNext]_readerVars => EndInv'
<1> SUFFICES ASSUME ReaderTypeInv, PlayInv, FlushInv, EndInv,
                    [ReaderNext]_readerVars
             PROVE  EndInv'
  BY DEF ReadInv
<1> USE DEF EndInv, LastSent, nodeVars, threadVars, sourceVars,
            portVars
<1>t. /\ starts \in Nat /\ opens \in Nat /\ asyncOf \in Nat /\ Len(sent) \in Nat
      /\ sent # <<>> => Len(sent) \in DOMAIN sent
      /\ \A k \in DOMAIN sent : sent[k].start <= starts /\ sent[k].start \in Nat
                /\ sent[k].opening \in Nat /\ sent[k].opening <= opens
      /\ state \in {"unconfigured", "inactive"} => thread = "none"
      /\ state \in {"active", "deactivating"} => starts > 0
      /\ outgoing # <<>> => thread = "waiting" /\ outgoing = <<request>>
      /\ thread \in {"read", "waiting"} =>
           request.start = starts /\ request.opening = opens
      /\ \A k \in DOMAIN sent : sent[k].signal = "Flush" /\ sent[k].start = starts
                => outgoing = <<>>
      /\ state \in States
  BY SentFields DEF ReaderTypeInv, PlayInv, FlushInv
<1>1. CASE Open
  BY <1>1, <1>t DEF Open, Opened
<1>2. CASE OpenFails
  BY <1>2, <1>t DEF OpenFails
<1>3. CASE Start
  BY <1>3, <1>t DEF Start, Started
<1>4. CASE Close
  BY <1>4, <1>t DEF Close
<1>5. ASSUME NEW by \in {"api", "service"}, OwnerStops(by) PROVE EndInv'
  BY <1>5, <1>t DEF OwnerStops
<1>6. CASE JoinBegin
  BY <1>6, <1>t DEF JoinBegin
<1>7. CASE JoinFails
  BY <1>7, <1>t DEF JoinFails
<1>8. CASE JoinEnd
  BY <1>8, <1>t DEF JoinEnd
<1>9. CASE StopUrl
  BY <1>9, <1>t DEF StopUrl, BaseStops
<1>10. CASE StopFFmpeg
  BY <1>10, <1>t DEF StopFFmpeg
<1>11. CASE AsyncJoin
  BY <1>11, <1>t DEF AsyncJoin
<1>12. CASE AsyncJoined
  BY <1>12, <1>t DEF AsyncJoined
<1>13. CASE AsyncStopCall
  BY <1>13, <1>t DEF AsyncStopCall
<1>14. CASE TimerTick
  BY <1>14, <1>t DEF TimerTick
<1>15. CASE LoopEnd
  BY <1>15, <1>t DEF LoopEnd
<1>16. CASE StepBegin
  BY <1>16, <1>t DEF StepBegin, TokenAvailable
<1>17. CASE ReadUrl
  BY <1>17, <1>t, ReadProperties
<1>18. CASE ReadFFmpeg
  BY <1>18, <1>t, ReadProperties
<1>19. CASE Push
  BY <1>19, <1>t DEF Push
<1>20. CASE PushRefused
  BY <1>20, <1>t DEF PushRefused, MayDrop
<1>21. CASE Deliver
  BY <1>21, <1>t, DeliverProperties, Delivered DEF ReaderTypeInv, States
<1>22. CASE DeliveryFails
  BY <1>22, <1>t, DeliveryFailsProperties
<1>23. CASE StepEnd
  BY <1>23, <1>t DEF StepEnd
<1>24. CASE EndOfVideo
  BY <1>24, <1>t DEF EndOfVideo
<1>25. CASE FeedFrame
  BY <1>25, <1>t DEF FeedFrame, Feeding
<1>26. CASE FeedEnd
  BY <1>26, <1>t DEF FeedEnd, Feeding
<1>27. CASE UNCHANGED readerVars
  BY <1>27, <1>t DEF readerVars
<1> QED
  BY <1>1, <1>2, <1>3, <1>4, <1>5, <1>6, <1>7, <1>8, <1>9, <1>10, <1>11, <1>12,
     <1>13, <1>14, <1>15, <1>16, <1>17, <1>18, <1>19, <1>20, <1>21, <1>22, <1>23,
     <1>24, <1>25, <1>26, <1>27
  DEF ReaderNext

-----------------------------------------------------------------------------
(* What was sent is not touched but by a delivery. *)
LEMMA OnlyDeliverySends ==
  ASSUME [ReaderNext]_readerVars, ~Deliver
  PROVE  UNCHANGED <<config, sent>>
<1> USE DEF nodeVars, threadVars, sourceVars, portVars
<1>1. CASE Open \/ OpenFails \/ Start \/ Close
           \/ JoinBegin \/ JoinFails \/ JoinEnd
  BY <1>1
  DEF Open, Opened, OpenFails, Start, Started,
      Close, JoinBegin, JoinFails,
              JoinEnd
<1>2. ASSUME NEW by \in {"api", "service"}, OwnerStops(by)
      PROVE  UNCHANGED <<config, sent>>
  BY <1>2 DEF OwnerStops
<1>3. CASE StopUrl \/ StopFFmpeg \/ AsyncJoin
           \/ AsyncJoined \/ AsyncStopCall \/ TimerTick
  BY <1>3
  DEF StopUrl, StopFFmpeg, AsyncJoin, AsyncJoined,
      AsyncStopCall, TimerTick
<1>4. CASE LoopEnd \/ StepBegin \/ ReadUrl
           \/ ReadFFmpeg \/ Push \/ PushRefused
  BY <1>4
  DEF LoopEnd, StepBegin, ReadUrl, ReadFFmpeg,
      Push, PushRefused
<1>5. CASE DeliveryFails \/ StepEnd \/ EndOfVideo
           \/ FeedFrame \/ FeedEnd
  BY <1>5
  DEF DeliveryFails, StepEnd, EndOfVideo, FeedFrame,
      FeedEnd
<1>6. CASE UNCHANGED readerVars
  BY <1>6 DEF readerVars
<1> QED
  BY <1>1, <1>2, <1>3, <1>4, <1>5, <1>6 DEF ReaderNext

(* A frame that is delivered has a higher number, and is newer, than those  *)
(* before it.                                                               *)
LEMMA NumbersGrowStep ==
  ReadInv /\ NumberInv /\ ContentInv /\ NumbersGrow
  /\ [ReaderNext]_readerVars => NumbersGrow'
<1> SUFFICES ASSUME ReaderTypeInv, PlayInv, NumberInv, ContentInv,
                    NumbersGrow, [ReaderNext]_readerVars
             PROVE  NumbersGrow'
  BY DEF ReadInv
<1>1. CASE ~Deliver
  BY <1>1, OnlyDeliverySends DEF NumbersGrow
<1>2. CASE Deliver
  <2>1. /\ thread = "waiting" /\ outgoing # <<>> /\ request \in Requests
        /\ request.start = starts /\ request.opening = opens /\ UNCHANGED config
        /\ sent' = Append(sent, request) /\ sent \in Seq(Requests)
    BY <1>2, DeliverProperties DEF ReaderTypeInv
  <2>2. /\ \A k \in DOMAIN sent : sent'[k] = sent[k]
        /\ \A k \in DOMAIN sent' : k \in DOMAIN sent \/ k = Len(sent) + 1
        /\ sent'[Len(sent) + 1] = request
        /\ DOMAIN sent = 1 .. Len(sent) /\ Len(sent) \in Nat
    BY <2>1, Delivered
  <2>3. SUFFICES ASSUME NEW m \in DOMAIN sent', NEW n \in DOMAIN sent', m < n,
                        sent'[m].signal = "none", sent'[n].signal = "none",
                        sent'[m].opening = sent'[n].opening
                 PROVE  /\ sent'[m].number < sent'[n].number
                        /\ config.reliable =>
                             sent'[n].number - sent'[m].number <= n - m
                        /\ sent'[m].start = sent'[n].start =>
                             sent'[m].content < sent'[n].content
    BY <2>1 DEF NumbersGrow
  <2>4. m \in DOMAIN sent /\ sent'[m] = sent[m]
    BY <2>2, <2>3
  <2>5. CASE n \in DOMAIN sent
    BY <2>2, <2>3, <2>4, <2>5 DEF NumbersGrow
  <2>6. CASE n = Len(sent) + 1
    <3>1. sent'[n] = request /\ request.signal = "none" /\ sent[m].signal = "none"
          /\ sent[m].opening = opens
      BY <2>1, <2>2, <2>3, <2>4, <2>6
    <3>2. FrameIsPending /\ Fresh = 1
      BY <3>1, <2>1 DEF FrameIsPending, Fresh
    <3>3. /\ request.number = number /\ sent[m].number + 1 <= number
          /\ config.reliable => number - sent[m].number <= Len(sent) + 1 - m
      BY <3>1, <3>2, <2>1, <2>4 DEF NumberInv
    <3>4. sent[m].start = starts => sent[m].content < request.content
      BY <3>1, <3>2, <2>1, <2>4 DEF ContentInv
    <3>5. sent[m].number \in Int /\ request.number \in Int
      BY <2>1, <2>4, SentFields, RequestFields
    <3> QED
      BY <3>1, <3>3, <3>4, <3>5, <2>1, <2>4, <2>6
  <2> QED
    BY <2>2, <2>5, <2>6
<1> QED
  BY <1>1, <1>2

(* A delivered frame whose number is not higher follows a flush signal or   *)
(* an interrupted play.                                                     *)
LEMMA FlushBeforeRestartStep ==
  ReadInv /\ NumberInv /\ EndInv /\ FlushBeforeRestart
  /\ [ReaderNext]_readerVars
    => FlushBeforeRestart'
<1> SUFFICES ASSUME ReaderTypeInv, PlayInv, NumberInv, EndInv,
                    FlushBeforeRestart, [ReaderNext]_readerVars
             PROVE  FlushBeforeRestart'
  BY DEF ReadInv
<1>1. interrupted \subseteq interrupted'
  <2> USE DEF nodeVars
  <2>1. ASSUME NEW by \in {"api", "service"}, OwnerStops(by)
        PROVE  interrupted \subseteq interrupted'
    BY <2>1 DEF OwnerStops
  <2>2. CASE AsyncStopCall
    BY <2>2 DEF AsyncStopCall
  <2>3. CASE Open \/ OpenFails \/ Start \/ Close
             \/ JoinBegin \/ JoinFails \/ JoinEnd
    BY <2>3
    DEF Open, Opened, OpenFails, Start, Started,
        Close, JoinBegin, JoinFails,
                JoinEnd
  <2>4. CASE StopUrl \/ StopFFmpeg \/ AsyncJoin
             \/ AsyncJoined \/ TimerTick
    BY <2>4
    DEF StopUrl, StopFFmpeg, AsyncJoin, AsyncJoined,
        TimerTick
  <2>5. CASE LoopEnd \/ StepBegin \/ ReadUrl
             \/ ReadFFmpeg \/ Push \/ PushRefused
    BY <2>5
    DEF LoopEnd, StepBegin, ReadUrl, ReadFFmpeg,
        Push, PushRefused
  <2>6. CASE Deliver \/ DeliveryFails \/ StepEnd
             \/ EndOfVideo \/ FeedFrame \/ FeedEnd
    BY <2>6
    DEF Deliver, DeliveryFails, StepEnd, EndOfVideo,
        FeedFrame, FeedEnd
  <2>7. CASE UNCHANGED readerVars
    BY <2>7 DEF readerVars
  <2> QED
    BY <2>1, <2>2, <2>3, <2>4, <2>5, <2>6, <2>7 DEF ReaderNext
<1>2. CASE ~Deliver
  BY <1>1, <1>2, OnlyDeliverySends DEF FlushBeforeRestart
<1>3. CASE Deliver
  <2>1. /\ thread = "waiting" /\ outgoing # <<>> /\ request \in Requests
        /\ request.start = starts /\ request.opening = opens
        /\ sent' = Append(sent, request) /\ sent \in Seq(Requests)
    BY <1>3, DeliverProperties DEF ReaderTypeInv
  <2>2. /\ \A k \in DOMAIN sent : sent'[k] = sent[k]
        /\ \A k \in DOMAIN sent' : k \in DOMAIN sent \/ k = Len(sent) + 1
        /\ sent'[Len(sent) + 1] = request /\ DOMAIN sent' = 1 .. Len(sent) + 1
        /\ DOMAIN sent = 1 .. Len(sent) /\ Len(sent) \in Nat
    BY <2>1, Delivered
  <2>3. SUFFICES ASSUME NEW n \in DOMAIN sent', n # 1,
                        sent'[n - 1].signal = "none", sent'[n].signal = "none",
                        sent'[n].number <= sent'[n - 1].number
                 PROVE  sent'[n - 1].opening \in interrupted'
    BY DEF FlushBeforeRestart
  <2>4. n - 1 \in DOMAIN sent /\ sent'[n - 1] = sent[n - 1]
    BY <2>2, <2>3
  <2>5. CASE n \in DOMAIN sent
    BY <1>1, <2>2, <2>3, <2>4, <2>5 DEF FlushBeforeRestart
  <2>6. CASE n = Len(sent) + 1
    <3>1. sent # <<>> /\ n - 1 = Len(sent)
      BY <2>1, <2>2, <2>4, <2>6
    <3>2. LastSent.signal = "none" /\ request.signal = "none"
          /\ request.number <= LastSent.number
      BY <3>1, <2>2, <2>3, <2>4, <2>6 DEF LastSent
    <3>3. LastSent.opening # opens
      <4>1. SUFFICES ASSUME LastSent.opening = opens PROVE FALSE
        OBVIOUS
      <4>2. request.number = number /\ LastSent.number + 1 <= number
        BY <3>1, <3>2, <4>1, <2>1, <2>4
        DEF NumberInv, FrameIsPending, Fresh, LastSent
      <4>3. LastSent.number \in Int /\ number \in Int
        BY <3>1, <2>4, SentFields DEF LastSent, ReaderTypeInv
      <4> QED
        BY <3>2, <4>2, <4>3
    <3>4. LastSent.opening \in interrupted
      BY <3>1, <3>2, <3>3 DEF EndInv
    <3> QED
      BY <1>1, <3>1, <3>4, <2>4 DEF LastSent
  <2> QED
    BY <2>2, <2>5, <2>6
<1> QED
  BY <1>2, <1>3

-----------------------------------------------------------------------------
(* At first nothing was read.                                               *)
LEMMA ReadInit == ReaderInit => ReaderInv
<1> SUFFICES ASSUME ReaderInit PROVE ReaderInv
  OBVIOUS
<1>1. /\ sent = <<>> /\ DOMAIN sent = {} /\ outgoing = <<>> /\ slot = <<>>
      /\ thread = "none" /\ state = "unconfigured" /\ starts = 0 /\ asyncOf = 0
  BY DEF ReaderInit
<1>2. ReaderTypeInv
  <2>1. -1 \in Int /\ 0 \in Nat
    OBVIOUS
  <2>2. NoRequest \in Requests
    BY <2>1 DEF NoRequest, Requests
  <2>3. <<>> \in Seq(Requests) /\ <<>> \in Seq(Nat)
    OBVIOUS
  <2>4. number = -1 /\ request = NoRequest
    BY DEF ReaderInit
  <2> QED
    BY <2>1, <2>2, <2>3, <2>4 DEF ReaderInit, ReaderTypeInv, States
<1>3. PlayInv /\ FlushInv /\ ContentInv /\ EndInv
  BY <1>1 DEF PlayInv, FlushInv, FlushEndsThePlay, ContentInv, EndInv
<1>4. NumberInv /\ NumbersGrow /\ FlushBeforeRestart
  BY <1>1
  DEF NumberInv, NumbersGrow, FlushBeforeRestart, FrameIsPending
<1> QED
  BY <1>2, <1>3, <1>4 DEF ReaderInv, ReadInv

(* The inductive invariant of the reader holds in every reachable state.    *)
LEMMA ReadInductive == ReaderSpec => []ReaderInv
<1>1. ReaderInv /\ [ReaderNext]_readerVars => ReaderInv'
  BY ReaderTypeStep, PlayStep, FlushStep, NumberStep, ContentStep, EndStep,
     NumbersGrowStep, FlushBeforeRestartStep DEF ReaderInv, ReadInv
<1> QED
  BY ReadInit, <1>1, PTL DEF ReaderSpec

(* Behind the flush signal that ends a play, the reader sends nothing more  *)
(* of this play, and no second signal.                                      *)
THEOREM NothingBehindTheFlush == ReaderSpec => []FlushEndsThePlay
<1>1. ReaderInv => FlushEndsThePlay
  BY DEF ReaderInv, ReadInv, FlushInv
<1> QED
  BY <1>1, ReadInductive, PTL

(* The frames of an opening keep their numbers' order over every stop and   *)
(* start, without a gap if nothing may be dropped, and within a play a      *)
(* higher number is a newer frame of the video.                             *)
THEOREM FramesAreNumbered == ReaderSpec => []NumbersGrow
<1>1. ReaderInv => NumbersGrow
  BY DEF ReaderInv
<1> QED
  BY <1>1, ReadInductive, PTL

(* Numbers start over behind a flush signal, or in an opening whose last    *)
(* play was interrupted.                                                    *)
THEOREM RestartsAreAnnounced == ReaderSpec => []FlushBeforeRestart
<1>1. ReaderInv => FlushBeforeRestart
  BY DEF ReaderInv
<1> QED
  BY <1>1, ReadInductive, PTL

=============================================================================
