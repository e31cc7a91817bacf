--------------------------- MODULE FrameTransport ---------------------------
(***************************************************************************)
(* How a frame travels: FrameMediator turns it into a message, which       *)
(* carries the pixels or a token of a block in shared memory, and back     *)
(* into an image; SharedMemoryFactory hands out the client of the process; *)
(* VineyardShmClient puts, reads and deletes blocks; its ExpirationCache   *)
(* evicts a block when its alive duration is over.                         *)
(*                                                                         *)
(* A task is one call of to_frame_msg (publish) or of to_cv_image_copy     *)
(* (extract) on a thread of its own, without a target encoding, as every   *)
(* node calls them.  The block a task puts has the name of the task, a     *)
(* client the name of the task that creates it.  The object store itself   *)
(* is external.                                                            *)
(***************************************************************************)
EXTENDS Naturals, FiniteSets

CONSTANTS
  Tasks,     \* calls, each on a thread of its own
  Plans,     \* what the tasks do: see PlanAssumption
  Alive,     \* alive_duration, in ticks
  Kept,      \* blocks whose on_expired callback answers Keep
  Warm,      \* the plans that find a client in the factory
  Failing,   \* the plans in which the store may fail: connect, put, get, delete
  Shutting,  \* the plans in which ROS shuts down
  None,      \* no client
  MaxClock   \* bound

(* A call asks the factory for the client at most twice. *)
First == <<None, 0>>
Clients == (Tasks \X {1, 2}) \cup {First}
Factory == <<None, 1>>

ASSUME TaskAssumption ==
  /\ None \notin Tasks \cup Clients /\ Kept \subseteq Tasks
  /\ Warm \subseteq Plans /\ Failing \subseteq Plans /\ Shutting \subseteq Plans
  /\ {Alive, MaxClock} \subseteq Nat

(* A task publishes an image with pixels, one without, or the message of    *)
(* another task, under a storage_type; or it extracts the image of a task.  *)
Storages == {"Auto", "RosSerialized", "SharedMemory"}
ASSUME PlanAssumption ==
  \A p \in Plans : \A t \in Tasks :
    p[t] \in [job : {"publish", "extract"}, storage : Storages,
               source : Tasks \cup {"mat", "empty"}]

VARIABLES
  plan,        \* the calls that are made
  at,          \* step of each task
  held,        \* the client whose shared_ptr the task holds
  msg,         \* what the task returns: its code and what the output carries
  registered,  \* m_clients_by_config, for the one configuration of a process
  client,      \* life of each client: "none", "alive", "closing", "dead"
  closer,      \* the thread that runs its destructor
  evictor,     \* the auto eviction thread of its cache
  todo,        \* expired blocks a running eviction has still to ask about
  doomed,      \* blocks it will erase from the cache at the end
  block,       \* cache entries: the cache a block is in and its time_to_evict
  store,       \* blocks in the object store: "absent", "stored", "deleted"
  reused,      \* deleted blocks whose memory was given to another block
  undeleted,   \* history: blocks that were to be deleted, in vain
  callbacks,   \* on_shutdown callbacks that are still to run
  down,        \* whether ROS is shutting down
  broken,      \* a callback has used a cache that is destroyed: from here on
               \* anything may happen, the model goes on as if nothing had
  putAt,       \* history: when a block was put
  clock

taskVars == <<plan, at, held, msg>>
clientVars == <<registered, client, closer>>
cacheVars == <<evictor, todo, doomed, block>>
storeVars == <<store, reused, undeleted, putAt>>
shutVars == <<callbacks, down, broken>>
vars == <<taskVars, clientVars, cacheVars, storeVars, shutVars, clock>>

NoBlock == [cache |-> None, due |-> 0]
Pending == [ret |-> "none", has |-> "nothing", of |-> None]
(* The frame with its pixels, a token of a block, or neither. *)
Pixels(of) == [ret |-> "ok", has |-> "pixels", of |-> of]
Token(of) == [ret |-> "ok", has |-> "token", of |-> of]
Nothing(code) == [ret |-> code, has |-> "nothing", of |-> None]

Init ==
  /\ plan \in Plans
  /\ at = [t \in Tasks |-> "idle"]
  /\ held = [t \in Tasks |-> None]
  /\ msg = [t \in Tasks |-> Pending]
  /\ registered = IF plan \in Warm THEN First ELSE None
  /\ client = [c \in Clients |->
                 IF plan \in Warm /\ c = First THEN "alive" ELSE "none"]
  /\ closer = [c \in Clients |-> None]
  /\ evictor = [c \in Clients |->
                  IF plan \in Warm /\ c = First THEN "asleep" ELSE "off"]
  /\ todo = [c \in Clients |-> {}] /\ doomed = [c \in Clients |-> {}]
  /\ block = [t \in Tasks |-> NoBlock]
  /\ store = [t \in Tasks |-> "absent"] /\ reused = {} /\ undeleted = {}
  /\ putAt = [t \in Tasks |-> 0]
  /\ callbacks = {} /\ down = FALSE /\ broken = FALSE
  /\ clock = 0

(* A thread is busy as long as it runs the destructor of a client. *)
Busy(who) == \E c \in Clients : client[c] = "closing" /\ closer[c] = who
IsLocked(c) == evictor[c] \in {"evicting", "flushing"}

Goes(t, step) == at' = [at EXCEPT ![t] = step]
Returns(t, result) == msg' = [msg EXCEPT ![t] = result]

(* The last shared_ptr is gone: ~VineyardShmClient runs on this thread and  *)
(* begins with m_expiration_cache.reset().                                  *)
DropClient(c, who, holders, reg) ==
  IF c # None /\ client[c] = "alive" /\ c # reg /\ c \notin holders
  THEN /\ client' = [client EXCEPT ![c] = "closing"]
       /\ closer' = [closer EXCEPT ![c] = who]
  ELSE UNCHANGED <<client, closer>>
HeldByOthers(t) == {held[u] : u \in Tasks \ {t}}

-----------------------------------------------------------------------------
(* The FrameMediator is built from an image or from a message. *)
SourceMsg(t) ==
  CASE plan[t].source = "mat" -> Pixels(t)
    [] plan[t].source = "empty" -> Nothing("ok")
    [] OTHER -> msg[plan[t].source]

Begin(t) ==
  /\ at[t] = "idle"
  /\ plan[t].source \in Tasks =>
       at[plan[t].source] = "done" /\ msg[plan[t].source].ret # "raised"
  /\ LET source == SourceMsg(t) IN
     CASE plan[t].job = "publish" /\ plan[t].storage # "RosSerialized" ->
            Goes(t, "choose") /\ UNCHANGED msg
       [] source.has = "token" -> Goes(t, "read") /\ UNCHANGED msg
       [] OTHER -> Goes(t, "done") /\ Returns(t, [source EXCEPT !.ret = "ok"])
  /\ UNCHANGED <<plan, held, clientVars, cacheVars, storeVars, shutVars, clock>>

(* get_default_client().lock(): the client of the process is found in the   *)
(* map, or made.  Nothing guards the map.                                   *)
WantsClient(t) == at[t] \in {"choose", "read"} /\ ~Busy(t)
WithClient(t) == IF at[t] = "choose" THEN "chosen" ELSE "get"
IsConnecting(t) == at[t] \in {"connect to put", "connect to read"}
Connected(t) == IF at[t] = "connect to put" THEN "chosen" ELSE "get"

FindClient(t) ==
  /\ WantsClient(t) /\ registered # None
  /\ held' = [held EXCEPT ![t] = registered]
  /\ Goes(t, WithClient(t))
  /\ UNCHANGED <<plan, msg, clientVars, cacheVars, storeVars, shutVars, clock>>

(* _create_client_by_config: the constructor starts the eviction thread,    *)
(* then connect() may fail.                                                 *)
CreateClient(t) ==
  /\ WantsClient(t) /\ registered = None
  /\ LET c == <<t, IF client[<<t, 1>>] = "none" THEN 1 ELSE 2>> IN
     /\ client' = [client EXCEPT ![c] = "alive"]
     /\ evictor' = [evictor EXCEPT ![c] = "asleep"]
     /\ held' = [held EXCEPT ![t] = c]
     /\ callbacks' = IF down THEN callbacks ELSE callbacks \cup {c}
  /\ Goes(t, IF at[t] = "choose" THEN "connect to put" ELSE "connect to read")
  /\ UNCHANGED <<plan, msg, registered, closer, todo, doomed, block, storeVars, down,
                 broken, clock>>

ConnectFails(t) ==
  /\ plan \in Failing /\ IsConnecting(t)
  /\ held' = [held EXCEPT ![t] = None]
  /\ DropClient(held[t], t, HeldByOthers(t), registered)
  /\ Goes(t, Connected(t))
  /\ UNCHANGED <<plan, msg, registered, cacheVars, storeVars, shutVars, clock>>

(* m_clients_by_config[config] = client replaces what another thread has    *)
(* registered meanwhile: that client dies with its last user.               *)
Register(t) ==
  /\ IsConnecting(t)
  /\ registered' = held[t]
  /\ DropClient(registered, t, {held[u] : u \in Tasks}, held[t])
  /\ Goes(t, Connected(t))
  /\ UNCHANGED <<plan, held, msg, cacheVars, storeVars, shutVars, clock>>

-----------------------------------------------------------------------------
(* to_frame_msg *)
UseShm(t) == plan[t].storage = "SharedMemory" \/ held[t] # None

ChooseStorage(t) ==
  LET source == SourceMsg(t) IN
  /\ at[t] = "chosen" /\ ~Busy(t)
  /\ CASE ~UseShm(t) /\ source.has = "token" ->
            Goes(t, "read") /\ UNCHANGED msg
       [] ~UseShm(t) \/ source.has # "pixels" ->
            Goes(t, "release") /\ Returns(t, [source EXCEPT !.ret = "ok"])
       [] UseShm(t) /\ held[t] = None ->
            Goes(t, "release") /\ Returns(t, Nothing("raised"))
       [] OTHER -> Goes(t, "put") /\ UNCHANGED msg
  /\ UNCHANGED <<plan, held, clientVars, cacheVars, storeVars, shutVars, clock>>

(* put_data_direct: the builder, Seal and Persist of the store; the memory  *)
(* of a deleted block may be used again.                                    *)
Put(t) ==
  /\ at[t] = "put"
  /\ store' = [store EXCEPT ![t] = "stored"]
  /\ putAt' = [putAt EXCEPT ![t] = clock]
  /\ reused' \in {reused} \cup
       {reused \cup {f} : f \in {g \in Tasks : store[g] = "deleted"}}
  /\ Goes(t, "add")
  /\ UNCHANGED <<plan, held, msg, clientVars, cacheVars, undeleted, shutVars, clock>>

PutFails(t) ==
  /\ plan \in Failing /\ at[t] = "put"
  /\ Goes(t, "release") /\ Returns(t, Nothing("failed"))
  /\ UNCHANGED <<plan, held, clientVars, cacheVars, storeVars, shutVars, clock>>

(* Mutant: a block that is put without an alive duration of its own is      *)
(* never registered.                                                        *)
AddBlockNever(t) ==
  /\ at[t] = "add" /\ ~IsLocked(held[t])
  /\ Goes(t, "release") /\ Returns(t, Token(t))
  /\ UNCHANGED <<plan, held, clientVars, cacheVars, storeVars, shutVars, clock>>

(* add_memory_block, under the cache mutex; then the token is filled in.    *)
(* MessageStorageOptions give every block an alive duration.                *)
AddBlock(t) ==
  /\ at[t] = "add" /\ ~IsLocked(held[t])
  /\ block' = [block EXCEPT ![t] = [cache |-> held[t], due |-> clock + Alive]]
  /\ Goes(t, "release") /\ Returns(t, Token(t))
  /\ UNCHANGED <<plan, held, clientVars, evictor, todo, doomed, storeVars, shutVars,
                 clock>>

(* The shared_ptr of the client goes out of scope. *)
Release(t) ==
  /\ at[t] \in {"release", "release to copy"}
  /\ held' = [held EXCEPT ![t] = None]
  /\ DropClient(held[t], t, HeldByOthers(t), registered)
  /\ Goes(t, IF at[t] = "release" THEN "return" ELSE "copy")
  /\ UNCHANGED <<plan, msg, registered, cacheVars, storeVars, shutVars, clock>>

Return(t) ==
  /\ at[t] = "return" /\ ~Busy(t)
  /\ Goes(t, "done")
  /\ UNCHANGED <<plan, held, msg, clientVars, cacheVars, storeVars, shutVars, clock>>

-----------------------------------------------------------------------------
(* to_cv_image_shared of a token: without a client the answer is an empty   *)
(* image and success; a block that is gone, or that the store does not give *)
(* out, is an error.                                                        *)
GetData(t) ==
  LET isStored == store[SourceMsg(t).of] = "stored" IN
  /\ at[t] = "get" /\ ~Busy(t)
  /\ \/ /\ held[t] = None
        /\ Goes(t, "release") /\ Returns(t, Nothing("ok"))
     \/ /\ held[t] # None /\ (~isStored \/ plan \in Failing)
        /\ Goes(t, "release") /\ Returns(t, Nothing("failed"))
     \/ /\ held[t] # None /\ isStored
        /\ Goes(t, "release to copy") /\ UNCHANGED msg
  /\ UNCHANGED <<plan, held, clientVars, cacheVars, storeVars, shutVars, clock>>

(* The data block, which keeps the memory in use, is gone when the image is *)
(* copied: by then other pixels may be there.                               *)
Copy(t) ==
  LET f == SourceMsg(t).of IN
  /\ at[t] = "copy" /\ ~Busy(t)
  /\ Returns(t, Pixels(IF f \in reused THEN None ELSE f))
  /\ Goes(t, "done")
  /\ UNCHANGED <<plan, held, clientVars, cacheVars, storeVars, shutVars, clock>>

-----------------------------------------------------------------------------
(* ExpirationCache *)
InCache(c) == {f \in Tasks : block[f].cache = c}

(* Mutant: blocks are evicted when they are about to expire. *)
ExpiredEarly(c) == {f \in InCache(c) : block[f].due <= clock + 1}

(* Mutant: a block that is kept ends the round for those behind it. *)
ExpiredUnlessKept(c) ==
  IF InCache(c) \cap Kept # {} THEN {}
  ELSE {f \in InCache(c) : block[f].due <= clock}

Expired(c) == {f \in InCache(c) : block[f].due <= clock}

(* The eviction thread takes the mutex and finds what has expired. *)
EvictBegin(c) ==
  /\ evictor[c] = "asleep" /\ client[c] = "alive" /\ Expired(c) # {}
  /\ evictor' = [evictor EXCEPT ![c] = "evicting"]
  /\ todo' = [todo EXCEPT ![c] = Expired(c)]
  /\ UNCHANGED <<taskVars, clientVars, doomed, block, storeVars, shutVars, clock>>

(* The store deletes a block, or the client is not connected or DelData     *)
(* throws, and the block stays.                                             *)
DeleteObject(f) ==
  \/ /\ store' = [store EXCEPT ![f] = "deleted"]
     /\ UNCHANGED undeleted
  \/ /\ plan \in Failing
     /\ undeleted' = undeleted \cup {f}
     /\ UNCHANGED store

(* on_expired, then the eviction callback of the client, which tries to     *)
(* delete the block and answers 0 however that ends: the block is doomed to *)
(* leave the cache in either case.                                          *)
EvictOne(c, f) ==
  /\ f \in todo[c]
  /\ todo' = [todo EXCEPT ![c] = @ \ {f}]
  /\ IF f \in Kept THEN UNCHANGED <<doomed, store, undeleted>>
     ELSE /\ doomed' = [doomed EXCEPT ![c] = @ \cup {f}]
          /\ DeleteObject(f)
  /\ UNCHANGED <<taskVars, clientVars, evictor, block, reused, putAt, shutVars,
                 clock>>

(* What was to be deleted leaves the cache at the end.  A destructor that   *)
(* begins while a shutdown callback resets the cache is undefined.          *)
EvictEnd(c) ==
  /\ IsLocked(c) /\ todo[c] = {}
  /\ block' = [f \in Tasks |-> IF f \in doomed[c] THEN NoBlock ELSE block[f]]
  /\ doomed' = [doomed EXCEPT ![c] = {}]
  /\ IF evictor[c] = "evicting"
     THEN /\ evictor' = [evictor EXCEPT ![c] = "asleep"]
          /\ UNCHANGED <<client, closer, broken>>
     ELSE LET reset == closer[c] = "shutdown"
              used == c = registered \/ \E t \in Tasks : held[t] = c
          IN /\ evictor' = [evictor EXCEPT ![c] = "off"]
             /\ client' = [client EXCEPT ![c] =
                             IF reset /\ used THEN "alive" ELSE "dead"]
             /\ closer' = [closer EXCEPT ![c] = None]
             /\ broken' = (broken \/ (reset /\ ~used))
  /\ UNCHANGED <<taskVars, registered, todo, storeVars, callbacks, down, clock>>

(* reset(): the eviction thread is joined, then everything is evicted. *)
Flush(c) ==
  /\ client[c] = "closing" /\ evictor[c] \in {"asleep", "off"}
  /\ evictor' = [evictor EXCEPT ![c] = "flushing"]
  /\ todo' = [todo EXCEPT ![c] = InCache(c)]
  /\ UNCHANGED <<taskVars, clientVars, doomed, block, storeVars, shutVars, clock>>

-----------------------------------------------------------------------------
(* rclcpp::shutdown runs the callbacks one after the other, in no order     *)
(* that is promised.                                                        *)
ShutDown ==
  /\ plan \in Shutting /\ ~down
  /\ down' = TRUE
  /\ callbacks' = callbacks \cup {Factory} \cup
       (IF plan \in Warm THEN {First} ELSE {})
  /\ UNCHANGED <<taskVars, clientVars, cacheVars, storeVars, broken, clock>>

ClearFactory ==
  /\ down /\ Factory \in callbacks /\ ~Busy("shutdown")
  /\ callbacks' = callbacks \ {Factory}
  /\ registered' = None
  /\ DropClient(registered, "factory", {held[u] : u \in Tasks}, None)
  /\ UNCHANGED <<taskVars, cacheVars, storeVars, down, broken, clock>>

(* The callback of a cache, which was never unregistered; a second reset at *)
(* the same time, or one of a cache that is gone, is undefined.             *)
ResetCache(c) ==
  /\ down /\ c \in callbacks /\ ~Busy("shutdown") /\ ~Busy("factory")
  /\ callbacks' = callbacks \ {c}
  /\ IF client[c] = "alive"
     THEN /\ client' = [client EXCEPT ![c] = "closing"]
          /\ closer' = [closer EXCEPT ![c] = "shutdown"]
          /\ UNCHANGED broken
     ELSE /\ broken' = TRUE
          /\ UNCHANGED <<client, closer>>
  /\ UNCHANGED <<taskVars, registered, cacheVars, storeVars, down, clock>>

Tick ==
  /\ clock < MaxClock
  /\ clock' = clock + 1
  /\ UNCHANGED <<taskVars, clientVars, cacheVars, storeVars, shutVars>>

Task(t) ==
  \/ Begin(t) \/ FindClient(t) \/ CreateClient(t) \/ ConnectFails(t)
  \/ Register(t) \/ ChooseStorage(t) \/ Put(t) \/ PutFails(t) \/ AddBlock(t)
  \/ Release(t) \/ Return(t) \/ GetData(t) \/ Copy(t)

Cache(c) ==
  \/ EvictBegin(c) \/ EvictEnd(c) \/ Flush(c)
  \/ \E f \in Tasks : EvictOne(c, f)

Next ==
  \/ \E t \in Tasks : Task(t)
  \/ \E c \in Clients : Cache(c) \/ ResetCache(c)
  \/ ShutDown \/ ClearFactory \/ Tick

Spec == Init /\ [][Next]_vars

(* Threads run and time goes by.  The eviction thread sleeps between two     *)
(* rounds, so that a thread which waits for the mutex gets it at last.      *)
(* Nothing says that a deletion succeeds: the eviction thread goes on when  *)
(* it has failed.                                                           *)
Fairness ==
  /\ \A t \in Tasks : WF_vars(Task(t)) /\ SF_vars(AddBlock(t))
  /\ \A c \in Clients : WF_vars(Cache(c))
  /\ WF_vars(Tick)

FairSpec == Spec /\ Fairness
-----------------------------------------------------------------------------
(* No block is left behind in the store without an attempt to delete it: it *)
(* is in the cache of a client that will still make one, or about to be,    *)
(* whatever happens to clients and however the node is shut down.  There is *)
(* one attempt: the error of the store is swallowed and the cache forgets   *)
(* the block, so one whose deletion has failed is left behind for good.     *)
IsAbandoned(f) == plan \in Failing /\ f \in undeleted

NoBlockIsLost ==
  ~broken => \A f \in Tasks \ Kept : store[f] = "stored" =>
    \/ at[f] = "add"
    \/ /\ block[f].cache # None
       /\ client[block[f].cache] \in {"alive", "closing"}
    \/ IsAbandoned(f)

(* A factory without a client may give two tasks one each, and the client   *)
(* that is replaced dies with its user.                                     *)
HasLostClient ==
  plan \notin Warm /\ \E c \in Clients : client[c] \in {"closing", "dead"}

(* An image that was extracted shows the frame that was published, unless   *)
(* its block has outlived its time: a block may then be deleted between     *)
(* get_data and the copy.  It may also be when two tasks have raced for the *)
(* first client of the process: the one that is replaced deletes its blocks *)
(* with it, however young they are.                                         *)
ExtractedIsPublished ==
  \A t \in Tasks : plan[t].job = "extract" /\ msg[t].has = "pixels" =>
    \/ msg[t].of = SourceMsg(t).of
    \/ down \/ clock >= putAt[SourceMsg(t).of] + Alive \/ HasLostClient

(* Blocks whose time is over are deleted at last, unless they are kept or   *)
(* the store fails to delete them.  A deletion that has failed is not tried *)
(* again, and it does not keep the eviction thread from the other blocks.   *)
ExpiredIsDeleted ==
  \A f \in Tasks \ Kept :
    (block[f].cache # None /\ block[f].due <= clock)
      ~> (store[f] = "deleted" \/ IsAbandoned(f) \/ down)
=============================================================================
