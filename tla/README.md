# A TLA+ model of the X-Ray engine core (old_bttr)

The repository is a fork of X-Ray 1.6, the Windows C++ engine
of S.T.A.L.K.E.R.: Call of Pripyat / Call of Chernobyl. It has no unit tests.
Its contracts are in `VERIFY` and `R_ASSERT` lines, most of them compiled out of
a release build, in comments, and in what callers assume of each other. This
directory states those contracts as TLA+ properties, checks them with TLC on
small instances and proves some of them with TLAPS for all instances.

Paths below are relative to `src/src/`.

## 1. The system

### Components

| Component | Code | State | Operations | Modelled |
|---|---|---|---|---|
| Device frame loop, secondary thread | `xrEngine/device.*` | `mt_csEnter`, `mt_csLeave`, `mt_bMustExit`, `dwFrame`, marker, `seqParallel` | `Run`, `on_idle`, `FrameMove`, `mt_Thread` | `SecondaryThread` |
| Scheduler | `xrEngine/xrSheduler.*`, `ISheduled.cpp` | `Items` (heap), `ItemsRT`, `ItemsProcessed`, `Registration` | register, unregister, `Update`, `ProcessStep` | `Sheduler` |
| Object list, object life cycle | `xrEngine/xr_object_list.*`, `xr_object.*` | active, sleeping, two crow lists, `destroy_queue`, `map_NETID`; per object `Props`, `Parent` | `Create`, `Destroy`, `Update`, `MakeMeCrow`, `processing_activate`, `setDestroy` | `ObjectList` |
| Client spawn and events | `xrGame/Level_network_spawn.cpp`, `Level.cpp`, `GameObject.cpp` | the event queue | `g_sv_Spawn`, `cl_Process_Event` | `ServerEntities` (the queue), `ObjectList` (the objects) |
| Message registrators | `xrEngine/pure.h` | vector of `(Object, Prio)`, `in_process`, `changed` | `Add`, `Remove`, `Process`, `Resort` | `Registrator` |
| Thread team | `xrCPU_Pipe/ttapi.cpp`, its callers | slots of workers, a flag per thread, a counter | `AddWorker`, `RunAllWorkers`, `Done` | `ThreadTeam` |
| Server entities | `xrGame/xrServer*.cpp` | `entities`, `children`, `ID_Parent` | spawn, take, reject, destroy | `ServerEntities` |
| ALife switching | `xrGame/alife_switch_manager.cpp`, `alife_update_manager.cpp`, `alife_*_abstract.cpp` | online and offline objects, saved children | `add_online`, `remove_online` | `ServerEntities` |
| Id generator | `xrGame/id_generator.h` | free ids in blocks by age | `tfGetID`, `vfFreeID` | only its use, in `ServerEntities` |
| Deferred events | `xrEngine/EventAPI.cpp` | events by name, deferred list | `Create`, `Destroy`, `Signal`, `Defer`, `OnFrame` | no: see section 6 |
| File transfer | `xrGame/file_transfer.cpp` | chunks sent and received | send, receive, time out | no: multiplayer |
| Sound emitters | `xrSound/SoundRender_Emitter_FSM.cpp` | emitter state, target | `update` | no: sequential, over real time |
| Transport | `xrNetServer` | DirectPlay sessions | - | no: an external library; single player is a loopback |
| Renderers | `Layers` | GPU resources | - | no: only the delegates they queue |
| Physics, collision, particles | `xrPhysics`, `xrCDB`, `xrParticles` | floating point | - | no: numerical code |
| AI, inventory, UI, scripts | `xrGame` | game data | - | no: only their calls into the core |
| Vendored code and tools | `xrGameSpy`, `3rd party`, `sdk`, `DiscordRPC`, `Launcher` | - | - | no |

### How they interact

One frame of the primary thread:

```
BeginFrame   ++dwFrame, Device.dwTimeGlobal, fTimeDelta
seqFrame     (a Registrator), by priority:
             CGamePersistent::OnFrame -> the scheduler's Update
               shedule_Update of game objects            early  steps of ObjectList
             CLevel::OnFrame
               events:  cl_Process_Event, g_sv_Spawn     early  steps
               Objects.Update                            crow lists, destroy queue
             handlers after it                           late   steps
leave mt_csEnter      the secondary thread calls seqParallel, then seqFrameMT
render                (a Registrator: seqRender)
enter mt_csEnter      and do the secondary thread's work if it did not start
```

Server and client of single player are one process. A request of the client
(`u_EventSend`) runs the server's handler at once, inside whatever game code made
it; what the server answers waits in `NET_Queue` until the next `CLevel::OnFrame`.
So the server is ahead of the level by up to a frame, and the next request is
made from the older view. ALife switches entities on and off the level from the
scheduler's update, in between.

The parts share state without locks: `Props` of an object, the crow lists and
the inventory are touched by both threads, kept apart only by the hand-off of
the frame. This is why the hand-off is modelled first and proved.

### What is hard here

* **Interleaving.** Two threads and two critical sections whose order decides
  whether frame work is done twice, never, or while the other thread is in the
  same data.
* **Reentrancy.** A handler, a `shedule_Update` or an `UpdateCL` adds, removes
  or deletes entries of the list that is being walked.
* **Two threads in one object.** Rendering calls `MakeMeCrow` of what it draws on the
  primary thread while the secondary one puts items into slots, which calls it too.
* **Raw pointers.** Lists and copies of lists hold object addresses; an object
  may be gone, or another may live at the same address.
* **Order.** Parents are updated before children and outlive them.
* **Two views.** The server's owner of an item and the level's differ while events
  are under way, and a creature may refuse what the server has already given it.
* **Unlocked hand-over.** The thread team synchronises by one flag per thread and
  one counter; the jobs' parameters live on the caller's stack.
* **Partial failure.** A spawn that is refused half way has to be undone.
* **Liveness.** A marked object must go, also from a paused game. A registered
  object must be served although the scheduler's budget ends its loop. Run must
  return.

`PROJECT.json` lists these under `hazards`, each at its line.

### What makes each component correct

* *Hand-off*: one thread at a time has the frame's data; the queue is worked off
  exactly once between two frames, in order, on living objects; frames and the
  shutdown complete.
* *Scheduler*: it touches only living objects; each is in one place; realtime
  objects are served in every frame; nobody starves.
* *Object list*: flag and lists agree, also with activity counts and the id
  table; nothing dead is updated; owners outlive their items; what is marked is
  destroyed, once.
* *Registrator*: a handler that stays through a pass is called once, in order of
  priority; one that was removed is not called; the list is sorted between passes.
* *Server entities*: parents and children agree after every event
  (`verify_entity`); every event reaches a level on which owner and owned are as
  it needs them; once nothing is under way the level shows what the server has.
* *Thread team*: each particle is handled once; no helper works when the caller
  does not wait; the caller's spinning ends.

## 2. The modules

| Module | Role |
|---|---|
| `FrameWork` | abstract: jobs are collected, each performed once in order, then the next frame begins |
| `SecondaryThread` | the hand-off as the code does it; implements `FrameWork` |
| `SecondaryThreadProofs` | its theorems |
| `ScheduledSet` | abstract: one object is called at a time, only while registered and in need, and once an Update |
| `Sheduler` | the scheduler; implements `ScheduledSet` |
| `ShedulerProofs` | its theorems |
| `ObjectList` | objects from spawn to destruction |
| `ObjectListProofs` | its theorems |
| `SequenceLemmas` | what `RemoveAt`, `RemoveFirst`, `Tail`, `FlattenSeq` and concatenation do to sequences, for all proofs |
| `Registrator` | the prioritised handler list |
| `RegistratorProofs` | its theorems |
| `ServerEntities` | the server's entities, ALife's switching, and the client that follows them by events |
| `ServerEntitiesProofs` | its theorem about the forest of owners |
| `EventQueueProofs` | its theorems about the events under way and the client's view |
| `ThreadTeam` | the helper threads and the caller that shares work with them |
| `ThreadTeamProofs` | its theorems |
| `MC*` | instances for TLC: constants and symmetry |

An operator named `X_Something` next to `X` ("Mutated form") is what a plausible
bug would make of `X`. No specification uses it. It documents what the properties
catch: with it in place of `X` the property listed in `PROJECT.json` fails.

### SecondaryThread

A step is one operation that the other thread can observe: entering or leaving a
critical section, testing a flag, one delegate call.

| Action | Code |
|---|---|
| `BeginFrame` ... `EndFrameMove` | `FrameMove`: `++dwFrame`, then updates, spawns and deletions (`QueueObject`, `DestroyObject`, `UnloadLevel`, ...) in any order |
| `TakeLeave`, `GiveEnter` | `mt_csLeave.Enter(); mt_csEnter.Leave();` |
| `TakeEnter`, `GiveLeave` | after rendering, `mt_csEnter.Enter(); mt_csLeave.Leave();` |
| `EnsureExecuted` | the work is done here if the marker is not the frame's number |
| `MtEnter` ... `MtWaitLeave` | the loop of `mt_Thread` |
| `Quit`, `StopGiveEnter`, `ReturnFromRun` | the end of `Run` |

`mt_csEnter` is fair in no way: either waiting thread may get it. The refinement
of `FrameWork` maps "message" to idle, `FrameMove` to collecting and the rest to
performing; what was performed is the history variable `called`.

### Sheduler

| Action | Code |
|---|---|
| `Create`, `SetDestroy`, `Register`, `Unregister`, `Delete` | the game: constructors, `setDestroy`, `CSheduler::Register` and `Unregister`, `~ISheduled` |
| `BeginUpdate`, `BeginLoop` | `Update` begins; its first `internal_Registration` is over |
| `ApplyPair`, `ApplyRegister`, `ApplyUnregister` | one turn of the loop of `internal_Registration` |
| `RtSkip`, `RtCall`, `RtReturn`, `RtDone` | the realtime loop |
| `StepDrop`, `StepCall`, `StepReturnSelf`, `StepReturn` | one turn of `ProcessStep` |
| `EndUpdate`, `UpdateDone` | the processed items go back; the second `internal_Registration` is over |

The containers are sequences. `Items` lists what the heap holds; `Top` is any
index of a least due time in the past, as the heap does not fix an order among
equals. `ItemsRT` and `Registration` are in the order of the code. A call of
`shedule_Update` is two steps, and between them the game may create, register,
unregister and delete anything, the running object included. Times are relative
to `dwTimeGlobal`. `dwUpdate` is any value of `Intervals`: its arithmetic is not
modelled.

`ScheduledSet` sees `Registered` (the code's own `DEBUG` method, which counts the
pending requests), the object being called, and the objects that need updates. The
game adds to the set and takes from it with immediate effect, between Updates and
inside calls; the scheduler may only call each member once per Update and drop
those that need nothing. A call is a step of its own there, so a second call of the
same object in an Update is no step of it.

### ObjectList

`pc` is the place of the primary thread: `early` (events before
`Objects.Update`), `create`, `spawn` and `binder` (inside `g_sv_Spawn`), `update`,
`climb` and `updateCL`, `destroy` (`ProcessDestroyQueue`), `late`, and `render`, the
only place where the secondary thread takes steps (`MtSlot`, `MtRuck`): the hand-off
proved in `SecondaryThread` is what allows this. The two crow lists are
`m_crows[0]` and `m_crows[1]`; the second is the secondary thread's.

`CObject::MakeMeCrow` is written twice, as its callers need it. While one thread
runs it is one step (`MakeMeCrow`). Beside rendering both threads are in it: the
primary one from `renderable_Render` (`xr_object.cpp:388`), the secondary one from the
`processing_activate` of `MtSlot`, possibly for the same object. There each access to
what they share is a step of its own: the test of the flag (`CrowTest`), of the activity
(`CrowEnabled`), the exchange of the frame number (`CrowExchange`), the flag
(`CrowFlag`) and the list of the calling thread (`CrowList`). `making[t]` and `at[t]` are
the object and the place of thread `t`'s call. `asCrow` is the set of objects
whose `dwFrame_AsCrow` is the current frame. The frame ends when both calls are over.

`g_sv_Spawn` has three stages. `Create` makes the object; `SpawnRejected` is
`net_Spawn`'s refusal of an id in use; `NetSpawn` registers the object, activates it and
makes it a crow, and after that the script binder of the object may still refuse it
(`SpawnFails`, which has all of this to undo) or take it (`SpawnSucceeds`, with the
`GE_OWNERSHIP_TAKE` that follows when it has a parent).

`SingleUpdate` is recursive: it calls itself for the parent before it calls
`UpdateCL`. `calls` is its stack: `ParentFirst` puts the object on it and goes on
with the parent, `NoParentFirst` is the call that returns at once, and `UpdateCL`
takes the top of the stack.

`DestroyObject` is `net_Destroy` followed by `CObjectList::Destroy`. The loop of
`ProcessDestroyQueue` takes one step per object, so the invariants are checked
between two of them. `SetDestroy` marks the children through
`register_object_to_destroy`: `Cascade` gives every order in which a parent is
queued before its children.

Taken from the environment: the server sends ownership events only for objects
it has (so `Take` is of unmarked ones), which is what `OwnerOnLevel` and
`DestroyFindsNoOwner` of `ServerEntities` establish, and owners keep their calls of
`processing_activate` and `processing_deactivate` balanced.

### Registrator

`Process` takes one step per call or skipped entry, and `Add` and `Remove` may
come between. `Sorted` gives every permutation `qsort` may return: its order
among equal priorities is not specified. `REG_PRIORITY_INVALID` is -1 as the
`int` it is stored in, which is above the priority -3 of the cursor
(`xrGame/UICursor.cpp:17`).

### ServerEntities

| Action | Code |
|---|---|
| `TakeRequest`, `RejectRequest` | a request of game code; `Process_event_ownership`, `Process_event_reject` run at once |
| `DestroyObject`, `Release` | `CGameObject::DestroyObject`, `release` of a script, and `Process_event_destroy` with its event pack |
| `Spawn` | `Process_spawn`, with an owner or without one |
| `SwitchOnline`, `SwitchOffline` | `add_online`, `remove_online` with `Perform_destroy` and `add_offline` |
| `TeleportObject` | `teleport_object`: `switch_offline` of what is online, outside ALife's update |
| `ClientReceive` | `NET_Queue` moves to the events of the frame |
| `EvSpawn`, `EvTake`, `EvReject`, `EvDestroy` | one message of `ProcessGameEvents` each |
| `ProcessDestroyQueue` | what was marked leaves the level |

The server's part is `where`, `ID_Parent` and `children`; the client's is
`object`, `H_Parent` and `removed` (`m_bObjectRemoved`); `net` and `game_events`
are what is under way. The recursion over `children` is `Walk`: what
`Process_event_destroy` sends for an entity comes behind what it sends for its
children, while `Perform_destroy` rejects on the way down and destroys on the way
up. `children` is a set, and the walk runs over every order of it (`Orders`); the
code's order is one of them. The recursion over data is a fold over two levels, since
only launchers among items hold anything (`KindsAssumption`).

A creature decides by `CanTakeItem` from its weight, which the model leaves open:
any creature may refuse any item. Boxes and launchers take everything. ALife's
distance is left open in the same way: anything without an owner may be switched
in ALife's update, once in a cycle (`SwitchPredicate`). `TeleportObject` is not bound by
the cycle and comes from events and scripts, so an object may go offline, online and
offline again before the client has handled the first of it.

Who is told to drop an item lets go of it, whether it held it or not (`LetsGo`), as
`on_ownership_reject` of a stalker does; but the actor takes no notice of an item
that is dying or not its own (`Ignores`). `Refusers` contains both kinds, so the model
allows either for each of them.

### ThreadTeam

`RunAllWorkers` writes the counter, opens the gates one by one (`StartHelper`),
does the last job itself and spins. A helper is a loop of five steps: it sees its
flag, closes its gate, reads its slot, works, counts down. Each of them is one
access to shared memory, so every interleaving the hardware could produce under
sequential consistency is a behaviour; the interlocked operations of the code are
full barriers, and the slot is written before the flag. What the jobs do is
reduced to the range of particles they handle, since that is what the caller
divides (`Part`). The primary thread is the only caller: the particles' own
secondary thread is switched off (`xrGame/ParticlesObject.cpp:167`).

## 3. The runs

| Run | Instance | What it shows |
|---|---|---|
| `secondary_thread` | 2 objects, 1 renderer job, 3 frames | exclusive hand-off, work once, living objects, frames and shutdown complete, refinement of `FrameWork` |
| `sheduler` | 2 normal and 1 realtime object, 6 operations | living objects only, one place, realtime objects served, refinement of `ScheduledSet` |
| `sheduler_fair` | 4 normal objects, 4 operations | nobody starves behind the budget |
| `object_list` | 2 objects, 3 ids, 5 operations | crow lists with both threads in `MakeMeCrow`, activity, id table, snapshot, and marked objects go |
| `object_tree` | 3 objects, 4 operations | owners outlive items, the queue is the marked objects, parents are updated first |
| `registrator` | 4 handlers of three priorities, lists of at most 4 entries | once each, in order, none removed |
| `server_entities` | a creature, a box, a launcher, its rocket and another item; 3 messages under way | the forest, the agreement of the two views, owners on the level, no destroy event lost, no spawn that finds its id in use |
| `thread_team` | 3 helpers; 1, 255, 256 and 301 particles | each particle once, no late work, calls return and the team ends |
| `crow_dropped`, `teleported`, `actor_lost`, `refused_take` | expected violations | see Findings |

**Bounds and why they are enough.**

* `MaxFrame` = 3. The marker and the queue carry state from one frame to the
  next only; three frames are a first, a middle and a last one with a shutdown
  at any point of each. The theorems hold for every bound.
* `MaxOps` limits registrations, spawns, events and so on, not crow requests or
  frames, which go on for ever: `ObjectList` and `Sheduler` have no bound on
  frames. Four to six operations are spawn, take, mark and the shuffle between
  them; the violations need two to four.
* `MaxCounter` = 2 stands for the eight bits of `bActiveCounter`; the code
  asserts the limit.
* `MaxLate` = 2 and 5: how far behind the clock a due time may fall before the
  model stops distinguishing. The order of items within the bound is exact.
  For starvation it is above what the run can accumulate at four objects with
  three calls a frame.
* `MaxLen` = 4: as many entries as handlers, so stale entries stand beside valid
  ones and a handler is added again behind its own stale entry. The theorems hold
  for every bound.
* `MaxMessages` = 3 bounds the messages under way when a request is made, not what
  one request sends: the destruction of a box with a loaded launcher sends five.
  Three are enough for a take, its refusal and a third party's request to cross.
  The forest is proved for every bound.
* The instance of `ServerEntities` has one of each kind, and two holders, so an
  item can change its owner; all that is below the root of a tree is in it.
* `Counts` of `ThreadTeam`: 255 and 256 stand on the two sides of the limit below
  which four workers are not used, 301 leaves a rest to the last worker. Three
  helpers can overtake each other in every order. The theorems hold for any
  numbers.
* Symmetry is used only in runs without liveness properties.

The largest runs have 3.1 million distinct states (`server_entities`), 2.5 million
(`object_tree`) and 1.5 million (`object_list`).

All runs but `thread_team` check for deadlock. A system that stops does so in a
stuttering step of its own (`returned`); in `thread_team` the program ends after
`ttapi_Done`.

**Fairness.** `SecondaryThread`: weak fairness of each thread's steps. Windows
schedules both, and a critical section that stays free is entered. No fairness is
assumed of the game's choices (spawning, quitting), and an `Enter` that is
possible only now and then is not assumed to succeed. `Sheduler`
and `ObjectList`: weak fairness of the steps of the frame. The main loop runs
frames, and a handler it calls returns. In `ObjectList` also weak fairness of each
thread's call of `MakeMeCrow`, which never waits, and strong fairness of the step that
begins the next frame: both threads may begin another such call again and again, but
what is drawn in a frame and what a stalker does in it are finite, and that the two
threads meet at its end is `FrameCompletes`. `ThreadTeam`: weak fairness of the caller
and of each helper, none of which blocks; whether the game calls again or ends is
left open. The properties are that a frame that
began ends (`FrameCompletes`), that `Run` returns once quitting
(`ShutdownCompletes`), `NoStarvation`, `EventuallyDestroyed` and `CallReturns`.

## 4. Findings

1. **An object can drop off the crow list for good** (`crow_dropped`).
   `CObjectList::Destroy` clears the secondary thread's crow list
   (`xr_object_list.cpp:483`) but not the flag of the objects on it. A spawn that
   is refused, or that flushes the destroy queue, does this before
   `Objects.Update` has merged the list. `MakeMeCrow` returns early on the flag
   from then on, so `UpdateCL` of such an item is never called again unless
   the object is updated as somebody's parent (this leaves the flag) or every
   active object is (`rsDisableObjectsAsCrows`). The authors log an "assertion
   failed" there: they knew of the state, but not that it lasts.
2. **A teleported object is offline and on the level** (`teleported`).
   `teleport_object` (`alife_update_manager.cpp:424`) calls `switch_offline` outside
   ALife's update, so nothing keeps ALife from looking at the object in the same
   frame, before the client has handled the destruction: the `VERIFY2` "is offline, but
   is on the level", `alife_switch_manager.cpp:185-194`. In a release build the object
   goes online at once. The messages wait in order, so the client destroys the old object
   before it spawns the new one, and no spawn is refused (`SpawnFindsIdFree`).
3. **A rejected duplicate takes the actor out of the id table** (`actor_lost`).
   The object still has id 0 when it is destroyed, and 0 is the actor's.
4. **A refused item is dropped all the same** (`refused_take`). A creature that
   cannot carry what the server gave it sends the reject without having taken the
   item (`ai/stalker/ai_stalker_events.cpp:55`); the server sends it back, and
   `DropItem` is called for an item without inventory:
   `VERIFY(pIItem->m_pInventory)`, `Inventory.cpp:226`. Server and level agree
   again afterwards (`ViewAgrees`).

`CrowsSound` and `FoundById` are stated with exactly these exceptions (the history
variable `dropped`, and id 0), so they show that nothing else is wrong there.

Observed and not listed as findings: a spawn that fails half way calls `net_Destroy`
of an unmarked object (`Level_network_spawn.cpp:133`) against `VERIFY(getDestroy())`,
`xr_object.cpp:242` (what it leaves behind is otherwise sound: `SpawnFails` is in every
run of `ObjectList`); `DropItem` of an item that is not owned calls
`processing_activate` without a call to balance it (`Inventory.cpp:226-232`, what follows
from the fourth finding); `Process` of an empty registrator returns
with `in_process` set, so the next additions are not sorted before the pass after
them (`HigherFirst` exempts the pass after an empty one); invalid entries in
front of a handler with a priority below -1 are never popped, and the list grows
(`SortedBetweenPasses` says that there are invalid entries only in front of such a
handler, not that they go);
`add_offline` steps back over a child it releases without taking it from the list
(`alife_trader_abstract.cpp:249`), so the loop would meet it again: the items it is
about are filtered out before, in `remove_online`.

## 5. What is proved

Eight modules hold theorems (`SequenceLemmas` holds lemmas only), for every value of
the constants. The assumptions are the named ones of the modules; they say that
bounds are naturals, that sets of different things are disjoint, that the objects of
a level and the ids of the server (16 bits) are finitely many, and
`MarkerAssumption`: no frame has the number the marker starts with (0x12345678,
which is 59 days at 60 frames a second).

| Module | Theorem | States |
|---|---|---|
| `SecondaryThreadProofs` | `TypeCorrect` | `Spec => []TypeOK` |
| | `Exclusive` | the two threads never have the frame's data at once |
| | `WorkOnce` | when the primary thread is back in the message loop, the frame's work was done once |
| | `ListSound`, `CallsSound` | no delegate twice, none of a deleted object, in the list and in the calls |
| | `QuietAfterRun` | no frame work after `Run` has returned |
| | `Refinement` | `Spec` implements the safety part of `FrameWork` |
| `ShedulerProofs` | `ShedulerTypes` | `Spec => []TypeOK` |
| | `LivingTouched` | neither the loops nor `internal_Registration` touch a deleted object |
| | `PlacedOnce` | an object is in one container at most and once; its first request fits that place |
| | `RealtimeAllServed` | a realtime loop in which nothing was erased leaves nobody out |
| | `SetImplemented` | `Spec` implements `ScheduledSet` |
| `ObjectListProofs` | `OwnersOutlive` | an owner outlives what it owns |
| | `QueueHoldsMarked` | the destroy queue is the marked objects, each once |
| | `IdsLead` | the id table leads to every spawned object and nowhere else |
| | `ActiveAsCounted` | active lists and counts agree |
| | `ObjectListTypes` | `Spec => []TypeOK` |
| | `CrowsAgree` | the flags and the two crow lists agree, each object once, also when both threads list it |
| | `OnlyLivingUpdated` | what an `Update` still has to visit exists |
| | `OwnersUpdateFirst` | no object is updated twice in a frame or before its active owner |
| `RegistratorProofs` | `RegistratorTypes` | `Spec => []TypeOK` |
| | `EntryOfEach` | one valid entry of each registered handler |
| | `ListSorted` | between passes the list is sorted, with invalid entries only in front of a handler of lower priority |
| | `RegisteredWhenCalled`, `CalledOnceEach`, `HigherCalledFirst` | what a pass calls, how often and in which order |
| `ServerEntitiesProofs` | `EntitiesVerified` | parents and children agree after every step |
| `EventQueueProofs` | `EntitiesTypes` | `Spec => []TypeOK` |
| | `EventsLead` | the events under way lead from the client's view to the server's |
| | `ViewsAgree` | with nothing under way the two views are the same |
| | `OwnersOnLevel` | who owns an object of the level is on the level |
| | `DestroyIsHeeded` | no destroy event finds its object owned |
| | `SpawnsFindIdFree` | a spawn finds its id free on the client, or used by a dying object |
| `ThreadTeamProofs` | `TeamTypes` | `Spec => []TypeOK` |
| | `ParticlesHandled` | each particle once, for any numbers of particles and helpers |
| | `TeamRested` | no helper works outside a call, nor after the end |

`ShedulerInvariant`, `ObjectListInvariant` (with `TreeInvariant`, a part of it that is
inductive alone), `RegistratorInvariant` and `TeamInvariant` are the inductive
invariants these rest on.

**SecondaryThread.** The inductive invariant is
`IInv == TypeOK /\ Locks /\ Shutdown /\ Marker /\ Progress /\ List`.

* *Exclusive* is not inductive: it needs `Locks`, who owns which section at which
  place. The argument is that `mt_csLeave` is taken before `mt_csEnter` is given.
* *WorkOnce* needs `Marker`: the marker is the frame's number exactly if the
  secondary thread has begun the frame's cycle, which in turn needs that it
  cannot begin a second one while the primary thread holds `mt_csLeave`.
* `Progress` ties `called` to a prefix of the queue at the index of whoever is
  walking it; this gives the refinement.
* `List` is about `seqParallel` and the living objects.
* `Shutdown` excludes the acknowledgement while work is going on.

**Sheduler.** The inductive invariant is
`IInv == TypeOK /\ Containers /\ Requests /\ Flags /\ Phase /\ Serving`.

* `OnePlace` is not inductive, as it does not see the requests that are still to be
  applied. `Requests` says of the queue what makes it harmless: the requests on an
  object alternate (`Alternate`); on an object that is in a container the first is
  an unregistration (`LeaveFirst`); on a deleted one the last is (`DeadLeave`), so
  a registration of it finds its pair; and a request of the wrong kind (realtime or
  not) is one that will find nothing (`WrongKindIdle`).
* These survive one turn of `internal_Registration` each: `PairKeeps` (a
  registration and the next unregistration go), `EnterKeeps`, `LeaveKeeps`; and a
  new request at the end: `AddRegister`, `AddUnregister`. In all of them the set of
  registered objects (`RegSet`) stays or changes by the one object, which is also
  what the refinement needs: applying requests is a stutter.
* `Containers` keeps the kinds apart: realtime objects are in `ItemsRT` only.
  `Flags` ties `b_RT`, by which `Unregister` chooses the container, to the place of
  the object.
* `Phase` is why an unregistration inside the loops must be applied at once: no
  request is pending on an object that the loops may still call. `Serving` says
  what the loops have called and what they have not; it gives `RealtimeServed` and
  that nobody is called twice.

Two facts about natural numbers that look like induction (a nonempty set has a
least element, a bounded one a greatest) are proved from the well-foundedness of
`<` (`NatMin`, `MaxExists`).

**ObjectList.** The inductive invariant has eight parts, `IInv == TreeInv /\ IdInv /\
ActInv /\ CrowInv /\ RestTypes /\ VisitAlive /\ Acyclic /\ CallChain`; each is proved
beside those it leans on. `NoDanglingParent` and `MarkedQueued` are two sides of `TreeInv`.
The queue is processed from its back, so an owner has to stand in front of what it
owns (`OwnersFirst`), and nothing unmarked may hang on a marked object
(`MarksCascade`), or the owner would go first. Both hold because `setDestroy` marks
the whole tree at once (`CascadeSet`: what it marks is unmarked before and closed
downwards) and because events hang an item on unmarked owners only. `IdInv` adds
that an object has no id outside its life, `ActInv` that it has no count; both lean
on `TreeInv`, which says that what the destroy loop visits exists.

* `CrowInv == ListsInv /\ CallsInv`. `ListsInv` is `CrowsSound` list by list, with
  `dropped` among the flagged objects: that no list holds an object twice is what the
  flag is for, and `std::find` with one erasure is then enough to take an object off
  (`RemoveFirstDistinct`). `CallsInv` is about the calls of the two threads. The test of
  the flag alone would not do, as both may find it clear. What a thread knows behind its
  test is only that the object is unflagged or has the frame's number (the third
  line of `CallInv`); the exchange then gives the object to one thread, and from there
  on the two have different objects in hand (`OtherObject`). When one thread runs,
  `CallsInv` says that no call is under way (`OneThread`, `IdleCalls`).
* `VisitAlive` gives `NoDeadUpdate`: the copy of the list is of flagged or active
  objects, `SingleUpdate` climbs owners that are not dangling (`TreeInv`), and
  nothing is destroyed before the loop ends.
* `ParentsUpdateFirst` needs `CallChain`: the waiting calls are a chain of owners,
  none of them updated, and above it stands an object that needs no update any
  more. That the chain has nobody twice, so that nobody on it is updated when its
  turn comes, is `Acyclic`: were an owner in the chain already, the chain would
  be a set in which everybody is held by a member. `Acyclic` is stated over sets,
  which needs no transitive closure: `Take` keeps it because the new owner is not
  below the item (`NewOwner`: what is left of such a set without the item and what
  it holds has a member whose owner is outside).

**Registrator.** The invariant says of a pass where its cursor stands among the
entries and that nothing behind the cursor moves: additions go to the end and are
sorted in only after the pass, removals leave the entry in place.

**ServerEntities.** `VerifyEntities` is inductive with the types of the server's
variables. `SubtreeClosed` carries the proof: a tree contains the children of its
members and the owners of all but its root, so destruction and switching never cut
an edge. It rests on `KindsAssumption`, that trees have at most two levels below
the root.

What the client will see depends on the whole queue, so the invariant of
`EventQueueProofs` speaks of `Pending == game_events \o net`. `Leads` has seven parts:

* Four follow one entity through the queue. Two events about it with none between
  them fit (`Fits`: the second finds the owner that the first left, nothing comes
  behind a destruction); the first agrees with the client (`Starts`), the last with
  the server (`Ends`); an entity without an event is the same on both sides
  (`Unmentioned`), which with an empty queue is `ViewAgrees`. `Starts` at the first
  event of the queue is `DestroyFindsNoOwner`. It allows one difference: an item a
  creature refused has no owner on the level while its reject is still to come.
* Two relate the events of different entities: who is told to take something is on
  the level by then and not destroyed before (`Held`), and who is destroyed was told
  before to drop all it held and all it took (`Emptied`). With them `OwnerOnLevel`,
  the seventh part, survives every event.
* The server's steps append a pack. `AppendLeads` says that a pack which begins where
  the server was and ends where it is now (`Joins`) keeps `Leads`. The packs of
  destruction and of ALife come from the recursion over the children: `PackConcat`
  and `PackFlatten` build, for any numbers of children in any order, a pack of rejects
  and destructions in which each entity is rejected before it and its owner are
  destroyed (`DestroyIsPack`, `OfflineIsPack`, `PackJoins`). `FlattenSeq` is unfolded
  by `FlattenUnfold`; the induction over its length is again from the
  well-foundedness of `<` (`NatInduct`).
* The client's steps take the head off (`HandledLeads`). A refusal does both: the
  reject is appended first, and then the taking event is handled as if it had left
  the item free, which is right because the reject is about the same item and comes
  later. That there is one is `RefusalSent`: if the event is the last about the item,
  the server still has the owner, and it sends the reject.
* `SpawnFindsIdFree` is `Fits` and `Starts` at a spawn: the event before it about the
  same object, if any, was a destruction, and it has been handled. So it needs no
  assumption on when ALife or `teleport_object` switch.

**ThreadTeam.** What the caller spins on is one number. The invariant ties it to the
places of the helpers: during a call it is the number of helpers that have not
counted down yet. `PartsPartition` is the arithmetic: equal steps and the rest for
the last worker cover 0 to n - 1 without overlap.

The runs check the same properties on small instances; each proof has one step or
lemma per action.

**Only model-checked.** Liveness (under fairness, out of the prover's reach),
including the fairness part of the refinement of `FrameWork`. Every invariant and
every action property of the passing runs is proved.

## 6. What is not modelled

The repository is 1.68 million lines, most of them vendored libraries and their
headers (`sdk`, `3rd party`, `xrGameSpy`), renderers, numerical code and game data. The models cover the core in which actors
interleave: the frame, the scheduler, the life of objects, ownership between server
and level, and the helper threads. They do not, and could not, cover a large share
of the lines.

* Device: the window procedure, precache, time arithmetic, the loading-events
  branch of `FrameMove` (it returns before it shares anything).
* Scheduler: `EnsureOrder`, `Destroy` at the end of the program, the arithmetic
  of `dwUpdate`.
* Object list: `Unload`, `net_Relcase` and the relcase callbacks, network export
  and import.
* `Props` as one 32-bit word that both threads write (`xr_object.h:44-60`): here its
  fields are written one at a time. What a lost update of the word destroys depends
  on the code the compiler generates for the bit fields; the secondary thread writes
  it in `MakeMeCrow`, `processing_activate` and, for items, through
  `InventoryOwner.cpp:315-318`.
* `bActiveCounter` at its limit: `processing_activate` asserts that eight bits are enough
  (`VERIFY3`, `xr_object.cpp:110`), a release build lets them wrap. `Activate` is guarded
  by the assertion, so the properties hold of programs that keep to it: whether game
  code nests more than 255 calls is a question about code that is not modelled.
* What scripts do inside `net_Spawn` when the binder is called, but for its refusal.
* Registrator: the CAPTURE priority (`pure.h:87`), which nothing uses. `_REG_Compare`
  subtracts two `int`s (`pure.h:45`); `Descending` is their exact order. With the
  priorities in use, from -3 to 0x33333333 and some above it, the difference
  fits; it would overflow for 0x7fffffff (CAPTURE) against the -1 of an invalid entry.
* Server: multiplayer (clients other than the local one, migration of owners,
  phantoms and respawn), `GE_TRANSFER_AMMO` (nothing sends it), the release of
  offline objects, saving and loading, errors inside `add_online` of the actor. The
  size of an event pack is unbounded here.
* ALife: the distances and conditions that decide a switch, groups and squads, the
  registries of graph and schedule, the position and graph point `teleport_object`
  changes. `remove_non_savable_predicate` (`alife_switch_manager.cpp:26-43`, `81-92`)
  leaves out children that may not be saved when their owner goes offline, bolts and
  objects without the flag for it: `Items` are those that may be saved.
* Id generator: 256 blocks by age are arithmetic without interaction; what others
  rely on, that an id rests before it is used again, is the guard `IdFree`.
* Thread team: the number of processors and the calibration of the spin counts;
  the two other callers (`CParticleEffect::Render`, `xrSkin4W_thread`), which split
  their work by the same lines.
* Deferred events: one handler table and one queue under one lock; its handlers
  start and end levels and servers, whose code is not modelled, so nothing would be
  left of it but the queue.
* Everything marked "no" in the table of components.

## 7. What could follow

1. A refinement that links `ServerEntities` to `ObjectList`: the events of the one
   as the environment of the other.
2. `EventAPI`, and a word-level `Props`.
