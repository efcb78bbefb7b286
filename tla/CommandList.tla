----------------------------- MODULE CommandList -----------------------------
(* LevelZeroCommandList (src/src/core/command_list.cpp): wrappers around a list,  *)
(* its queue and its fence, created in stages that may fail, moved from one       *)
(* object to another, recorded, submitted and waited for, beside a device that    *)
(* works through the queue on its own. The handles of one create() carry one      *)
(* number; 0 is the null handle. A call that throws without changing anything     *)
(* is no step.                                                                    *)
EXTENDS Integers, Sequences, FiniteSets

CONSTANTS
  Wrappers,           \* places that can hold a LevelZeroCommandList
  Commands,           \* what append_memory_copy may record
  Barrier,            \* what append_barrier records
  FenceResetFails,    \* whether zeFenceReset may fail; execute() ignores its result
  MaxCreates,         \* bound on the calls of create()
  MaxCommands         \* bound on the length of a recording

ASSUME CommandListAssumption ==
  /\ FenceResetFails \in BOOLEAN
  /\ MaxCreates \in Nat /\ MaxCommands \in Nat

VARIABLES
  wrapper,            \* the object in each place
  at,                 \* the operation under way and the place it works on
  created,            \* how many were created
  live,               \* Level Zero handles and library references not yet released
  list, fence, queue, \* state of the driver's objects
  pending             \* the user has executed and not yet synchronized

driver == <<list, fence, queue>>
vars == <<wrapper, at, created, live, driver, pending>>

-----------------------------------------------------------------------------
(* Objects *)

Numbers == 1..MaxCreates
Kinds == {"module", "list", "queue", "fence"}
NextStage(stage) ==
  CASE stage = "module" -> "list" [] stage = "list" -> "queue"
    [] stage = "queue" -> "fence" [] stage = "fence" -> "user"
NoHandles == [k \in Kinds |-> 0]

\* An object without handles, with its dispatch table or without.
Blank(exists, fn) == [exists |-> exists, fn |-> fn, closed |-> FALSE, handle |-> NoHandles]
Absent == Blank(FALSE, FALSE)
Fresh == Blank(TRUE, TRUE)
MovedFrom == Blank(TRUE, FALSE)

Handles(x) == {<<k, x.handle[k]>> : k \in {j \in Kinds : x.handle[j] # 0}}

\* What the destructor leaves: without its dispatch table it can only close the library.
Released(x) == live \ {h \in Handles(x) : x.fn \/ h[1] = "module"}

\* A move takes everything and leaves an object without handles and table.
MovedTo(w, v) == [wrapper EXCEPT ![w] = wrapper[v], ![v] = MovedFrom]

ListOf(w) == wrapper[w].handle["list"]
QueueOf(w) == wrapper[w].handle["queue"]
FenceOf(w) == wrapper[w].handle["fence"]

\* The user's side: one thread, which calls nothing on a moved-from object, and which
\* synchronizes after an execute() before it resets, executes again or destroys.
Free == at.stage = "user"
Usable(w) == Free /\ wrapper[w].fn
Idle(w) == ListOf(w) # 0 => ~pending[ListOf(w)]

-----------------------------------------------------------------------------
(* Life cycle *)

Create(w) ==
  /\ Free /\ ~wrapper[w].exists /\ created < MaxCreates
  /\ wrapper' = [wrapper EXCEPT ![w] = Fresh]
  /\ created' = created + 1
  /\ at' = [stage |-> "module", of |-> w]
  /\ UNCHANGED <<live, driver, pending>>

\* One stage of init(): the loader library and its symbols, the list, the queue, the fence.
InitStage(w) ==
  /\ at.stage \in Kinds /\ at.of = w
  /\ wrapper' = [wrapper EXCEPT ![w].handle[at.stage] = created]
  /\ live' = live \cup {<<at.stage, created>>}
  /\ at' = [at EXCEPT !.stage = NextStage(at.stage)]
  /\ UNCHANGED <<created, driver, pending>>

\* A stage fails: the exception destroys the object create() was building.
InitFails(w) ==
  /\ at.stage \in Kinds /\ at.of = w
  /\ live' = Released(wrapper[w])
  /\ wrapper' = [wrapper EXCEPT ![w] = Absent]
  /\ at' = [at EXCEPT !.stage = "user"]
  /\ UNCHANGED <<created, driver, pending>>

Destroy(w) ==
  /\ Free /\ wrapper[w].exists /\ Idle(w)
  /\ live' = Released(wrapper[w])
  /\ wrapper' = [wrapper EXCEPT ![w] = Absent]
  /\ UNCHANGED <<at, created, driver, pending>>

MoveConstruct(w, v) ==
  /\ Free /\ ~wrapper[w].exists /\ wrapper[v].exists
  /\ wrapper' = MovedTo(w, v)
  /\ UNCHANGED <<at, created, live, driver, pending>>

\* Mutant: assignment forgets to release what it replaces.
AssignWithoutRelease(w, v) ==
  /\ Free /\ w # v /\ wrapper[w].exists /\ wrapper[v].exists /\ Idle(w)
  /\ wrapper' = MovedTo(w, v)
  /\ UNCHANGED <<at, created, live, driver, pending>>

\* Assigning an object to itself changes nothing.
MoveAssign(w, v) ==
  /\ Free /\ w # v /\ wrapper[w].exists /\ wrapper[v].exists /\ Idle(w)
  /\ live' = Released(wrapper[w])
  /\ wrapper' = MovedTo(w, v)
  /\ UNCHANGED <<at, created, driver, pending>>

-----------------------------------------------------------------------------
(* Recording and execution *)

\* zeCommandListAppend*: the driver does not refuse a closed list.
Record(n, c) == list' = [list EXCEPT ![n].recorded = Append(@, c)]

\* Mutant: an append does not look at is_closed_.
AppendToAny(w, c) ==
  /\ Usable(w) /\ ListOf(w) # 0
  /\ Len(list[ListOf(w)].recorded) < MaxCommands
  /\ Record(ListOf(w), c)
  /\ UNCHANGED <<wrapper, at, created, live, fence, queue, pending>>

AppendMemoryCopy(w, c) ==
  /\ Usable(w) /\ ~wrapper[w].closed
  /\ Len(list[ListOf(w)].recorded) < MaxCommands
  /\ Record(ListOf(w), c)
  /\ UNCHANGED <<wrapper, at, created, live, fence, queue, pending>>

AppendBarrier(w) ==
  /\ Usable(w) /\ ~wrapper[w].closed
  /\ Len(list[ListOf(w)].recorded) < MaxCommands
  /\ Record(ListOf(w), Barrier)
  /\ UNCHANGED <<wrapper, at, created, live, fence, queue, pending>>

\* The flag is set only when the driver has closed the list.
Closing(w) ==
  /\ wrapper' = [wrapper EXCEPT ![w].closed = TRUE]
  /\ list' = [list EXCEPT ![ListOf(w)].open = FALSE]

Close(w) ==
  /\ Usable(w) /\ ~wrapper[w].closed
  /\ Closing(w)
  /\ UNCHANGED <<at, created, live, fence, queue, pending>>

Reset(w) ==
  /\ Usable(w) /\ wrapper[w].closed /\ Idle(w)
  /\ wrapper' = [wrapper EXCEPT ![w].closed = FALSE]
  /\ list' = [list EXCEPT ![ListOf(w)] = [open |-> TRUE, recorded |-> <<>>]]
  /\ UNCHANGED <<at, created, live, fence, queue, pending>>

Execute(w) ==
  /\ Usable(w) /\ Idle(w)
  /\ IF wrapper[w].closed THEN UNCHANGED <<wrapper, list>> ELSE Closing(w)
  /\ at' = [stage |-> "fence reset", of |-> w]
  /\ UNCHANGED <<created, live, fence, queue, pending>>

\* Mutant: the fence is not reset.
FenceKept(w) ==
  /\ at = [stage |-> "fence reset", of |-> w]
  /\ at' = [at EXCEPT !.stage = "submit"]
  /\ UNCHANGED <<wrapper, created, live, list, fence, queue, pending>>

FenceReset(w) ==
  /\ at = [stage |-> "fence reset", of |-> w]
  /\ \/ fence' = [fence EXCEPT ![FenceOf(w)] = FALSE]
     \/ FenceResetFails /\ UNCHANGED fence
  /\ at' = [at EXCEPT !.stage = "submit"]
  /\ UNCHANGED <<wrapper, created, live, list, queue, pending>>

\* Mutant: the list is submitted without a fence.
WithoutFence(w) ==
  [list |-> ListOf(w), commands |-> list[ListOf(w)].recorded, fence |-> 0]

\* The queue refers to the list; commands are what was recorded when it was submitted.
Submission(w) ==
  [list |-> ListOf(w), commands |-> list[ListOf(w)].recorded, fence |-> FenceOf(w)]

Submit(w) ==
  /\ at = [stage |-> "submit", of |-> w]
  /\ queue' = [queue EXCEPT ![QueueOf(w)] = Append(@, Submission(w))]
  /\ pending' = [pending EXCEPT ![ListOf(w)] = TRUE]
  /\ at' = [at EXCEPT !.stage = "user"]
  /\ UNCHANGED <<wrapper, created, live, list, fence>>

\* The submission is refused: execute() throws with the list closed and the fence reset.
SubmitFails(w) ==
  /\ at = [stage |-> "submit", of |-> w]
  /\ at' = [at EXCEPT !.stage = "user"]
  /\ UNCHANGED <<wrapper, created, live, driver, pending>>

\* zeFenceHostSynchronize without a time limit.
Synchronize(w) ==
  /\ Usable(w) /\ ListOf(w) # 0 /\ pending[ListOf(w)]
  /\ at' = [stage |-> "waiting", of |-> w]
  /\ UNCHANGED <<wrapper, created, live, driver, pending>>

Synchronized(w) ==
  /\ at = [stage |-> "waiting", of |-> w]
  /\ fence[FenceOf(w)]
  /\ pending' = [pending EXCEPT ![ListOf(w)] = FALSE]
  /\ at' = [at EXCEPT !.stage = "user"]
  /\ UNCHANGED <<wrapper, created, live, driver>>

\* The device has finished the oldest submission of a queue and signals its fence.
Complete(n) ==
  /\ queue[n] # <<>>
  /\ fence' = IF Head(queue[n]).fence = 0 THEN fence
              ELSE [fence EXCEPT ![Head(queue[n]).fence] = TRUE]
  /\ queue' = [queue EXCEPT ![n] = Tail(@)]
  /\ UNCHANGED <<wrapper, at, created, live, list, pending>>

-----------------------------------------------------------------------------
Init ==
  /\ wrapper = [w \in Wrappers |-> Absent]
  /\ at \in {[stage |-> "user", of |-> w] : w \in Wrappers}
  /\ created = 0
  /\ live = {}
  /\ list = [n \in Numbers |-> [open |-> TRUE, recorded |-> <<>>]]
  /\ fence = [n \in Numbers |-> FALSE]
  /\ queue = [n \in Numbers |-> <<>>]
  /\ pending = [n \in Numbers |-> FALSE]

Calls(w) ==
  \/ Create(w) \/ InitStage(w) \/ InitFails(w) \/ Destroy(w)
  \/ \E v \in Wrappers : MoveConstruct(w, v) \/ MoveAssign(w, v)
  \/ \E c \in Commands : AppendMemoryCopy(w, c)
  \/ AppendBarrier(w) \/ Close(w) \/ Reset(w)
  \/ Execute(w) \/ FenceReset(w) \/ Submit(w) \/ SubmitFails(w)
  \/ Synchronize(w) \/ Synchronized(w)

Next == (\E w \in Wrappers : Calls(w)) \/ \E n \in Numbers : Complete(n)

Spec == Init /\ [][Next]_vars

\* The device works through its queues, and a host thread that is woken returns.
FairSpec ==
  /\ Spec
  /\ \A n \in Numbers : WF_vars(Complete(n))
  /\ \A w \in Wrappers : WF_vars(Synchronized(w))

-----------------------------------------------------------------------------
(* Properties *)

Stages == Kinds \cup {"user", "fence reset", "submit", "waiting"}
Objects ==
  [exists : BOOLEAN, fn : BOOLEAN, closed : BOOLEAN, handle : [Kinds -> 0..MaxCreates]]
Recordings == Seq(Commands \cup {Barrier})
Submissions == [list : Numbers, commands : Recordings, fence : 0..MaxCreates]

\* The variables keep their types.
TypeOK ==
  /\ wrapper \in [Wrappers -> Objects]
  /\ at \in [stage : Stages, of : Wrappers]
  /\ created \in 0..MaxCreates
  /\ live \subseteq Kinds \X Numbers
  /\ list \in [Numbers -> [open : BOOLEAN, recorded : Recordings]]
  /\ fence \in [Numbers -> BOOLEAN]
  /\ queue \in [Numbers -> Seq(Submissions)]
  /\ pending \in [Numbers -> BOOLEAN]

\* Through failed creations, moves and destructors every library reference, list,
\* queue and fence that is still alive belongs to exactly one wrapper, and no wrapper
\* holds a handle that was released (~LevelZeroCommandList and the move operations).
HandlesHaveOneOwner ==
  /\ live = UNION {Handles(wrapper[w]) : w \in Wrappers}
  /\ \A w, v \in Wrappers : w # v => Handles(wrapper[w]) \cap Handles(wrapper[v]) = {}

\* is_closed_ says what the driver's list is, on whichever object the list has been
\* moved to: close(), reset() and the guards of append_* rely on it.
ClosedAgreesWithDriver ==
  \A w \in Wrappers : ListOf(w) # 0 => (wrapper[w].closed <=> ~list[ListOf(w)].open)

\* A list the device still has to run is closed and holds the commands it was submitted
\* with: nothing is appended to it, and it is neither reset nor destroyed.
InFlightIsUntouched ==
  \A n \in Numbers : \A i \in DOMAIN queue[n] :
    LET s == queue[n][i] IN
      /\ list[s.list] = [open |-> FALSE, recorded |-> s.commands]
      /\ {<<"list", s.list>>, <<"queue", n>>} \subseteq live

\* When synchronize() has returned, the device is done with what the list submitted
\* ("Block host until submitted execution finishes", command_list.h).
SynchronizedIsDone ==
  \A w \in Wrappers :
    QueueOf(w) # 0 /\ ~pending[ListOf(w)] => queue[QueueOf(w)] = <<>>

\* synchronize() after an execute() that did not throw returns: the fence it waits for
\* is the one that submission signals.
SynchronizeReturns ==
  \A w \in Wrappers : at = [stage |-> "waiting", of |-> w] ~> at.stage = "user"

=============================================================================
