# A TLA+ model of uhmi-ivi-wm

uhmi-ivi-wm lays out the surfaces of Wayland applications on the layers and
screens of weston's ivi-shell. It keeps a tree of screens, layers and surfaces,
changes it when clients send layout commands, and turns it into requests to the
ivi-controller, through the ILM API. This directory models the program, checks
the models with TLC and proves the most important invariants with TLAPS.

All paths below are in `src/`.

## 1. Inventory of the system

| component | state | operations | interacts with |
|---|---|---|---|
| element lists (`app/comm_parser.c` 75-148) | linked lists of elements with an id | pop, get, insert (prepend, append, before, after) | used by the tree |
| tree (`comm_parser.c` 150-343, `comm_parser.h`) | `screen_head`, the layer list of each screen, the surface list of each layer, layer layouts; `surface_properties_head` with a layout and a `referred_cnt` per surface | add/remove/get/pop of each kind, reference counting | the command and event handlers; renders itself through the wrapper |
| command handlers (`comm_parser.c` 718-1239) | none beyond the message | configuration, `initial_screen`, `add_`/`remove_`/`modify_` of `layer` and `surface` | called by the main loop; read the message while changing the tree and making requests |
| surface events (`ilm_control_wrapper.c` 294-336, `comm_parser.c` 345-383) | the pipe of pending events | two ILM callbacks that write the pipe; two handlers that read it | callbacks run inside ILM, handlers in the main loop |
| ILM wrapper (`ilm_control_wrapper.c` 26-248) | none | existence checks, then requests; any failed request ends the process (`wrap_ilm_exit`) | the ivi-controller |
| ivi-controller (external) | surfaces, layers, render orders, layouts, registrations | the ILM API | applications, on their own, create, configure and destroy surfaces |
| property values (`comm_parser.c` 415-474, 603-716) | layouts | all-or-nothing parsing for add, key-by-key for modify | called by the handlers |
| main loop and connection (`main.c`, `comm_receiver.c`) | listening socket, at most one client | poll; one event, then accept, hang-up or one command | handlers; clients |
| client (`example/wmsendcmd.c`), options, diagnostics, build | | | |

What is hard here:

* **Racing applications.** A surface may appear, be configured or disappear
  between any two requests; its events are read later, after other commands
  changed the tree. It is displayed only through a chain of events: created →
  property callback → configured → render.
* **Two copies of the truth.** The tree and the controller are changed by
  different calls. If a request names an object the controller lacks, the process ends.
  If only one side changes, the display is wrong until something renders again.
* **Reference counts over several commands.** The properties of a surface are
  shared by all its layers. `add_surface_properties` counts in a copy whose
  count is uninitialized (166, 753) and overwrites the element with it, so a
  second layer is not counted; `remove_surface_properties` decrements before
  it tests (180), so a count of 0 wraps.
* **Partial failure.** Handlers return in the middle of a message, after
  changing the tree and before rendering it; `initial_screen` may stop half way
  after removing everything; an `insert_order` that is missing unlinks an
  element for good.
* **Main loop and connection.** A single thread serves a pipe that its own
  callbacks fill, and a client whose hang-up, short writes and silence it has to survive.

What makes each component correct:

* lists: insertion and removal touch one element and keep the order of the rest;
* tree: no id twice in a list, no layer on two screens; properties exist while
  a surface is on a layer, and no longer;
* handlers: never name an object the controller lacks, never use freed
  properties; what is rendered is stacked as the tree says;
* events: handling one shows surfaces and hides none; once all are handled the
  display agrees with the tree; a listed surface is in the end displayed;
* wrapper: a request ends the program only if a surface vanished in the middle
  of it, and what a commit puts on the display is whole;
* pipe: the thread that empties it comes back to emptying it; it should never
  wait for room in it, and does only when the unread events are too many;
* layouts: a modify sets the keys it gives, an add all keys or none; what was
  never set reaches the display only through an element that an incomplete add
  created, in the tree or for a further layer;
* connection: a command is executed at most once, whole, and before its client
  is told so; every command that was sent is answered, a vanished client does
  not stop the program.

`PROJECT.json` lists the hazards at their lines with the properties that cover them.

## 2. Modules

| module | models |
|---|---|
| `TailQueue` | the lists, as sequences of ids, and the loops that copy part of one |
| `IviController` | the ivi-controller as the wrapper uses it, the wrapper's requests, the callbacks and the pipe, the applications |
| `WindowManager` | the tree, all command and event handlers, the main loop's order of service; the properties |
| `Scene` | abstract: what a command may do to screens, layers and surfaces; implemented by `WindowManager` |
| `Requests` | the wrapper's requests about surfaces call by call, against applications |
| `Properties` | how layouts are parsed key by key, stored, shared and applied |
| `EventPipe` | the pipe with its capacity, and the threads that write it |
| `Receiver` | the poll loop, the server half of `comm_receiver.c`, and its clients |
| `CommandService` | abstract: what a client of the socket may rely on; implemented by `Receiver` |
| `Display` | `WindowManager` with the history that `SettledDisplay` needs: the surfaces that lost their properties |
| `MCWindowManager`, `MCDisplay`, `MCProperties` | symmetry and keys of the instances TLC checks |
| `TailQueueProofs` | what the list operations do, for every list |
| `WindowManagerProofs` | types, shape of the tree, and agreement with the controller; what a step may do to the reference counts |
| `WindowManagerDisplay` | the display follows the tree |
| `SceneProofs` | `WindowManager` implements `Scene` |
| `EventPipeProofs` | when the main thread can block on its own pipe |
| `RequestsProofs` | requests end the program only in a race, and layouts change whole |
| `PropertiesProofs` | layouts are stored whole and shown as they are held |
| `ReceiverProofs` | the inductive invariant of the connection and its consequences; `Receiver` implements `CommandService` |

### 2.1 The tree: `WindowManager`

It extends `IviController`, which extends `TailQueue`: the variables of the controller are
part of the state, and an action of the window manager uses the request
operators of `IviController`, which fix the variables they are about.

**State.** `screens`, `layers`, `surfaces` and `layerProp` are the tree;
`registered`, `refcnt` and `propLook` are `surface_properties_head`. A layer's
surface list and layout are functions of the layer's id rather than of the
element: `TreeShape` says there is one element per id, and it is proved. `pc`
says at the head of which loop the program is, `cmd` which handler runs, `ctx`
holds the local variables that outlive a pass of a loop. `process` turns
`"crashed"` where NULL is dereferenced and `"exited"` where `wrap_ilm_exit` is
called; neither has a next step.

**Grain.** One action is one pass through a loop over a JSON array, with every
change of the tree and every request of that pass, or the handling of one
event. Between two actions applications do as they please. Messages are not
stored: each pass takes any next element, or finds the array at its end, so
messages of all lengths and contents are covered. `Malformed` allows elements
without their keys where that ends a handler early. That a request and its
existence check are one step here is what `Requests` takes apart.

**Data.** A layout (`layout_properties_t`, and width and height of a layer) is
one value of `Look`; `Properties` opens it. `Garbage` is the set of values that
the uninitialized `referred_cnt` may be read as, and `CountMod` stands for 2^32.
Nothing in the code bounds what the stack holds, so no theorem restricts
`Garbage`; the run `displayed` takes 0, with which a single layer works.

**`Display`** adds one variable of history, `lost`: the surfaces that at some
time since they were last on no layer were on one without properties. The code
ignores their events, or crashes on them, and a later add for another layer
gives them properties again but not the events they missed.

**The controller.** `IviController` is an assumption about code outside this
repository: a layer is on one screen at a time, a render order replaces the
last one, requests on objects that exist succeed, a destroyed surface leaves
its layers, asking for a surface's properties fires the property callback.
`ReplayOnRegister` says whether registering announces the surfaces that already exist; the runs
take TRUE, because with FALSE a surface that is older than the window manager
is never announced and nothing is promised for it. The proofs cover both.

**`Scene`** has the tree alone and leaves places open: a layer, or a surface of
a layer, is put somewhere or nowhere, all others stay in their order, a layer
is on one screen at most and loses its surfaces when it leaves. The refinement
maps its variables to those of the same name; events and requests stutter.

### 2.2 The wrapper: `Requests`

`shown` and `order` are what is on the display, `pending` and `pendingOrder`
what has been requested since, and `ilm_commitChanges` copies one to the other.
Each call of `wrap_ilm_set_surface`, each lookup of
`add_exists_surfaces_to_layer`, each request and each commit is a step, and
surfaces appear and disappear between them. A call that names a surface that
has gone may succeed without effect or fail; if it fails the process exits.
`stayed` and `gone` are history: the surfaces that existed throughout the
request, and those that went away during it.

### 2.3 Layouts: `Properties`

`held` is what the tree has of each element, key by key; `dst`, `src` and `lp`
are the copies that `decide_add_or_update_...`, `parse_..._properties` and
`parse_add_properties`/`parse_mod_properties` make in turn. A message is the
set of keys it gives; a key of a wrong type counts as missing. A new element
starts as `Garbage` in every key. So does a surface that is new to a layer,
although its properties may be held for another (753-757), and at the end it
overwrites those (167): `job.fresh` says that a command is of this
kind. `incomplete` is history: the elements that such a command, lacking a key,
created or replaced, until one gives all of their keys. Whether a surface's properties outlive one of
its layers depends on the counts, so here they may or may not. The controller
takes a layer's size only when it creates the layer: a later change of width or
height is held in the tree and never requested (`ilm_control_wrapper.c` 115-160),
so nothing is claimed for sizes but where garbage may show.

### 2.4 The pipe: `EventPipe`

`Capacity` is the number of `cbdata` that fit. The ILM thread writes what
applications cause, at any time and as often as they like; the main thread
writes what itself causes, which is one event when it asks for a surface's
properties and one for each surface when it registers. Clients may send
`initial_screen` in any pass, whatever is unread. Nothing but the capacity
holds a writer up. `episode` is history: how many events were unread when the
main thread began its current series of writes, how many came since, and how
many it has to write. `CommandsSpec` is the part of the behaviour in which no
application does anything and every surface exists from the start on, with weak
fairness of the main thread; that registering announces all surfaces that exist is the
assumption `ReplayOnRegister` makes of the ILM library.

### 2.5 The connection: `Receiver`

A client's stream is a sequence of requests (magic code, size, body), and a
byte is its position in it: what the server reads is an interval, which is a
magic code, size or body exactly if it lies where one does. `starts` says where
the requests of a client begin, `sent`, `left` and `read` how far both sides
are; `spc` is the place of the loop, with one step per `poll`, event, `accept`,
`recv` and `send`. `bytes_read` is unsigned and wraps at `UIntMod`, and an
error of `recv` takes one from it, as in the code.

The kernel is an assumption: streams are reliable and in order; a header field
is sent and received as a whole unless the stream ends; what was sent before a
close stays readable; closing with a reply unread makes one later `recv` of the
other side fail (ECONNRESET), after which it returns 0; a `send` to a closed
peer raises SIGPIPE, which neither program handles. `accept` succeeds.

`CommandService` has three variables: the requests that were `submitted` as a
whole, those `executed`, those `answered`. The refinement takes the first from
`starts` and `sent`, the second from the bytes the parser was given, the third
from what clients have concluded; the last piece of a body submits, `Parse`
executes, receiving the response answers, and everything else stutters.

What the parser does with a body is `WindowManager`'s business; the two share
the order of service of a pass (an event, then the client) and nothing else, so
they are separate modules.

## 3. Properties and runs

| run | instance | shows |
|---|---|---|
| `tree` | 2 screens and an unknown one, 2 layers, 1 surface, all insert orders including none, malformed messages, garbage counts 0 and 3 (= wraps) | `TypeOK`, `IlmTypeOK`, `TreeShape`, `NeverExits`, `TreeInv`, `GhostsOnlyFade`, `ImplementsScene` |
| `display` | 2 screens, 2 layers, 1 surface, 2 layouts, 2 events in the pipe, garbage counts 0, 1 and 3 | `SettledDisplay`, `StackingFollowsTree` when layers move between screens, `OnlyAddsUncover`, `ReleasedPerLayer` |
| `displayed` | 1 screen, 1 layer, 2 surfaces, counts start at 0, fairness | `StackingFollowsTree` for the order of surfaces, `EventsOnlyShow`, `SurfacesAreDisplayed` |
| `not_displayed` | 1 screen, 2 layers, 1 surface, counts start at 0, fairness | `SurfacesAreDisplayed` is violated |
| `requests` | 1 layer, 2 surfaces, 2 layouts | `TypeOK`, `ExitsOnlyInRace`, `LayoutsChangeWhole`, `RendersList` |
| `layouts` | 2 layers, 1 surface that both may have, one size key, two layout keys, a value besides garbage | `TypeOK`, `StoresWhole`, `ShownAsHeld`, `GarbageOfIncomplete` |
| `sizes` | 1 layer, two size keys, two layout keys, two values besides garbage | `StoresWhole`, `GarbageOfIncomplete` with a size half read |
| `pipe` | 2 surfaces, 3 events fit | `TypeOK`, `BlocksOnlyOnBacklog` |
| `pipe_full` | 2 surfaces, 3 events fit, no application at work, fairness | `MainReturns` is violated |
| `clients` | 2 clients, one foreign, 2 requests each on one connection, headers of 2 bytes, bodies of 3, killed at any time | `TypeOK`, `Intact`, `HeadersWhole`, `ReceiverInv`, `ImplementsService` |
| `answered` | 2 clients, 2 requests each, backlog of one, an event, killed only while not served, fairness | `Survives`, `CommandsAnswered`, `EventsHandled` |
| `unanswered` | 2 clients, killed at any time, fairness | `CommandsAnswered` is violated |

The tree and the display:

* `TreeShape`: lookups stop at the first match, so a second element with the
  same id would be unreachable. Every handler has to unlink before it links.
* `NeverExits`: tree and controller do not drift so far apart that a
  request fails, however malformed the messages are.
* `OnlyAddsUncover`: whatever the counts start from, no removal, no early
  return and no update leaves a layer of a surface uncounted that was counted;
  only adding the surface once more does, and only then can a handler
  dereference NULL. `not_displayed` shows that it then does.
* `ReleasedPerLayer`: removing a surface, a layer, or the whole tree drops one
  reference for each layer a surface leaves, also where one message takes it
  off several, wraps a count of 0, and frees the properties exactly when the
  count reaches 0 on the way. The run has both layers shared, counts of 0 and
  counts about to wrap.
* `StackingFollowsTree`: between handlers, each screen of the tree shows its
  list, and each layer shows a subsequence of its list.
* `SettledDisplay`: when no event is pending, each layer shows *all* its
  surfaces that exist, and layouts at the controller are those of the tree,
  but for the surfaces that are `lost`.
* `EventsOnlyShow`: rendering a whole layer because of one surface hides no other.
* `GhostsOnlyFade`: a layer that is on the display though no screen of the tree
  has it was left there by `initial_screen`; no command but that one adds to them.
* `ImplementsScene`: each step moves one layer or one surface.
* `SurfacesAreDisplayed`: the README's promise (line 110).

The wrapper, layouts and the pipe:

* `ExitsOnlyInRace`: the existence checks are worth something: the process
  ends only if a surface vanished between its check and the call.
* `LayoutsChangeWhole`: four calls and one commit: no commit shows half a layout.
* `RendersList`: however surfaces come and go during the lookups, what is
  rendered has every surface of the list that stayed, none that went, in order.
* `StoresWhole`: through three levels of copies, what is held becomes what a
  command makes of what it started from, at once: a modify changes exactly its
  keys, an incomplete add to a layer the element is on changes no layout (of a
  layer, at most its size). An incomplete add of a surface to a further layer starts from
  uninitialized memory, and replaces the whole layout held for the others.
* `ShownAsHeld`: the controller shows what is held, though the handlers apply
  a local copy in one branch and the stored one in the other.
* `GarbageOfIncomplete`: uninitialized values are held and shown only through an
  element that an add without one of its keys created or, for a further layer,
  overwrote (709, 753), and no size of a layer at the controller is half read (684).
* `BlocksOnlyOnBacklog`: the main thread blocks in a write of its own only if
  what it found unread, what came meanwhile and what it has to write are more than
  the pipe holds. `MainReturns`, that it comes back to `poll` for ever, is false.

The connection:

* `Intact`: `acquire_body_from_client` ignores errors and ends of streams, and
  still the parser never sees part of a body: it does not return instead.
* `HeadersWhole`: neither header checks how much it received, and need not.
* `ImplementsService`: whatever is killed when, replies and requests stay paired.
* `Survives`, `CommandsAnswered`, `EventsHandled`: a client that goes away while
  it is not served costs nothing; all others are answered.

The runs about the display take well-formed messages (`Malformed = FALSE`, no
missing insert order): after an early return the tree is, by the code, ahead of
the display, and the properties would fail for that reason alone. The `tree`
run and the proofs keep malformed messages.

**Bounds.** Ids are only compared, so symmetry is sound for invariants and for
properties of single steps; it is used with no liveness property. Two screens,
two layers and (in `displayed`) two surfaces are the fewest with which a layer
can move, a surface be on two layers, and an order be wrong; `before` and
`after` have a reference and a fallback. No run has two of each, which would be
too many states: `tree` and `display` order layers, `displayed` surfaces, and
the theorems hold for any number. `CountMod = 4` is enough for counts up to two
layers and for wrapping in both directions; `display` has a count that starts too
low (0), one that covers the layers (1) and one that the first reference wraps (3).
In `EventPipe` the capacity is one more than the surfaces, so that one registration
fits an empty pipe and the next does not. `PipeMax` bounds only how many events may be
pending when applications go on or `initial_screen` starts; the handlers' own
events may exceed it. In `Receiver` a header of two bytes and a body of three
can be cut in the middle and the body in two places; `UIntMod = 8` is more than
twice a body, as 2^31 is more than any; `Rounds` bounds the requests of a
connection, and the garbage sizes are one that reads as 0, one shorter than a
body and one that is negative as an `int`. In `Properties` two keys
stand for all of a kind, since each kind is read in one order by one rule; a
second key of the size with two layers is too many states, so `sizes` has it
with one layer.
The proofs have none of these bounds.

**Deadlock** is checked where nothing ends the program. It is switched off in
`tree`, `display`, `not_displayed` and `requests`, where the process may end, in
`pipe` and `pipe_full`, where a full pipe stops everything, and in the runs of `Receiver`, where it may end and where clients are done after `Rounds` requests.

**Fairness.** `WindowManager!FairSpec`: `WF(Main)`: the program's only thread is
never stopped, and a pending event is read, because the main loop serves the pipe
before the client. `SF` of the three `End...` actions: every array of a
message is finite, so a loop left and re-entered infinitely often is
at some point at its end. Applications owe nothing. In `not_displayed` the
counterexample does not rest on fairness: the process has crashed.
`Receiver!FairSpec`: weak fairness of the loop and of each client: both programs
run on, and a client that waits to connect does so when there is room. Nobody
need be killed and no event need arrive. A client that connects and never sends
is excluded by this: the code waits for it for ever (`main.c` 92).
`EventPipe!CommandsSpec`: weak fairness of the main thread, which goes on
whenever it can, a blocked write as soon as there is room: the counterexample
to `MainReturns` ends in a write that never finds any.

## 4. What is proved

**The tree.** For every set of ids, finite where `FiniteAssumption` says so, every set of
commands and insert orders, malformed messages or not, every `Garbage` and
`CountMod`, with and without replay:

* `TypeCorrect`: `Spec => []TypeOK`.
* `TreeInvariant`: `Spec => []TreeInv`, the inductive invariant
  `TypeOK /\ TreeShape /\ TreeExists /\ LayersListed /\ LoopObjects /\ NeverExits`.
  `NeverExits` alone is not inductive: that a request succeeds needs the layers
  of the tree to exist at the controller (`TreeExists`), which survives
  `remove_layer` only because a layer has one place in the tree (`TreeShape`),
  of a screen that can be found from `screen_head` (`LayersListed`); and the
  screen or layer that a loop has at hand must still exist when the loop ends
  (`LoopObjects`; a layer just lost to a missing insert order is no longer of the
  tree, but still of the controller).
* `TreeShaped`, `NoExit`: the two consequences.
* `OnlyAddsMatter`: `Spec => OnlyAddsUncover`, with no hypotheses: nothing is
  assumed of what the stack holds, nor of the width of the count.
  A step removes a surface from one list, from the lists of one layer, or from
  all; that each layer left is counted off once, and each layer kept still
  covered, needs that no list has a surface twice and that no layer has two places
  (`TreeInv`).
* `OneReleasePerLayer`: `Spec => ReleasedPerLayer`, if there are fewer layers
  than the count has values (`Cardinality(Layer) < CountMod`, in the code
  2^32): with more, one message could wrap the count all the way round.
* `InsertElementPlaces`, in `TailQueueProofs`: insertion, by position.
* `SceneImplemented`: `Spec => ImplementsScene`. That unlinking and inserting
  keep the order of the others needs that no id is twice in a list, so each step
  is mapped under `TreeInv`.

The proof that steps preserve `TreeInv` groups the actions (loop, ends of arrays,
layers, surfaces), and shows for each group what it changes. Facts about
sequences come from the lemmas of `TailQueueProofs`.

**The display.** That one list shows what another has needs what the loops that
filter a list compute, for every list. They are defined by the place of each
element (`Kept`: the element at `i` goes to the place that the number of
passing elements up to it gives) and not with `SelectSeq`, whose recursion the provers cannot
follow; `KeptIsSelectSeq`, which TLC evaluates, says the two agree on short lists. The
lemmas of `TailQueueProofs` say that `Kept` has the elements asked for, once
each, in order, and that filtering what was filtered is filtering once.

* `IlmTypeCorrect`, `GhostsFade`: from `BaseInv`, which is `TreeInv`, the types
  of the controller with no id twice in a render order (`OrdersInv`), and what
  the loops have at hand of the display (`WorkInv`). No hypotheses.
* `EventsShow`: well-formed messages. The invariant (`FollowInv`): a layer
  that is in the tree and is not being worked on shows a subsequence of
  its list. So rendering it for an event can only add to it. After an early
  return the list may have lost surfaces that the layer still shows, and the
  next event takes them off: this is why `~Malformed`.
* `StackingFollows`: in addition every message names an order
  (`NoOrder \notin InsertOrders`), or a layer may be unlinked and stay on the
  display. `ScreenInv` says what each screen shows at each point of a handler:
  its list, except while a command puts layers on one screen: the lists
  of the others lack the layers of that one already, their displays not yet.
* `Settled`: `DSpec => []SettledDisplay`, for well-formed messages, with or without
  insert order, and `ReplayOnRegister`, since
  a surface older than the window manager is else never announced. Nothing is
  assumed of the counts. Four
  invariants, on top of those above: a surface that is on a layer without
  properties is lost (`LostInv`); a layer shows each surface of its list
  that exists and is not lost, unless an event of that surface is pending or the loop
  is at the layer (`ShowInv`); such a surface has the layout of the tree
  (`LookInv`); so does each layer of the tree (`LaidInv`).

**The requests.** For any surfaces, layers and layouts, and surfaces that come and
go at any time: `RequestsInvariant`, `Spec => []RequestsInv`, and from it
`RequestsTypeCorrect`, `ExitsAreRaces`, `LayoutsWhole` and `RendersTheList`.
The properties are not inductive. The first
needs that everything a request will name exists or has gone since it was looked up
(`FoundInv`); the second that between requests nothing is pending, and how
many parts of the one layout that may be have been set (`PendingInv`). The third
needs that what was found comes from the part of the list walked so far, in its
order, with all of that part that stayed, and that the same is true of
the render order that is pending (`OrderInv`).

**Layouts.** For any layers, surfaces and keys in any order: `PropertiesTypeCorrect`,
`StoresAllOrNothing`, `ShowsAsHeld` and `GarbageIsOfIncomplete`, with no hypotheses. `ReadInv`
follows the three copies: which layout the command at hand started from
(`SourceInv`), that the keys read so far have the message's values and the
others those of the source (`CopyInv`), and that what is to be stored is what
`Parsed` says (`ParsedInv`). `ShownAsHeld` needs in addition that elements
other than the one at hand are shown as held throughout a command (`ShownInv`).

**The pipe.** For every finite set of surfaces and every capacity, whatever
applications and clients do: `PipeTypeCorrect` and `BacklogBlocks`, `Spec =>
[]BlocksOnlyOnBacklog`. The inductive invariant is `PipeAccounted`: during a
series of its own writes, the pipe holds what the main thread found unread, what came
since and what it has written of its own, and nothing else.

**The connection.** For any clients, foreign or not, any lengths of headers and
bodies, any number of requests, any garbage, and clients killed at any time:

* `ReceiverInvariant`: `Spec => []ReceiverInv`. Its parts say where each client
  is in its stream (`StreamInv`), that what `poll` reported still holds
  (`PollInv`), how far the loop has read the request it serves (`ExchangeInv`),
  which replies are on their way (`RepliesInv`), that nothing or all of a
  request is read when the loop is not at it (`AlignedInv`), and that what the
  parser was given was read before (`HandledInv`). They need one another: that the
  size is read where the size is rests on the magic code read whole, that on
  `poll` having seen data of a client that is at the start of a request, and
  that on the client not sending its next request before the last response,
  which is there only after the body was read.
* `ReceiverTypeCorrect`, `BodiesIntact`, `HeadersAreWhole`: the consequences.
* `ServiceImplemented`: `Spec => ImplementsService`, step by step under `ReceiverInv`.
* `ServerSurvives`: with no foreign clients, none of them killed while it is served. The
  invariant (`AttendedInv`) is that the client being served has not gone: it
  leaves on its own only after the last response, which it has only when
  nothing of it is left to read (`AlignedInv`). A foreign client is told -1 more
  than once for one request and may leave while the rest of it is being read;
  with one, as with kills at any time, the property is false (`unanswered`).

The assumptions on constants are those named in the modules; `SizeAssumption`
says that a body's length is positive as an `int`.

Every invariant and every action property that a run checks is thus proved,
under the hypotheses stated. Only model-checked is what is out of the provers'
reach: liveness (`SurfacesAreDisplayed`, `CommandsAnswered`, `EventsHandled`,
and the counterexample to `MainReturns`),
and that `Kept` is `SelectSeq` for lists of any length, an induction over lists.

## 5. What is found

`comm_parser.c:166` counts a reference in the wrong copy. The sample
configuration (`example/command/init-config.json`) puts surface 5100 on layers
1000 and 1001, which is exactly the case: after `remove_layer` of one the next
event of the surface dereferences NULL at 364-365, or, if the stack held a large
value, the properties are never freed.

`comm_receiver.c:115` and `:146` send to a client that may have gone. Nothing
handles SIGPIPE, so the error branches that follow are dead and the window
manager ends with its client; and a client that goes after part of its body was
read leaves `acquire_body_from_client` (98-107) in an endless loop, since a
`recv` of 0 is not looked at and `len < 0` is never true of an unsigned. Either
way commands of other clients are never answered (`unanswered`).

`ilm_control_wrapper.c:328` writes an event to a blocking pipe from
`notification_callback`. Registering runs it on the main thread for every
surface there is, and each `initial_screen` registers again (`comm_parser.c:1193`)
whatever is unread, while the loop reads one event per pass (`main.c` 70-88).
With two surfaces or more, commands sent back to back write more than is read,
until the write blocks the only thread that could make room (`pipe_full`). This
rests on the ILM library announcing the surfaces that exist, from the thread that
registers.

## 6. Not modelled

* The JSON syntax, and the text of messages.
* Failure of `calloc`, `accept`, `read`, `write`, `connect` to a full backlog
  with a time limit, and a body size so large that `size + 1` wraps.
* A client that sends something other than requests with a right magic code,
  or sends its next request before it has the last response.
* Layers that vanish at the controller by another client of it: `Requests`
  has only surfaces race.
* Formatted output, option parsing, diagnostics: no state that outlives them.

## 7. Plan

Done: all modules of section 2 and the theorems of section 4. What is left is
proving some of them under weaker hypotheses:

1. `StackingFollows` and `Settled` with malformed messages, for the layers that
   no early return has left behind;
2. `ServerSurvives` among foreign clients, up to the first that is refused.
