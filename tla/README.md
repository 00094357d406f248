# Verification of playos-compositor

TLA+ models of the compositor of the PlayOS console: model-checked with TLC on
small instances, and proved with TLAPS for every value of the constants. Line
numbers are of the files under `src/` of the repository.

## The system

`playos-compositor` is a wlroots compositor that owns the display of a games
console. It is one process with one libwayland event loop: a handler runs to its
end before the next one is dispatched, so a handler is one atomic step. The
concurrency is in the order of dispatches: several Wayland clients, playos-init
at the other end of `compositor.sock`, a timer, keyboards and outputs each
progress on their own, and the loop interleaves them.

| Component | State | Operations | Talks to | Status |
|---|---|---|---|---|
| Foreground state machine (`state_machine.c`) | `fg_state`, `expected_launch_token`, `game_surface_ready` | IPC handlers, `game_surface_ready`, `game_exited`, `transition`, `refresh` | scene, overlay client, playos-init | modelled |
| Overlay manager (`overlay_manager.c`) | `overlay_visible` | show, hide | state machine, overlay client | modelled |
| System button (`system_button.c`) | listeners per keyboard | key press, keyboard added and removed | overlay manager | modelled |
| Trusted clients (`trusted_client.c`) | `shell_client`, `overlay_client` | claim, release on disconnect | toplevels | modelled |
| Manager and overlay globals (`playos_manager.c`) | list of overlay bindings, `overlay_resource` | create, bind, register, dismiss, events | trusted clients, state machine | modelled |
| Toplevels and scene (`compositor.c` 36-113, 665-792) | list of toplevels with roles, three tree pointers, Z order, enabled nodes | create, commit, destroy, reclassify, restack | state machine | modelled |
| compositor.sock link (`compositor_ipc.c`) | descriptor, event source, retry timer and delay | start, hangup, retry, read, dispatch, send, stop | playos-init | modelled |
| Startup, fallback, shutdown (`compositor.c` 115-550, `drm_backend.c`, `main.c`, `readiness.c`) | backend, renderer, allocator, polls, listeners | start, run, destroy | wlroots | modelled but for the readiness file and signals |
| GPU discovery and scoring (`gpu_discovery.c`, `gpu_score.c`) | candidates, descriptors | discover, score, select, open | libdrm | modelled |
| Output and mode selection (`output_modes.c`, `compositor.c` 163-317, 580-622) | best connector and mode, selected size | scan, read again, probe of other cards, mode of an output | libdrm, windows | modelled |
| Outputs and frames (`compositor.c` 554-663, 794-853) | listeners, mode, frame counters | new output, unplugged output, frame, present | wlroots | listeners and modes; not the layout and the counters |
| Renderer diagnostics (`renderer_gbm_egl.c`, `diagnostics.c`) | log file | query, log | EGL | left out: prints strings |
| Tests, test client | none | | | read for what they expect |

playos-init, the clients and libwayland are not in this repository. They are
modelled from how the code uses them (marked external in `PROJECT.json`): clients
connect, disconnect and send any request in any order; playos-init sends any
message in any state and closes the connection at any time. `Launches` restricts
none of this but the link, which stays up there.

What makes a component correct, and what is hard about it:

- **State machine.** Token, ready flag, overlay flag and state are four pieces
  of state that seven handlers update, each with its own early returns, and any
  message may come in any state. They must always be about one launch.
- **Roles.** A client creates windows, binds the overlay global and claims a role
  in any order, and dies at any point. A disconnect is not one callback but many:
  first the role is released, then bindings and windows are destroyed one by one,
  each destructor running a handler that may end the session.
- **The game.** It has no role of its own: it is whatever client is neither shell
  nor overlay when its window is classified. Whether that is the client that was
  launched depends on what the others do.
- **Scene.** `refresh` only switches three nodes named by raw pointers; wlroots
  creates nodes enabled and on top. Each handler must move pointers, refresh and
  restack, with the new values.
- **Startup.** Four branches bring up a backend, a renderer and an allocator, each
  call may fail, and a failure in one branch goes on in another with what is left
  of it. Listeners are list nodes: adding, removing and freeing are only right in
  some orders, and outputs and keyboards come and go by themselves.
- **Display.** Which device, connector and mode is a chain of loops that keep an
  index and a score; displays change between one loop and the next, every open and
  read may fail, and descriptors must be closed on each way out. The size that
  comes out is used in two places that round refresh rates differently.
- **Link.** Messages are dropped while the link is down, refused by a dead peer,
  and never repeated. The timer and the descriptor must never both be there, nor
  both be missing. What comes in is not parsed but searched for field names.

`PROJECT.json` lists the hazards at their lines, with the properties that cover
each one or why none does. Where the code does go wrong and no run refutes a claim
about it, the note says so and "Other statements" below tells how.

## Modules

```
CompositorIpc   the link and what the peer of a connection was told
  |  \
  |   IpcPeer      the link against a playos-init that crashes and restarts, and the teardown
  |     \
  |      IpcChannel   frames, unread messages, field lookup and dispatch
  |        \- MCIpcChannel (small instance), IpcPeerProofs
  |
  |   TrustedClients   connections, roles, overlay bindings
  |  /
Foreground      state machine, overlay manager, System button
  |
Toplevels       windows, classification, tree pointers, Z order
  |
Compositor      the event loop: Init, Next, Spec, properties   --INSTANCE--> Lifecycle
  |  |  \- CompositorProofs - CompositorSafety - CompositorScene   (with SeqLemmas)
  |  |
  |  Launches      the games that SetExpectedGame is for, and the window that began the session
  |     \- MCLaunches (small instance), LaunchProofs (with CompositorScene)
  |
Claims          what comments and docs say and the code does not do
  |
MCCompositor    small instances

Startup         init, start, outputs, destroy; apart from the others
  |
Keyboards       the keyboards, while the backend starts and after
  \- StartupProofs

GpuDiscovery    the probe of every DRM device, the scores, the choice; apart from the others
  |
OutputModes     connector and mode, polls and probes, the mode of an output, window size
  |  |                                                          --INSTANCE--> Startup
  |  \- OutputProofs (with SeqLemmas)
  |
MCOutputModes   two machines, two displays
```

Each layer EXTENDS the one below, brings its own variables and leaves the others
to the layer above. Operators named like `playos_...` functions without the
prefix are those functions. The handlers of `Foreground` are complete (every call
they make is part of them) but for the variables of the layers above, which
`Compositor` declares unchanged. `Refresh` and `Restack` read primed pointers, as
the code calls them after it has moved the pointers; `Transition` takes the set of
nodes that are enabled when it is called, because `handle_toplevel_destroy` enters
it with one node fewer.

How state corresponds to code:

- `clients`, `closing`: connections; `closing` is the client libwayland is in the
  middle of destroying. `closing # NULL` allows only the rest of its destruction.
- `overlay_resources` is the list of bindings as a set of clients: the code looks
  a binding up by client. `overlay_told` is what the clients were told last.
- `toplevels` is the list `c->toplevels` with `role` for `track->role`; the list
  order decides which window of a role the pointer names (`FirstWith`).
- `above` is the Z order as a relation, `enabled` the nodes the renderer draws.
- `link`: `up`, `down`, or `hung`, the peer gone and the hangup not yet
  dispatched. `reported` and `ready_reported` are the last state and ready token
  the peer of this connection received.
- `alive`: a send to a hung peer may kill the process (see SurvivesPeer).
- `IpcChannel`: `inbox` is the frames in the socket's buffer, `watched` whether
  there is an event source for the descriptor, `read` and `called` the last frame
  read and the handler it led to. A message is a sequence of members, its text the
  sequence of their words, which is what `json_get_string` searches. A frame of the
  wrong size or framing is one value, `Refused`: it is dropped and the link stays.
- `Launches`: `game` is the client the last SetExpectedGame was for, until it is gone:
  the environment's, nothing in the code holds it. `activator` is a history variable,
  the window whose frame began the session that is on; it is NULL without a session and
  once its client has claimed a role, which takes the window away from the session.
- `Startup`: `pc` is the place in `playos_compositor_start`; `link` is what each
  listener node points at, `heads` which lists lead to which node. The two differ
  once a node is added twice. The ways to end: `failed` (start returned -1),
  `exited`, `attached` (wlroots frees an object that still has our listener),
  `aborted` (another assertion), `crashed` (a list operation on garbage).
- `Keyboards`: `tracked` is the keyboards with a `playos_keyboard`, whose key and
  destroy listeners live as long as it does; `dropped` those for which calloc failed.
- `GpuDiscovery` and `OutputModes`: one step per device, candidate or connector
  looked at; `pc` is the loop. `open_fds` is which of the three descriptors the code
  can hold are open. `shows` is the display on each connector, which `HotPlug`
  changes between any two steps; `undisturbed` is a history variable, TRUE while
  nothing changed and no read or commit failed since this discovery began, for the
  properties that compare the result with what was there. What the selection makes of a
  display that is exchanged on the way, or of a mode that is refused, is in the model
  but not in these properties. `size` is `output_width`,
  `output_height` and `output_refresh_mhz`, `mode_set` what `handle_new_output` set.

`Startup` and `Compositor` are separate: what the one hands to the other is only
that the event loop runs, which is where `Compositor` begins. `OutputModes` is the
poll and the probe of `Startup` in detail: there each is one step with any result. That the
two agree is `ImplementsStart`, with `StartStage` for where `Startup` is. `c->state` and `c->running` are written and never read, and
are left out.

Left out: `expected_game_id` (only logged), log output, the geometry in
`output_info` (a copy of `size`), device paths, and of the framing everything but
whether a frame is refused: escapes in strings, values longer than the
buffers and an empty message are not distinguished. In `Compositor`, launch tokens
are taken as non-empty. `send` blocks when the peer does not read; the model
lets it return. Allocations are taken to succeed but where a module says otherwise:
without memory for the retry timer, `ipc_schedule_reconnect` would pass NULL to
libwayland (compositor_ipc.c 241-245) and the process would end.

## Runs

Symmetry is not used: the instances are asymmetric or small.

| Run | Instance | States | Shows |
|---|---|---|---|
| `ipc` | real delays (100, 5000 ms), nine messages, two tokens | 43 200 | a lost link has a retry and a live one has none, the back-off restarts, a message leads to the handler it asks for, the compositor reconnects |
| `roles` | c1, c2 may claim either role or both, c3 a game; up to three windows, two of one trusted client; one token | 822 000 | tree pointers, roles, scene, Z order, session, visibility events, holders |
| `session` | one trusted client, one game, two tokens, back-off of two steps | 438 000 | types, what playos-init is told, refinement of `Lifecycle`, termination |
| `launches` | a trusted client, a game with two windows and one with a single window, one token | 565 331 | a session does not outlive the window that began it, a launch comes to its game |
| `startup` | two outputs, two keyboards, the real ten polls | 7 927 | types, renderer and allocator, no keyboard missed, clean teardown with one output, the start ends |
| `display` | two machines, three connectors, two displays, two polls | 264 441 | types, best device, connector and largest mode, a card with a display is driven, panel order, no descriptor left, window size, the selection ends and comes nearer to it with every step, refinement of the polls of `Startup` |

and six runs that refute a claim (below).

Why the bounds are enough. `roles`: two clients compete for the roles, one is
unclaimed, and one client may hold both roles. `MaxWindows` = 3 windows at a time:
two of a role are what the first-match loop, the pointer clearing and the
restack tell apart, and a third is what is in front of or behind them. Two tokens: a
launch and the one that replaces it. The code never compares tokens, so more
cannot matter; where only roles and windows are looked at, one is enough. The link
stays up in `roles`, whose properties do not look at it, and is lost in `session`. Delays
only matter to the link, which runs with the real ones on its own and with one or
two steps when composed. `ipc`: one dispatch reads one frame and keeps nothing of
the last, so `MaxUnread` = 1 frame in the socket shows every frame, unread at a
hangup, too. `launches`: two games are what an old and a new launch take, one of
them with a dialog; the trusted client may claim either role, before or after it has
mapped its window (the order of two trusted clients is in `roles`); `BoundOverlays`
keeps the games from binding the overlay global, which is in `roles` as well. `startup`: two outputs are what adding one node to two
lists takes, and the polls are the code's own. `display`: the machines
have an external connector before a panel, two panels, a device without a primary
node and one without an output; the displays have a preferred mode that is not the
largest, two modes of equal size, and a rate that is not whole. `MaxAttempts` = 2 polls:
one is followed by another, the last by the probe; ten would repeat the first (the bound
of the code is checked in `startup`).

Deadlock is not checked where the system really stops: the compositor is killed or
exits, or the selection is over and no display changes. It is checked in `ipc`.

**Fairness.**

- `Keyboards`: `main` goes on with the start (`WF_allVars(Lives(StartNext))`), which
  waits for nothing but its own polls; nothing is assumed of outputs, keyboards or
  signals.
- `OutputModes`: the selection is sequential code (`WF_vars(Selecting)`); nothing is
  assumed of displays.
- `IpcChannel`: libwayland dispatches a descriptor that stays ready and a timer that
  stays expired (`WF` of `FdHangup` and `TimerFires`). `Reconnects` asks only for
  what happens once playos-init listens for good, and it excepts a connection for
  which `wl_event_loop_add_fd` failed: the code does not check that
  (compositor_ipc.c 214-217, 302-304) and never hears of its hangup.
- `Compositor`: `CloseProceeds`: libwayland finishes a client destruction it has
  begun (weak). `TerminatedGameDies`: a game playos-init has been asked to
  terminate dies, and its hangup, which stays pending while others are destroyed,
  is dispatched (strong, because the destruction of another client, one dispatch in
  the code, is several steps here that disable it).
- `Launches`: the same of libwayland (`ClosingSteps`, weak), and a game that is not
  killed connects, creates its windows and commits to them (`GameSteps`, strong, for
  the same reason). What the game does it may also do early, and its windows may go.

Nothing else is fair: no client need claim, commit or stay, and no message need come.

**What `Launches` assumes** is that the link stays up and that every SetExpectedGame is
for a client that never registers. Clients are not restricted. A trusted client may map
its window while a game is starting and before it registers (trusted_client.c 89-91), be
taken for the game, begin the session and claim its role only then; the game of an
earlier launch may still be there, map windows and die; a game may map its window before
the message is dispatched. Under all this two things hold. A session that was begun by
a window ends with it (`SessionHasItsGame`), unless the window's client claims a role:
the window is then no game any more and the session is left without one, which
`GameOnScreen` shows. And a launch comes to its game (`LaunchActivates`): the session
begins and a window of the launched game is in the game role, also when another client's
window began the session, or else the launch is over. Over is what the code makes of it:
also an exit of the last game, or of one of two windows, ends a launch (`game_exited` looks
at the state and not at the client). What `LaunchActivates` asks for is that no window of
the game was created before the message and left unclassified: the frames of such a
window do not count.

**Mutants.** Beside the definitions are `Mut...` variants with a plausible bug (a
reset forgotten, a pointer kept, a refresh before the assignment, a comparison that
leaves out a term). Each property is violated when the matching one replaces the
original.

### Refuted claims

Six statements of the repository that the code does not keep (in `Claims.tla` and at the
end of the modules), each with a run whose counterexample is the shortest way there:

- `HiddenBehindGame` (state_machine.c 82-85, "must be treated as hidden so the
  next game can show it again"): SetExpectedGame, the game's window, ShowOverlay in
  GAME_STARTING, first frame. The flag is up in GAME_FOREGROUND, so the System
  button and ShowOverlay do nothing until something hides the overlay.
- `GameOnScreen` (compositor.h 43-44, "Tracks which surface is in the foreground"):
  SetExpectedGame, a trusted client maps its window and commits, then registers. The claim
  takes the window out of the game tree and leaves GAME_FOREGROUND. A client with two
  windows in the game role gets there, too: the destruction of the one the pointer names
  promotes no other, and a SetExpectedGame and a frame of the other follow.
  `SessionHasItsGame` states what does hold.
- `SurvivesPeer` (README.md 3, compositor_ipc.c 242): playos-init closes its end, and
  anything dispatched before the hangup, a message among it, changes the state:
  `send` with flags 0 raises SIGPIPE, which no code ignores. Whether the process
  was started with the signal ignored is up to its parent, so the model allows both.
- `RendererOnce` (compositor.c 166-168): the GPU is found, its DRM backend and
  renderer come up, the allocator does not. The fallback gives the display a
  second renderer, after which, so the comment, the globals are registered twice.
- `ListenersDetached` (compositor.c 535-536): the socket cannot be added. The
  same end is reached by unplugging an output and by shutting down with two.
- `SizedToOutput` (compositor.c 732-733, "size them to the output"): the largest mode
  of a display runs at 59.94 Hz. Discovery stores the kernel's rounded 60 Hz, the
  output's mode is compared after truncation to 59 Hz: no mode matches, the
  preferred one is set, and windows are sized for the other. `SizedAtWholeHertz`
  states what does hold.

**Other statements.** The models show these disagreements as well, without a run of their
own; where a property of a passing run says what does hold instead, it is named:

- compositor.c 64-66, "only treated as the game while the foreground state machine actually
  expects one": after SetExpectedGame, a window and ClearExpectedGame the window keeps the
  game role with the shell in the foreground, and its next frame activates whatever launch
  comes next. `SessionHasItsGame`: the session then ends with that window.
- compositor.c 754-755, the first-frame rule: SetExpectedGame does not classify the windows
  that are there (state_machine.c 111-126). The frames of a game that created its window
  before the message was dispatched do not count, and the launch stays in GAME_STARTING
  until some other window or claim makes the code classify again. `LaunchActivates`.
- state_machine.c 174-175, "The compositor's job is to fall back to the shell" when the game
  has exited: `game_exited` is called for the destruction of any window in the game role
  and looks at the state only. A game that closes a dialog ends its session, and the exit
  of the last game dispatched after SetExpectedGame for the next ends the new launch.
- README.md 18 and the diagram in 65-69 show TERMINATING_GAME returning to the shell: with
  no game window (ForceTerminateGame in any other state, or before the game has mapped)
  only the next SetExpectedGame leaves it. `TerminationEnds`.
- compositor_ipc.c 7 and 145, a JSON body, dropped when it is "missing 'type'":
  json_get_string takes the first quoted string that reads like the name of a field, also a
  value, and `{"game_id":"type","type":"SetExpectedGame",...}` is dropped. A
  SetExpectedGame without a launch token passes on an uninitialised buffer. `ReadAsMeant`.
- compositor.c 123-124, "a safe no-op for listeners that were never attached":
  `present.link` is not among the links that are initialised, and removing it at the end
  crashes a compositor that set up no output. `Destroy` has this as a step;
  `OneOutputShutsDown`.
- output_modes.h 10-12 and output_modes.c 14-16, "to find the preferred output (eDP > LVDS >
  DSI > other connected) and its preferred mode": the loop takes the mode with the most
  pixels and looks at no preference. A television that prefers Full HD and offers more,
  as in the `display` run, is selected at its largest mode. `BestOutput` is about what the
  loops compute, and says so.
- gpu_discovery.c 20 and 45, "Prefer eDP or LVDS (built-in panels)": the loop over the
  connectors stops at the first with a display. A laptop whose HDMI connector comes before
  its panel, both connected, counts as one without a panel, and a discrete card with a
  monitor wins. `DrivesDisplay`.
- playos-v1.xml 116 describes `about_to_show` as sent before the overlay is mapped: an
  overlay client that registers while the overlay is up is shown and gets `output_info`
  only.
- The repository's README.md says that compositor.sock is not used (line 34) and that
  `playos_overlay_v1` is not implemented (line 45); both are out of date.

No statement is known of three more: the result of `wlr_output_commit_state` is not looked
at (compositor.c 615), so that windows get the size of a mode that was refused; a
connection for which `wl_event_loop_add_fd` failed is open, deaf and without a retry
(`Reconnects` excepts it); and messages still unread when playos-init hangs up are lost,
because the handler looks at the hangup first.

## Proofs

All of Compositor's safety properties are proved, for any sets of clients,
registrants, windows and tokens, any assignment of windows to clients, any
delays. Assumptions on constants: `NoToken` is no token, `NoReport` no state,
`NULL` no client or window, `1 <= BaseDelay <= MaxDelay`, registrants are clients, and
an output is not called like the backend.

- `CompositorProofs`: `Spec => []TypeOK`. A step is first put in one of five
  kinds by what it leaves alone (`NextSteps`: session, classification, destruction,
  connection, link). All later inductions are over these kinds. `TypeOK` says that
  the list of windows holds none twice, which needs `SeqLemmas` about Append
  and RemoveAt, and `FirstWithTracked` about the loop of reclassify.
- `CompositorSafety`: `SessionCoherent`, `PeerNotMisled` and `ReadyNamesLaunch` are
  inductive over `TypeOK`. The three client properties are inductive only together
  (`ClientInv`): a client may be told it is shown only because the binding is the
  role holder's, and that the role holder has no binding elsewhere is what
  `EventsReachOverlay` says. `SessionRefines` is the refinement of `Lifecycle`: each
  handler is one abstract step or a stutter. `LinkSafe`: the link in the whole compositor
  is as `IpcPeer` has it on its own.
- `CompositorScene`: `TreesMatchRoles` is inductive over `TypeOK`,
  `RolesMatchClaims` over `TypeOK` and `ClientInv`. `SceneRefreshed` and
  `ForegroundOnTop` need `SceneInv`: with a pointer to a freed node the early return
  of a transition would leave a wrong scene, and the order is only known because
  every pointer that moves is followed by a restack (`Stacked`).
- `LaunchProofs`: first `LaunchSpec => Spec` (`LaunchesRefine`): what `Launches` does is
  some of what `Compositor` allows, so everything above holds of it. Then
  `SessionHasItsGame`, inductive with the types (`GameInv`) over `RolesMatchClaims` and
  `ClientInv`: a window in the game role belongs to a client without a role
  (`GameHoldsNoRole`), so that the claims of others leave it where it is
  (`ClassifiedStays`), and its destruction ends the session. Nothing is assumed of how
  many windows a client has or when it claims.
- `IpcPeerProofs`: `NeverStranded` and the back-off, for any delays (`PeerInv`), and
  `ChannelSpec => PeerSpec`, which carries them over to the link with frames.
  `ReadAsMeant` is about the text of a message: unless a value reads like the name that is
  looked for, the first word that does is the name of the first such member, and what
  follows is its value (`WordsOfMember`, `StringRead`). The invariant is that `called` is
  the handler of the frame in `read` (`CalledByFrame`). For any messages of any length
  (`MessageAssumption`: they are lists of members, and neither of the two markers).
- `StartupProofs`: `StartTypeOK` and `RenderersChecked` are inductive with
  `StageInv`, which says what has been done at each stage; `OneOutputShutsDown`
  needs `ListenerInv`: the two output nodes are always together and on the
  list of an output whose list leads to them. `KeyboardsHeard` follows with
  `KeyInv`, because the backend's list leads to `new_input` before it starts. For any
  outputs, keyboards and number of polls.
- `OutputProofs`: `OutputTypeOK` with `PlaceInv`, which says at each stage what is
  looked at, so that every index is in range; `NothingLeftOpen` over it. The two
  loops have an invariant per iteration, the best of the first `m` (`BestOfFirst`,
  `BestOutputOfFirst`): `SelectedIsBest` and `BestOutput` are these at the last one,
  and the weights then give `OutputBeatsVendor` and `PanelOrder`. That a list of modes has
  a first largest one is `LargestExists`, from the least-number principle.
  `DrivesDisplay` needs `ProbeInv`: as long as nothing moves, the entries of the
  candidates say what is plugged in, and every card the loop has been at has one.
  `SizedAtWholeHertz` needs `SizeInv`, which ties the size to the connector it came
  from until the output is announced, and `WholeRate`: at whole Hertz the mode that
  was found is the first that `handle_new_output` takes for a match.
  `SelectionShrinks` is what a proof of `SelectionEnds` would rest on: with `ItemInv`
  (no loop runs over its end) every step makes a tuple of naturals smaller, and
  plugging leaves it alone. What is missing to `SelectionEnds` is that a step can
  always be taken. `StartRefined`: every step is one of the start in `Startup`, or
  inside of one.
  For any lists of devices and connectors, any displays and modes, and any plugging;
  every mode has at least one pixel (`ModeAssumption`), every connector one of the
  four types (`ConnectorAssumption`).

Every invariant and every action property of the passing runs is stated by a theorem,
and both refinements. Only model-checked: liveness (`Reconnects`, `TerminationEnds`,
`LaunchActivates`, `StartEnds`, `SelectionEnds`), which needs fairness and ENABLED and is
beyond the prover; and the refuted claims.

## Not modelled, and what is left

- The readiness file (readiness.c): it is written and never read in this repository,
  nor removed. That a file of a crashed compositor is found by the next start's poll is in
  the list of hazards.
- Signals: SIGTERM is the step `Destroy`, any time the loop runs. One that comes before
  the handlers are installed ends the process as if killed; one between that and
  `wl_display_run` depends on libwayland.
- The frame and scanout counters (compositor.c 739-752, 794-853): numbers for a log line.
- Renderer diagnostics and the diagnostics log: strings.
- The generated protocol code and the test client under `tools/`, and the tests.
- Byte order, lengths and escapes in a frame (see "Left out").

What is left to prove is liveness. Its safety half, that every step of a loop comes nearer
to its end, is proved for the selection; the start has no loop but the polls
(`StartTypeOK` bounds them).
