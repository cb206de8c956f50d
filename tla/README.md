# MumbledFlight in TLA+

MumbledFlight is an X-Plane plugin, with a command-line twin, that puts each
cockpit user on a Mumble server as up to four VoIP clients: Voice (ambient
speech, spatialised), IC (intercom), PA (cabin announcements) and Radio (a
relay of the COM radio). This directory holds TLA+ models of the parts of the
program whose correctness depends on the order of things, the TLC runs that
check them, and TLAPS proofs of the main invariants.

Every module is translated from the Rust source (paths below are relative to
the repository: `core` is `mumbled-flight-core/src`, `plugin` is
`mumbled-flight-plugin/src`, `cli` is `mumbled-flight-cli/src`).
`PROJECT.json` maps each definition to its lines.

    tlc -workers 2 -config ZoneChannels_races.cfg MCZoneChannels.tla
    tlapm ZoneChannelsProofs.tla

## The system

| part | state it keeps | operations | talks to |
|---|---|---|---|
| Session (`core/mumble/voip/session.rs`, loop in `client.rs`) | channels by name, own session id, `channel_joined`, `current_zone`, `pending_channel`, crypt state, `was_transmitting` | one handler per control packet, `check_zone_channel` every 5 s, one microphone frame every 20 ms | Mumble server by TCP and UDP; CockpitState; mixers |
| CockpitState (`core/state.rs`) | the switches of the seat occupied, seat, role, zone, doors | `update_from_float`, three transmission gates | written by the pollers, read by the clients, one mutex |
| Pollers (`plugin/lib.rs`, `cli/xplane.rs`) | resolved datarefs | plugin: a pass under the lock 20 times a second, lookup retried; CLI: one request for the list, repeated only after an error, then values one by one | X-Plane; CockpitState |
| Stack and connection (`core/mumble/stack.rs`, `plugin/connection.rs`) | runtime, shutdown flag, status slots | Connect, a start-up with waits, Disconnect | all of the above; capture and playback threads |
| Playback mixer (`core/mumble/audio.rs` `start_playback`) | a sample queue per session | push a frame, cap, output callback | clients (bounded channel); the audio device |
| Capture pipeline (`audio.rs` `start_capture`, `pw_capture_loop`, `start_test_source`; `stack.rs`) | samples waiting for the denoiser and for a frame, bounded queues, a broadcast ring | callbacks, framing, forwarder, readers that may lag | audio device or PipeWire; clients and monitor |
| Radio capture (`audio.rs` `pw_capture_loop`) | nodes and ports seen, linked inputs, link proxies | registry listener, shutdown timer | PipeWire |
| Process-wide audio (`audio.rs` `create_linux_sink`, `device_open_lock`) | the sink's cached name, the `PIPEWIRE_NODE` variable and its lock | call for the sink with a thread per call and a 5 s time-out, opening of devices | every connection of the process; PipeWire's daemon |
| Trust flow (`plugin/gui/draw/tofu.rs`, `gui/trust.rs`, `gui/known_hosts.rs`) | `trust_state`, probe slot, generation counter, known hosts in memory and on disk | the Connect button, polling per frame, Trust / Cancel, probe threads | flight loop, which connects and disconnects |
| Device selection (`plugin/gui/mod.rs`, `gui/config.rs`) | device lists, selected indices, configured names, `config.toml` | refresh thread, flight-loop refresh, pickers, save, load | audio system; connection start |
| Rest | — | spatial gains, codecs, TLS, secrets, widgets, command line, logging | not modelled, see below |

X-Plane calls the plugin on one thread: drawing (where the buttons act) and
the flight loop alternate and never overlap. Everything else is concurrent:
tokio tasks per client, a thread per captured or played device, a thread per
certificate probe, a thread that enumerates devices, PipeWire's loops.

What is hard here, and which properties it comes down to:

* *Messages and caches.* A client knows the server's channels only through
  packets, ids are reused, temporary channels vanish when the last user leaves,
  and requests are neither acknowledged nor ordered with other users' actions.
  The cache must stay coherent, the confirmed zone true, the retries must not die.
* *Late results.* Probe threads outlive the flow that started them.
* *Mixed reads.* A seat change and the switches of both seats are read at
  different moments.
* *Queues at their limit.* Dropping samples must not swap channels or mix sources,
  a slow reader must not cost another one a frame, and an end must not overtake
  what was sent before it.
* *State of the process.* The sink's name and an environment variable outlive
  connections and are shared by their threads, and a thread outlives its time-out.
* *Discovery.* PipeWire objects appear in any order, go, and come back.
* *Lists replaced under a selection,* and a configuration saved at a bad moment.
* *Starting and stopping.* Disconnect may hit any wait of the start-up.

The complete list of hazards, with source lines and the properties that watch
them, is in `PROJECT.json`.

## Modules

Each component `X` has the modules `X` (state, actions, properties), `MCX`
(budgets for TLC), and `XProofs`; `AudioProofs` holds the proofs of PlaybackMixer
and of LoopbackLink, whose names therefore begin with `Link` where the other has
the same ones. The environment's
events are limited by `Budget`, a constant function from event to number;
`left` counts down (Keying has a budget per setup; in ProcessAudio each event
happens once and `MaxEvents` of them at most; CapturePipeline is bounded by the
`Supply` of samples). An operator whose comment begins with "Mutant" is a
deliberately wrong variant of the definition that follows it. No action uses
it; it shows that a property is able to fail.

**ZoneChannels** — one VoIP client and its channel. `toServer` and `toClient`
are the two directions of the TCP connection. `RecvX` actions are the arms of
`on_control_msg`, each with all it sends; `CheckZoneChannel` is the 5 s tick;
the `Srv` actions and the environment (`Occupy`, `Vacate`, `Kick`, `Noise`) are
the external server and its other users as far as the client relies on them.
A zone stands for its channel's name. `ambient` tells Voice (two zone
channels) from a client with a fixed channel (PA, IC, Radio).

**TrustFlow** — trust on first use. A frame of the window is one step (`Draw`,
or a click followed by the rest of the frame); `FinishProbe` is a probe thread
writing the slot; `FlightLoop` runs `connection::start` and `stop` with the
fields as they are then. Hosts and certificates are model values; a remembered
entry may be corrupt, a write may fail, and the plugin may be restarted.
`edited` is a history variable: the user changed server or Server CA between
Connect and the connection.

**Keying** — from datarefs to voice packets, over either host: a setup says who
polls, which datarefs exist and which clients are started. `Discover` is the
bridge's one question for the list, `Read` one dataref read and applied; `pos` is
where a pass is. In the plugin nothing else moves during a pass (it holds the
lock on X-Plane's own thread); in the bridge everything does. `MicFrame` is one
20 ms frame of a client.

**PlaybackMixer**, an implementation of **SourceFifo** — one mixer. Samples are
numbers in their source's stream, so that order, holes and channel alignment
are visible. `SourceFifo` says what each source is promised: a FIFO of its own
that loses its oldest samples, and only above the limit.

**CapturePipeline**, an implementation of **LossyStream** — from a capture's
callback to the clients. Samples are numbered at the source, before anything can
drop them, and a frame is the sequence of the numbers it holds, so that a chunk lost
on the way is a hole in some frame or between two. `kind` is which of the four captures it is: `Callback` is the
device's or ffmpeg's, `Process` and `Accumulate` are the two threads of the radio
loopback, `Denoise` and `Cut` the framing that all of them share. `Forward` moves
a frame into the broadcast ring, `Read` is one `recv` of a client with its three
results. `lost` and `late` record what was dropped for everybody and who fell behind
the ring. `LossyStream` says what a listener is promised: the source's samples in
order, complete but for those, nothing lost unless a buffer is full, and an end that
comes last.

**ProcessAudio** — what the connections of one process share. `Select`, `Open` and
`Fail` are a device thread under `device_open_lock`; `Wake`, `Ready`, `GivesUp` and
`TimesOut` the call `create_linux_sink`; `Dump`, `Decide`, `Appear`, `Refused` and
`Notice` its thread with the two phases of `pw_null_sink_loop`. PipeWire's daemon
and other programs (`Comes`, `Leaves`, `Restart`, `Unreachable`) are external.

**LoopbackLink**, an implementation of **Patchbay** — how the radio capture finds
its source. `Global` is the registry listener including `attempt_link`; `StreamNode`,
`StreamPort` and the `Source` actions are PipeWire's announcements. `Patchbay` says
what a capture that links itself promises: each input is wired once in its life, a
wire goes with the node of its source or with the capture only, and a capture that
has ended makes none. The shutdown timer may fail to be armed (`armed`), which the
code only logs: then nothing ends the loop.

**DeviceSelection** — device lists, pickers and `config.toml`. The code keeps a
selection as an index and replaces list and index together in
`refresh_output_devices`; the model keeps the name at that index, `Empty` where
the code would read `""`. `chosen` is a history variable: what the user picked
last (after a crash, or when the last write has failed: what is in the file). A write
that fails leaves the old file or an empty one, and the code goes on.

**StackLifecycle** — Connect to Disconnect for a sequence of connections: the
stack's waits, the threads of microphone, radio and mixers, the clients' tasks
and status slots. Threads and clients may fail to start, clients may end by an error
or a closed connection, and the radio's shutdown timer may fail to be armed
("untimed"): such a capture survives Disconnect.

The modules meet at these interfaces: ZoneChannels, Keying and PlaybackMixer
describe what goes on inside a client that StackLifecycle calls "online";
CapturePipeline delivers the frames Keying's `MicFrame` takes; LoopbackLink is
what the `radio` thread does while "open", before samples reach CapturePipeline;
ProcessAudio is how StackLifecycle's threads open their devices, and keeps the sink;
TrustFlow decides when its `Start` happens and DeviceSelection with which devices.
They share no variable but the zone, the switches (read-only for the clients) and
the shutdown flag (which is only ever set), so they are checked apart.

## Runs

Passing runs, with distinct states:

| run | what it shows | states |
|---|---|---|
| `zone_races` | cache coherence and the confirmed zone, with other users, a kick, id reuse, two zone changes at any moment | 1 572 000 |
| `zone_follow` | Voice ends in its zone's channel, PA, IC and Radio join theirs, while zone changes wait for the last to settle and nobody leaves; packets about other things disturb nothing; the tick of a Voice client that is not in its channel always asks | 194 000 |
| `trust_races` | certificates stay with their hosts, cancelling holds, silent connects are pinned, connections anchored, a probe that runs alone ends the wait | 572 000 |
| `keying_any` | seat changes are exact in the plugin, datarefs found late and a reconnect included; over either host the air agrees with the gates in the end, with failed requests in the bridge | 257 000 |
| `mixer_any` | alignment, refinement of the FIFO per source (order, losses, bound), draining | 11 000 |
| `capture_any` | refinement of the lossy stream for the four kinds of capture, with full channels and lagging, late and leaving listeners; every listener is told of the end, if the capture has one | 564 000 |
| `process_audio` | devices are opened for the node configured, a cached sink exists and is the only one, an undisturbed connection gets its devices however the one before it fared, and a sink that is there unless a cached one has gone | 560 000 |
| `link_any` | refinement of the patchbay (one source per input, once); a source that was there first is matched channel by channel; one that stays is heard; everything is released if the timer was armed | 323 000 |
| `devices_any` | selections are listed and chosen, choices come back, lists catch up; enumerations and writes may fail | 1 161 000 |
| `stack_any` | all clients come up, everything is released but a radio capture without timer, no client outlives its connection, the status is live unless an error ends a client | 178 000 |

Some properties have a premise about the environment: `Unspent(e)` and `Never(e)`
say that event `e` has not happened so far, `Undisturbed` in TrustFlow that no older probe is
running, in ZoneChannels that zone changes settle and no user leaves or kicks, `~edited` that nobody edited the server while connecting, `Settled` (a
constant of ZoneChannels) that a zone change waits for the last one to be carried
out, `SeatFirst` that the seat is polled before the switches. The runs contain
both kinds of behaviour, and the premise says for which the code keeps its
promise. Without it the code does not, and comments or documents of the
repository often say otherwise:

| promise | premise | otherwise |
|---|---|---|
| `NoSilentStall` ("no silent failure, unlimited retry", `session.rs:189`) | `Undisturbed` (zone changes settle, nobody leaves, no kick), as `RetriesGoOn` in `zone_follow`; proved | run `zone_stall`: a `pending_channel` whose creation was denied is never cleared, and the retry ceases |
| `ZoneFollowed` (the same doc) | `Undisturbed` throughout; checked with `Settled`, where users come and create channels first but none leaves | as above: after a departure, a kick or a zone change on top of another the client may stay outside its zone for good |
| `ProbeResolves` ("a stale result ... is ignored", `trust.rs:23`) | `Undisturbed`, in `ProbeEnds` | run `trust_cancel`: the thread of a cancelled probe overwrites the newer result |
| `ChoiceRestored` ("configuration persists", `README.md:39`) | some input device exists, devices stay, nothing is saved before the lists arrive, no write of the file fails | a failed write is ignored (`config.rs:90`) and leaves an older choice or none; an early save erases the configured devices; without any input a picked automatic sink gives way to the configured radio at each refresh |
| `SelectionIsChosen` ("used on the first snapshot arrival", `gui/mod.rs:227`) | inputs never all gone, no failed enumeration, for inputs only | an empty list counts as the first one, and the configured inputs come back |
| `TargetJoined` ("always in the aircraft channel", `stack.rs:237`) | no user leaves | the join at ServerSync is sent once (`session.rs:270`); if the channel goes meanwhile nothing retries |
| `EarlyChannelsMatch` ("ordering of globals doesn't matter", `audio.rs:685`) | no source appears later | a stereo source whose first port is announced alone is linked as mono |
| `Heard` ("silent until it appears", `audio.rs:818`) | the source does not vanish, no link fails | removals are not listened to: a source that comes back stays silent |
| `Released` of LoopbackLink and StackLifecycle ("dropped on disconnect rather than leaking across reconnects", `audio.rs:788`) | the shutdown timer was armed | `audio.rs:802`: the failure is logged, `mainloop.run()` has nothing left that quits it, and stream, links and thread stay |
| `EveryoneTold` | the same, for a loopback | the capture does not end, and neither does its channel |
| `StatusFollows` ("live connection status", `mumble/mod.rs:38`) | no client ended by an error | `?` leaves `run` past the line that sets the slot (`client.rs:292`) |
| `SinkReady`, existence ("kept alive for the life of the process", `audio.rs:245`) | no restart of the daemon, no program takes its sink away | the cached name is that of no sink; `ComesUp` admits this (`Stale`) and nothing else: a positive answer otherwise means a sink in the graph |
| `SinkReady`, uniqueness ("creates it only if absent") | no call times out, no program makes its own | the thread of a timed-out call creates a sink beside that of the retry |

The first two have runs whose violation is expected, and are listed with a
quotation under "findings" in `PROJECT.json`; the others are hazards there.

### Bounds

* Two channel ids and two zone channels: the smallest number with which a
  removed id can be given to the other name. A zone tick waits while more than
  `MaxInFlight` = 2 messages travel, as the code's tick comes every 5 s and the
  messages in milliseconds; without this the queues would grow without end.
  Whether the client is Voice or has a fixed channel is chosen in the initial
  state. `zone_races` has two zone changes at any moment, so that one may be undone or
  come on top of another; `zone_follow` has three and two users who come.
* Two hosts, of which one renews its certificate; two probes. The races of the
  slot need two probes alive; one click per run of the flight loop. Cancelling,
  editing, renewal and restart may each happen once.
* Three setups of three or four datarefs each: the PA's in the plugin, the
  relay's and the interphone's in the bridge. Together they contain every kind of
  ownership that `owns` distinguishes and all three gates. Two changes of a
  switch, one failed request, one reconnect.
* Two sources, stereo, seven stereo frames each in packets of one and three,
  device blocks of two and three frames, a limit of three device frames, a
  channel of two packets: a push can exceed the limit by more than a device
  frame, and a source can run dry and resume.
* Frames of three samples, the denoiser's of two, chunks of two and four: neither
  divides the other, and a chunk may fill a frame or not. A raw channel of one chunk, a
  queue of one frame and a ring of two, 12 samples: up to four frames are made, so that
  both overflow, a listener lags, and a rest remains. Two listeners, of which one may
  suffer while the other does not.
* Two connections whose devices differ, two nodes, and two of the seven events at
  any moment: a time-out and a retry, a foreign sink and its removal.
* A stereo source and a stereo capture; the source is there at first or not, and
  appears and vanishes up to twice; a link, a start and the timer fail once.
* One output and two input devices: one to be chosen, one to come back; a
  configuration saved earlier, or none. An enumeration and a write fail once.
* One connection with each failure once. That the clients of one connection are
  gone before those of the next is `OneCrew`, proved for any number of them.

The radio source in `stack_any` is the automatic sink, the longest path.
Symmetry is used for the ids of `zone_races` only, which checks no liveness.
`CHECK_DEADLOCK FALSE` is given where the system may rightly stop: a client with
a fixed channel has nothing left to do, a capture has ended, a source has sent
all its samples, no more connections are allowed.

### Fairness

* ZoneChannels: the select loop serves its branches again and again (weak
  fairness of the client's handlers and of the tick) and the server answers. No
  environment event is ever required.
* TrustFlow: frames and flight-loop runs go on while X-Plane runs; a probe
  thread ends because its connect, read and write have time-outs.
* Keying: the poller goes on, the capture delivers frames. For the bridge this
  presumes that a response whose body has begun also ends (`xplane.rs:57` sets no
  time-out). `MicFrame` is strongly
  fair, as the lock is free between any two passes but not continuously.
* PlaybackMixer: the device calls back and the thread serves its channel.
* CapturePipeline: the framing, the forwarder and the readers that are left run
  on, the flag is looked at every 200 ms (by the loopback only if its timer was armed)
  and the opening ends. Callbacks need not
  come, nobody needs to disconnect, and ffmpeg may run for ever.
* ProcessAudio: the threads of devices and sink run on, and a call is answered or
  ends after its 5 s. The lock need not be fair: each thread takes it once, so
  that weak fairness is enough. No event is required.
* LoopbackLink: PipeWire completes a node it has begun, the loop serves events
  and its timer, if that was armed. Sources need not appear, users need not disconnect.
* DeviceSelection: the refresh thread and the flight loop go on.
* StackLifecycle: threads and tasks run and blocking calls end one way or the
  other (the sink after 5 s). Nobody has to connect or disconnect.

## Proofs

Each theorem is of the form `Spec => []Inv` (or a box-action property, or the
refinement), for every value of the constants under the module's
`ConstantsAssumption` (`LinkAssumption` in LoopbackLink): any numbers of ids, hosts, devices, connections, any
budgets, so that the bounds above play no part.

| theorem | argument |
|---|---|
| `ZoneChannelsProofs!CacheStaysCoherent` | `CacheInv`: coherence of the cache "corrected by the packets in flight" with the server's table, plus what the server guarantees (`ServerSane`) and that an unauthenticated client has heard nothing. Coherence alone is not inductive: an announcement must be for a fresh id. For each server action the appended packets extend the "last word" on a name; for each handler the head of the queue moves into the cache. |
| `ZoneChannelsProofs!ConfirmedZoneStaysTrue` | `PlaceInv`, on top of `CacheInv`: if the server has the client in a zone channel, either that zone is confirmed and no echo travels, or the last echo travelling is of that channel, and cache and the packets *before* it (`EchoUnderway`) give its id one name, the zone's. The latter is coherence at an earlier moment, so both the table of that moment and the split of the queue are existential. Appended packets lengthen the part after the echo, handlers shorten the part before it, an `Enter` makes a new echo out of the coherence of now. |
| `ZoneChannelsProofs!QuietCacheIsExact` | coherence with nothing left to correct: once authenticated and with no packet on the way, the cache *is* the server's table. |
| `ZoneChannelsProofs!RetriesNeverStop` | `WishInv`, on top of `CacheInv` and `PlaceInv`, in the runs that are `Calm`. That Calm, once lost, does not return follows from the budgets, which is why `RetryInv` bounds them. Its parts: requests that travel are for the present zone (`OnlyZone`); what the client knows and is told of that zone's channel is so (`Told`); the initial join comes before any other zone (`JoinFirst`); no channel is confirmed or echoed while the client is in the root (`Entered`); a creation pending for another zone is for the channel the client has not left yet, with nothing of it on the way (`Outdated`); one pending for the present zone is under way, answered, or its channel known (`Asked`). With both queues empty only the last case of `Asked` is left, and then the tick joins. |
| `TrustFlowProofs!CertificatesStay`, `CancellationHolds`, `SilentConnectionsArePinned` | one flow invariant: generations below `nextGen` are unique, a result of generation g comes from the host g was started for, the copied pin is the remembered one or has been superseded by that host's certificate, and a pending request without a wish implies a pending disconnect. |
| `TrustFlowProofs!ConnectionsAnchored` | the same as long as the history variable `edited` is false: the shown server is the probed one until the connection is opened. |
| `KeyingProofs!PassesAreExact` | `IInv`: within a pass the datarefs before `pos` are in force (`ReadInv`), and no dataref is listed twice; reading the seat first makes the later ones of that seat take effect; outside the plugin nothing is claimed. |
| `AudioProofs!ChannelsStayAligned`, `HeardInOrder`, `QueuesBounded`, `MixerImplementsFifo` | `MixerInv`: a queue is exactly the last Len samples that arrived, a whole number of device frames, none of them heard. Arithmetic of whole frames is in lemmas of its own. Each push maps to `Deliver`, each callback to `Take`. |
| `AudioProofs!EachInputOnce`, `LinkImplementsPatchbay` | `LinkInv`: a wire's input is among `linkedInputs`, no two wires share one, and before the start there is none. `attempt_link` takes up inputs outside `linkedInputs` only, so that each round maps to one `Plug`; a source that vanishes to `Unplug`, the timer to `Close`. |
| `AudioProofs!EarlyChannelsAgree` | `EarlyInv`: as long as no source appeared after the start, the ports of the source come in the order of their channels, all of them before the capture's own, so that the first attempt finds them complete. `Places` and `PlacesInOrder`: sorting by channel then leaves each output in the place of its channel, which is what an input of that channel takes. |
| `CapturePipelineProofs!CaptureImplementsStream` | `IInv`, over the frames in ring and queue taken as one sequence, `Line`. `OrderInv`: the samples of the line, the buffers and the raw channel follow each other. `AccountInv`: these and `lost` are all the samples made, and none is in both. Order alone allows holes and the account alone disorder; together, what lies between two neighbouring frames is lost (`NoHole`), which is what `Hear` demands. `ListenerInv`: a listener that never lagged has last heard the frame before its cursor, and is within the ring. `EndInv`: who has ended has left nothing behind, so that at `Close` the rest is shorter than a frame and the denoiser's frame together (`ClosedCloses`, by counting). |
| `ProcessAudioProofs!DevicesRouted` | `LockInv`: who has chosen its device holds the lock, and the variable is what it asked for. |
| `ProcessAudioProofs!SinkKept` | `SinkInv`: what is cached, seen or announced exists (`KnownInv`), and of all connections' threads one at most may still create, for the pending call and with no sink in the graph (`OneCreator`). |
| `DeviceSelectionProofs!SelectionsHold` (`SelectionStaysListed` and `SelectionStaysChosen`), `ChoicesAreRestored` | selections are members of the current list; outputs have "never filled" apart from "empty", which makes their part inductive; inputs have not, so that the premise of the property enters the invariant (`InputInv`: no list was ever empty). `RestoreInv` follows the choice from `config.toml` through the configured names to the selection and back, as long as no write has failed. |
| `StackLifecycleProofs!OnlyOneCrew` | a stack that has not returned and a client that lives belong to the current connection; the runtime of a connection is gone before the next can start. |
| `StackLifecycleProofs!StatusStaysLive` | `SlotInv`: slot and client agree until the client is cancelled or ends by an error, and the clients of the current connection are not cancelled, as its number is new (`Fresh`). |
| `StackLifecycleProofs!ReleasedForGood` | `EndInv`: the flag is raised for the current connection only, whose number is never used again; so once a connection that was told to end has let go of everything, no step brings anything of it back. This is the stable half of `Released`; that it lets go is liveness. |
| `TypeCorrect` of all modules, `LinkTypeCorrect` for LoopbackLink | type correctness, the base of the others. |

Model-checked only: the liveness properties (`ZoneFollowed`, `TargetJoined`,
`ProbeEnds`, `AirFollows`, `Drains`, `EveryoneTold`, `ComesUp`, `Heard`, `Released`,
`ListsFollow`, `AllOnline`), since the prover deals neither with fairness nor with
ENABLED. Every invariant and every box-action property of a passing run is a theorem.
What a recursive definition computes for every input is out of the prover's reach
as well; the modules use none.

## Not modelled

* *Spatial gains* (`spatial.rs`) and volumes: stateless arithmetic on `f32`, whose
  cases the file's unit tests cover; TLC has integers only, and no order of steps
  matters. Doors and positions of CockpitState feed nothing else.
* *Inside libraries*: Opus, OpenSSL, CPAL, RNNoise, Dear ImGui, and the Mumble
  cryptography with its window of nonces (a hazard without property: when too many
  datagrams are lost, only the library's state tells what happens).
* *Files half written*: a write of `config.toml` that fails or is cut short
  (`config.rs:90`) leaves the old file or one that loads as the default configuration,
  in one step; a file that was cut at the end of a line and keeps the fields before it
  is left out.
* *Two programs at once* in the PipeWire graph under one node name
  (`audio.rs:704`): the code does not tell them apart, and no property of the own
  capture holds.
* *A device that goes silent* without an error: nothing is promised for it.
* Command line, secret store, logger, version, window and widgets: calls to the
  operating system or drawing, without state of their own. Of the test inputs the
  frames are modelled, the pacing and the monitor's mixing are not. Pings keep a
  connection alive and change no modelled state.

## Plan

Order of work, most important behaviour first; what is not marked open is done.

1. `ZoneChannels` with its server: cache, zone, retries. Proofs of types,
   coherence, the confirmed zone and the retries that do not cease.
2. `TrustFlow`: late probes, pins, cancelling. Proofs of all safety properties.
3. `Keying`: datarefs to packets, over the plugin and the bridge with its
   discovery. Proof of exactness.
4. `SourceFifo`, `PlaybackMixer`: refinement, with proof.
5. `Patchbay`, `LoopbackLink`: discovery and linking. Refinement and channel matching,
   with proof.
6. `DeviceSelection`: lists, pickers, configuration. Proofs of all invariants.
7. `StackLifecycle`: start, failure, stop. Proofs of one crew, of the status and of
   what stays released.
8. `LossyStream`, `CapturePipeline`: framing, queues, ring. Refinement, with proof.
9. `ProcessAudio`: the lock around `PIPEWIRE_NODE`, the sink's cache, time-out and
   late creation. Proofs of both safety properties.
10. Open: abstract specifications for TrustFlow (a user who confirms certificates) and
    StackLifecycle (a connection with an owner), to state their promises in one formula.
11. Open: `Persistence`, `config.toml` and `known_hosts.toml` written piece by piece
    with a crash between two, once the code says what it recovers to.
