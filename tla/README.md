# Melaffeine in TLA+

Melaffeine is a macOS menu-bar application that keeps a Mac awake: indefinitely or
for a fixed time, with or without the display, and, in *lid-closed mode*, with the
lid shut. This directory models the parts of it whose correctness depends on the
order of events: processes that outlive the application, timers, a worker thread
that depends on the main thread, a socket file several instances compete for.
`TLC` checks the models on small instances, `TLAPS` proves the safety properties for
every value of the constants.

    tlc -config MCLidGuardian.cfg MCLidGuardian.tla     # a run
    tlapm LidGuardianProofs.tla                         # the proofs of a module

All paths below are under `src/crates/`.

## 1. Inventory

| Component | Source | State it keeps | Operations | Model |
|---|---|---|---|---|
| Guardian of lid-closed mode | `app/src/lid.rs` | the guardian process and its stdin pipe (`LidSession`); the system setting `pmset disablesleep` | `start`, `stop`, `Drop`, `authorize`, `reset_if_stale`, the guardian's shell script | `LidGuardian`, `LidCaller`, `LidMode` |
| Collection of its diagnostics | `app/src/lid.rs` | stderr pipe, cancellation pipe, retained prefix | `drain_diagnostics`, `DiagnosticDrain::join`, `finish` | `DiagnosticsDrain` |
| Sessions | `app/src/app_delegate.rs`, `power.rs`, `environment.rs` | `PowerController.session`, expiry and thermal timers, `AppState.lid` | button, IPC commands, timers, Quit, teardown, launch | `AppSession`, `KeepAwake` |
| Popover controls | `app/src/ui.rs` | mode radios, *No time limit*, duration field, what is enabled | user input, `update_ui` | `AppSession` |
| Popover opening/closing, countdown timer, outside-click monitor | `app/src/app_delegate.rs` | `countdown_timer`, `outside_click_monitor`, `popover.isShown`, `error_message` | open, close, clicks, 1 s timer | `Popover` |
| IPC server | `app/src/ipc_server.rs` | stop flag, active-connection slot, listener backlog | accept, read frame, dispatch, respond, `stop` | `IpcServer`, `CommandQueue` |
| Socket file and instance lock | `app/src/ipc_server.rs`, `main.rs`, `app-core/src/ipc.rs` | the file at the socket's path, its device and inode, an advisory lock | lock, bind, probe, reclaim, remove | `SocketOwnership` |
| IPC protocol | `app-core/src/ipc.rs` | none | parse, serialize, framing | `Protocol`; framing in `CommandLine` |
| Durations | `app-core/src/duration.rs` | none | parse, format | `Protocol`; parsed or not in `AppSession` |
| Command-line client | `cli/src/main.rs` | none | parse, connect, send, wait 5 s, report | `CommandLine` |
| Runtime directory | `app-core/src/ipc.rs` | permissions of a directory | create, verify | not modelled |
| IOKit assertions | `app/src/iokit.rs` | an assertion id | acquire, release | succeeds or fails, in `AppSession` |
| Conflict notice | `app/src/conflicts.rs` | none (read-only query) | | not modelled |

**How they interact.** Everything in `AppDelegate` runs on the main thread, one
handler at a time. The IPC worker hands each command to the main thread and waits
for the answer (`MainThreadBound::get_on_main`). A handler that starts or ends
lid-closed mode blocks the main thread until a guardian process has spoken or
exited; in the meantime a diagnostics thread drains the guardian's stderr. Several
guardians, of this and of crashed instances, write one system-wide setting. The
instance lock and the socket file are shared with other instances.

**What is hard, and what makes each part correct.**

- *Guardians.* A crash at any step must leave somebody who restores sleep; a late
  reset must not undo a later session; every blocking wait must return; a stop must
  not report a success it did not have; no process may be lost or left a zombie.
- *Diagnostics.* The main thread waits for the guardian, the guardian may be waiting
  for room in its stderr pipe, a descendant may hold that pipe open for ever.
- *Sessions.* Six handlers end a session, each by hand. Timers and lid session must
  follow the session through all orders of commands, failures, heat and time;
  lid-closed mode must never be without a time limit; answers must be true.
- *Popover.* Closing takes time and is not always asked for; meanwhile commands and
  timers refresh the popover. No timer and no monitor may outlive it, and an open
  popover must keep counting down when a command replaces the session under it.
- *Command line.* What a user types is parsed, sent as text, read in pieces, parsed
  again and run, perhaps after the user has given up and typed something else. What
  runs must be what was typed, in that order; what is reported must be so, and must
  not become false later.
- *IPC server.* Stop must wake a worker that may be blocked in `accept`, in `read`
  or on the main thread, without joining it, and miss no connection that is just
  being accepted. One silent client must not starve the others.
- *Socket file.* An instance too busy to answer must not be taken for dead; a socket
  left by a crash must be reclaimed.

The list of hazards, with the line where each bites and the properties that cover
it, is in `PROJECT.json`.

## 2. The modules

Each component module holds its state, one action per operation, the
specification and its properties. `MC<module>.tla` instantiates it for TLC;
`<module>Proofs.tla` holds the theorems. Operators whose comment starts with
*Mutant:* are used by no specification: each is a plausible bug in the action that
follows it, kept to show that the property it is meant for would notice.

### LidGuardian: guardians and the main thread

The guardian is the shell script `pmset 1 || exit 1; printf ready; read; exec pmset 0`
of `lid.rs:151`. `phase[g]` is where each guardian is in it: `enabling`, `waiting`
(in `read`), `resetting`, exited with or without success, or `free` (no process).
`pipes` are the guardians whose stdin the application still holds, `orphans` those
that outlived their instance. `app` is the step of the main thread, `call` the
guardian of the `LidSession` it is starting or stopping, `lid` is `AppState.lid`.

| Action | Code |
|---|---|
| `Launch`, `RecoverQuery`, `RecoverReset` | `main`; `reset_if_stale`, query and reset apart |
| `StartLid`, `SpawnFails`, `Install`, `PowerFails`, `StartRejected` | `try_start_stop` around `LidSession::start_with`, with its acknowledgment or its error paths |
| `Authorize`, `AuthorizeFails` | `authorize` (rule installed, then verified by a reset) and the second attempt |
| `StopLid`, `Reap` | `LidSession::stop`: close stdin, `wait` |
| `Terminate` | the end of the instance at any step; the kernel closes its pipes |
| `Enable`, `EnableFails`, `ReadEof`, `Reset`, `ResetFails` | the lines of the script |

### LidMode and LidCaller: what a lid session promises

`LidMode` is what the rest of the application may take a lid session for: the setting
as it is when a call returns, with no process, pipe or wait. A start suppresses sleep
or leaves no trace, unless it says that the reset failed; a stop restores sleep or says
so; a crash leaves a reset behind that falls when it will (`late`).

`LidCaller` is `LidGuardian` with one history variable, `view`: what a caller saw when
its last call returned. While the main thread is blocked in a call (`InCall`), `view`
does not move; it restricts no step (`CallerSteps` is proved, and every property of
`LidGuardian` is checked on it). `CallersServed` says that the view is a behaviour of
`LidMode`. `AppSession`, on the other side, keeps to the same `LidMode` (`LidPromiseKept`),
with `late <- FALSE`: it does not follow what a crashed instance left. What the two
models assume of each other is thus one module, and each is shown against it.

### AppSession and KeepAwake: sessions

`AppSession` is the state machine of `app_delegate.rs`. Starting a session is cut
into steps, one per call that blocks or reads the clock (`pc`, `job`); every other
handler is one step. Time is `left`, what the wall clock leaves of the session. Lid
sessions are seen from the caller: start and stop take effect or fail, as `LidMode`
says and `LidGuardian` does. `held` is a lid session `try_start_stop` has in a
local variable and has not installed yet.

`KeepAwake` is the abstract specification: what the README of the application
promises about a session, with no timer and no handler. `AppSession` implements it
under the mapping `Promise` (`kind <- power`, `limited <- Active /\ Finite`,
`lidMode <- lid`): safety by proof, with fairness by TLC (`SessionsEnd`).

| Action | Code |
|---|---|
| `ClickStart`, `ToggleStart`, `StartCommand` | the button, `TOGGLE`, `START` |
| `StartLid`, `StartLidFails`, `Authorize` | the lid branch of `try_start_stop` |
| `EndPrevious`, `Acquire`, `AcquireFails`, `Schedule` | `start_session`, `PowerController::start`, `schedule_expiry_timer` |
| `Install`, `Rollback` | `install_lid_session`, the error path of `try_start_stop` |
| `Stop`, `ExpiryFires`, `ThermalFires`, `QuitCommand`, `QuitMenu`, `Teardown`, `Relaunch` | the handlers of these names |
| `SelectMode`, `ToggleNoLimit`, `EnterDuration` | the popover's inputs, enabled as last shown |
| `Tick`, `HeatChanges` | the clock, the thermal state |

### Popover: the popover on top of AppSession

`Popover` extends `AppSession`: each of its session steps is one of `AppSession`'s
with what the same handler does to the popover (`Refreshed` where it calls
`update_ui`, `Invalidated` where it calls `invalidate_timers`, both in the code's
order otherwise), and the steps of the popover alone leave the session as it is.
`popover = "closing"` is the time between `performClose` and `popoverDidClose`, in
which `isShown` stays true. `countdown` and `monitor` are what the application holds,
`timers` and `monitors` count what the run loop and AppKit still call: that they
agree is a property, not an assumption. `message` is the error label.

| Action | Code |
|---|---|
| `ClickStartShown`, `ToggleStarts`, `StartArrives`, `LidStarts`, `PreviousEnds`, `Acquires`, `AcquireRefused`, `Schedules`, `Installs`, `RollsBack`, `SessionStops`, `ExpiryTimer`, `HeatCutsLid`, `TearsDown`, `Relaunches`, `ControlsChange` | the handlers above, with `show_error`, `clear_error`, `start_countdown_timer_if_needed`, `stop_countdown_timer` |
| `OpenPopover`, `ClickToClose` | `status_item_clicked`, `toggle_popover_relative_to` |
| `ClosePopover` in `ClickToClose`, `ResignActive`, `ClickOutside` | `close_popover` and its three callers |
| `CloseNatively`, `DidClose` | AppKit closes a transient popover (external); `popover_did_close` |
| `CountdownFires` | the repeating timer, which calls `update_ui` |

### IpcServer: worker, main thread, clients

`worker` follows `accept_connections` and `serve_connection_with` step by step,
`main` follows `IpcServer::stop`. A client is one connection with one command: it
connects, sends something that parses or does not, or nothing, and may give up at
any time. A response may be lost (`Reply`): a failed write is only logged. `backlog` is the listener's queue, in which the wake-up connection of
`stop` takes its place; `slot` is the active-connection slot.

| Action | Code |
|---|---|
| `CheckStopping`, `Accept`, `AcceptFails`, `CheckAccepted`, `Register`, `RegisterFails`, `Serve`, `Clear`, `Drop` | `accept_connections`, one action per access to shared state |
| `ReadFrame`, `ReadEnds`, `ReadTimesOut`, `Dispatch`, `Execute`, `Respond` | `read_frame`, `serve_connection_with`, the handler on the main thread |
| `StopPublish`, `StopCancel`, `StopWake`, `StopUnlink` | `IpcServer::stop` |
| `ProcessEnds` | the end of the process, after teardown or by a crash |
| `Connect`, `Send`, `GiveUp` | `send_command`, or any other program |

`CommandQueue` is what the server promises: connections are served one at a time in
the order they were made, each command is run at most once and never after it was
refused, an answer follows the run. `IpcServer` implements it under the mapping
`Queue` (`line <- backlog`, `current <- conn`, `seen <- client`).

### Protocol and CommandLine: from what is typed to what is reported

`Protocol` has no state: durations (`ParseDuration`, `ParseSpec`, `Compact`) and
commands (`Serialize`, `Parse`) as operators. A word is a keyword or a number with a
suffix and stands for every way to write it; `Word` is the largest `u64`, and numbers
go beyond it so that what overflows can be told.

`CommandLine` is one invocation per client, from the typed line to the exit code, over
`CommandQueue` as the server: every step on a connection is one of the queue's, with
the words, byte counts and replies that go with it. A client may instead be any other
program, with any message. `earlier`, `refused` and `ran` are history.

| Action | Code |
|---|---|
| `Invoke` | `run_cli` up to the connection: refused by the parser, no socket, or connected |
| `WriteLine`, `ReadReply`, `LoseConnection`, `TimeOut` | `send_command`, `format_ipc_error`, `write_output` |
| `Intrude`, `HangUp` | another program at the socket (external) |
| `Accepts`, `ReadChunk`, `ReadExpires`, `ParseFrame`, `Responds`, `Closes` | `accept_connections`, `read_frame_with`, `serve_connection_with` |
| `Executes` | `execute_ipc_command`: which command, and what it may reply |
| `Stops` | `IpcServer::stop`, or the end of the process |

### DiagnosticsDrain: finish and the drain thread

`main` is `LidSession::finish`, `worker` is `drain_diagnostics`, `pipe` counts the
bytes in the guardian's stderr, `retained` those the worker keeps. `descendant` is
any other process that holds the write end. `mark` remembers how much had been
written when the guardian last wrote.

| Action | Code |
|---|---|
| `Finish`, `Join`, `WaitFails`, `Return` | `finish`: drop stdin; `wait` returns, or fails, and the cancellation pipe is dropped; the thread is joined |
| `Poll`, `ReadBytes`, `ReadNothing`, `DrainFails` | `drain_diagnostics`, `diagnostic_read_result` |
| `Say`, `Write`, `GuardianExits`, `DescendantWrites`, `DescendantCloses` | the processes at the other end (external) |

### SocketOwnership: lock and socket file

`path` is what lies at the socket's path: a socket, named by the instance that
bound it, an object the code must not touch (`Foreign`), or a socket of another
program (`Listener`). `step[p]` follows one instance through the lock of `main`,
`bind_listener_with` and `remove_socket_if_owned`, one action per system call;
`identity[p]` is the device and inode it compares before it removes the file.

| Action | Code |
|---|---|
| `Launch`, `TryLock`, `Exit` | `main`, and its end at any step |
| `Bind`, `Inspect`, `Probe`, `Remove`, `Rebind`, `Identify`, `Secure` | `bind_listener_with` |
| `Stop`, `Unlink` | `remove_socket_if_owned`: comparison and removal apart |
| `Meddle` | another program removes the file or puts one there (external) |

## 3. The runs

| Run | Instance | Shows |
|---|---|---|
| `guardian` | 3 guardians, with `LidCaller` and fairness | `SuppressionOwned`, `EveryGuardianHeld`, `OwnResetsNeverOvertake`, `StopRestores`, `CallsReturn`, `CrashRestores`, `CallersServed` (implements `LidMode`) |
| `guardian_relaunch` | 2 guardians, with `LidCaller` | **violation** of `InstalledAfterPreviousReset` (finding 1) |
| `session` | durations up to 2 ticks, with the popover | `TimersMatch`, `LidIsBounded`, `LidHasEffect`, `NoLostSuppression`, `UiFresh`, `NoUnlimitedLid`, `NothingLeftBehind`, `CountdownFollows`, `AnswerTruthful`, `NoSilentLoss`, `NoticeRetained`, `LidPromiseKept` (implements `LidMode`) |
| `session_live` | same, without the popover, with fairness | `LidEnds`, `SessionsEnd` (KeepAwake with its fairness), `QuitCompletes` |
| `session_heat` | same, the thermal timer's fairness alone | `HeatEndsLid` |
| `session_jump` | same, the clock may pass inside a start | **violation** of `LidIsBounded` (finding 2) |
| `ipc` | 3 clients | `CancelMissesNobody`, `NothingLate`, `OutcomeHonest`, `QueueKept` (implements `CommandQueue`) |
| `ipc_live` | 2 clients, with fairness | `StopReturns`, `StopEndsWorker`, `EveryClientServed` |
| `drain` | pipe 2, read 1, limit 3, 5 bytes in all | `DiagnosticsComplete`, `GuardianIsHeard`, `FinishReturns` |
| `socket` | 3 instances | `ServerReachable`, `StaleReclaimed` |
| `commands` | 2 connections, 12 command lines, 4 messages | `RunsAsAsked`, `ExitTruthful` |
| `commands_reply` | same | **violation** of `ReplyIsWhole` (finding 3) |

`guardian`, `session` and `ipc` check the `TypeOK` of their module too; that of
`DiagnosticsDrain` and of `SocketOwnership` is proved, and the types of `Popover` and
`CommandLine` are parts of their proofs. Each property's comment, in the
module, says what it means and which code it is about.

**Bounds, and why they suffice.**

- *Guardians = 3.* One instance holds at most one guardian at a time
  (`EveryGuardianHeld`); three allow two orphans of crashed instances beside the
  current session. Identities are reused, so the number of sessions over time is not
  bounded. When all three are in use, no session starts until one is gone.
- *MaxDuration = 2 ticks.* The code compares what is left only with zero; two ticks
  tell a timer that fires early from one that fires on time. A tick is any amount of
  time up to one minute, the shortest session the popover accepts.
- *Clients = 3* for safety: one being served, one in the backlog, one still to come;
  each makes one connection. Two suffice for liveness: one that is silent, one that
  waits behind it. Clients are interchangeable, hence the symmetry (safety only).
- *Capacity 2, Chunk 1, Limit 3, MaxBytes 5* keep the order of the code's sizes:
  a read takes less than the pipe holds and the total exceeds both the pipe and the
  limit. (In the code `Chunk = Limit = 4096`; the proofs hold for all sizes.)
- *Two connections* in `commands`: a user who gives up and types again, or a user and
  another program. Each command line lies at a boundary: zero, 365 days and one more
  in several units, a product and a number beyond `Word`, no suffix, no number, no
  duration. `Word` is 40,000,000 there, above the 31,536,000 seconds of 365 days, so
  that 1000 days overflow the product and 40,000,001 the number.
- *MaxFrame 3, Chunk 2, LineSize 3*: a line that just fits, in reads that split it; the
  messages have their newline inside the limit, just past it, or nowhere. Replies of
  `ReplySizes` 3 and 4 are at the limit and past it; `Samples` lie where minutes carry
  into hours and hours into days.
- *Instances = 3*: one that serves, one that has crashed, one that arrives.

`CHECK_DEADLOCK FALSE` in the `ipc`, `drain` and `commands` runs: these models end, with
the process gone, with `finish` returned and nobody left to write, or with every
invocation ended.

**Fairness.** Only what the code's scheduling or the kernel gives.

- Processes and threads that can run do run (guardian steps, worker steps, the drain
  thread, the steps of `stop` and of a start under way): weak fairness.
- `LidGuardian`: the main thread returns from `read_line` and `wait` once the guardian
  has spoken or exited. The user, the authorization dialog and the end of the
  instance owe nothing.
- `AppSession`: `Tick`, `ExpiryFires` and `ThermalFires` are weakly fair, as timers of
  the run loop. The timer that completes `QUIT` is strongly fair: commands may keep
  arriving, but every turn of the run loop serves the timers that are due. The
  dialog in `Authorize` is not fair, so `QuitCompletes` says `\/ pc = "authorize"`.
  `ThermalSpec` has fairness for the thermal timer alone, so that `HeatEndsLid` is not
  a consequence of the session's end.
- `IpcServer`: a read ends with its budget (`ReadTimesOut`), and `Accept` is strongly
  fair: errors of `accept` do not last for ever. No client owes anything.
- `DiagnosticsDrain`: the guardian writes what it has to say and exits, unless it is
  blocked. The descendant owes nothing.

**What `NoSilentLoss` exempts.** Lid-closed mode is given up when the session, the start
that holds it or the start that asks for it is gone. With sleep still suppressed, that
is answered or shown; what ends the application at that moment is teardown only, whose
failed reset is only logged: by the system, or by the timer of an acknowledged `QUIT`, if a
lid session was begun between the acknowledgment and the timer. A second Quit, after
one that failed, finds no lid session, is not a step that gives one up, and ends the
application with the setting as the failed reset left it, which the user has been told;
the next launch recovers it.

**Findings.**

1. *A session can be installed before a previous guardian has reset*
   (`app_delegate.rs:548` says otherwise). It needs a crash: the orphan of the crashed
   instance is still to reset when the relaunched instance starts a lid session, and
   then lifts its suppression. `OwnResetsNeverOvertake` shows that nothing but such
   an orphan can, and `InstalledAfterOwnResets` proves that, orphans excepted, the
   comment is right for any number of guardians.
2. *A lid session without a session.* `start_session` reads the clock for the end of
   the session and again for its timer. If the end has passed in between (the clock
   is set forward, or the machine sleeps between the two), the second read stops the
   session and success is reported all the same; `try_start_stop` then installs the
   lid session, which nothing bounds in time. With `JumpInStart = FALSE`, the clock
   moving everywhere except between these two reads, `LidIsBounded` holds and is proved.

3. *A reply that is not one line.* `send_command` reads one line of at most 4096 bytes
   (`ipc.rs:283`, "parses the single-line response"), but an error carries the stderr of
   `pmset` with its inner newlines, and up to 4096 bytes of it. The client then shows
   the first line only, or "Unexpected response"; the advice at the end of the message,
   how to restore sleep by hand (`app_delegate.rs:43`), is lost.

## 4. The proofs

Each proof module defines an inductive invariant `IInv` as a conjunction of named
parts and proves `Init => IInv`, `IInv /\ [Next]_vars => IInv'` with one step per
action, and from these, by temporal logic, each property.

| Module | Theorems | Parts of `IInv` beside the types |
|---|---|---|
| `LidGuardianProofs` | `Typing`, `Owned`, `Held`, `NeverOvertaken`, `StopKeepsPromise`, `Serves`, `NobodyWaitsInVain`, `InstalledAfterOwnResets` | who may hold a guardian's pipe in which phase, which guardian is in `call`, and that a waiting guardian that is no orphan is `lid` or `call` |
| `AppSessionProofs` | `Typing`, `Bounded`, `TimersFollow`, `Effective`, `NothingLost`, `PopoverFollows`, `NeverUnlimited`, `ReportsTrue`, `KeepsPromise`, `LidPromiseHolds`, `NoOutcomeLeftOut`, `BranchesDead`, `EndsClean`, `StartsReturn` | what holds at each step of a start: `held` only where `try_start_stop` holds one, no session between `EndPrevious` and `Acquire`, and so on |
| `PopoverProofs` | `Sessions`, `PopoverTyping`, `NothingLeft`, `CountdownRuns`, `NoticeKept`, `LossesReported` | `AppSession`'s own invariant, through `Sessions`; where a start or a stop under way leaves the countdown |
| `IpcServerProofs` | `Typing`, `CancelCatches`, `DispatchStops`, `Honest`, `Queues`, `WakeupArrives`, `NoClientLost`, `WorkerWindsDown` | the slot holds the connection from registration to clearing; the flag is up in every step of `stop` and after; where each client can be; a command is executed once |
| `ProtocolProofs` | `DurationsExact`, `CompactCovers`, `CountdownNeverRises`, `RoundTrip` | (no state) |
| `CommandLineProofs` | `Obeys`, `Truthful`, `Queues`, `ParseTyping` | where each connection is (`Placed`, `Turn`), what it carries and what the server found in it (`Carried`), what is known of an invocation that has reported (`Reported`), and that an earlier invocation is ahead in the queue (`Ordered`) |
| `DiagnosticsDrainProofs` | `Typing`, `Complete`, `Heard`, `NoBusyLoop`, `FinishNeverStuck`, `Converges` | `retained` is all that was taken up to the limit; `mark` never exceeds what was written; cancellation comes after the guardian's end |
| `SocketOwnershipProofs` | `Typing`, `Reachable`, `Reclaimed`, `HolderAlone` | whoever is past the lock holds it; a name is not at the path before its instance binds; what is at the path at each step of the holder |

The strengthening is needed because the properties speak of one moment and are
kept by what happened earlier: `CancelMissesNobody`, for example, holds because the
slot already holds the connection when the flag is read again, which only `SlotInv`
says. `Obeys` needs both the order of the queue and the data: `Ordered` says that what
ended earlier is ahead, and `RoundTrip` with `DurationsExact` that the two parsers and
the text between them are together the identity on what was typed.

**How the modules fit together** is proved as well, at three places:

- `Sessions` (`PopoverSpec => Spec`): every theorem about `AppSession` holds of `Popover`.
- *At `LidMode`.* `Serves`: `LidGuardian`, seen through the returns of its calls,
  implements it. The argument is the invariant `ViewInv`: outside a call the view is
  the current state; inside one it may differ only in what the guardian of that call
  does, unless an orphan is about, and then `Disturbed` allows it. `LidPromiseHolds`:
  `AppSession` takes a lid session for nothing more. `NoOutcomeLeftOut`: nor for less:
  wherever `AppSession` starts or stops one, each outcome `LidMode` allows is one of its
  steps. `LidGuardian` starts a session only when there is none; `BranchesDead` shows
  that `AppSession` asks for no more.
- *At `CommandQueue`.* `Queues` of `IpcServerProofs`: the server with its thread, slot and
  stop flag implements it; `Queues` of `CommandLineProofs`: every behaviour of
  `CommandLine` is one of its behaviours, so that what a user is told rests on nothing
  the server does not give.

**The safety part of liveness.** Fairness and `ENABLED` are out of this prover's reach,
so that every property under fairness is only model-checked. Their cores are proved
for every value of the constants, as invariants and as measures that fall:

| Checked with fairness | Proved |
|---|---|
| `CallsReturn`, `CrashRestores` | `NobodyWaitsInVain`: the guardian that `finish` waits for, and each one left by a crash, has had its pipe closed |
| `StopEndsWorker` | `WakeupArrives`: the wake-up is there for whoever needs it; `WorkerWindsDown`: after `stop`, each step of the worker lowers `Remaining` |
| `EveryClientServed` | `NoClientLost`: whoever waits is in the queue or being served, while the listener lives |
| `FinishReturns` | `FinishNeverStuck`: one of the processes can always move; `Converges`: each step lowers `Variant`; `NoBusyLoop` |
| `LidEnds`, `SessionsEnd`, `HeatEndsLid` | `TimersFollow`: the timer that ends it is running |
| `QuitCompletes` | `StartsReturn`: each step of a start lowers `Ahead`; `EndsClean`: what a command started while the quit was pending does not outlive it |

`StopReturns` is only model-checked, and so is the step from these to "eventually"
everywhere.

**Assumptions**: those named in the modules, on the constants (`None` is not a guardian;
sizes are positive; names differ). The theorems of `AppSessionProofs` about `Spec`,
`Typing` and `StartsReturn` apart, state the hypothesis `~JumpInStart`, and those of `PopoverProofs` that
rest on them: finding 2 is what happens without it. `Sessions`, `NoticeKept` and
`LossesReported` need no such hypothesis: the last two hold of each step by itself.
`Complete` and `Heard` except a `finish` whose `wait` has failed, as their properties say.

## 5. What the models assume, and what they leave out

- No one kills a guardian (`lid.rs:246` demands it), a `pmset` or `sudo` that fails has
  had no effect, and no other program writes the setting.
- `wait` on a guardian succeeds in `LidGuardian`. That it fails is in `DiagnosticsDrain`
  only (`WaitFails`), and in `AppSession` as a stop that fails, be it with sleep restored
  (`Release`): `finish` also fails when only the diagnostics are lost.
- The wall clock does not go back. Session lengths are whole ticks.
- Handlers do not nest, so the branches for a `RefCell` found busy
  (`SessionError::StateUnavailable`) are left out. So are the branches that
  `BranchesDead` proves unreachable: `check_thermal_state` without a lid session, and
  `install_lid_session` or a start of a guardian with a previous one still there.
  That holds with `~JumpInStart`; after finding 2 a second guardian can be started
  beside the first, and what becomes of the two is not modelled.
- `IpcServer` lets the main thread serve the worker again after `stop` has returned,
  which the application does only until it has terminated.
- `DiagnosticsDrain` bounds what is ever written (`MaxBytes`): a descendant that writes
  without pause for ever, and so keeps the drain reading, is excluded.
- `SocketOwnership`: device and inode are reused only once the socket is gone. Where
  another program has touched the path (`meddled`), nothing is claimed.
- `Popover`: showing succeeds, `performClose` closes in the end, and `isShown` stays true
  until `popoverDidClose`. A `START` that fails in `start_session` may or may not have
  shown its message. The context menu is `QuitMenu`; that a status-item click
  moves the focus is left out.
- `CommandLine`: a connection is made or refused at once (a full backlog counts as
  refused); a line of the client fits a frame (`LineSize <= MaxFrame`, true of every
  command) and 365 days fit a number (`MaxFinite < Word`). What the application replies
  is one of the replies possible for the command, whatever its state: that state is
  `AppSession`'s.
- Wording is not modelled (errors, titles, the end time in the countdown), nor are
  white space and upper case in commands,
  the `osascript` and `sudoers` texts, permissions of the runtime directory, the
  notice about other programs, and packaging.

## 6. Plan

Done, in the order of what can leave a machine awake in a bag: `LidGuardian`,
`AppSession` with `KeepAwake`, `IpcServer` with `CommandQueue`, `DiagnosticsDrain`,
`SocketOwnership`, `Popover`, `Protocol` and `CommandLine`, each with its proofs, and
`LidMode`, in which the first two meet.

What would be next:

1. A composition of `CommandLine` and `AppSession` at the dispatch: `QUIT`, its answer,
   teardown and the end of the process, with replies that are those of the session.
2. Two guardians of one instance, which finding 2 makes possible: what then becomes of
   `Serves`.
3. The parsing of responses (`IpcResponse::parse`) word by word.
