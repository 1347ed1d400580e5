# TLA+ models of the macOS SDK headers in this repository

The repository is a bundle of vendor headers (`src/Frameworks/...`). They
contain no function bodies. Their behaviour is stated in two places: the
declarations (types, array bounds, bit values, routine tables) and the
documentation comments beside them, which say what each call does.
Every module here translates one of those two sources, line by line, and
PROJECT.json maps each definition to the header lines it stands for.

## Inventory

| Component | Source | State | Operations | Interactions and hard parts |
|---|---|---|---|---|
| NSWindow sheets | `NSWindow.h` 578-602 | per window: presented sheets (a stack), queued sheets (a FIFO); per sheet: `sheetParent`, pending completion handler | `beginSheet:completionHandler:`, `beginCriticalSheet:completionHandler:`, `endSheet:(returnCode:)`; derived `sheets`, `attachedSheet`, `isSheet` | several windows and sheets interleave; critical sheets pre-empt the queue; completion handlers are callbacks |
| NSWindow full screen | `NSWindow.h` 62, 115-127, 546-548, 846-880, 924-927, 972-975 | window phase (normal, entering, full screen, exiting), `NSWindowStyleMaskFullScreen` bit, collection behavior | `toggleFullScreen:`, will/did enter/exit notifications, `windowDidFailToEnter/ExitFullScreen:`, custom animation callbacks | asynchronous transition; a toggle can race a running transition; failure must roll back |
| NSWindow key/main | `NSWindow.h` 434-463, 908-911, 937-945 | the application's key window and main window | `makeKeyWindow`, `makeMainWindow`, `become/resignKeyWindow`, `become/resignMainWindow`, notifications | two windows competing; resign/become must pair up |
| NSWindow option sets | `NSWindow.h` 37-150 | none (pure) | caller rules for a style mask and collection behavior | not modelled: no code checks the bits (see "Not modelled") |
| NSWindow window sharing | `NSWindow.h` 730-770, 894-900 | per request: kind, stage, completion calls and error; the capture and SharePlay sessions | `requestSharingOfWindow:`, `...UsingPreview:`, `transferWindowSharingToWindow:`, `windowForSharingRequestFromWindow:` | asynchronous completion handlers; sessions end while the user answers an alert |
| NSWindow tabbing | `NSWindow.h` 253-270, 684-728 | tab groups (ordered), the selected tab, tabbing mode and identifier, user preference | show, close, `addTabbedWindow:ordered:`, `moveTabToNewWindow:`, `mergeAllWindows:`, `selectNext/PreviousTab:` | windows move between groups; the selection must follow |
| DualSense adaptive trigger | `GCDualSenseAdaptiveTrigger.h` 12-157 | requested mode, the controller's mode, `status`, `armPosition` | `setModeOff`, `setModeFeedback...`, `setModeWeapon...`, `setModeVibration...`, `setModeSlopeFeedback...` | `mode` is updated only by the controller's reply (line 78), so reads are stale; status machine per mode |
| mach_exc MIG server | `mach_exc_server.h` 54-300 | faulting thread waiting for a reply; request/reply messages | `mach_exc_server`, `mach_exc_server_routine`, `catch_mach_exception_raise(_state)(_identity)` | request id dispatch through a six-slot table; array count bounds; the thread blocks until a reply |
| UDP statistics | `udp_var.h` 90-126 | `struct udpstat` counters (u_int32_t) | counting of input/output packets; sysctl names | sub-counter relations and 32-bit wrap |
| VM WIMG bits | `memory_types.h` 35-59 | none (pure) | `HAS_DEFAULT_CACHEABILITY` | masking of attribute values |
| GCKeyNames, wchar_t | `GCKeyNames.h`, `_wchar_t.h` | none | none | constants and a typedef: not modelled |

The components do not call each other: they are independent headers. Inside
each, the actors are the application, the window server / controller /
kernel behind the API, and the user.

Correctness, per component:

* Sheets: `sheets` and `sheetParent` agree; a critical sheet is never covered
  by an ordinary one; the queue never stalls behind an empty stack; queued
  sheets appear in FIFO order, one at a time; no completion handler runs
  twice; a presented sheet is never sent back to the queue; every queued
  sheet is presented once critical sheets stop arriving.
* Full screen: the style-mask bit matches the settled phase; the delegate's
  messages follow the documented order; a failure restores the previous
  phase.
* Key/main: every window's become/resign view equals NSApplication's key
  and main window.
* Trigger: once requests stop, `mode` settles to the last requested mode.
* MIG: every request is held in one place until answered; every suspended
  thread is resumed; the whole implements the one-answer-per-exception RPC
  of `ExceptionRPC`, in which the catch routine is called exactly for the
  requests the request structures declare valid, and a thread resumes with
  a handler-supplied `new_state` exactly when a state routine succeeded.
* UDP: the counts a reader derives by modular subtraction stay exact.
* Sharing: each completion handler runs at most once and eventually; a nil
  error means the share or transfer really happened.
* Tabbing: tab groups partition the shown windows, each with one selected
  tab.

## Modules

1. **NSWindowSheets**, with the abstract **SheetQueue** it refines: the
   component with the most documented behaviour.
2. **NSWindowFullScreen** and **NSWindowKeyMain**.
3. **DualSenseTrigger**: the request/reply handshake between the
   application and the controller, and the status machine of each mode.
4. **MachExcServer**, with the abstract **ExceptionRPC** it refines:
   request id dispatch and the request/reply exchange.
5. **UdpStat**: counters modulo 2^w. **WindowOptions** and **WimgBits**
   were dropped (see "Not modelled").
6. **WindowSharing** and **WindowTabbing**.

## Modules and runs

### NSWindowSheets (`NSWindowSheets.tla`, `MC_NSWindowSheets.tla`)

State: `presented[w]` (top-to-bottom, as the `sheets` property lists it),
`queued[w]`, `critical` (sheets begun with `beginCriticalSheet:`),
`sheetParent[s]`, and `owed[s]`, the begins of `s` whose handler has not
yet run. Actions: `beginSheet(w, s)`, `beginCriticalSheet(w, s)` and
`endSheet(w, s)`. Each models the whole documented call.

A sheet is a window too, so `w` ranges over `Parents`, the windows and the
sheets together: a sheet may present sheets of its own (the nested
sub-sheets that line 590 leaves out of its parent's `sheets`). A window is
never its own sheet. `endSheet` on a sheet leaves that sheet's own
sub-sheets attached to it, because line 599 ends a sheet's `sheetParent`
only when that sheet itself is ordered out. The header does not say that
ending a sheet cascades to its sub-sheets, so the model does not cascade.

* `beginSheet` presents the sheet if nothing is presented on `w`, and
  queues it otherwise (line 581).
* `beginCriticalSheet` pushes the sheet on top of the presented stack (582).
* `endSheet` removes the sheet and clears its `sheetParent` (599). It runs
  the handler. When no presented sheet is left, it shows the head of the
  queue (581).

The return code is not represented, because no property depends on it.

A queued sheet is shown only once *no* sheet is presented. This reading
follows line 581: "If the window already has a presented sheet, it will
queue up sheets".

`SheetQueue.tla` states the promise for ordinary sheets. Per window, at most
one is shown, and the others wait in FIFO order. `RefinesSheetQueue` checks
the detailed module against it. The refinement mapping takes the ordinary
shown sheet to be the bottom of the presented stack, when that sheet is not
critical. It takes the waiting queue to be `queued`.

Runs:

* `sheets` (`NSWindowSheets.cfg`): 2 windows, 3 sheets, no symmetry (the
  run checks liveness); 1,061 distinct states in a few seconds. Three
  sheets allow a critical sheet over an ordinary one with a third queued
  behind them, two queued sheets in FIFO order, and a chain window ->
  sheet -> sub-sheet with a queue on the middle sheet. The same properties
  also hold with 4 sheets (27,553 states, about 3 minutes), which is too
  slow to keep as the run. Checks `TypeOK` (which also bounds the
  handler debt `owed`, so a handler run twice shows), `SheetsMatchParent`,
  `CriticalStaysOnTop`, `QueueDrains`, `PresentedUntilEnded`,
  `RefinesSheetQueue` and `QueuedPresentedOnceCriticalsStop`.

  Fairness is weak fairness of `endSheet(w, s)` for every pair: every
  sheet that stays presented is eventually dismissed. AppKit never dismisses
  a sheet on its own, so this is an assumption about the user and the
  program, not a guarantee of the code.
* `sheets_starvation` (`NSWindowSheets_starvation.cfg`, expected
  violation): the unconditional `QueuedEventuallyPresented`. TLC's
  counterexample shows two critical sheets replacing each other on top of
  the window. Each one is dismissed in turn, yet the stack never empties, so
  the ordinary queued sheet waits forever. The header bounds no such delay.
  This is recorded as a spec_gap finding.

The module also holds the mutant operators (`beginSheet_overCritical`,
`endSheet_promoteLast`, ...). Each one is a plausible defect of one action.
PROJECT.json lists which property catches each one.

### NSWindowFullScreen (`NSWindowFullScreen.tla`, `MC_NSWindowFullScreen.tla`)

State, per window: `behavior` (the set of FullScreen flags in `collectionBehavior`: at
most one of Primary, Auxiliary and None, lines 115-142), `phase`
(Windowed, Entering, FullScreen, Exiting), `styleFS` (the
`NSWindowStyleMaskFullScreen` bit, line 47), `custom` (the delegate returned
non-nil from `customWindowsTo...FullScreenForWindow:`), and `lastEvent`,
the last notification or delegate message the window sent.

* `toggleFullScreen(w)` acts only for Primary or Auxiliary windows (546)
  whose transition has settled. It toggles the style bit, posts will-enter
  or will-exit and asks the delegate for custom windows; the answer is a
  nondeterministic choice. Outside these conditions the call does nothing,
  which is a stutter step.
* `startCustomAnimation(w)` is sent only if the delegate returned custom
  windows (850, 854, 862, 866). The onScreen: variants (870-876) replace the
  same step.
* `completeTransition(w)` posts did-enter or did-exit (924-927).
* `failTransition(w)` sends `windowDidFailTo...FullScreen:` (858, 878),
  custom animation or not. The window stays where it was, and the style bit
  is put back.
* `setCollectionBehavior(w, b)`: the application may change the property at
  any time (535).

The header does not say what a toggle does while a transition runs; the
model reads "enters or exits" as acting on settled windows only.

Runs:

* `fullscreen` (`NSWindowFullScreen.cfg`): 2 windows, symmetry over them;
  1,830 distinct states. It checks three properties:
  * `TypeOK`.
  * `StyleMatchesSettledPhase`: the style bit agrees with the settled
    phase, after failures too.
  * `DelegateProtocol`: messages follow the documented order, and the
    custom-animation message only goes to a delegate that supplied custom
    windows.

  No liveness property is checked here. "Every started transition ends"
  would hold only by the fairness that would have to be assumed for it:
  the header itself promises no end to a transition.

### NSWindowKeyMain (`NSWindowKeyMain.tla`, `MC_NSWindowKeyMain.tla`)

State: NSApplication's `keyWindow` and `mainWindow`, each window's
`canKey` / `canMain` (`canBecomeKeyWindow`, `canBecomeMainWindow`, chosen
freely in Init and then fixed), and `keyDepth[w]` / `mainDepth[w]`: the
`becomeKeyWindow` (`becomeMainWindow`) calls w has received minus the
`resignKeyWindow` (`resignMainWindow`) calls. The depths are each window's
own view of itself, as its overrides are told it.

* `makeKeyWindow(w)` makes w key if it can become key, and main if it can
  become main (line 441). The previous holder of each role is sent its
  resign call, and w its become call (`Resign`, `Become`). Making the holder
  key again sends nothing.
* `makeMainWindow(w)` does the same for the main role only (445).
* `deactivate` resigns both roles (453, 461).
* `eligibilityChanges(w)`: canBecomeKeyWindow / canBecomeMainWindow are
  computed by the window (438-439) and may change at any time, also while
  it holds the role. The header gives no rule that it then resigns, so the
  model keeps the role.

Run `keymain`: 3 windows, symmetry over them; 204 distinct states. Deadlock
is checked: an eligibility change is always possible. Checks `TypeOK` (no
window is sent two becomes in a row), `CallbacksMatchApplication` (every
window's view equals NSApplication's, also after eligibility changes).
That a window takes a role only when it can become key (main) is the guard
of `makeKeyWindow` / `makeMainWindow` itself, so it is not stated again as
a property.

### DualSenseTrigger (`DualSenseTrigger.tla`, `MC_DualSenseTrigger.tla`)

Actors: the application, which calls `setMode...`; the controller, which
applies configurations and answers; and the user, who moves the arm.

State: `requests` (configurations sent and not yet applied, oldest first),
`requested` (the mode of the latest call), `hw` (the configuration the
controller applies), `arm` (the physical arm), and the three properties
`mode`, `status` and `armPosition` as the framework last received them.

Data abstraction. A normalized position becomes a point of the grid
`0..NumPositions`, with 0 for rest, the way the positional variants use
`GCDualSenseAdaptiveTriggerDiscretePositionCount` (line 14). A configuration
is its mode and its *zone*: the set of positions where the effect acts.
`From(start)` covers "further than the start position". `Between(start, end)`
covers "from the start position to the end position", with end > start
(`Ranges`, lines 99 and 126). The positional variants may act on any set of
positions. Strengths, amplitudes and frequencies are left out, because no
status depends on them. `StatusOf` gives the status of each mode from its
zone and the arm (lines 30-53): in the zone, past it (fired / finished), or
before it.

Actions:

* `setMode(cfg)` sends `cfg` and leaves the properties as they are (line 78).
* `applyConfiguration` applies the oldest configuration.
* `moveArm(a)` is the user moving the arm.
* `report` sets `mode`, `status` and `armPosition` from one response
  (lines 77, 85, 92).

Runs:

* `trigger` (`DualSenseTrigger.cfg`): 2 positions, 2 configurations in
  flight; 249,435 distinct states. It checks two properties:
  * `TypeOK`.
  * `ModeSettlesOnLastRequest`: once the calls stop, `mode` settles on the
    last requested mode.

  Fairness is weak fairness of `applyConfiguration` and `report`, because
  these are steps of the controller and the framework, never waiting on the
  application.

### MachExcServer (`MachExcServer.tla`, `MC_MachExcServer.tla`)

The header declares the server side of the `mach_exc` MIG subsystem. It
does not contain `mach_exc_server`'s body, so the module models the MIG
convention that the declarations imply: dispatch by message id through the
routine table, the count checks against the request arrays, and one reply
per request. Under MIG's server convention, a RetCode other than
KERN_SUCCESS goes back as the short error reply (Head, NDR, RetCode). So
only a successful state routine's reply carries `flavor`, `new_stateCnt`
and `new_state` (the reply structs, lines 244-278, and their union,
lines 287-294).

State:

* `tstate[t]`: a faulting thread is Running or Waiting for the reply.
* `request[t]`: the id, `codeCnt` and `old_stateCnt` of t's request.
* `port`: the FIFO queue of the exception port.
* `serving[s]`: the request a server thread holds.
* `replies`: replies in flight, as `[thread, ret, state]`, where `state`
  says whether the reply carries a `new_state`.
* `called[t]`: the catch routine calls made for t's current request.
* `regs[t]`: t was last resumed with a `new_state` set by a catch routine.

Actions:

* `raise(t, r)`: the thread is suspended and its request is queued.
* `receive(s)`: a server thread takes the oldest request.
* `handleRequest(s)`: this is `mach_exc_server`. It replies MIG_BAD_ID
  unless `HasRoutine(id)` holds, meaning the id is in `start..end-1`
  (`MSGCount` = 6 slots) and has a routine (the name map lists 2405-2407).
  It replies MIG_BAD_ARGUMENTS unless `CountsFit` holds, meaning codeCnt ≤ 2
  and, for the state routines, old_stateCnt ≤ 1296. Otherwise it calls the
  catch routine, whose result is KERN_SUCCESS or KERN_FAILURE; the
  reply (`Outcomes`, `Reply`) carries new_state only for KERN_SUCCESS
  from routine 2406 or 2407 (`StateRoutineIds`).
* `deliver(t)`: the reply resumes the thread, installing its new_state
  when it carries one.

Requests are drawn from each kind of id: below the range, each routine, a
hole in the table (2408) and past the end. Each count is taken at its
array's capacity and one past it.

Runs:

* `mig` (`MachExcServer.cfg`): 2 threads and 2 server threads, no
  symmetry (the run checks liveness); 15,553 distinct states. It checks
  four properties:
  * `TypeOK`: at most one catch call per request.
  * `RequestHeldOnce`: a suspended thread's request is in exactly one
    place, whether that is the port, a server thread or a reply.
  * `ExceptionsAnswered`, under weak fairness of `receive`, `handleRequest`
    and `deliver`. Server threads loop in `mach_msg_server`, and the kernel
    always takes replies.
  * `RefinesExceptionRPC`: the model implements `ExceptionRPC.tla`, the
    RPC as a faulting thread sees it. There, `Raise` suspends the thread
    with its request, `Answer` answers it once, and `Resume` wakes it
    only once answered. `Answer` calls the catch routine exactly when the
    request is in `ValidRequests`, and records the outcome (Handled,
    Failed or Rejected) and whether the thread will resume with a new
    state: exactly when it was Handled and the request is one of
    `StateRequests`. There is weak fairness on `Answer` and `Resume`. The
    mapping takes `outcome[t]` from the RetCode of t's reply in flight
    ("None" when there is none). It takes `newState[t]` from `regs[t]`,
    or from the `state` of that reply. `raise`, `handleRequest` and `deliver` are `Raise`, `Answer`
    and `Resume`; `receive` is a stutter step. `ValidRequests` is read
    off the declarations (the three routine ids of the name map, lines
    296-301, and the array sizes of the request structures), not off
    `HasRoutine` and `CountsFit`. So the refinement checks the dispatch
    against the declarations: a dispatch that trusts the id range alone
    calls a routine for the table's empty slots and breaks it. So does a
    reply that carries the routine's new_state after KERN_FAILURE
    (`Outcomes_stateOnFailure`).

### UdpStat (`UdpStat.tla`, `MC_UdpStat.tla`)

`udpstat[c]` holds the fields of `struct udpstat` that the comments relate
to each other. `Increments` says which fields each kind of packet
increments, read off the field comments (lines 92-106):

* every input packet increments `ipackets` and at most one drop reason;
  `noportmcast` and `filtermcast` are listed under the "output statistics"
  heading (lines 101-106), but their comments describe received packets,
  so the model counts them with input packets;
* a no-port broadcast packet also increments `noportbcast`, and a no-port
  multicast packet also increments `noportmcast`;
* a fast-path output packet increments both `opackets` and `fastout`.

`count(k)` counts one packet of kind `k` in wrapping arithmetic (`Bump`).
The ghost `sent[k]` counts the packets of each kind modulo the same width.

Runs:

* `udp_safety`: `Width` = 1, so every counter wraps on its second
  increment; 2,048 distinct states, which is every combination of the 11
  ghost counts. Checks `TypeOK` and `DerivedCountsExact`. The counts a
  reader derives by modular subtraction are exact however the counters
  wrap: packets delivered, no-port unicast packets and slow-path output.

  A comparison of raw values such as `noportbcast <= noport` is not
  checked: "of above" (line 97) says which packets a field counts, not that
  the raw u_int32_t values are ordered, and such a check would only show
  that u_int32_t wraps.

### WindowSharing (`WindowSharing.tla`, `MC_WindowSharing.tla`)

Models the window-sharing calls of `NSWindow.h` (730-770) and the delegate
method `windowForSharingRequestFromWindow:` (894-900). Each call is a
request with an id; its completion handler runs later, and its stage
records where the request is.

| Code | Model |
|---|---|
| `requestSharingOfWindow:completionHandler:` | `request(i, "Share", ...)` |
| `requestSharingOfWindowUsingPreview:...` | `request(i, "Preview", ...)` |
| `transferWindowSharingToWindow:completionHandler:` | `request(i, "Transfer", w, v)` |
| no ScreenCaptureKit session: `NSUserCancelledError` | `present(i)`, and `userConfirms(i)` / `delegateProvides(i, v)` when the session ended meanwhile |
| the confirmation alert | `userConfirms(i)`, `userRejects(i)`, `userTransfers(i, stop)` |
| `windowForSharingRequestFromWindow:` (may return nil) | `delegateProvides(i, v)` |
| "if sharing fails for some other reason" | `fail(i)` |
| `hasActiveWindowSharingSession` | `w \in sharePlay` |
| sessions starting and ending outside the program | `sckStart`, `sckEnd`, `sharePlayStart(w)`, `sharePlayEnd` |

Every answer checks the state at the moment it is given, not at the moment
the call was made. A confirmation needs the capture session to still
exist. A transfer needs its receiver to still represent the activity.

Run `sharing` (`WindowSharing.cfg`): 2 windows and 2 calls; 11,562
distinct states. Two calls let one request be pending while the other, or
a session change, alters what it depends on. It checks four properties:

* `TypeOK`: among other things, a completion handler runs at most once.
* `NilErrorIffShared` (action property): a share or preview request is
  answered with nil exactly when the step shares a window into a live
  session (line 755), and an error shares nothing. A transfer is answered
  with nil only when its receiver was still the SharePlay subject when the
  user answered and the step moved the activity to the new window or
  stopped it; an error leaves the subject as it was (line 738). This is
  the check for a transfer decided on the state at the time of the call.
* `CapturedOnlyInSession`.
* `EveryCallAnswered`: every call eventually has its handler called, also
  when the delegate returns nil.

Fairness is weak fairness of `present` and `delegateProvides`, because
AppKit takes up requests and the delegate method returns. It also includes
weak fairness of answering the alert. That last one is an assumption about
the user, as in the sheets model. Failure is not assumed fair.

### WindowTabbing (`WindowTabbing.tla`, `MC_WindowTabbing.tla`)

Models automatic window tabbing (`NSWindow.h` 253-270 and 684-728).

State:
* `groups`: each tab group, as a sequence of windows in tab order.
* `selected`: the selected tab of every group.
* `visible`: the windows that are shown (`isVisible`).
* the tabbing settings: `mode` (`tabbingMode`), `ident`
  (`tabbingIdentifier`), `userPref` (`userTabbingPreference`) and
  `allowsAutomatic` (`allowsAutomaticWindowTabbing`).
* `fullScreen`, which the `InFullScreen` preference refers to.

`WantsTab(w, v)` is the rule for whether a window being shown may be
tabbed with shown window `v`:
* Their identifiers must match.
* `Preferred` mode always may.
* `Disallowed` mode never may.
* `Automatic` mode may only while the application allows automatic
  tabbing. Then the user preference decides: `Always`, or `InFullScreen`
  when `v` is in full screen.

`show(w)` may still give the window a group of its own, because the header
says tabbing happens "when it is appropriate to do so".

| Code | Model |
|---|---|
| `close` | `close(w)` |
| `moveTabToNewWindow:` | `moveTabToNewWindow(w)` |
| `addTabbedWindow:ordered:` | `addTabbedWindow(w, v, o)` |
| `mergeAllWindows:` | `mergeAllWindows(w)` |
| `selectNextTab:` / `selectPreviousTab:` | `selectTab(w, 1)` / `selectTab(w, -1)`, wrapping at the ends |
| `tabbedWindows` | `TabbedWindows(w)`: nil for a group of one tab, which shows no tab bar |

Run `tabbing` (`WindowTabbing.cfg`): 3 windows and 2 identifiers, with
symmetry over each; 34,524 distinct states. Three windows are the fewest
for which a window leaves a multi-tab group for another one. It checks
three properties:
* `TypeOK`: this includes that only shown windows are in full screen.
* `TabGroupsPartition`: every shown window is a tab of exactly one group,
  and all tabs of a group agree on `tabbedWindows`.
* `OneSelectedPerGroup`.

### Run `fullscreen_exit` (expected violation)

`NSWindowFullScreen_exit.cfg`, one window, checks `FullScreenExitable`: a
window in full screen can always be sent a `toggleFullScreen:` that acts.
TLC finds: enter full screen, then `setCollectionBehavior` with no
FullScreen flag; `toggleFullScreen:` is now a no-op (line 546), so nothing
in the header takes the window out of full screen. This is recorded as a
spec gap: the header does not say whether a behavior change exits full
screen.

## Not modelled

* `HAS_DEFAULT_CACHEABILITY` (`memory_types.h` 43-59) compares an
  attribute with `VM_WIMG_DEFAULT` and `VM_WIMG_MTE`. Both come from
  `machine/memory_types.h`, which is not in the repository. The macro has no
  state, and its result depends only on those two missing values, so a
  model would only restate it.

* Closing or ordering out the key window: this header does not say what
  happens to key and main.

* `NSWindowCollectionBehavior` and `NSWindowStyleMask` as option sets
  (lines 37-150). The header gives rules for the caller ("you may specify
  at most one of" each group) and one behaviour: the assertion raised for
  both tiling flags (line 121). No code in the repository checks or
  combines the bits. A validity check would be the modeller's own copy of
  the enumerators compared with itself, and the assertion alone would only
  restate its own guard. The FullScreen group, as `toggleFullScreen:`
  reads it, is modelled in NSWindowFullScreen.

* Cycles of sheets. The only precondition the header gives for beginning a
  sheet is that the window is not already a sheet. So two legal calls,
  `[s1 beginSheet:s2 ...]` then `[s2 beginSheet:s1 ...]`, make
  `sheetParent` cyclic, and the model reaches that state. The header
  neither forbids this nor says what AppKit does then, so no property
  states a behaviour for it. It is listed as a hazard without a property.
* Window life cycle: `close`, `performClose:`, `miniaturize:`,
  `deminiaturize:` and `zoom:` (lines 405-411, 488-490). They have the
  delegate's `windowShouldClose:` / `windowShouldZoom:toFrame:` (850-854)
  and the will/did notifications (912-915, 940-955). These are declared
  without any rule that orders the notifications, or ties them to
  `isVisible`, `isMiniaturized` or the key window.
* Event tracking (`trackEventsMatchingMask:timeout:mode:handler:`, 782).
  Its one documented rule (dequeue each matching event, or pass nil on
  timeout, until `*stop`) runs over the event queue of
  `nextEventMatchingMask:`, `postEvent:atStart:` and
  `discardEventsMatchingMask:beforeEvent:`. The matching and ordering
  rules of that queue are not stated in this header.
* Sheet positioning (`window:willPositionSheet:usingRect:`): geometry only.
* `toggleTabBar:`, `toggleTabOverview:` and `tab`: they change what is
  drawn, and `NSWindowTab` and `NSWindowTabGroup` are declared in headers
  outside the repository.
* Window geometry, ordering, dragging, cursor rects and the deprecated
  API. The header states no protocol for these, only signatures.
* `GCKeyNames.h` and `_wchar_t.h`: constants and a typedef.
