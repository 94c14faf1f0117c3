# fedixyz TLA+ models

TLA+ models of the TypeScript code under `src/`. They cover the stability-pool
thunks and wallet slice, and the React hooks and screens that run the payment,
chat and settings flows. TLC checks each model. `PROJECT.json` lists:

- every component and its status;
- every run and what it checks;
- the seeded mutant that each checked property must catch;
- the source lines each definition translates;
- the findings;
- the hazards of this code that a model checker reaches.

Checking a module:

```
cd tla
tlasany StabilityPoolOps.tla
tlc -workers 2 -config StabilityPoolOps.cfg MC_StabilityPoolOps
```

## The system and how its parts interact

The app is a Fedimint wallet with Matrix chat. All of its state changes go
through three layers:

1. **The bridge** (`FedimintBridge`, outside `src/`): asynchronous RPCs plus an
   event emitter. Its answers and events arrive in any order relative to each
   other and relative to user actions. Nothing in the code cancels a call in
   flight.
2. **Redux** (`src/ui/common/redux/wallet.ts`): thunks call the bridge and
   reducers store the answers. Selectors derive balances from the stored
   stability-pool account info. The active federation can change at any time
   (`SwitchingFederations.tsx`).
3. **Hooks and screens** (`src/ui/common/hooks`, `src/ui/native/screens`,
   `src/ui/web`): local React state, effects with dependency lists, and
   handlers that `await` a thunk or a bridge call and then set state. The
   recurring hazards are:
   - an answer applied after the state it was asked for has changed;
   - a handler running twice because a button is pressable while the first run
     is in flight;
   - a loading flag that is never cleared on a failure path.

## Modules and how they correspond to the code

Every module has its state as `VARIABLES`, an `Init`, one action per handler,
effect, reducer or bridge answer, a `Next`, and a `Spec`. `MC_<Module>.tla`
gives the model values for TLC, and `<Module>[_<case>].cfg` holds the bounds
and properties of each run. `MC_Pay` and `MC_App` check several
independent components in one run; the section on harnesses below explains
how.

| Module | Code | State | Actions |
|---|---|---|---|
| `StabilityPoolOps` | `increaseStableBalance`, `decreaseStableBalance` (wallet.ts 182-375); event types (bindings.ts 966-1002) | the active federation, each thunk call's phase, the subscribed listeners, bridge requests and operations, the JS inbox of responses and events | `StartDeposit`, `StartWithdraw`, `Throw`, `ReceiveResponse` (await plus `addListener`), `DispatchEvent` (the listener callbacks), bridge steps, `SwitchFederation` |
| `WalletSlice` | reducers, fetch thunks, `refreshActiveStabilityPool`, the cents/msats selectors, `decreaseStableBalance`'s amount plan (wallet.ts 39-646) | the active federation, per-federation wallet state, RPCs in flight, bridge clock | the fetch thunks and their `fulfilled` reducers, the resets, `SwitchFederation`; the selectors are operators over integers (cents kept in 10^-6 units, so the code's `toFixed` rounding is exact) |
| `StabilityPoolCall` | the contract of both thunks (wallet.ts 191-375, abstracted) | per call: phase (idle, pending, resolved, rejected, threw), kind, the federation it started on, the verdict of its own operation | `Start`, `Throw`, `RpcFails`, `Decide` (the bridge gives the call's operation a decisive state), `Settle`, `SwitchFederation` |
| `DepositPadding` | `increaseStableBalance`'s deposit amount (wallet.ts 203-224) | amount, fee rate, balance, the amount submitted | `IncreaseStableBalance` (rounding ties either way), `InputsChange` |
| `DepositTime` | `selectFormattedDepositTime` (wallet.ts 668-691) | the pool config's cycle duration | `ConfigChanges` over the durations the constant `Durations` allows; the phrase is a pure operator |
| `OmniPayment` | `useOmniPaymentState` (pay.ts 70-198) | the four target slots, fee details, input amount, calls in flight | `HandleOmniInput`, `DecodeInvoiceReturns`, `PreviewPayAddressReturns`, `HandleOmniSend`, `ResetOmniPaymentState` |
| `ConfirmSendOnChain` | the screen (ConfirmSendOnChain.tsx) together with the parts of `useOmniPaymentState` it uses | the federation, address, fee, the effects due, `isPayingAddress`, sends in flight | `RunEffects`, `SwitchFederation`, `PreviewReturns`, `HandleSend`, `SendSettles` |
| `ConfirmSendEcash` | the screen (ConfirmSendEcash.tsx 32-94) | the alert, `isLoading`, `generateEcash` calls in flight | `HandleConfirm`, `AlertGoBack`, `HandleSend`, `GenerateEcashReturns` |
| `MatrixUserSearch` | `useMatrixUserSearch` (matrix.ts 42-110) | the query, the debounce timer, searches in flight, results, error, spinner | `SetQuery` (with the effect and its cleanup), `TimerFires`, `SearchResolves`, `SearchRejects`; what the hook returns (`ShownIsSearching`, `ShownUsers`) lets the exact-match user of a query in `IdQueries` override the search state |
| `ChatWallet` | the screen (ChatWallet.tsx 19-99) and the default back/close handlers of `Header` (Header.tsx 64-103) | the navigation stack as a sequence of routes, the recipient's DM room, the outputs of `useChatPaymentUtils`, pending requests by the room their `onSuccess` closure captured | `HandleSend`, `HandleRequest`, `RequestSettles` (runs the captured `backToChat` or not), `HeaderBack`, `HeaderClose`, `OpenChatWallet`; `RoomChanges` and `HookChanges` are the environment (the hook and the navigation helpers are not in the repository) |
| `ObserveMatrixRoom` | `useObserveMatrixRoom` (matrix.ts 111-142) | the hook's inputs, the observer registered by the last effect run, per-room observation counts, the read receipt | `Mount`, `Unmount`, `SetReady`, `SetRoomId`, `SetPaused`, `RoomLoads`, `NewEvent`; each runs `Render`, which re-runs exactly the effects whose dependencies changed, each cleanup before its effect |
| `MatrixPaymentEvent` | `useMatrixPaymentEvent` (matrix.ts 154-360) | the viewer, the rendered status, the loading flags, thunks in flight, statuses committed but not yet rendered | `Press` (on a rendered, enabled button), `ThunkSettles`, `EventUpdated` |
| `OmniActions` | OmniActions.tsx | `loadingActions` | `HandlePress`, `OnPressSettles` |
| `CompleteSocialBackup` | CompleteSocialBackup.tsx | the backup count, `isCreatingBackup`, createBackup calls | `PressMain`, `PressSaveAgain`, `LocateReturns`, `ShareReturns`, `Fail` |
| `FediModSettings` | FediModSettings.tsx | custom mods, both visibility lists, the deletion overlay | the two visibility toggles, `HandleDeletePress`, `CancelDeletion`, `ConfirmModDeletion`, `AddCustomMod` |
| `Dialog` | Dialog.tsx (web) | the props, the viewport size, open/closed | `Dismiss(trigger)`, `ParentSetsOpen`, `ParentSetsProps`, `Resize` |
| `Initializing` | Initializing.tsx | the selectors the effect reads, whether it is due, the route on top | `SelectorChanges`, `RunEffect` |

Two components live outside this code: the RNE `Button` and
`SendPreviewDetails`. The code hands them a `loading`/`isLoading` prop.
Whether they ignore presses while loading is the constant `LoadingBlocksPress`,
and the runs set it to `TRUE`.

React 18 re-renders between two discrete events. Synchronous handlers
therefore never see a stale closure, and the models apply each handler to the
current state.

## Harnesses: independent components checked side by side

Most hooks and screens share no state with each other. They read their own
selectors and dispatch their own thunks. Two MC modules therefore check
several of them in one run:

| Harness | Components |
|---|---|
| `MC_Pay` | `OmniPayment`, `ConfirmSendOnChain` |
| `MC_App` | `WalletSlice`, `MatrixUserSearch`, `ObserveMatrixRoom`, `MatrixPaymentEvent`, `ConfirmSendEcash`, `CompleteSocialBackup`, `FediModSettings`, `Dialog`, `OmniActions`, `Initializing`, `DepositTime`, `DepositPadding`, `ChatWallet` |

Each harness works the same way:

- It `INSTANCE`s every component. It renames a variable only where two
  components use the same name.
- A variable chosen in `Init` names the one component a behaviour exercises.
  That component starts in any of its own initial states. The others stay in
  one fixed initial state and never step.
- `Step(c, A)` takes component `c`'s action `A` and leaves every other
  component's variables unchanged.
- The fairness is exactly that of each component's own `Spec`.

The reachable states are therefore the union of the components' own state
spaces, not their product. Each property is stated about one component, so it
holds in the harness exactly when it holds of that component alone.

`MC_Pay` stays a harness of its own. Every temporal property is checked over
the whole summed graph, and useOmniPaymentState alone has 117k states. Summed
with the others, the liveness checks take six minutes instead of the minute
that `MC_App` takes without it. The components are instanced directly in
`MC_App` rather than through the smaller harnesses, because TLC cannot
evaluate three levels of nested `INSTANCE` with a renamed variable.

## Runs

Passing runs (TLC finishes with no error):

- `ops` (`StabilityPoolOps.cfg`): two concurrent deposit/withdraw calls over
  two federations, with switches between them. The run checks that
  `StabilityPoolOps` implements the abstract contract `StabilityPoolCall`
  (`ImplementsStabilityPoolCall`). The refinement mapping, at the end of
  `StabilityPoolOps.tla`, maps the phases `awaitRpc` and `awaitEvent` to
  `pending`. A call's verdict is `ok` or `fail` once an operation the call
  owns has emitted a state its listener resolves or rejects on. So:
  - a call settles only after its own operation (same federation as
    captured, same operation id) reached a decisive state;
  - it settles as that state says, and only once;
  - a decided call does not stay pending (the contract's weak fairness on
    `Settle`).
- `pay` (`Pay.cfg`, `MC_Pay`):
  - the on-chain screen never has two sends in flight;
  - its spinner always clears unless the send succeeded.
- `app` (`App.cfg`, `MC_App`), the wallet slice: federation f1 has all 64
  selector snapshots of `MC_WalletSlice` and f2 has one. Two overlapping
  refreshes run, with resets and switches at any point:
  - for every snapshot and every withdrawable amount in 10-msat steps,
    `decreaseStableBalance` sends basis points in 0..10000 and withdraws
    within rounding of the amount asked;
  - no federation's account info is ever stored under another;

  the matrix hooks:
  - the spinner of a query the user stops changing always clears;
  - a group room is observed exactly while it is shown;
  - a DM, once observed, stays observed;
  - an accept and a reject of one payment message are never in flight
    together;
  - every payment loading flag is lowered again;

  and the screens and components:
  - `ConfirmSendEcash`: at most one `generateEcash` is in flight, and
    `isLoading` always clears;
  - `CompleteSocialBackup`: the backup count equals the completed shares,
    capped at 2, over locate and share failures;
  - `FediModSettings`: its toggles, deletion overlay and navigation are
    explored; no property is stated, since each candidate restated one
    assignment of the screen;
  - `Dialog`: with `disableClose` only the parent closes the dialog, on
    either viewport;
  - `OmniActions`: with promise-returning callbacks, every spinner clears;
  - `Initializing`: the screen is always left once storage and the lock
    status are known, in either order;
  - `DepositTime`: the phrase switches to "more than an hour" exactly at
    3600 s, and below that it states a duration within 15 s of the cycle;
  - `DepositPadding`: the amount `increaseStableBalance` submits is at most
    the balance and within 5 msats of spec 4.2's `min(balance, amount +
    max(1000, 10 × amount × rate))`. The code rounds the first-cycle fee
    before multiplying it by ten, and a double product at an exact half may
    round either way; both outcomes are explored, and the bound of 5 is
    reached at the tie.
  - `ChatWallet`: every press, request callback, header handler and room
    change is explored under the type invariant, which also bounds the
    navigation stack. Its two hazards are violated by the code (see the
    counterexample configurations below).

Violation runs check one property each. Each shows a disagreement between the
code and the spec, a comment or the obvious intent. The `findings` in
`PROJECT.json` describe each one.

| Run | What happens |
|---|---|
| `ops_failure` | A withdrawal ending in `primaryOutputError` never settles (spec 7(b)). |
| `slice_withdrawable` | The withdrawable balance goes negative because a staged cancellation is subtracted twice. |
| `slice_regress` | Out-of-order fetch answers store an older snapshot. |
| `omni_reset` | An invoice decoded after a reset is paid. |
| `search_results` | A stale search's results are shown for the current query. |
| `omni_actions_throw` | A synchronous throw leaves the spinner on. |
| `onchain_fee` | A `previewPayAddress` for f1 answers after a switch to f2, and Send pays from f2 with f1's fee on screen. |
| `slice_minimum` | With a cancellation staged and no staged deposits the minimum withdraw amount is not zero, although spec 4.1 makes it zero whenever a cancellation is pending. |
| `payment_repay` | Pay is enabled again between the accept settling and the event arriving, so a second accept is dispatched. |

More counterexamples are kept as configurations beside these. Each checks one
property that the code violates, and each is reproduced by running TLC on it.

| Config (MC module) | What happens |
|---|---|
| `StabilityPoolOps_early.cfg` (`MC_StabilityPoolOps`) | An event emitted before the RPC response is lost, and the call never settles. Whether the bridge can do this is not stated anywhere. |
| `DepositTime_seconds.cfg` (`MC_DepositTime`) | A 0 s cycle is shown as "~1 second", although the spec makes the singular/plural choice at exactly 1. |
| `OmniPayment_fee.cfg` (`MC_OmniPayment`) | The fee shown belongs to an address that is no longer the target. |
| `MatrixUserSearch_spinner.cfg` (`MC_MatrixUserSearch`) | A stale search clears the spinner while the current query's search is pending. |
| `OmniActions_double.cfg` (`MC_OmniActions`) | A second press hides the spinner while the action still runs. |
| `Dialog_untitled.cfg` (`MC_Dialog`) | A `mobileDismiss="back"` dialog with no title has no dismiss button on mobile. |
| `ChatWallet_room.cfg` (`MC_ChatWallet`) | Request is pressed in the chat of room r1; the recipient's room becomes r2 or goes away; the request succeeds and the stale `backToChat` resets to the chat of r1, past the early return meant for a missing room. |
| `ChatWallet_late.cfg` (`MC_ChatWallet`) | Request is pressed, the user goes back with the Header; the request succeeds and the navigation stack is reset to the chat, away from the screen the user is on. |

Each property of a passing run has a mutant in `PROJECT.json`. The mutant is a
plausible bug in one mapped definition: a dropped guard, a copied flag, an
off-by-one, a missing reset or a stale dependency. When that definition is
replaced by the mutant, TLC finds the property violated under the run's own
configuration.

## Bounds and why they are enough

- Two federations, two calls and two operations (`ops`). Every
  cross-federation and cross-operation mix-up needs two of each, and a third
  adds no new kind of interleaving.
- In the wallet slice (run `app`), two RPCs (`MaxFetches = 2`), one price and two federations, with
  f2 holding one snapshot.
  - Two RPCs are enough for two overlapping fetches, or for a fetch for f1
    that lands after a switch to f2.
  - The 64 snapshots of f1 cover zero, all-locked and all-staged accounts,
    staged cancellations of null, 0, 25% and 100%, and amounts above the
    balance.
  - `WalletSlice_regress.cfg` keeps the earlier bounds of four RPCs and two
    prices, which the out-of-order snapshot needs.
- Presses, keystrokes, renders, toggles and attempts are bounded between 3 and
  8. Every property's shortest counterexample is shorter than that; the
  mutants confirm this, since each is caught within the bounds.
- Deposit padding: amounts 0, 50, 100000, 100005 and 100009 msats, rates of
  0, 0.1%, 0.5% and 10%, balances of 100000 and 1000000 msats. These give a padding at the
  1000-msat floor, a padding of ten fees, a fee at a rounding tie (100005 ×
  10%), a fee whose fraction 0.9 a truncation would lose, spec 4.2's
  example of 100000 msats at 0.1%, and a cap by the balance. Rates are counted in units of 10^6 ppb so that every product
  stays inside TLC's 32-bit integers.
- ChatWallet: two rooms (so the recipient's room can be replaced as well as
  removed) and two presses (a request pending while Send or a second
  request is pressed). The stack never grows past four routes.
- Deposit-time durations of 0..240 s and 3360..3840 s. These cover every branch,
  every half-minute rounding tie below four minutes, the 60 s singular/plural
  boundary and the 3600 s cut-off.

## Fairness and why the code justifies it

Weak fairness is assumed only where the code hands work to something that
completes it:

- the bridge answers every RPC and walks every operation to a final state;
- a pending `setTimeout` fires while the hook is mounted;
- React runs a scheduled effect after the commit that scheduled it;
- every promise a handler awaits eventually settles.

No fairness is assumed for user actions. Runs with `CHECK_DEADLOCK FALSE` model
flows where the app legitimately goes idle: every call settled, the user
stopped pressing, or the screen was left.

## What is not modelled, and why

- **Two concurrent deposits** each capping their padded amount by the same
  `ecashBalance` read (wallet.ts 195). Whether the bridge rejects the second
  is not stated by the code or the spec, so a property about it would check
  an assumption rather than this code.
- **`selectMaximumAPR`** (floating-point `pow`) and the conversions to the
  selected fiat currency (through `amountUtils`, outside `src/`).
- **`useMatrixChatInvites`** (one awaited dispatch, then a toast chosen by the
  error text; no state of its own).
- **`useChatPaymentUtils` and the navigation helpers** (`resetToDirectChat`,
  react-navigation) are not in the repository; `ChatWallet` treats their
  outputs as the environment. `resetToDirectChat` is taken to leave the tabs
  with the chat on top, as the comment on `backToChat` describes.
- **Presentational components**: `Header`'s layout, `DirectChatHeader`,
  `ConfirmJoinPublicGroupHeader`, `ReceiveBitcoinOfflineHeader`,
  `EndedPreview` and `StableBalanceIntro` only lay out props.
- **Bridge bindings** beyond the stability-pool types, which are type
  declarations only.

## Plan for later sittings

- Compose `OmniPayment`'s address slots with `ConfirmSendOnChain`'s
  federation switches. The run `onchain_fee` already shows a send under another
  federation's fee; the composition would show how that combines with a
  stale address.
- Model `useMatrixChatInvites` if the error-to-toast mapping becomes part of a
  property.
