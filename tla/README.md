# AmiyaEden: models of the server's core and of the two front ends

AmiyaEden is the management system of an EVE Online alliance: a Go server (gin, GORM, PostgreSQL,
Redis), two web front ends (Vue in `static/`, React in `static-react/`, which is to replace it), and
connections to ESI (the game's API), to QQ groups (a OneBot robot over a reverse WebSocket) and to
Mumble. This directory models the parts where several actors change the same state: on the server the
wallet, the shop, ship replacement, the task runner and the QQ action queue; in the browser the table hook,
the tab bar, the session and the access rules. TLC checks small instances; TLAPS proves the main
invariants for every value of the constants.

Paths without a prefix are relative to `server/`.

## 1. Inventory

### Components, their state and what makes them correct

| Component | State | Operations | Correct when | Status |
|---|---|---|---|---|
| fuxi-coin wallet (`internal/service/sys_wallet.go`) | `system_wallet.balance`, `wallet_transaction`, wallet capability of each corporation | credit, debit, delta, admin adjustment, zeroing on read, policy sweep | the ledger explains the balance, debits are covered, nothing is lost between concurrent operations | modelled |
| shop (`service/shop.go`) | `shop_product`, `shop_order` | buy, roll-back, deliver, reject, edit product | one outcome per order, coins and pieces add up, limits hold | partly |
| SRP (`service/srp.go`) | application: review and pay-out status, amount | file, review, automatic approval, refresh on listing, four ways to pay | an application is paid once | partly |
| task registry, task service (`taskregistry/registry.go`, `service/task.go`) | lock and token per task, execution rows, runtime schedule | run by hand, by cron, at start-up; change a schedule | one run at a time, a lock belongs to its holder, rows close | partly |
| background manager and shutdown (`pkg/background/manager.go`, `main.go`) | wait group, closed flag, deadline | Go, Shutdown, signal | accepted work is waited for, a signalled process exits | modelled |
| QQ action queue and worker (`service/qq_governance*.go`, `repository/qq_governance.go`) | events, member rows with a version, policies, action rows with leases | event, claim, check, send, record, retry, recover, cancel | leases are exclusive, nothing stale is sent, settled actions stay settled, the queue drains | partly |
| QQ snapshots and reconcile runs (`service/qq_governance_reconcile.go`) | run, frozen members, batch tasks | start, snapshot, batch, completion | every frozen member is checked once, only then are others marked as left | partly |
| Vue table hook (`static/src/hooks/core/useTable.ts`, `utils/table/`) | rows, search parameters, pagination, cache, AbortController, page guard, debounce timer | search, page, size, the refreshes, cancel, leave | the newest request wins, the cache answers its key, a reload is fresh | partly |
| Vue tab bar (`store/modules/worktab.ts`, `art-work-tab/index.vue`, `router/guards/beforeEach.ts`) | open tabs, current tab, pages KeepAlive must drop, the navigation | open, close in seven ways, pin, reload | tabs are unique, the current one is open, closed pages are forgotten, pins stay | partly |
| page tables and access of both front ends (`static/src/router/`, `static-react/src/app/`) | the rule of each page, registered routes, rights known | load, follow a link, change of rights | both admit the same user to the same page, the profile lock wins | partly |
| React session (`static-react/src/stores/`, `auth/`) | persisted session, bootstrap, badges, requests | start, SSO return, logout, impersonate, 401 | no page before `/me` answered, badges are the user's | partly |
| welfare (`service/welfare.go`) | applications | apply, deliver | delivered once per eligible character or user | not modelled |
| fleets and PAP (`service/fleet.go`) | PAP rows, wallet postings | issue, re-issue | a re-issue corrects exactly what was issued | not modelled |
| captains, bounties (`service/captain_*.go`) | attributions, settlements | sync, settle | each bounty is settled once | not modelled |
| mentors (`service/mentor_*.go`) | relationship, stage rewards | apply, accept, graduate, reward | one active relation, each stage rewarded once | not modelled |
| recruitment (`service/recruitment_*.go`) | links, entries | enter, reward | one reward per entry | not modelled |
| ESI refresh queue (`pkg/eve/esi/queue.go`) | due times, runs per character | schedule, run, back off | a character is not refreshed twice at once, and not starved | not modelled |
| SSO, JWT, middleware | tokens | log in, refresh | external protocol | not modelled |
| roles, automatic roles (`service/auto_role*.go`) | role rows with a source | sync, grant, revoke | automation does not touch manual grants | not modelled |
| structures and fuel, galaxy registry, Mumble identity | alert state, claims, identities | scan, claim, revalidate | one alert per threshold, one claim per system | not modelled |
| tickets, hall, fleet configuration, skill plans, bookmarks | single rows | CRUD | few transitions | not modelled |
| audit log, configuration, webhooks, mail, ESI and SDE queries | rows written by others, imports | append, get, set, read | no protocol of their own | not modelled |
| pages, forms, charts, translations of both front ends | what the server answered | show, submit | the server's rules | not modelled |

### How they interact

* Shop, SRP, welfare, PAP, mentors and recruitment move coins through `ApplyWalletDelta`, `CreditUser`
  and `DebitUser`. Some pass their own transaction (`...Tx`: SRP, fleet PAP), the shop does not: the order and
  its debit are two transactions.
* Cron and administrators start jobs through the task registry; jobs and the QQ worker run in the
  background manager, which `main.shutdownServer` waits for.
* The OneBot handler calls the governance service from the goroutine that reads the WebSocket; the worker
  calls the handler back (`CallOneBot`) to send an action. Reconcile batches run in the worker and queue
  actions for it.
* Policy updates of corporations and of QQ groups commit first and clean up afterwards, in statements
  of their own (`sweep`, `CancelPendingActionTasks`).
* Both front ends ask `/me` for the roles, capabilities, marks and the profile lock of the user. Vue asks on each
  navigation and registers its routes once; React asks at the start and on the characters page and applies
  the rules on each visit. Vue's guard also opens the tab of the page; React's session store drives its badges.

### What is hard

* Reads without a lock followed by a write of the whole row (GORM `Save`): shop roll-back and product
  editor, QQ member version, SRP review, listing and manual pay-out.
* Checks made before the lock they depend on: wallet capability, shop limit and balance, SRP limit.
* Several transactions for one operation, with a crash or another actor in between.
* Leases and time-outs: a lost answer, a worker that outlives its lease, a process that dies.
* Shutdown: HTTP, cron jobs and background goroutines end in any order under one deadline.
* Answers that come late in the browser: to a search that has been replaced, a page that has been left, a
  session that has ended, a navigation that has been overtaken.
* Two hand-written copies of one access policy, read by two different algorithms.

The list with lines and the properties aimed at each is `hazards` in `PROJECT.json`.

## 2. Modules

| Module | Models | State and actions |
|---|---|---|
| `WalletLedger` | what the wallet promises: every change is one posting whose row carries the new balance, or a zeroing | `balance`, `ledger`; `Post`, `Zero` |
| `SysWallet` | the wallet service, one action per SQL statement, READ COMMITTED; refines `WalletLedger` | `rowLock` is FOR UPDATE; `pc`, `op`, `seen` are a handler's stack; `CheckCapability`, `LockWallet`, `Verify`, `Commit` are `AdminAdjust`/`CreditUser`/`DebitUser`/`ApplyWalletDelta`; `CheckOnRead`, `ZeroOnRead` the readers; `UpdatePolicies`, `ListPositive`, `SweepUser`, `SweepZero` the policy update |
| `ShopOrders` | a purchase step by step, against reviewers, the product editor, policy changes, failing statements and a crash | `copy` is the product the call read; `ReadProduct`, `CheckLimit`, `CheckBalance`, `PlaceOrder`, `Debit`, `RollbackStock`, `RollbackStatus` follow `BuyProduct` and `rollbackOrder`, `CallFails`, `DebitFails` and the second halves of the roll-back their errors; `AdminDeliverOrder`, `AdminRejectOrder`, `LoadForm`/`SaveForm` (stock, price, sale and limit) |
| `SrpBook` | what ship replacement promises: filed, judged, paid; a lost update is noted | `state`, `payments`, `lost`; `Judge`, `Pay`, `Lose` |
| `SrpPayout` | the SRP service; refines `SrpBook` | `op` is a request between its unlocked read and its write: `SubmitAgain`, `Approve`, `Reject`, `RunFleetAutoApproval`, `RefreshRecommended`, `PayManually` read, `Save` writes the whole row; `PayInCoinsTx`, `PayUserTx`, `PayAllInCoins` are the locking transactions; `Abandon` a failed write or a dead process |
| `TaskRunner` | registry locks and handles, three triggers, execution rows, background manager, shutdown, restart | `held` and `call[c].token` are lock and `LockHandle`; `tracked` the wait group; `phase` follows `shutdownServer` and `main`, `ManagerDone` the return of `Manager.Shutdown`, `Exit` that of `main`; `orphans` are rows left "running" |
| `QQActionQueue` | decisions about a member, action queue, worker, leases, connection, policy updates | `task` is the row by idempotency key, `holder`/`lapsed` the lease, `blocked` the cause "disconnected"; `Open`/`Commit`/`RollBack` are the transaction of an event or a check; `Claim` ... `FailTask` is `RunActionWorkerOnce`; `Reconnect` installs a connection, `OnOneBotConnected` is the recovery after it, which may fail unnoticed; `RecoverDisconnectedTasks`, `RetryTask`, `SavePolicy`, `CancelPendingActionTasks` |
| `TableData` | `useTable` with its cache and its debounced search | `req` are the requests out, `active` the AbortController; one action per handler (`Search`, `PageChange`, `RefreshCreate`, ...) up to `await`; `ServerAnswers`/`ServerFails` the server, `Deliver` the code after `await` |
| `WorkTabs` | tab store, context menu, the guard that registers routes and opens tabs, KeepAlive | `tabs` is the store, `routes` the initialization of the router (`RoutesRegistered`, `RoutesFail`), `nav` the router and the guards that wait for one answer; `GuardsPass`, `GuardsRedirect`, `GuardsFail` the answer, `Arrive`/`LoadFails` the code of the page |
| `ReactSession` | session store, bootstrap, gates, callback page, impersonation, badges | `s` and `badge` are the stores, `calls` the requests out, with the token they carry; `Load` a page load (`Reload`, `SsoReturns`), `Revisit` the callback page opened again inside the running app, `Open` a navigation, from the callback page too, `Redirect` the timer of the callback page; `Become` a step of the session with all the effects that follow it |
| `PageAccess` | the page tables of both front ends, rule by rule, and the code that reads them | `ReactRoutes`, `VueRoutes` the tables; `Satisfies`, `ItemVisible`, `VueGrants`, `HasPermission` the readers; `Load` enters an address in both, `Open` follows a link in both, `Change` is the server |
| `MC...` | instances for TLC | values of the constants |
| `...Proofs` | theorems, one module per component, `FrontEndProofs` for `ReactSession` and `WorkTabs` | see section 5 |

`PROJECT.json` maps every definition to the lines it translates. Definitions introduced by "Mutant"
are plausible bugs: with the original replaced by it the property it was written for fails, which shows that the
property depends on that line of code.

Composition: `SysWallet` extends `WalletLedger` and is shown to implement it (`ImplementsLedger`). That
result lets `ShopOrders` and `SrpPayout` take each wallet transaction as one step. `SrpPayout` implements `SrpBook`
under a mapping (`Book == INSTANCE SrpBook WITH ...`). `TaskRunner` composes registry, service,
manager and shutdown in one module, `WorkTabs` store, bar, guard and router, since every interesting step
crosses them. `PageAccess` runs the two applications side by side on the same links.

### Abstractions

* Coins are whole numbers (prices are); the code's floats and their rounding are not modelled, except the
  conversion of ISK into coins (`ToCoins`).
* `ShopOrders` has one product, and the limit period is "for ever". A statement that fails has no effect (`Fault`);
  that a COMMIT takes effect and its acknowledgement is lost is not modelled. Each of the two saves of the roll-back
  may fail by itself, which the code only logs: the order is rejected with its stock not restored, or stays
  requested without a debit. A failed statement in a transaction of an administrator changes nothing and is left out.
  A policy change and its sweep are one step there; `SysWallet` has the fine grain. Creating and deleting products, mails and redeem codes are left out.
* `SrpPayout`: the recommended amount (prices, fittings, reimbursement rules) is a free choice. The pay-out of
  all users is one step, since its transaction locks every row it pays; the order of these locks is not modelled.
* `TaskRunner`: bodies of tasks are opaque, may fail, panic or hang.
* `QQActionQueue` has one group and one member. Waiting times and priorities are left out: a queued action
  may be due at any moment. The candidate list and the conditional update of a claim are one step, since
  the update repeats the test with the same clock reading. The policy and the member an update reads are
  read in one step. A worker process may die, a statement may fail, at any step after the claim (`Drop`);
  a failed read before sending counts as an attempt (`ReadFails`). Members do not change by themselves:
  what `evaluate` says is a free choice. One policy request at a time.
* `TableData`: rows are a page of a list of so many rows; their contents are not modelled. The answer carries
  the key it was asked with, and whether a reload has since cleared that key (`old`, history).
* `WorkTabs`: titles, icons and query strings are left out; tabs are on; KeepAlive's limit of ten pages
  and iframe pages are left out. The error page stands for the pages outside the layout: there is no tab bar
  on it, and with the layout KeepAlive and its pages are gone. After a failed start (`routeInitFailed`) it passes its guard
  without a question, and only a page load starts anew.
* `ReactSession`: an effect runs in the step that changes what it depends on. Identical requests in
  flight are one. The code of a page, which is loaded lazily, is there at once. One browser tab.
* `PageAccess`: a page load with its `/me` is one step; what happens when `/me` fails or the page changes in
  between is in `WorkTabs` and `ReactSession`. Exception routes and the order of the menu are left out.
  Home is the characters page, the first entry of the menu for every user.
* History variables (`wasOff`, `earlier`, `rolledBack`, `unsaved`, `drained`, `waited`, `disturbed`, `fresh`, `sent`, `tally`,
  `credits`, `transfers`, `torn`, `swapped`, `strayed`) are never read by a guard; `TableData.sent` is a bound.

## 3. Runs

| Run | Instance | What it shows |
|---|---|---|
| `sys_wallet` | 2 wallets, 2 handlers, 3 operations of all kinds, 1 corporation change, 1 crash | reads under the lock are current; the newest row explains the balance; the service refines the ledger; every operation ends |
| `shop_orders` | 2 purchases (1 and 2 pieces) of one member, stock 3, limit 2, an administrator who reviews and receives the award, 1 edit (of stock, sale or limit), 1 policy change, 1 failed statement, 1 crash | one outcome, rejected is not charged, stock and coins add up, an order is within the limit given its user's earlier purchases, a failed debit ends rejected unless the server dies or the rejecting save fails |
| `shop_delivered` | 2 purchases, a reviewer, no crash | **violated** `RejectedIsUndelivered`: delivered before its debit fails |
| `srp_payout` | 2 applications of one user, 2 callers, one of them limited, 5 requests of any kind | paid is approved; paid once unless a stale copy was saved; the service refines `SrpBook` |
| `srp_paid_again` | the same, 4 requests | **violated** `PaidOnce`: a stale copy makes a paid application payable again |
| `task_runner` | 1 task, 2 calls, 3 locks, 1 failed write, 1 restart | one run at a time, locks come back also when the manager refuses, no accepted run is left when the wait for the manager saw its end, a clean shutdown closes rows, a signalled process exits |
| `qq_queue` | a join and the check of a reconcile run, which both decide about the member, 2 workers, 1 fault, 1 operator call, fairness | settled stays settled, an action is sent twice only after a lapse or a lost answer, the queue drains, also when the version moves on between a sent card and its record |
| `qq_versions` | a join pushed twice, a sweep, a message, 1 policy update, 2 workers (symmetric), 1 fault | leases exclude others, what is sent is valid for the member and the policy since the claim |
| `table_data` | 2 filters, 2 rows in pages of 1, 2 requests out, 3 in all, 1 forgotten timer, cache of size 1 | only the newest request counts, the cache answers its key, a reload is fresh, the page guard is held by one request |
| `work_tabs` | a pinned page, the setup page, two details of one route, the error page outside the layout; starts that succeed and fail; 2 navigations waiting | unique tabs, an open current tab, pages without a tab forgotten, the one on the screen included, pinned tabs stay |
| `react_session` | 2 tokens, an administrator and a user with an incomplete profile, up to 3 requests out when the user goes on | with a token no page before `/me`, unless the callback page was left while it waited; badges go with the logout and are those of the token's user until an impersonation replaces it, the bootstrap ends |
| `page_access` | all 63 pages; users of 12 roles with all, none or all but one of the capabilities, with marks and lock; 1 change of rights | the same access, the same menu, reloads return, the lock wins |

### Bounds and why they are enough

* Two handlers, buyers' calls, callers or workers: every hazard listed is a race of two actors on one row; the
  proofs cover any number.
* `MaxOps = 3` (wallet) lets an operation meet a policy update and a third operation; the second wallet is there
  for the sweep, which works through several. The amounts make debits both covered and refused, and a correction clamp.
* Stock 3 with orders of 1 and 2 pieces, a limit of 2 and three coins: each check both passes and fails, and
  the roll-back is distinguishable from the right stock. The edit may raise the limit to 3; one failed statement hits any step of a call. The
  price is not edited: what an order costs is in the copy of its call.
* SRP: filing does not count as a request, so five are enough for two overlapping ones on each
  application and a batch. The amounts are none, below the limit (and less than half a coin), and above it.
* `MaxTokens = 3` gives a stale handle two later locks to damage. `MaxBoots = 1`: one process after another.
* `MaxRetries = 2` (5 in the code) has a first, a repeated and an exhausted attempt. Faults, policy
  updates and operator calls are one each; all of them together are too many states for one run, so `qq_queue` has the
  operator, `qq_versions` the policy update, and the theorems everything at once.
* Table: two requests out are an old and a new one in either order of answers; the third lets an evicted or
  cleared key be asked for again. The cache is switched on although no page of the program does so yet.
* Tabs: five pages give a tab on each side of the clicked one, two tabs that share a route and a page without a
  tab. The two details are taken as cached pages, which no dynamic route of the program is today, so that cached pages
  wait for their guard too. Two waiting guards are an overtaken and an overtaking navigation.
* Session: two tokens are a session and the one that replaces it. While three requests are out (a late one of
  the old session, one of the new one and a badge request) the user waits; answers may still send more. Two impersonations that overlap need a third token
  (section 4); `BadgesOfTheSession` holds for any number of tokens and requests.
* `PageAccess` is finite in the pages. Each demanded capability is missing for one administrator and one ordinary user;
  the theorem `GrantsAgree` covers every combination.
* Deadlock is checked for the front ends: `table_data`, `work_tabs`, `react_session` and `page_access`. Elsewhere the bounds are on
  how often the environment acts, and the system is at rest
  when they are used up. What must go on is stated as liveness.

### Fairness

* `SysWallet`, `ShopOrders`: weak fairness of a handler that has started (`Continue`): goroutines are
  scheduled and PostgreSQL hands a free row to a waiter. Nothing forces a request, an edit or a crash.
* `TaskRunner`: weak fairness of the calls' own steps and of the shutdown (timers fire). None for
  `TaskReturns`: a task may hang for ever.
* `QQActionQueue`: weak fairness of a worker's next step (calls are cut off after ten seconds), of the claim
  of each action (the ticker polls every 500 ms, and the queue is ordered by due time within a priority, so with finitely many
  actions each has its turn) and of the lapse of a lease (it is a time). `QueueDrains` holds with
  the robot connected or not, since disconnected attempts count. Postponements by rate limiter and risk control are bounded like faults;
  a limiter that never lets an action through would keep it waiting.
* `ReactSession`: weak fairness of the answers to the bootstrap's request: `fetch` settles, at the latest with an
  error. Nothing forces the user or another request.
* `SrpPayout`, `TableData`, `WorkTabs`, `PageAccess` are checked without fairness: their properties are about safety.

## 4. What disagrees with the documentation

Two runs search for a behaviour that breaks what the repository says (`findings` has the quotations):

1. `shop_delivered`: an order can be delivered while its debit is still to come, and is then overwritten with "rejected".
2. `srp_paid_again`: an application that is paid in coins becomes payable again, or is also paid by hand, because
   review, listing, automatic approval and the manual mode save a row read without a lock.

The following are stated in the modules under "does not keep". TLC refutes each of them, as an `INVARIANT` or `PROPERTY` in
place of those of the module's run, with the change of the instance that is named. They have no run of
their own: most are the same two patterns (an unlocked read, two transactions) once more.

* `SysWallet!DisabledWalletIsEmpty` (commerce.md: without the capability the balance is 0): a credit that was checked
  before the policy update commits after the sweep.
* `ShopOrders!RequestedIsDebited`, `RefundedWasDebited`, `RollbackRestoresStock`, `LimitIsKept`: a crash between the
  two transactions leaves an unpaid order; an order rejected before its debit is refunded; the roll-back writes
  a stale stock; two purchases pass the limit check together (no edit needed).
  `FailedDebitIsAlwaysRejected` (shop.go:181, "扣款失败，拒绝订单并恢复库存"): the save that rejects the order fails, which
  is only logged (shop.go:203-208), and the unpaid order stays open for delivery.
* `QQActionQueue!SupersededCardIsStale` (with a second check of the member): two decisions that overlap share one member version.
* `WorkTabs!RouterRests` (under `FairSpec`): after a start that registered the routes, when the question of the guard keeps
  failing, the error page's own guard asks again and redirects to the error page again, without end. The mark against
  such a loop (`beforeEach.ts:204-213`, set at 432) exists for the initialization of the routes only; the model has it. `ShownHasTab`: the guard of a navigation that was
  given up still makes its tab the current one; closing the tab of the page on the screen then navigates nowhere.
  `PinnedFirst`: a tab that was unpinned by hand is pinned again where it stands when its route is visited.
  `EveryClosedIsForgotten` (with components that are not called like their routes): the exclusion list holds route
  names, KeepAlive compares component names.
* `TableData!CancelledIsSilent`: a cancelled request that fails later empties the rows of the newer one.
  `ShowsItsPage`: after deletions on the server a page beyond the end is shown empty, though the list is not.
* `ReactSession!FreshWithToken`: the callback page stores the token, which ends the bootstrap, and asks `/me`. The app has a
  hash router, so an address that is edited, or a click on the notification of the galaxy registry
  (`use-galaxy-registry-timeout-notification.ts:43`, mounted on every route), leaves that page without a page load: the request is
  cancelled, nobody asks again, and business pages are rendered from the persisted roles, which may be another user's.
  `docs/architecture/auth-and-permissions.md:45`: "已有 token 的应用启动必须先重新请求 `/api/v1/me`，完成前路由显示加载占位，不得使用持久化的旧角色、能力或资料锁状态渲染业务页".
  `FreshUnlessStrayed` says what is kept. `FreshAlways`: without a token, persisted roles admit to pages before `/me` was asked.
  `BadgesAreAlwaysTheirs` (with three tokens): an administrator starts two impersonations, since the button is not
  disabled while a request is out. The first one answers, and the badges of its user are asked for with its
  token; the second one answers and replaces the token; the badges that arrive then are those of the first
  user, and `load` counts them as loaded. A page load mends it. The attempt to prove the property for any
  number of tokens found this; `BadgesAreTheirs` says what is kept.

Seen in the source while modelling, not checked by a run:

* A cron run is not in the wait group of the background manager; it is waited for through
  `Cron.Stop` (`main.go`), so `AcceptedRunsAreWaitedFor` excludes it.
* SRP: the amount limit is checked before the lock only; a limit of 0 is no limit for
  a single pay-out, and refuses every batch for one user.
* Table: the cache holds one entry more than `maxCacheSize`; `clearPagination` clears every entry; the `finally` of the
  debounce forgets a newer timer. No page turns cache or debounce on.
* React session: a failed `/me` after impersonation leaves the new token with the old user's data; a late 401 of the
  old session on the callback page clears the new one; the 800 ms timer of the callback page is not cancelled.
* Access: an unlocked guest at `/` gets the 403 page in React and the characters page in Vue; a page that is
  denied is 404 in Vue and 403 in React; Vue keeps the routes of its start after a revocation until it is reloaded.
* Pages whose rule differs from what the server admits behind them: `newbro/mentor-manage` asks for a
  mentors-only list, `newbro/manage` admits captains but asks for an administrators' list, `srp/srp-prices`
  admits `srp` users to an administrators' setting, `welfare/settings` admits the role `welfare` where the server
  wants an administrator. The two front ends agree on all four.

## 5. Proofs

All for arbitrary constants under the assumptions named in the modules (`SysWalletAssumption`,
`OpeningBalanceAssumption`, `ShopAssumption`, `TaskRunnerAssumption`, `QueueAssumption`, `TableAssumption`, `SrpAssumption`,
`RightsAssumption`, `MaxChangesAssumption`, `SessionAssumption`, `PagesAssumption`), which TLC evaluates on every run.
None bounds the number of users, orders, pages, tokens or requests; `ShopAssumption` says that the orders are finitely many, since
they are summed over. Each proof module also has the type
correctness of its component, which the runs therefore do not repeat.

* `SysWalletProofs`. `WalletInv` adds to types and `LockedReadIsCurrent` that a step fits its operation
  (`OpFits`), that what is ready to commit is covered (`ReadyIsCovered`) and that only users who lost the capability are zeroed
  (`OnlyOffIsZeroed`). From it: `LockedReads`, the refinement `Refinement`
  (`Spec => WalletSpec`, each `Commit` a posting, each zeroing a `Zero`, all else a stutter) and
  `LedgerExplains`, which needs that a locked wallet is not zeroed.
* `ShopOrdersProofs`. An order has two writers that never see each other. `OrderInv` says what the step of
  the buying call tells about the debit (`CallTells`), and what the status tells about the reviewers
  (`StatusTells`). From it: `SingleOutcome`, `RejectedOrdersAreFree`, `RejectionsAreFinal`. The stock, the limit and the
  balance are sums over orders. What the recursive sum says (`SumExists`, `SumUnique`, `SumRemove`, `SumUpdate`: a sum changes
  where one summand changes) is proved by a least counterexample, with the number of orders as the measure: the
  library's induction over sets takes an operator, the least element of a set of numbers does not. Three invariants use it:
  `StockInv` (a call that is to be rejected has rolled back; an untouched limited product is limited in every copy) for
  `StockConservation`, `LimitInv` (the purchases that had ended when a call began never count more than they did then, so what passed the check of the
  limit fits until it is ordered, and after) for `LimitOfEarlierPurchases`, `BalanceInv` (an order that is debited or rolled back exists, so its debit is counted)
  for `BalancesAreAccounted`.
* `SrpPayoutProofs`. `SrpInv`: a copy in flight is a legal successor of the row it was made from, so a save that
  is not torn is a move of the book. From it `PaidApproved`, `Refinement` (`Spec => ImplementsBook`, with batches
  as one `Pay`) and, through the book, `PaidOnceInv`: the locking transactions alone pay once.
* `TaskRunnerProofs`. That holders own their lock is not inductive: `LockInv` adds that tokens are handed out once and
  identify their owner. From it `OwnersKeepTheirLock`, `MutualExclusion`; `RowInv` links rows, orphans, waits and
  locks for `OpenRowsHaveLocks` and `CleanShutdowns`; also `ClosedManagerStaysClosed`. `ManagerWaits` adds to `AcceptedRunsAreWaitedFor` that the
  manager is closed when it is waited for, so nothing joins the wait group after it was found empty (`AcceptedRunsEnd`).
* `QQActionQueueProofs`. `QueueInv`: a busy worker has an existing action and attempts left; unless the
  lease lapsed the row is its own (`BusyOwns`); a sent action is settled or in the hands of the one worker that
  sent it (`SentIsRecorded`); what was found valid still is (`FreshIsValid`). From it `NoNeedlessResend`,
  `SettledStaysSettled`, `LeaseIsExclusive`, `OnlyValidIsSent`.
* `TableDataProofs`. The invariant joins the rows, the cache, the requests and the guard: an old answer belongs to a cancelled
  request. A fetch marks first and replaces then, so its lemma starts from a weaker state of the requests
  (`RequestsBefore`). From it `NewestOnly`, `CacheKeys`, `FreshReload`, `PageGuard`, `OnePage`.
* `PageAccessProofs`. `GrantsAgree` compares the two tables page by page for every set of roles, capabilities and
  marks; the invariant is that each application shows what it grants. From them `MenusAgree`, `AccessAgrees`,
  `ReloadsReturn`, `LockWins`, `PagesAreGranted`.
* `FrontEndProofs`, the session. `SessionInv`: before `/me` answered, the bootstrap waits, there is no token, the callback
  page is settling one or was left while it did (`FreshOrWaiting`); the live request of the callback page carries the token of the
  store as long as no impersonation replaced that (`CallbackSettles`); a badge request in flight carries the token of the session until an
  impersonation replaces it (`BadgeCallsAreOurs`). `BecomeShape` says once what a step with all its effects leaves in flight.
  From it `PagesWaitForMe` and `BadgesOfTheSession`.
* `FrontEndProofs`, the tabs. The store alone is sound (`Sound`): one tab per route name, the current tab is open, no open tab is
  to be dropped. Each operation of the store keeps that and what else it promises, in a lemma of its own over the sequence of tabs.
  Closing is a fold (`Without`; the library's `SelectSeq` cannot be expanded by the prover), whose facts (`FoldsInduction`, `FoldExists`) are again proved by a least counterexample.
  `ClosedIsForgotten` is not inductive: `TabsInv` adds that the page on the screen and the one that is
  loading are tracked as the cached ones are, that is, have a tab or are to be dropped, and that nothing is shown or waits for an
  answer before the start has registered the routes, or after it failed (`StartInv`). From it `OneTabPerRoute`,
  `CurrentTabIsOpen`, `OpenTabsStayCached`, `ClosedPagesAreForgotten` and the action property `PinnedTabsStay`.

Every invariant and every action property of the runs that pass has a theorem. Only model-checked is liveness
(`EveryOperationEnds`, `FailedDebitIsRejected`, `ShutdownTerminates`, `LocksAreReleased`, `QueueDrains`, `BootSettles`): fairness
is defined with ENABLED, which the prover does not expand.

## 6. Not modelled, and why

* Reconcile runs of QQ (`qq_governance_reconcile.go:77`, `296`): run and first task, completion and departure of
  members are separate statements; only the check of one member and the sweep are in `QQActionQueue`.
* `UpdateSchedule` (`task.go:219`): runtime schedule, then database, then a reverting step.
* The order of row locks in batches over many wallets (`srp.go:945`, fleet PAP): TLC's instances lock one
  wallet at a time.
* Welfare, PAP, captains, mentors and recruitment: each is a reward given once under a row lock, posted with
  operations that `SysWallet` has; what is particular to them are sums over imported data.
* ESI queue, automatic roles, galaxy claims, Mumble identities, SSO: candidates for further modules, in that order.
* Single-row CRUD, queries, mail, audit rows: no protocol.
* Pages, forms, charts and translations of the front ends. They are by far the most lines of the repository (single
  pages of more than a thousand lines, twice, and two catalogues of messages), which keeps the share of mapped lines low:
  they are templates and texts over what `useTable`, the session and the server hold, and a module for each would
  restate forms rather than state a property. The state they share is modelled.
* Whether a page's requests are admitted by the server's own middleware: a comparison of the rules of the pages with the
  router of the server would be the next step after `PageAccess` (section 4 lists four differences).

## 7. Running

`tlc -config MCShopOrders.cfg MCShopOrders` (likewise for the others; `MCShopDelivered.cfg` belongs to `MCShopOrders`,
`MCSrpPaidAgain.cfg` to `MCSrpPayout`, `MCQQVersions.cfg` to `MCQQActionQueue`) and `tlapm SysWalletProofs.tla`, likewise for
the other seven `...Proofs` modules. The longest run takes about two minutes.
