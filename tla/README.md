# Chilimba in TLA+

Chilimba runs rotating savings groups ("chilimba"): members pay a contribution in
every round of a cycle, the pot of a round goes to its recipients, and members may
borrow against their savings. The backend (`src/backend`, Express and Prisma over
Postgres, BullMQ over Redis) holds the rules; the frontend (`src/frontend`, Vue) shows
them. This directory models the backend's money, membership, account and message rules and the
parts of the frontend that keep state, checks them with TLC on small groups, and proves
the most important properties for groups of any size.

## The system

A request handler is an `async` function of a service. Every Prisma call is a
statement or a transaction of its own, so **between two calls of a handler any other
handler runs**, and a handler can die between any two calls: what is committed stays.
No handler takes a lock. Almost every handler has the form *read, check, write by id*.
That shape is where the hard behaviours of this program come from, and it is the shape
of most modules here. The frontend has the same shape with requests for calls: a click
starts a chain of requests, and other clicks and answers come in between.

| component | state it keeps | operations | talks to | what is hard | module |
|---|---|---|---|---|---|
| contributions | contribution rows, `totalCollectedNgwe`, round status | upload, record, approve, reject, waive, `maybeAdvanceRoundStatus` | cycles, notifications, file storage | the last two recordings of a round; counting; stale status writes; files outside the database | `RoundLedger`, `ContributionProofs` |
| payouts | payout rows | record, assign by hand, draw anew | cycles, scheduler | share computed from an old total; recipients replaced while being paid | `RoundLedger` |
| late detection | contribution rows | daily scan, flip one by one | contributions | rows changed since the scan | `RoundLedger` |
| reports, reminders | none of their own | sums and lists | contributions, payouts | statements that must agree | `Reports` |
| cycles | cycles, rounds | open, start, complete, auto-complete, auto-open | scheduler, payouts | check and write apart; completion seen by nobody | `Cycles`, `CycleContract` |
| cycle scheduler | none | rounds, recipients | cycles, payouts | wrap-around and exhausted pools | `Scheduler` |
| loans | loans, repayments | request, approve, reject, repay | contributions, cycles | lost updates of the balance, two open loans | `Loans` |
| members, group settings | members, positions, settings | add, move, swap, remove, change settings | cycles | capacity, positions and locks checked before the write | `Members` |
| invoices, payment proofs | invoices, proofs, tokens | create, upload, approve, reject, cash, group from token | groups, file storage | approval against rejection against cash; numbering | `Invoices` |
| payment settings | one table of accounts | save, look up with fallback | invoices, groups | three kinds of rows told apart by nulls | `PaymentSettings` |
| demo data | rows of every table | one script, run again and again | the database | a crash in the middle, a repetition after use | `Seed` |
| one-time passwords, accounts | codes, users | sign up, resend, verify, activate, reset | notifications | parallel attempts, two codes at a time | `Otp` |
| sessions | tokens, blacklist in memory, the client's stores | log in, refresh, log out, reload | the API | a refresh shared by waiting requests; restart | `Session` |
| WhatsApp group link | link, challenges | send code, verify, unlink | notifications | verify after unlink; one chat, two groups | `GroupLink` |
| notifications | message log, job queue | send, retry, worker | Evolution API | late answers, duplicates, rows that do not tell | `Delivery`, `Outbox` |
| cycles page | two stores, flags, modals | navigate, select, refresh, every write | the API | chains that overlap, answers out of order | `CyclesPage` |
| settings page | forms, dialog, panel | pick a group, save, link | the API | a form of one group saved into another | `SettingsPage` |
| money and phone numbers, S3 client, other pages | none | format, parse, show | - | - | not modelled |

`PROJECT.json` lists the files of each component, whether it is modelled, and every
hazard at the line where it bites with the properties that look after it.

## Modules

    RoundLedger          contributions, payouts, late detection, the advance of one round
    Reports              reports and reminders about that round; EXTENDS RoundLedger
    ContributionProofs   the file that proves a contribution
    Scheduler            rounds and recipients of a cycle, as operators
    Cycles               life of the cycles of a group; EXTENDS Scheduler
    CycleContract        what the documents promise of cycles; Cycles implements it
    Loans                loans of the members of a group
    Members              members, queue positions, settings and their lock
    Invoices             invoices, proofs of payment, tokens, the creation of groups
    PaymentSettings      the accounts payers are told
    Seed                 the demo data script, over PaymentSettings
    GroupLink            the link of a group to a WhatsApp chat
    Otp                  one-time passwords and the account they open
    Session              a browser tab and its session with the server
    Delivery             the way of a WhatsApp message
    Outbox               what callers may rely on; Delivery implements it
    Tab                  what the two pages of a tab share
    CyclesPage           the cycles page over the stores it shares; EXTENDS Tab
    SettingsPage         the settings page with its dialog and its panel; EXTENDS Tab
    MC...                instances of them for TLC
    ..._proofs           theorems about them: eight modules, listed under What is proved

`MCRoundLedger` checks `RoundLedger` with `Reports`; `MCSettings` checks `PaymentSettings`
with `Seed` (the script and the server share the table) and, apart, `GroupLink`;
`MCInvoices` checks `Invoices` and, apart, `ContributionProofs`; `MCCyclesPage` checks a tab
that shows `CyclesPage` or `SettingsPage` and extends both. Parts that share no row are explored one at a
time, in one run: their product has no behaviour that matters and they do not.

Conventions. `r \in Requests` is a handler in flight. `pc[r]` names the database call
it makes next and `loc[r]` holds what it has read; an action is one call, with what
the code computes from its result before the next one. Consecutive reads that only
decide whether to go on, of which nothing else is kept, are merged with the read whose
result is kept. `Fail(r)` ends a handler between two calls: a crash, or a call that
throws. A handler that writes with its first call is a single action. Authorisation by
role is left out: an action is a request that has passed it. Amounts are integers
(`BigInt` in the code). Messages, logs and formatted text are left out unless a module is
about them. Definitions headed *Slip* are plausible mistakes in the definition that
follows: nothing uses them, they show that a property would notice. Auxiliary variables
(`crossed`, `overlapped`, `failed`, `orphaned`, ...) record history for the properties and
never guard an action.

### RoundLedger

One round and its cycle. `ledger` is the contribution row of each member (`recorded`
is: `paidDate` is set), `total` is `totalCollectedNgwe`, `payout` the payout rows
(`draw` stands for their ids: rows that were deleted and created again differ), `status`
and `cycle` the two statuses, `active` the members whose status is active, `pastDue`
the clock against due date plus grace. It is the last round to be completed; earlier
rounds show through `EarlierPaid`.

| code | actions |
|---|---|
| `uploadContributionProof` | `UploadRead`, `UploadCreate` |
| `recordContribution` | `RecordRead`, `RecordCommit` or `RecordConflict`, then `Advance...` |
| `approveContribution` | `ApproveRead`, `ApproveCommit`, then `Advance...` |
| `waiveContribution` | `Waive` |
| `maybeAdvanceRoundStatus` | `AdvanceReadRound`, `AdvanceReadRows`, `AdvanceReadPayouts`, then `AdvancePool`, `AdvanceCollect`, `AdvancePaid` or `AdvanceNothing` |
| `autoCompleteIfDone` | `AutoCompleteRead`, `AutoCompleteWrite` |
| `runLateDetection` | `LateScan`, one `LateFlip` for each row |
| `recordPayout` | `PayoutReadPot`, `PayoutReadRows`, `PayoutCommit`, `PayoutComplete`, then `AutoComplete...` |
| `assignPayoutRecipients` | `AssignRead`, `AssignCommit` |
| `rerollRandomPayouts` | `RerollRead`, `RerollCommit` |
| `startCycle`, `completeCycle`, `addMember`, `removeMember` | one action each; their inner steps are the subject of `Cycles` and `Members` |

Three auxiliary variables record history: `unattended` (since the last recording or
approval something happened after which the code does not look at the round: a waiver,
a late flip, a removal, a dead request), `waivers` (some row was waived once) and `inTime`
(the members whose payment was recorded in time while no other handler was about to make
their row late, `MakesLate`, and whose row was not waived since).

`Reports` computes over these rows what `getCycleSummary`, `getMemberStatement`,
`getOutstandingContributions`, `getPayoutLedger` and `runContributionReminders` return.
Who has paid in time is a matter of history (`inTime`), never of what the row says now.

### ContributionProofs

The row of one contribution names a file that another service stores; nothing ties the
two. `stored` are the files, `proofKey` is the one in the row.

| code | actions |
|---|---|
| `uploadContributionProof`, `uploadBufferToCloudinary` | `StoreFile`, `FindRow`, `ReplaceProof` or `CreateWithProof`, `Notified`; a call that throws `UploadThrows`, then `CleanUp` |
| `rejectContribution`, `destroyAsset` | `ReadProof`, `DestroyProof`, `ClearProof` |
| `recordContribution`, `waiveContribution` | `RecordWithoutProof`: the row without a file |

`abandoned` are the files destroyed by a request that left the row naming them.

### Scheduler, Cycles, CycleContract

`Scheduler` translates `roundsCount`, `generateRounds`, `pickRecipients` and `drawN`
(a draw is any of its outcomes). `Cycles` has the steps of `openCycleInternal`
(`OpenRead`, `OpenCheck`, `OpenNumber`, `OpenCreate`), `startCycle` (`StartRead`,
`StartWrite`), `completeCycle` (`CompleteRead`, `CompleteWrite`) and
`autoCompleteIfDone` (`AutoCompleteRead`, `CompleteWrite`); after a completion the
same request goes on to open the next cycle. What happens inside a round is one action,
`RoundDone`, with the call to `autoCompleteIfDone` that follows. `crossed` records
that two handlers have been between their check and their write in a way that matters:
two openings past the check, or a start and a completion of one cycle. `orphaned` holds
the cycles whose last call to `autoCompleteIfDone` came before the start or died.

`CycleContract` is the abstract specification: cycles opened one after the other in
number order, never back from completed. `ContractUnlessCrossed` says that every step
of `Cycles` is a step of the contract or leaves the statuses alone, as long as nothing
has crossed.

### Loans

`loan` are the rows, `repayments` the sum of the repayment rows of each loan. Each
handler is a read and a write. Savings, the setting and the group's cycle change at any
time. The interest rate and the multiplier are constants: a loan keeps the rate it
was created with, and no property compares two of them; fractional multipliers and the
floating-point product in `requestLoan` are left out.

### Invoices

The way from an invoice to a group. `invoice` and `proof` are the rows, `created` the
invoices in the order of `createdAt` (one clock that does not go back), `files` the
stored files, named by the proof they are for, `token` the group-creation token of an
invoice, `users` the customers with an account, `groups` the invoices that have a group.

| code | actions |
|---|---|
| `createInvoiceWithSequentialNumber` | `CreateRead`, then `CreateWrite` or `CreateConflict`; after a conflict `CreateRetry` |
| `uploadPop`, `destroyAsset` | `UploadRead`, `UploadFile`, then `UploadCreate`, or `UploadCreateFails` and `UploadDestroy` |
| `approvePop` | `ApproveRead`, `ApproveWrite`, `SignToken` |
| `recordCashPayment` | `CashRead`, `CashWrite`, `SignToken` |
| `rejectPop` | `RejectRead`, `RejectWrite` |
| `createGroupFromToken`, `upsertCustomerUser` | `GroupRead`, `UserRead`, `UserCreate`, `GroupCreate` |

The transactions run at read committed: what they read first may have changed when they
write, so reads and writes are steps of their own, and the writes of one transaction
are one step (each begins with the proofs, whose row locks order them). A unique key
that is hit (`invoiceNumber`, `phone`, `invoiceId` of a group) ends or restarts the
request. `failed` records that a request has died or a file could not be destroyed.

### Members

`member` has a row per user (status, role, position), `maxMembers` and `terms` are the
settings, `cycle` and `agreed` the cycle and the terms it was opened with, `paid` who has
been paid out in it.

| code | actions |
|---|---|
| `addMember` | `AddRead`, `AddTx`, `AddWrite` |
| `updateMember`, `swapAndUpdate` | `UpdateRead`, then `RoleWrite` or `SwapRead`, `SwapWrite` |
| `removeMember` | `RemoveRead`, `RemoveWrite` |
| `updateGroupSettings` | `SettingsRead`, `SettingsWrite` |
| `openCycle` | `OpenRead`, `OpenWrite`; starting, paying and completing are one action each |

`crossed` holds the topics (seats, position, exit, terms) on which two handlers
have been between check and write at once.

### PaymentSettings, Seed, GroupLink

`PaymentSettings`: `row[i]` is the scope (platform, group or invoice) for which row `i` was
last saved, and `told` what payers were answered. Auxiliary: `saved`, the invoices and
groups whose own account was saved once, and `robbed`, the groups whose row a save of the
platform's account has found. Every upsert is `SaveRead`, `SaveWrite`
(lookup, then create or update by id), every lookup `ShowRead` with `ShowFallback`; `Refused`
is the unique key of `invoiceId`.

`Seed` is the script as a sequence of statements (`Script`) that upsert, find, create if
something was absent, need, or update a row; `Statement` runs the next one, `Interrupt` stops the run, `Use`
is what people do to the rows between runs. `torn` says that a run was cut between creating
a group or a cycle and what belongs to it.

`GroupLink`: `sendWhatsappGroupVerification` is `AskCode`, `Invalidate`, `CreateChallenge`;
`verifyWhatsappGroupLink` is `EnterCode`, then `WrongCode`, or `RightCode` and `Link`;
`unlinkWhatsappGroup` is `Unlink`, `DropCodes`. `renounced` holds the groups unlinked since
a code was last asked for.

### Otp

The codes of one phone (`otp`, in order of creation) and its account. `createOtp` is
`RequestCode` (after `assertResendAllowed`), `Invalidate`, `Create`; `verifyOtp` is `VerifyRead`, then `VerifyWrong`,
or `VerifyRight` and `UpdateAccount`, which marks the account verified or sets its password. `Signup` and `Invite` are the two ways an
account comes to be, `GrowOld` makes a code expire and then leave the resend window.

### Session

A tab and the server. `call[q]` is a request of a page with its `step` (sent, waiting for a
refresh, ...), `leader` the one that refreshes, `user` and the stored token the session; `issued` and
`expired` are the access tokens, `revoked` the blacklist, bounded and in memory.
`Serve`, `RefusedAgain`, `RefusedQueue`, `RefusedNoRefresh` and `RefusedRefresh` are the branches
of the interceptor, `RefreshCheck`, `RefreshSign`, `RefreshDone` and `RefreshFailed` the refresh
on both sides, `Restore...` what a reload does, `Logout...` the two halves of a logout on the
client and the server between.

### Delivery, Outbox

`Ask` is a call of `sendWhatsApp`, of `notifyGroup`, or a job; `Post` an attempt, `Take` the provider
taking it, `TakeLate` taking one that has timed out here; `Ok`, `Rejected`, `Error`, `Timeout` the
answers; `TryAgain` the retry loop; `Log` and `Note` the rows of the log and the
notification; `Again` (part of `Finish`) the next attempt of the queue; `DatabaseFails` and
`Crash` the faults. `Outbox` is the promise: a message asked for is reported sent or
failed once, sent only if the provider took it, and arrives at most `Limit` times. The
refinement mapping is `Promise` in `Delivery`.

### CyclesPage, SettingsPage

`CyclesPage`: a call `c` is a chain of requests, `pc[c]` the request it waits for and
`order` the requests in the order they were sent. `Serve` is the server, `Take` the code after
the `await`, `Refused` and `Lost` an error or a lost answer (`Throws`: `finally` clauses run).
`Navigate` is `loadForRoute` with the watcher of the route, `Refresh` and `Select` the toolbar,
`Write` every button that changes something (`Offered` says when it is shown),
`OpenReview`, `OpenPay`, `CloseModal` the two modals. Ghost: `disturbed`, an answer was lost
or overtook another.

`SettingsPage`: four chains (page, form, dialog, panel) of the page, its dialog and its
panel, with the values in the forms told apart by the group they belong to.

## What is checked

| run | instance | properties |
|---|---|---|
| `ledger_concurrent` | 2 members, 2 handlers, queue with 2 recipients, cycle started | `NoLostAdvance`, `CollectedCoversRecorded`, `PaidWithinPot`, `ReportsAreTrue` |
| `ledger_serial` | 2 members, 1 handler, random, manual or pool, cycle open or started, fair | `PayoutFinal`, `PaidRoundCompletes`, `SettledRoundAdvances` |
| `cycles` | 2 handlers, 2 cycles, up to 2 members, manual and random | `NoLostCompletion`, `ContractUnlessCrossed`, `QueuesAreFair`, `RandomDrawsSpread` |
| `loans` | 1 member, 2 loans, 2 handlers, interest of a half | `RepaidInFull`, `BalanceExact`, `ClosedIsFinal` |
| `invoices` | 2 invoices of 1 customer, 2 proofs, 2 handlers, 2 attempts, fair; or 1 contribution with 2 files | `FilesHaveProofs`, `PaidOnce`, `ReviewIsFinal`, `PaidGetsToken`; `ProofIsStored` |
| `members` | 3 users, 2 handlers, 4 requests | `PositionsDistinct`, `TermsLocked`, `CapacityRespected`, `LeavesPaid` |
| `otp` | 2 handlers, 3 codes, 2 attempts, 1 resend | `OnlyByPhone`, `ResendsBounded`, `AcceptsTheLastOnce` |
| `session` | 2 logins, 2 calls, 3 access tokens, blacklist of 1, fair | `LeftStaysOut`, `LogoutEndsSession`, `CallsEnd` |
| `delivery` | 1 message of each kind, 4 tries, 3 attempts of a job, 1 stall, fair | `LogsAreTrue`, `KeepsPromise`, `EverySendEnds` |
| `pages` | 2 groups, 2 rounds, 2 chains, 3 clicks, fair; or 2 groups, 3 clicks | `QuietPageIsTrue`, `WritesStayInGroup`, `Settles`; `GroupsKeepTheirOwn` |
| `settings` | 2 groups, 1 invoice, 4 rows, 2 handlers, 4 saves, 3 runs of the script; or 2 groups, 2 chats, 2 codes, 4 guesses | `AccountsAreKept`, `RunsRepair`; `OneGroupPerChat`, `UnlinkedStays` |
| `payers_account` | as `settings` | `PayersSeeTheirOwn`, violated |

**Under any interleaving of two handlers and any crash**: no advance of a round is lost;
the total never misses a recorded payment; nobody is paid more than the pot holds;
the summary of a round misses no recorded payment unless one was waived. Who has paid in time is
neither listed as outstanding nor reminded, with one exception: a late flip, or a late recording
or approval, that was already under way when the payment was recorded makes the row late after all
(`lateDetection.ts:74` reads, line 75 writes), and the member is asked again.
Repaid loans are covered by their repayment rows. A cycle is not left in progress with all
rounds done unless the last request to look died or looked before the start. Every stored file of an
invoice's proof has its row, unless a request died or a file could not be destroyed; the
file a contribution names is stored, unless a rejection died half-way or an upload failed
after its row; a paid invoice gets its token unless a request died. An account opens only by a
code that reached the phone, and the codes of a window exceed the limit by less than the
handlers. The account of an invoice or of a group is there for good once saved, except that of a
group whose row a save of the platform's account has found. A run of the script
completes the demo data, unless an earlier one was cut between a group or a cycle and what belongs to it.
Sending ends, and is reported truly.

**Unless two handlers cross on the same thing** (one handler in flight in `ledger_serial`,
`~ overlapped` in `Loans` and `Invoices`, `crossed` in the others): a recorded payout is
final, balances are exact, closed loans stay closed, cycles follow the contract, an invoice is
paid by exactly one approved proof and reviews are final; a group does not outgrow its
capacity, places are distinct, members leave paid, terms are locked; a code is accepted once
and only the last one is; a chat has one group and an unlinked group stays unlinked; who
signed out stays signed out. With crossing each of these can fail: these properties say
precisely which guarantees rest on handlers not running together.

**In a tab**: however clicks overlap, once nothing is under way the cycles page shows the
group of the URL, its cycle and the selected round as the server has them, unless
answers were lost or overtook each other; whatever they do, a write stays in the group of the
URL at the click, no flag stays set, and (`CallsEnd`) every request of a page ends. On the settings page,
as long as no other group is picked there, a group is never given the settings or the
account of another.

**Schedules**: `QueuesAreFair` and `RandomDrawsSpread` evaluate `generateRounds` against
its promise for the queues in `Lines`, which are those of up to five members in the run
(`Samples`), and every number of recipients they can have; the draws only where a plan has few
enough outcomes to enumerate. They do not depend on the state and are evaluated in the states
before the first request only. The theorems below are about queues of any length.

### Disagreements

`payers_account` shows one disagreement with a document, quoted in `PROJECT.json`: the
platform's account is looked up as the row without an invoice
(`payment-settings.service.ts:86`), which the row of a group is too.

The others, met while modelling, are stated here with the definition that shows them where
there is one (it can be put in the place of the properties of the run of its module).

| where | what happens | definition |
|---|---|---|
| `contributions.service.ts:251` | approving a late or waived contribution adds its amount to the total again; line 271 says "only ... for non-waived" | `RoundLedger.CountedOnce` |
| `lateDetection.ts:75` | a row flipped late though nobody paid counts as settled when the round advances, and as collected in the summary and the statement; one that was paid in time since the read becomes late too, and its member is asked again; `contributions.md:31` calls late what was paid after the grace period | - |
| `reports.service.ts:179` | a member recorded late stays listed as outstanding; `docs/product-specs/reports.md:9` lists who has not paid | `Reports.OutstandingHaveNotPaid` |
| `payment-settings.service.ts:95` | a save of the platform's account may find the row of a group and write it for the platform: the group's own account is gone | `robbed` of `PaymentSettings` |
| `cycles.service.ts:410` | rounds completed before the cycle is started: it never completes by itself, `docs/product-specs/cycles.md` says it does | `RoundLedger.CycleAutoCompletes` |
| `cycles.service.ts:90` | two requests to open a cycle both pass the check; `cycles.md:24` allows one | `Cycles.OneInProgress` |
| `payouts.service.ts:354` | a new draw picks a member already paid while another is not; `cycles.md:33` | `Cycles.RandomDrawsTheUnpaid` |
| `loans.service.ts:83` | two requests of one member both find no open loan | `Loans.OneOpenLoan` |
| `payment-proofs.service.ts:103` | a second proof of a paid invoice stays pending, is rejected later, and its sender asked to upload again | `Invoices.RejectLeavesPending` |
| `otp.service.ts:69` | a locked code is also used, and nobody reads used codes: the lockout never refuses a request; `auth-design.md:36` says it does | `Otp.LockoutRefusesRequests` |
| `groupWhatsApp.ts:52` | the JID of a chat does not fit `toPhone`, a second row of a notification hits a unique key (`schema.prisma:538`): the message is out, its row is not; `RELIABILITY.md:21` says every attempt is recorded | `Delivery.EverySendLogged` |
| `seed.ts:9` | "Idempotent", but a crash between group and settings makes every later run throw, and a run resets what users have changed; no platform account is made when a group has one | `Seed.RunsRepeat` |
| `cloudinary.ts:12` | a file can be destroyed "on re-upload"; `contributions.service.ts:87` replaces the key and leaves the old file | - |
| `contributions.service.ts:131` | the clean-up of an "orphan" also runs when a read after the commit fails: the row names a file that is gone | `abandoned` of `ContributionProofs` |
| `contributions.service.ts:332` | a rejection clears the row by id: the file of an upload since its read stays behind; the proof of a paid row can be cleared | - |
| `GroupSettings.vue:43` | the picker of another group changes the URL, not the form, which is then saved into the other group | `SettingsPage.WritesWhatItShows` |
| `GroupSettings.vue:113` | amount and frequency are always sent, so that `groups.service.ts:249` refuses every save while a cycle runs, whatever was changed | - |
| `GroupCycles.vue:236` | an approval acts on the round selected at the click, not on the one of the proof shown (`user-manual.md:205`) | - |
| `stores/cycles.ts:181` | after a payout that completes the cycle the page offers no new one until a refresh (`GroupCycles.vue:286`) | - |
| `contributions.service.ts:71` | with answers out of order the page can show the members of one group with the cycle of another; record and upload do not check that the member belongs to the group | - |

### Bounds

Two handlers are enough for every race of the form *both read, both write*; three add
nothing to a pair of conflicting calls, and the theorems below hold of any number. The
bounds of each run:

- *Ledger.* Two members are the least for which "the last two recordings" and "one
  recipient leaves the other out" make sense. `MaxTotal` stops new recordings when the
  total could pass it: every member can be recorded, or one counted twice while the other
  is waived; `MaxDraws` allows one replacement of the recipients.
- *Cycles.* `MaxCycles = 2` gives a cycle and its successor; past it `OpenNumber` has no
  number to take, so the request waits, and a later fault may end it.
- *Loans.* Amounts 1 and 3 and a rate of one half make rounding and overpayment happen;
  `MaxRepaid` lets repayments overshoot the amount due.
- *Invoices.* With two invoices a creation can lose its number twice, so `MaxRetries`, 3
  in the code, is 2 to make giving up happen; two proofs are enough for one approved and one
  left over; one customer, because only invoices of one customer meet, at the account. Two
  files of a contribution: one replaced by the other.
- *Members.* Three users for capacities of two and three; four requests (`MaxBegun`), so that
  two can cross after two that prepared them; a treasurer is a member here, as no check of
  these handlers tells them apart.
- *Otp.* Three codes: two of one purpose and one of the other; two attempts and one resend
  reach both limits (five and three in the code).
- *Session.* Two logins, so that an old token meets a new session; three access tokens: one
  that expires, one refreshed, one of the other login; a blacklist of one, so that it drops.
- *Delivery.* One message at a time, for messages share nothing; the four tries and three
  attempts are the code's; one stall of a job.
- *Pages.* Two chains, two groups, two rounds, one cycle per group (so the button of the header
  that opens the next cycle while one is shown is left out), and in each round the
  row of the one member who uses the tab, the owner of both groups, which may hold a proof already; three clicks. The receipt
  of a paid row, the assignment of recipients and a new draw are left out (the latter two have
  the chain of a payout), a waiver has that of a recording. The settings page: three clicks, the dialog is not
  closed while its request is under way, the panel not used before the group has come,
  and the tab stays on the page.
- *Settings.* Four rows for two groups, an invoice and the platform; three runs of the script:
  one cut, one that repairs, one more; loops of the script are one statement, and it runs while the server
  stands still. Two codes, attempts limited to two, and guesses for both; codes never
  collide.

Handlers are interchangeable, so the runs without liveness use symmetry over `Requests`.
Deadlock is checked in the ledger, cycles, loans and invoices runs, which never stop: the
clock, the settings or the environment can always move. The others say `CHECK_DEADLOCK
FALSE`, for they end when their budget of codes, requests, clicks, runs or messages is used up.

### Fairness

Nobody is obliged to make a request, and the environment owes nothing.

- `RoundLedger`, `Invoices`: weak fairness of `Resume(r)`. A handler that has begun takes
  its next step, because the event loop resumes it when its database call returns. A crash may
  always end a request; the properties then release their promise (`unattended`, `failed`).
- `Session`: of each branch of the interceptor, of the refresh, of the restore and of the end of
  a logout: the HTTP client answers or times out after 15 seconds.
- `Delivery`: of `Proceed`. Attempts time out, timers fire, and the queue gives a job that
  failed or stalled to a worker again. The provider is not fair: it may never take anything.
- `CyclesPage`: of each chain: a request is served and its answer delivered, or refused.
  Answers may overtake one another.

## What is proved

Eight modules of theorems. They cover every module that has state except `Seed` and, of the
properties the runs check, all that are neither liveness nor in the list at the end of this
section. Everything holds for any number of rows, members, messages and handlers in flight, and any
settings, limits and amounts that the assumptions on the constants allow; nothing but those
named `ASSUME`s is assumed, except in `RecordedPayoutsAreFinal`, which says what it adds. Each server module proves its type invariant (`TypeCorrect`;
`ProofTypeCorrect`, `LinkTypeCorrect` and `PaymentTypeCorrect` where components share a
module), and so do the session and the settings page (`SessionTypeCorrect`,
`SettingsTypeCorrect`). The hard part of a type invariant is that every field a handler keeps
has a value its next call can use.

Two patterns recur. *A stale reading still holds*, because what was read can only grow or
is never undone: then the property holds whatever crosses. *Nobody crosses*: while the
auxiliary `overlapped` or `crossed` is false one handler is at work on the thing, and
what it has read is what it will write to (`FoundHolds`, `NobodyElse`): then the property
has that proviso. The first needs an invariant about every handler in flight; the second
needs the invariant that there is one.

`RoundLedger_proofs`
- `NoAdvanceIsLost`: `NoLostAdvance` is inductive together with `TypeOK`. A commit puts
  its request at `advance`; each of the three reads keeps the request on its way unless
  the round is no longer pending or somebody is unsettled; the steps that could break
  the hypothesis without looking raise `unattended`.
- `TotalCoversRecorded`: the invariant `CollectedCoversRecorded` needs to be
  strengthened. A request that read an unpaid row will add the amount, so with
  `CountingInv` a row that is not settled has not been recorded unless by a waiver; a
  step that records one more member adds the amount.
- `PayoutsFitThePot`: `PotInv`: in a queue group nobody assigns or draws recipients, so those a
  payout has read are still the recipients, and the share it computed from an older total
  is affordable from today's, for the total only grows.
- `SettledRowsStaySettled`: an action property; every action that writes a row writes a
  settled status, except the creation of a row that is refused when there is one.
- `CompletedRoundsArePaid`, `PaidRecipientsStayPaid`: `CompletionInv`: in a queue group, the payouts
  a handler found paid on its way to completing the round still are, since recipients
  never change there and no step takes a payout back. Its amount is not final: a second payout that
  crosses may write another one.
- `ReportsTellTheTruth`: `ReportsAreTrue`, whatever handlers cross. With `RecordedInv` a recorded row
  is settled, and waived only after a waiver, so nothing recorded is missing from the summary
  (`NothingRecordedIsMissing`). `InTimeInv`: the row of a member in `inTime` is paid, and no handler in
  flight is about to make it late, for those that begin later find it paid and leave it
  alone (`BeginMakesLate`); so its member is not dunned (`NobodyIsDunnedTwice`). A flip that had read the row before is
  excepted in `inTime`, as the code has it. That a paid round has paid its
  recipients rests on `CompletedRoundsArePaid` (`PaidMeansPaid`), for the ledger calls a completed
  round paid without looking at its rows; that it has paid out something, on `AlikeInv`: a payout
  gives all recipients one share, which is not nothing unless a contribution is. What was
  paid out is a sum over a set (`PaidOutAlike`), and `SumOfAlike` says what a sum
  of equal shares is: the function a fold chooses satisfies its equation, because the closed form
  does, and there is no smallest set on which the two differ.
- `RecordedPayoutsAreFinal`: `PayoutFinal`, under the hypothesis that handlers do not overlap
  (at most one request): with `SerialInv` the handler about to pay or to assign has found nobody
  paid, and nobody else can have changed that. Without the hypothesis it is false: an
  assignment that crosses a payout replaces it.

`Invoices_proofs`, with the proofs of contributions
- `InvoicesAreNumberedInOrder`: with `NumbersInv` a request about to insert holds a
  number already taken or the next one; if its number is free, it is the next one,
  whatever was created since it was computed.
- `GroupsArePaidFor`: `PaidInv` says what a request has found on its way: a committed
  payment before the token, a paid invoice of the same customer and then an account
  before the group. Paid invoices and accounts stay (`PaidStays`), so a stale finding
  still holds.
- `NoFileLeaks`: `FilesHaveProofs` is inductive; only the request that holds a file
  releases it.
- `InvoicesArePaidOnce`, `ReviewsAreFinal`: from `SerialInv`: one handler is in flight
  (`Alone`), the invoice and proof it found pending are so when it writes (`FoundHolds`),
  and the approved proofs of a paid invoice are a singleton (`PaidByOne`), which is what
  the cardinality in `PaidOnce` says and what a step can be checked against.
- `NamedFilesAreStored`: `Holding`: a file is in the hands of the one upload that stored it
  until it is in the row, and from then on only of requests that read it there; so whoever
  destroys it never destroys a file that a later step puts into the row.

`Loans_proofs`
- `RepaidLoansAreCovered`, `RepaymentsFollowDisbursement`: from `IInv`: the balance a loan shows, and the
  one a repayment in flight has read, never exceed the repayment rows (`BalanceLags`,
  `InFlightSound`); a loan that is active, or was when a repayment read it, has been
  disbursed (`ActiveIsDisbursed`); a row not yet created has no repayments
  (`NoneIsUnpaid`).
- `SerialBalanceIsExact`, `ClosedLoansStayClosed`: from `SerialInv`: without overlap the
  handler in flight is the only one, has found the row as it still is, and a loan that is open owes
  something (`OpenOwes`), which is why an overpayment closes it.

`Otp_proofs`
- `AccountsOpenByPhone`: `AccountInv` adds to `OnlyByPhone` that a handler works on a code of
  the purpose it is for, that it has redeemed the code before it updates the account
  (`CodesKnown`), and that without an account there are no codes (`NothingWithoutAccount`).
- `WindowsAreBounded`: `WindowBounded` counts the codes of the window together with the
  handlers that have passed the check and not created theirs: a check leaves room for all.
- `LastCodeAcceptedOnce`: `SerialInv`: while nothing crossed, a code being checked is the
  last of its purpose and unredeemed (`CheckedIsLast`); earlier codes are used
  (`EarlierAreUsed`), all of them between the invalidation and the creation of the next
  (`ReplacedAreUsed`); and no handler replaces a code that another checks (`Apart`).
- `LockedCodesAreUsed`: every write that locks a code uses it, none makes one unused.

`Services_proofs`: the link to a chat, the payment settings and the delivery of messages
- `ChatsAreNotShared`: `LinkingInv`: as long as two handlers have not been at the link at once,
  one handler at most is about to link, and the chat it holds is no other group's.
- `UnlinkedGroupsStay`: `RenouncedInv`: a group in `renounced` has no open code and, without
  crossing, no handler on its way to link it.
- `EveryGuessCounts`: `GuessingInv` bounds the wrong codes told by the attempts of the
  challenge plus the handlers that passed the check.
- `InvoicesKeepTheirRow`: `FoundInv`: no row becomes
  an invoice's while a handler that has found it is about to write it for something else.
- `SavedAccountsStay`: `GroupRowInv`: whoever has found a group's row saves it for that group, or
  is a save of the platform that has found it too and so has put the group in `robbed`; hence
  a write by an id read long ago takes the row of nobody else.
- `OneDefaultStays`: `DefaultInv`: without overlap, what a save of the platform has found is
  its only row, or there is none.
- `RowsTellTheTruth`: `DeliveryInv` relates the record of the sender to what the provider
  and the database have: a request is in progress only while the sender waits for it (`Posting`), the
  posts are bounded by the tries of all attempts, those cut off by a crash included (`Counted`), and a
  result is known before it is logged (`Known`, `Through`).
- `DeliveryKeepsPromise`: the refinement of `Outbox`: an answer taken, or one that arrives
  after the timeout, is a `Take`, which `Counted` keeps within `Limit`; the step that ends a
  message is a `Report`, true by `Known`; all others stutter.

`Cycles_proofs`
- `CyclesAreNumberedInOrder`: `Gapless` (the cycles there are form `1 .. LastCycle`) with
  `Seen`: whoever is about to create cycle *n* has seen those below *n*, and cycles are never
  deleted. Holds whatever crosses; the unique key refuses the second of two.
- `CyclesKeepTheContract`: the refinement of `CycleContract`, step by step: under `Steady`
  the opener has found no active cycle and is alone (`OpensAlone`), the cycle about to
  be started is active still (`StartsActive`), and nobody starts what another completes
  (`NoClash`). Every action then maps to `Open`, `Start`, `Complete` or a stutter.
- `OneAfterTheOther`: from the contract's `Open` and `Gapless`, all cycles but the last are completed.
- `NoCompletionIsLost`: the property speaks of cycles in progress; `Attended`, which is
  inductive, of all that are not completed, because the write that starts a cycle does not look at
  its rounds.
- `EveryQueueIsFair`, `QueuesOfGroupsAreFair`: no state at all: `QueueIsFair` for a queue of any
  length in which nobody stands twice, and any number of recipients it can give. Place *p* is
  reached in round *p* / *count* + 1 and, if the last round wraps around, there once more.
  `ConstantsAssumption` says that nobody stands twice in one of `Lines`; the second theorem is the
  property of the run.
- `EveryDrawSpreads`, `DrawsOfGroupsSpread`: the same for random plans. Each round is drawn from what
  the earlier ones have left, so before the last round nobody is drawn twice and *i* rounds have
  drawn *i* * *count* members: the first round for which that fails would follow from one for which it
  holds.

`Members_proofs`
- `EveryGroupKeepsItsOwner`: the founder's row is never in the hands of an addition or a
  removal, and a handler that changes its role makes it owner (`Fits`). That there is an
  active member is also what makes the highest place plus one defined (`NextIsFree`).
- `PlacesStayDistinct`: `Spaced`: what a handler is about to write collides with nobody it
  does not move (`Spaces`); a swap has found an active occupant, so the two places differ.
- `CyclesKeepTheirTerms`: `Binding`: a request to change the terms of an active cycle gives those
  it has; the opening writes those the group has.
- `GroupsStayWithinCapacity`: `Seated`: whoever is adding a member has room, until the
  write. `NobodyLeavesUnpaid`: `Cleared`: whoever is about to be removed in a running
  cycle was paid in it, for the start of the cycle notes a removal under way.

`Client_proofs`: the session and the two pages
- `NobodyIsLeftInTheQueue`: `WaitersHaveALeader`: a request that waits for a refresh does so
  only while one is under way (`Queueing`: the leader is one of the calls and is refreshing), so the
  answer that comes, or fails to come, empties the queue. It is the safety half of `CallsEnd`.
- `SignedOutStaysOut`, `LogoutIsFinal`: `SessionInv` adds to the types what a tab that is
  restoring a session holds (`Booting`) and that a refresh in flight has asked for some login
  (`Refreshing`); with `AccountsInv` logins are opened one after the other, those left behind appear
  nowhere in the tab unless something crossed (`LeftIsGone`), and one that was logged out and is still
  on the blacklist gets no token (`OutIsBarred`).
- `SettingsAreNotMixedUp`: `GroupsKeepTheirOwn`, for any number of groups and clicks: with `OwnInv` the
  form shows what belongs to the group of the URL (`ShowsOwn`) and each chain under way asks for, or
  sends, what belongs to the group it was started for, as long as no other group was picked.
- `WritesKeepToTheGroup`: `WritesStayInGroup`, for any number of groups, rounds and chains: with
  `CyclesInv` the local variables of a chain fit the request it waits for (`Fits`): a write carries a
  round of the cycle it names. The server finds that cycle only under the group in the path,
  which is the one of the URL at the click, whatever the store held.

### What is only model-checked

- Liveness: `PaidRoundCompletes`, `SettledRoundAdvances`, `PaidGetsToken`, `CallsEnd`,
  `EverySendEnds` and `Settles` need fairness, and with it ENABLED, which the prover does not handle.
- `QuietPageIsTrue` of `CyclesPage`: what a quiet page shows depends on the order in which the answers
  of all chains came in, and on a loading and a saving flag that two chains share and the first to
  end clears. No inductive invariant was found that says which of several overlapping chains had the last
  word. TLC checks it with two chains and three clicks.
- The conjunct on `order` in the type invariant of `CyclesPage`, which a filter of the sequence keeps:
  the theorem about that page does not need it (`PageTypes` has the others). TLC checked it apart
  from the runs.
- `RunsRepair` of `Seed`: its instance is one script, whose statements TLC runs in every order of
  interruptions; there is nothing to generalise but the script.

## Not modelled

- Receipts of payouts: stored before the transaction and left behind when it fails.
- The `paid_out` round status, the `approved` and `defaulted` loan statuses, the
  `cancelled` invoice status: in the schema, never written.
- `voting` groups behave as manual ones whose recipients nobody can assign.
- Settings that change after the cycle of `RoundLedger` has completed.
- Several rounds at a time with assigned recipients, and `ALREADY_RECEIVED` across them.
- Due dates, time zones and the seed of the random draw.
- Lists, details, statistics and the loan book: they return rows of one query.
- Formatting and parsing of money and phone numbers; rate limits; routing; the check of roles.
- Pages that show what one request returns or are a form over one.
- The S3 client, which only the health check uses.

## Plan

1. An inductive invariant for `QuietPageIsTrue`, with the chains ordered by their last request.
2. Several rounds of a manual group with assigned recipients (`payouts.service.ts:248`).
3. `RunsRepair` for any script in which every row is upserted, or found before it is created.
