# Specifications of roamind

roamind runs a personal assistant for each of a few users. One Go worker process
executes durable [Hatchet](https://hatchet.run) workflows (`worker/workflows`); a Slack
workspace and a Firestore-backed web app are its channels (`channels`); its memory is a
SQLite database, markdown notes and a QuestDB instance (`memory`); Claude agents do the
judging and writing (`agent`), calling back into memory through an MCP server (`mcp`);
feeds, job boards and market data come through `connectors`.

Almost nothing in it is transactional: a workflow step writes SQLite, then Slack, then
Firestore, any call may fail, tasks are retried from their first line, and the worker may
stop at any point. That is what these modules are about. A step of a workflow is split at
every call another actor can see, failures and restarts are actions, and the properties
relate the stores to each other.

## Inventory

### Parts, state, operations

| Part | Code | State it keeps | Operations |
|---|---|---|---|
| Store | `memory/store` | SQLite tables: users, channels, threads, events, goals, items, mail, inbox and news digests, interests, job_postings, finance_dirty, finance_uploads | single statements and a few transactions |
| Notes | `memory/store/notes` | markdown notes of each user (Person, goals, exercises) | write, read, find |
| Finance memory | `memory/finance` | QuestDB: trade_events, trades, rates, prices | add what sources report, reconcile it into trades, ledger, portfolio |
| Slack channel | `channels/slack` | channels, messages, reactions (in Slack) | post, update, files, create a channel, invite |
| Web channel | `channels/web` | Firestore: profiles, links, applications, resume uploads | listen, claim, save, delete |
| Chat turns | `worker/workflows/chat_turn.go` | events, threads | take an event once, run an agent turn, after-turn hooks |
| Users and channels | `user_setup.go`, `channels.go`, `goal_channels.go` | users, channels | onboard, one channel per purpose and goal |
| Resumes | `resume_import.go`, `web_listen.go` | profile `resume_*`, workspace files, Person note | import an upload into memory, delete it |
| Job assistant | `job_*.go`, `web_listen.go` | job_postings, links, applications | search, pick, tailor, publish, close |
| News | `news_digest.go`, `news_shorts.go`, `news_feedback.go` | digests, sent stories, signals | reserve a slot, post, record, learn from reactions |
| Mail | `mail_message.go`, `inbox_digest.go`, `finance_mail.go` | mail rows, items, digests | pick, judge, file, digest |
| Finance | `finance.go`, `finance_mail.go`, `mcp/tools/finance.go` | finance mark, trade events, trades | import reports, mail and chat trades; reconcile; daily market run |
| Learning | `learning_exercise.go`, `learning_exercises.go` | exercises, notes, threads | dispatch, post, mark answered |
| Agent runtime | `agent` | a turn's transcript and workspace | run a turn, cite, fence |
| MCP server | `mcp` | none of its own | tools over memory |
| Connectors | `connectors` | none | job boards, feeds, market data, safe HTTP |

### How they interact

* Slack events, Firestore snapshots, mail posts and crons become workflow runs. Runs of a
  workflow are serialized by a concurrency key (a user, a thread, a posting's user), runs
  of different workflows are not, and MCP tools run inside an agent's turn beside them.
* A workflow's tasks run in order; a task is retried as often as it says (often never),
  from its start; when it fails for good the workflow's OnFailure task runs, which may
  fail too.
* SQLite and Firestore, SQLite and Slack, SQLite and QuestDB are written one after the
  other. What stands between them are marks: `reserved` slots, `processing` links,
  `resume_import.status`, `finance_dirty`.

### Where it is hard

`PROJECT.json` lists the hazards with their lines. They are of five kinds: two stores
that a stopped task leaves apart; a mark read before and written after another actor's
step; a retry that meets its own first half; a listener or cron that must pick up what was
dropped; and caps and batches (`maxLinks`, jobs per run, digest slots) at their limits.

### What makes each part correct

* **Job assistant.** The two stores never disagree about what the user is shown: a posting
  that counts as published has its application, a reviewed application is never written
  over, a closed posting never comes back, the open applications hold the search, a link
  leaves `processing` whatever is lost, and a removed link stays removed.
* **Resume import.** Memory follows the newest upload and never goes back; an upload is
  deleted from Storage only when the user was told that it is in memory; `done` means there
  is a self note.
* **Finance.** A user is called clean only with trades that one reading of their events
  settles to; a file refused as imported has its rows; a dirty user is reconciled in the
  end.
* **Users and channels.** One channel per user and purpose, recorded, introduced once, with
  its user in it.
* **News.** Posted at most once per slot; no link twice, no story twice within its window; each
  digest is the best its judgements allow; a reaction or reply counts once, for the digest it
  was made on.
* **Inbox digest, exercises.** A day's digest is posted at most once; one exercise is open at a
  time; no exercise's note replaces another's.
* **Chat turns.** One turn per message though its events come twice and in two copies; no two
  turns resume one claude session; what a turn answers and asks for is what its message was
  about.
* **Mail.** A message that is done has everything its judgement named; a finished message is
  never reopened by what comes late; no item is without its note but by what a chat did.
* **Fills and ledger.** An execution counts once wherever its reports can be told apart, in whatever
  order they arrive; shares and cash are conserved through transfers, splits and partial
  sells; a figure that can't be computed says why; later documents leave the past alone.

## Modules

| Module | Models | Abstract or composed |
|---|---|---|
| `JobPostings` | the statements of `memory/store/jobs.go`, one operator each | used by `JobAssistant` |
| `WebChannel` | link and application documents of `channels/web/web.go` | used by `JobAssistant` |
| `PostingReview` | what the assistant promises about a posting | abstract |
| `JobAssistant` | the listener, the cron, job-links, job-application and job-hunt over both | implements `PostingReview` |
| `JobAssistantProofs` | inductive invariants, theorems, the refinement of `PostingReview` | proofs |
| `MCJobAssistant` | instances for TLC | |
| `ResumeImport` | uploads, the profile's snapshots, the listener, the resume-import runs | |
| `ResumeImportProofs` | inductive invariant and theorems | proofs |
| `FinanceReconcile` | the mark, the writers of trade events, ReconcileUser in the task and in the tools, the daily run | |
| `FinanceReconcileProofs` | three inductive invariants and theorems | proofs |
| `UserChannels` | user-setup, goal-channels and finance-channel over openChannel, Slack and the channels table | |
| `UserChannelsProofs` | inductive invariant and theorems | proofs |
| `DigestPick` | pickItems, which of the judged items make a digest | pure, used by `NewsDigest` |
| `PostOnce` | what a digest workflow promises of a slot | abstract |
| `NewsDigest` | the news cron, its run, interests, reactions and replies | implements `PostOnce` |
| `NewsDigestProofs` | inductive invariants, theorems, the refinement of `PostOnce` | proofs |
| `MCNewsDigest` | instance for TLC | |
| `MailMessage` | the Gmail script, the mail-message runs, items, notes and chats that change them | |
| `MailMessageProofs` | three inductive invariants and theorems | proofs |
| `MCMailMessage` | instance for TLC | |
| `Conversations` | messages in Slack, chat-turn runs, threads, sessions, link requests | used by the next three |
| `LearningExercise` | the daily exercises and their answers | over `Conversations` |
| `InboxDigest` | the daily inbox digest | over `Conversations`, implements `PostOnce` |
| `Talk` | the three together | composed |
| `TalkProofs` | five inductive invariants and theorems | proofs |
| `MCTalk` | instance for TLC | |
| `Decimals` | amounts that may be unknown, their sums | pure |
| `Fills` | Reconcile: matching the documents' rows and settling them to trades | pure |
| `Lots` | the FIFO ledger with transfers, splits and rates | pure |
| `Portfolio` | what is shown: positions, profit by stock and by year, what is missing | pure |
| `TradeBook` | the documents as they come in, over these | composed |
| `TradeBookProofs` | lemmas on the functions above, inductive invariant and theorems | proofs |
| `MCTradeBook` | instance for TLC | |

Everything but the agent's notes, Slack's workspace and the web app is keyed by user, and few
workflows read another user's rows. So one user is the whole system in most instances, which
`UserChannels`, whose theorems are for any set of users, shows of its own; `Conversations`,
where a channel and a thread may be shared, has two.

Operators named as faulty variants in a module's comments stand beside the definition they
differ from. The specifications never use them: they are there to show that each property
fails when the code is changed that way.

### JobAssistant

State. `posting` is `job_postings.status`; `app` and `link` the Firestore documents
(`reviewed` stands for applied and dismissed; `absent` and `removed` tell a document that
was never there from one the user removed); `gone` what a job site no longer has;
`notified` the queued links a snapshot brought the listener; `requeue` what the cron's query
of stale links returned and has not been updated; `lrun`, `arun`, `hunt` the runs.

Actions. Each run is cut where another actor may act. A link run: its turn, the read of each
posting's row (`LinksLookup`), what it could read (`LinksRead`), each pick (`LinksPick`), the
start of each drafting run (`LinksSpawn`), and, between any of these, one write for each link
(`LinksWrite`): what a row says and what its links are told are two calls to two stores. Where
a drafting run can't be started, or a task fails, failPending reads the links' statuses
(`LinksPending`) before it writes any. A drafting run: its turn, check, `SaveApplication`, each
link's update, `MarkPublished`; its failure: `MarkFailed`, failPending's reads, each write. A
hunt: the open postings it reads (`HuntOpen`), each stale pick it expires (`HuntExpire`), the
reviews (`HuntReviews`), what it closes (`HuntClose`), the search, the picks and the start of
drafting runs. `*TaskFails` is a task that fails for good
at any of these cuts, `*FailureLost` an OnFailure task that fails too, `AppRetry` a retry
from the task's first line. `ListenAgain` is a restart of the listener, after which the
collection's queued links all arrive anew.

Abstractions. The hunts are of a user who is not paused and has a resume, roles and regions.
Ages (a pick 12 hours old, a claim one hour old) are not measured: a stale one may be found
at any time, which contains every timing. Three sequences are one step, since nothing that
could come between changes what they do: a hunt's fetches with ClosePostings (what a site no
longer has stays gone), PickPosting with the RepickPosting after it (a row never goes away), and
failPending's reads of the links' statuses. A start whose acknowledgement is lost is not modelled.
A link that is no posting takes the path of one that can't be read, and is not in the
instances (`NoPosting` remains a target the theorems allow). A review is final: docs/web.md
lets the app write `ready` back, which is left out. Links that come in through Slack record
nothing and are left out.

### ResumeImport

State. The profile's `resume_generation` (`gen`) and `resume_import` (`import`), Storage's
`upload`, the snapshots on their way to the listener (`snaps`: each is the profile as it was
when written; Firestore may merge a write into the latest undelivered one), what the
listener is doing (`heard`), Hatchet's queue of the user's runs, the run that has its turn,
the workspace (`files`), and memory: whether the user has a self note and which upload it
was last written from. `told` is history: the generations that were ever said to be done.

Actions. The web app's three writes; the listener's four (look at a snapshot, mark queued,
start the run, or say it could not); the run's tasks (memory, fetch, the agent's turn, the
writing of done, the deletion), `RunRetry` and `RunFails` at any of them, and the OnFailure
write. A call whose answer is lost is its effect followed by a failure. `DeleteResume`
carries Storage's precondition: it deletes only the generation it names. How often a task is
retried is left open. What the turn does to the note is left open too, except that `done` is
only said after looking that the note is there.

### FinanceReconcile

State. `rows` is QuestDB's trade_events (per source and day-group, the version of its row, 0
for none: rows are superseded by dedup keys, or written as zero rows to remove them), `trades`
the settled trades (per day-group the sources its fills come from), `mark` the row of
`finance_dirty`, `imported` finance_uploads with what the file said; `writer` and `run` are
the save task of each mail, the tool call of each thread's turn and the reconcile of each.
A read sees every write committed when it is made (the code waits for it: WaitApplied).

Actions. A writer marks, then adds: AddTradeEvents reads what its source has and inserts; an
insert of more than one statement may stop half way (`InsertSome`). A reconcile reads the
mark, the events, the previous trades, puts the new ones (`PutSome`: not atomic either) and
clears the mark if it is still the one it read. The task's reconcile runs one at a time, a
tool's beside it. Triggers may be lost. `FinanceMarket` is the daily run that starts a
reconcile for every user who is dirty or holds something.

Abstractions. What a report says of a day-group is reduced to whether it says anything: how
fills are matched across sources (`memory/finance/reconcile.go`) is pure and is what `Fills`
is about. Marks are counters.

### UserChannels

State. `memory` the users with a memory project, `setup` each user's run of user-setup,
`active` their active goals, `recorded` the channels table (a channel per user and purpose),
`slack` the channels in Slack, `lost` those whose maker stopped before it recorded them
(history), `waiting` and `run` the tasks: a lane for each of news, inbox, finance and goals,
serialized per user as the concurrency key says.

Actions. `openChannel` cut at each call: find the row, create the channel, save the row,
invite, post the introduction, and for news follow the default interests. goal-channels
reads which goals miss a channel first (`Sync`), then opens one after the other (`SyncNext`).
`Fails` is a failed call or a stopped worker at any cut: the task starts over, or fails for
good. User-setup runs of one user are never two (CancelNewest).

Abstractions. The names of channels and of memory projects are data. Shared and archived
channels, users without a Slack identity and the removal of accounts are left out.

### NewsDigest

State. `follow` what the user has of each interest (absent from the catalog, none, active,
muted); `queue` the slots whose run waits for the user's turn; `run` the run that has it;
`mark` and `digest` the digests table; `sentUrl` and `sentStory` what counts as sent; `slack`
the messages of the news channel, each with whether its answer was an error; `task`, `events`
and `signal` the deliveries of Slack's events, `inbound_events` and `digest_signals`.

Actions. The run from the cron to CompleteDigest, one action per call another actor may see:
check, gather (any of the active interests' feeds may fail), rank (any interest's turn may
fail), pick, reserve, post, complete, and `ReleaseDigest` after a failed post. `PostFails`
leaves a message or none; `PostStops` is a worker that stops while Slack writes; `RunFails` a
failure for good, or a stop, anywhere. A reaction's task marks its event and saves its signal
in two calls and is retried from its start, a reply's turn is not. AddInterest, following,
muting and user-setup's defaults change what is followed meanwhile.

Abstractions. What a feed has and a ranking says is chosen freely from `Items` and `Judged`.
Scores are in half points. All of `feedbackWindow` is longer than the instance. `DigestPick`
is the algorithm as the code runs it, over any order equal scores may come in; `PickedBest`
is what it should give, stated without reference to the walk.

### MailMessage

State. Gmail's `label` of each message, the days the script `fails` on it, whether the user has
`trusted` the broker and had its past mail sent (`backfill`); `queue`, `run` and, for replays,
`dead`, the run of a message that failed last; `message` the rows of mail_messages (status and
category); `notes`, `rows` (items, by key) and `ledger`. `promised` is history: the items the
save that finished a message was given.

Actions. The script sorts, sends, is refused, loses an answer, gives up; the user takes its
label off, trusts the sender, backfills. A run checks (`CheckMail`, with PickMessage's guard),
has its turn (`Relate`), saves trades or, item by item, the note and the row, and finishes.
`SaveRetry` starts save from its first line, also when only its result was lost; `RunFails` and
`OnFailure`, which may fail too; `RunCancelled`; `Replay` starts from the task that failed.
Saving an item is three steps: `ReadItem` (the note, the contact, the open items, and from them
the item's key), `WriteNote`, `PutItem`. Between any two calls chats write and delete notes with
Basic Memory's tools (`ChatWrites`, `ChatDeletes`; moving one is both), save the item of a note
without looking whether it is there, as `save_item` does (`ChatSavesItem`), and close items.
`chats` is history: the notes that a chat was the last to deal with. What mails promise of a note
(`DoneHasAll`, `RowHasNote`) is of notes no chat took away: no document says that a note's row
goes with it, and nothing in the code removes one.

Abstractions. The reads of one item are one step. What a turn says is a sequence of `Judgings`. An item is its key, note, kind and
state. That a message is stuck after an hour is a free choice. The rows of a broker's mail are
one entry of `ledger` here: `FinanceReconcile` follows them.

A precondition. The items table has one row per key, and PutItem moves the row of a key to the
note it is saved with last. When turns give one key to two notes, as two mails of one order
number may, the note saved first loses its row: docs/architecture.md:91 ("Task and Event notes
have no status. Each has a row in the `items` table") takes for granted that they don't. `KeysApart` says that no key is given to
two notes; `DoneHasAll` holds with it and is false without.

### Conversations, LearningExercise, InboxDigest, Talk

State. `posts` every message in the channels, `events` the deliveries whose run waits,
`marked` inbound_events, `turns` the runs under way, `threads` the user and session of each
root, `asked` job_link_requests, `exercises` the Owner's; `draft` and `digest` the runs of the
two workflows that post on their own, `day` the inbox_digests table. `handled` and `sent` are
histories. A session is named by its first user and message.

Actions. `Say` and `Redeliver` are Slack; `ShareChannel` and `MemoryReady` what the operator and
user-setup do. A turn is cut at the mark, the reading of its thread (`Resolve`), the exercise's
answer, the agent's turn with its tools, the saving of the session (which may fail, or be of a
new session when the old is lost), and what follows it. `TurnStops` is a failure or stop at any
cut: a turn is not retried. The exercise is drafted, named, posted, and recorded in three writes
(thread, row, note); the digest is drafted, reserved, posted, completed, and its thread recorded.

Abstractions. What is said is where it is said, by whom, with a mention or a link. News and
finance turns differ only in the agent's prompt. A draft takes longer than a minute, so the
times in two notes' names differ. An inbox digest is of a day with something due or not, at will.

### Decimals, Fills, Lots, Portfolio, TradeBook

`Fills` is reconcile.go: the sources of a day-group from the most trusted, each matched to the
fills so far by numbers, then one to one by price, then as one set listed in parts, else added
(`MatchSource`), and settled (`Settle`). `Lots` is ledger.go: transfers paired by date, then a
walk over the trades in order with the splits that fall due, lots taken from the oldest and
moved with their cost and day. `Portfolio` is portfolio.go's sums and what they say is missing.
Loops are recursive functions (no RECURSIVE operator) over the numbers up to a bound or the
subsets of a set, exact in whole units, with `None` for what is not known, as in dec.go.

`TradeBook` has the state: `book` (trade_events), `trades`, `today`. A write replaces what its
source had, a bad row refuses a report and is left out of a mail, and each write is reconciled
(when a reconcile comes is `FinanceReconcile`'s question).

Abstractions. One instrument: the code groups by it first. Charges and tax are one fee. The price
history is one close. Years are `DaysOfYear` days. Splits multiply by a whole number: a reverse
split would need a smaller unit. Rows with quantities in different units, and
the contract notes' PDF, are left out.

## Runs and bounds

| Run | Instance | What it shows |
|---|---|---|
| `ja_one` | 1 posting, 1 link, 1 run of each workflow, fair | no link stays processing, no pick stays picked |
| `ja_links` | 2 links to 1 posting, 2 link runs, 1 drafting run, no hunts | the races of links: done only of a posting drafted or being drafted, removed stays removed |
| `ja_search` | 2 postings, 1 link, hunts of up to 2, no stale links | reviews are kept and gate the search, `PostingReview` is implemented |
| `resume` | 3 uploads, 2 snapshots behind, 2 runs waiting | memory only moves forward, deletion after done |
| `fin_mail` | 2 mails, 2 day-groups, 3 writes, 2 runs waiting | the mark is cleared over what one reading settles to |
| `fin_tools` | 1 file, 1 chat trade, 1 thread, 2 day-groups, 2 writes, fair | imports stay whole, a dirty user is reconciled |
| `chan_open` | 1 user, news, finance and 1 goal, 3 channels | recorded or lost, introduced once, joined |
| `news` | 3 links of 2 interests, 3 slots, 2 runs, 1 event delivered twice | a slot is posted once, links and stories once, a reaction once, the best picks |
| `mail` | 2 mails, one a broker's, 2 requests, 2 notes, 1 own key | done has all, finished stays, rows have notes but for what chats did |
| `talk` | 2 users, 2 messages of theirs, 2 days, 2 runs of exercises or digests, 1 repeated delivery | a message gets one turn, a session one turn at a time, one exercise open, notes kept, a day posted once |
| `ledger` | up to 5 of 10 documents of a day's 3 executions and of 2 that add up to two of them; or 10 documents of 2 accounts over 4 days, a split, a gap in the rates | counted once, shares and cash conserved, what is missing says why, the past stays |

Why these are enough. The hazards are of two or three steps between two actors, so the
instances hold two of what contends (links for a posting, postings for a hunt, mails for a
mark, day-groups for an insert that stops half way, lanes for a user, runs for a slot, replies
for a session) and one of what is only passed through. Three uploads are the least with one
done, one running and one waiting. Three channels are the least with a lost one, its second and
another lane's. Three links are the least with two of one interest and one of another. Three
executions with two of one order and two alike are the least in which numbers, prices and sets
in parts each decide a match.

Action constraints leave out what the instance is not about:

* `NoHunts` and `NoRequeue` (MCJobAssistant) leave out one actor where the others fill the
  state space; `ja_one` has all of them.
* `Reduced` (MCNewsDigest, MCMailMessage) orders steps that commute: a run that has read
  nothing yet is not told apart by what others did before or after it started. In
  MCMailMessage it also bounds: one run waits for a replay, and none from its turn; only one
  message fails on its last day; no run is cancelled half way through an item (it may fail
  there); chats act on the task's note and items, and close items as done only.
* `Reduced` (MCTalk) has a behaviour be about exercises, or digests, or repeated deliveries, or
  a shared channel, or links. These meet only in threads; the theorems of TalkProofs, which need
  no such constraint, hold of all of them together.
* `Apart` (MCTradeBook) has a behaviour add documents of one day's executions, or of four days'
  trades: day-groups settle on their own.

`Symmetry` permutes identical runs (job assistant) or deliveries (news) and is used in safety
runs only. The inductive invariants were checked by TLC on these instances, or were proved
from lemmas on the actions, before they were relied on.

Deadlock is not checked in `fin_mail`, `fin_tools`, `chan_open`, `news`, `mail`, `talk` and
`ledger`: their bounds on writes, runs, channels, messages and days end every behaviour.

The type invariants of the job assistant, resume import, finance reconcile and users and
channels, and `ApplicationIsRecorded` and `TurnHasFile`, are theorems and not among the runs'
properties.

### Fairness

* `JobAssistant` (`ja_one`). The cron runs at its hours for good, so a link that stays
  processing is returned by its query again and again (strong fairness), and a hunt's check
  does not fail for ever. The listener handles what it is brought, and does not fail each
  time it is brought a link. Started runs take steps, which may be failures. Nothing is
  assumed to make the listener listen again, nor of users or sites.
* `FinanceReconcile` (`fin_tools`). The daily run comes and its task begins (weak); of
  the runs that come again and again some get through each call (strong). Nothing is assumed
  of mails, turns and triggers.
* `ResumeImport` and `UserChannels` state fairness only for the counterexamples below, which
  count only if the system keeps going.

## Where documents and code differ

In each case the quoted sentence is the property, and the trace is a few failures or
interleavings long. One is a run of `PROJECT.json`:

| Run | Sentence | What happens |
|---|---|---|
| `fin_bad_CleanIsUpToDate` | store/finance.go:183, "0 when their trades are up to date" | the mark is set before the rows: a reconcile in between clears it |

The others have configurations beside it. A `*_docs.cfg` holds several; `tlc -continue` goes on
past the first and reports each.

| Configuration | Property | Sentence | What happens |
|---|---|---|---|
| `ja_docs` | `NotDraftedAgain` | docs/web.md:80, "A posting that already has an application isn't drafted again" | the application is saved, `MarkPublished` fails for good, the posting is `failed` and fresh for the next link |
| `ja_docs` | `DoneLinkHasApplication` | docs/web.md:66, "The application for the posting, once `done`." | a link to a posting that another link's run drafts is done before the application is saved |
| `ja_docs` | `ReadyHoldsSearch` | docs/web.md:73, "every `ready` one must be marked `applied` or `dismissed` first" | the search reads the open applications before a draft is saved |
| `ja_docs` | `DoneLeftAlone` | job_reply.go:72, "links done meanwhile, or removed, are left alone" | a link is done between failPending's read and its write |
| `ja_bad_QueuedTakenUp` | `QueuedTakenUp` | docs/web.md:78, "takes them up within seconds" | the claim fails and no further snapshot comes |
| `resume_docs` | `FailedStays` | docs/web.md:17, "An upload whose import failed stays until the user replaces it." | the result of the last update is lost after it said done and deleted the upload; OnFailure writes failed |
| `resume_docs` | `StartedOnce` | web_listen.go:57, "the snapshots that follow don't start it again" | a snapshot written before the mark comes after it |
| `resume_docs` | `QueuedEnds` | docs/web.md:17, "Within seconds the worker saves it" | the worker stops between the mark and the start |
| `fin_docs` | `LaterRunFixes` | reconcile_user.go:16, "a later run fixes what an overlapping one wrote" | a tool's stale put comes after the task cleared the mark, and no later run comes |
| `fin_docs` | `ImportedOnce` | mcp/tools/finance.go:200, "The same file is never imported twice." | two turns look before either records |
| `fin_bad_CountedOnce` | `CountedOnce` | docs/plans/finance-assistant.md:154, retried tool calls are stopped by "the same upsert keys" | a trade whose reconcile failed is told again and gets another key |
| `chan_docs` | `SyncInvites` | channels.go:19, "a retry makes up a failed invite" | goal-channels only opens goals with no recorded channel |
| `chan_docs` | `NeverSecond` | channels.go:17, "a retry never creates a second one" | Slack's answer is lost before the row is saved |
| `chan_docs` | `FailedComes` | docs/architecture.md:159, "a user whose channel failed gets it at their next turn" | not one whose channel is recorded and whose invitation failed |
| `news_bad_HalfPointPerLike` | `HalfPointPerLike` | docs/architecture.md:181, "each net like over the last 30 days moves an interest's items up half a point" | a like of a digest counts once for each of the interest's items in it |
| `mail_bad_UpdateKeepsRow` | `UpdateKeepsRow` | docs/architecture.md:216, "An update with no key keeps the note's row." | only open rows are looked at: the update of an item that was closed meanwhile makes a second row, under its title |
| `mail_bad_SkippedSavedNothing` | `SkippedSavedNothing` | docs/architecture.md:216, "The message ends done, or skipped when nothing was saved" | save writes a person's note and is retried: the note now lists the contact, the item is dropped, and nothing counts as saved |
| `mail_bad_FailedIsListed` | `FailedIsListed` | docs/architecture.md:218, the digest "lists the user's messages of the past week whose run failed or is stuck" | a run that fails before its pick has no row to list |
| `talk_docs` | `AnswerKnowsExercise` | docs/architecture.md:155, "so the agent knows exactly what was asked" | the turn reads the thread's row before the workflow records it, and marks the exercise answered after |
| `talk_docs` | `AskedStays` | docs/web.md:79, "After the turn, the worker adds those that appear in the message" | the requests of all the user's turns are taken by whichever ends first |
| `talk_bad_SessionTheirs` | `SessionTheirs` | chat_turn.go:108, "the session (and, later, memory) is theirs" | another user mentions the agent in an exercise's thread before the workflow records it: the thread is theirs, and then gets the session the Owner's exercise was drafted in |
| `ledger_docs` | `ChatsAreTwo` | docs/architecture.md:247, "nor are two chat rows" | a third document takes both for copies of its own |
| `ledger_docs` | `OrdersApart` | reconcile.go:142, "Rows with order or trade numbers none of a fill's are never copies of it" | two orders of 4 and 6 add up to a third of 10 of another document: the set counts once, as listed in parts |
| `ledger_docs` | `FeesOnce` | reconcile.go:289, "They go on the first fill, as one charge of the set" | each of the fills gets both rows' fees |
| `ledger_docs` | `LotsInOrder` | ledger.go:11, "the open lots, oldest first" | what a transfer out did not have arrives as a lot of the in's date, after lots of later days |
| `ledger_docs` | `SoldWhatWasThere` | ledger.go:124, "Within a day, what was bought is there to sell" | shares that are transferred in on the day are not, when the pair's out comes after the sell |

`CountedOnce` of `ledger` holds where the rows can be told apart (`CanTell`): each two by a
number, as the same executions, or because each source lists both; or, of two sources that both
list all that was executed, as a set in parts, at most one of them with numbers (a tradebook's
fills and a statement's orders, step 3 of the matching). And it holds where no rows come to the
same as rows of other executions by chance (`Coincide`), since step 3 looks at totals only. The
instance has both: lists in parts without numbers, and two orders of 4 and 6 that add up to
another of 10. Where rows can't be told apart it can fail. An order filled in two executions and
confirmed in one mail or chat without numbers, next to a document of another order of that day,
is counted twice: step 3 takes all that is left for one set. No document says otherwise, so this
is a precondition and not a finding; that step 3 overrides different numbers is one
(`OrdersApart`).

## Theorems

All but four of the nine of `TradeBookProofs`, which are about its functions, are of the form `Spec => []P`,
`Spec => [][A]_vars` or `Spec => Abstract!Spec`, for every value of the constants that their
modules' assumptions allow: any postings, links and runs; any number of uploads, snapshots and
waiting runs; any mails, files, chats, threads and day-groups; any users and goals; any items,
slots, windows and caps; any judgings; any messages, copies and redeliveries; any documents of
trades, splits and rates. The proofs use no fact that is not proved or in the library's theorem modules.

The assumptions on the constants keep names apart and bounds natural (`TargetAssumption`,
`BatchAssumption`, `BoundAssumption`, `BoundsAssumption`, `ConstantsAssumption`,
`CapsAssumption`, `DaysAssumption`, `RunsAssumption`, `DigestsAssumption`, `KeysAssumption`,
`NoRowAssumption`, `NoneAssumption`, `WindowsAssumption`), or say what inputs look like (
`OffersAssumption`: a document's rows are well formed, each on its own line, and two sources have
two names; `SplitsAssumption`: a split's factor is above 0, as ledger.go:108 sees to;
`QuotesAssumption`, `CloseAssumption`; `ItemsAssumption`: the feeds have finitely
many items; `JudgingsAssumption`: turns answer in the schema's layout; `SayingsAssumption`,
`BrokersAssumption`, `OwnerAssumption`). TLC evaluates each on the runs. Three theorems have a
hypothesis of their own, because what they state is false without it: `ClearedIsPutAlways`,
`ImportStaysAlways` and `DoneHasAllApart`. Some runs' instances satisfy each.

* `JobAssistantProofs`. That a published posting has its application is not inductive: a
  drafting run about to call MarkPublished must have saved (`PublishingIsSaved`), what a
  run drafts must be recorded (`RunsAreOfRecorded`, `PicksAreRecorded`), and what a hunt is
  about to close must have been published (`ClosableHasApplication`). With these, types, the two
  agreements of the stores and the four action properties. `DoneLinksLeadAlways` carries what a
  run is about to write of each link (`WritesLead`) and what a drafting run will say of its own
  (`RunLinksLead`) through whatever happens to the posting between the read and the write.
  `ReviewsGateSearchAlways` carries what a hunt read through its four calls (`CheckReads`), and
  that an expired pick is picked again only for a link the user sent (`RunsAreSent`,
  `ExpiredAreSent`). `KeepsPromiseAlways` is the refinement of `PostingReview`, step by
  step: each operation on the posting's row or application is one of the abstract posting's
  steps or none, and no operation is two. Ten theorems.
* `ResumeImportProofs`. That memory never goes back rests on a line: memory is no newer
  than the run that has its turn, that run than those waiting, those than what the listener
  is doing, that than the snapshots, and those than the profile (`SnapsInOrder`,
  `HeardFirst`, `QueueInOrder`, `RunFirst`, `ResumeFirst`). Five theorems.
* `FinanceReconcileProofs`. `ClearedIsPutAlways` assumes that no thread reconciles
  (`Threads = {}`): with tools beside the task it is false, as `fin_docs`
  shows. `ImportStaysAlways` assumes at most one thread, for the reason
  `fin_docs` shows. Each has an invariant of its own (`SInv`, `FInv`) over the
  types (`TInv`). Three theorems.
* `UserChannelsProofs`. Each channel is opened by one lane only (`Own`), so what a lane has
  in hand (`InHand`) no other lane records, introduces or loses (`Apart`); a recorded
  channel was made for that user and purpose (`RecordedIsTheirs`); the tasks of user-setup
  have ended when it starts them (`LanesOfSetup`). Four theorems.
* `NewsDigestProofs`. The run that may post has its slot reserved and nothing sent for it
  (`BInv`), which gives the refinement of `PostOnce`. What a run took up and has not posted is
  still unsent, as one run of a user is under way at a time (`LInv`: no link in two digests);
  what it picked was clear of the window when it picked, and what was sent since is no older
  than the digest it is in (`SInv`: stories). An event that is marked has at most the one row its
  first task made, of the message it was seen on (`RInv`: reactions). `PickedBestAlways` is
  about the algorithm: `Pick` walks the eligible items in order and takes each that fits;
  that it ends, in an order that exists (`OrdersAreAll`), takes what it should (`PickTakes`), and
  that whatever it passes over was blocked by items that come no later (`BlockedByMore`) is
  proved for any finite set of judgements, the walk's recursion by its least counterexample. Six
  theorems.
* `MailMessageProofs`. A message's row is only changed by PickMessage, whose guard sees what is
  finished, and by the run that picked it (`TInv`, `FinishedStaysAlways`). A run between an item's
  note and its row has written the note, unless a chat dealt with it since (`WInv`,
  `RowHasNoteAlways`): no step takes a note out of those that are there or are the chats'
  (`NotesStay`). What a save is past stays written although other saves, replays and chats write
  the same tables (`KInv`), where no key is given to two notes (`DoneHasAllApart`). Four theorems.
* `TalkProofs`. For any users, sayings, days and numbers of messages, deliveries and runs. That
  Talk implements `PostOnce` rests on `DInv`: the run about to post has its day reserved and
  not posted. That sessions are serial rests on `SInv`: a session is of one thread, also those
  that workflows drafted and turns still hold, and a thread has one turn. That a message starts
  one turn rests on `MInv`: access is only ever given, so while it is as it was when the user
  wrote, route has let one and the same copy pass; that copy is marked and, once handled, no turn
  of it is short of its agent. That one exercise is open and none loses its note rests on
  `EInv`: all but the last are answered, all are while a run is past its check, days only grow,
  and a note's name is its day and place, also the name a run has chosen and not used yet.
  `TypeCorrect` adds who wrote what is waited for, answered and asked for (`OInv`). Six theorems.

* `TradeBookProofs`. The model's loops are recursive functions: `StepsExist` and
  `SubsetStepsExist` are that such a function exists, along the numbers up to a bound or down the
  subsets of a finite set; `CountUp` and `SubsetsUp` the inductions over them, by their least
  counterexample. From these come what a sum is and when it is not known (`SumToIs`, `SumOverIs`),
  that what is sorted has its members (`SortedIs`), and, one lemma per function, that each step of
  the matching keeps fills well formed (`ByRefType` to `MergeFillsType`), that Reconcile of a book
  is a table (`ReconcileIsTable`), that taking the oldest lots takes as much as there is
  (`TakeOldestIs`, `DisposeConserves`) and that the walk leaves positions (`LedgerType`). A sum is
  missing only if something in it is, which `MissingOf` finds: at a lot, a sale or an income, or in
  what today's value needs (`PositionsHaveReasons`). The invariant `IInv` has little to add: the
  book's rows are offered ones, and the table is what they settle to.

  `SharesConservedAlways` rests on an invariant of the walk (`Owes`): at each place, an account's
  lots less what it oversold (`Net`) are what the trades taken so far owe it, in the shares of the
  walk's day. An in that is paired is taken with its out, so which trades are taken depends on the
  pairs (`TakenAt`, `Pairing`: no place is in two of them). A trade by itself, a transfer and the
  splits between two days each keep it (`ApplyOwes`, `TransferOwes`, `ScaleOwes`); factors multiply
  in any order (`FactorPick`) and sums do not depend on theirs (`SumOverMoved`, `SumToOver`). What
  was oversold is not scaled by a later split, in the model as in the code, so an account that
  oversold is in the theorem only while no split is past.

  `CashAddsUpAlways` rests on another invariant of the same walk (`Settles`): what an account's
  lots cost less what its sales gained (`Worth`) is, over all accounts, what the trades taken so
  far paid less what they got (`Flows`), as long as nothing is oversold and each out has its in.
  A trade by itself, a transfer, whose lots arrive with the cost they left with, and the splits
  between two days, which change no cost, each keep it (`ApplySettles`, `TransferSettles`,
  `ScaleSettles`). Costs are shared out by division: a lot that is taken in part leaves what the
  part did not take, so that part and rest cost what the lot did (`TakeInParts`). `WalkBalances` and
  `LedgerBalances` carry `Owes` and `Settles` along the walk together. Nothing being missing means
  that no position is short and that all prices and rates were known (`SumOverKnown`,
  `FlowsKnown`), so the worth is the cash (`CashIs`); the gains by stock and by year are one sum
  taken in two orders (`SumOverSwap`, `SumOverGroups`, `YearsAddUp`).

  `PastStaysAlways` compares two ledgers. Lists in order that have the same trades before a day
  have them in the same places (`ListsAgree`). An out within a window of the day finds the same ins,
  those within two windows, and takes the same (`PairsAgree`); so the walks agree up to the day
  (`WalksAgree`), and what comes after it adds no sale before it (`WalkLater`). One window is not
  enough once it is longer than a day: an in from before the day may be paired with an out after
  it, which a nearer in can take instead. Nine theorems.

Only model-checked:

* the liveness properties (`ProcessingEnds`, `PickEnds`, `DirtyEnds`), which need fairness and
  ENABLED, out of the provers' reach;
* of `TradeBook`, `CountedOnce`: its conditions (`CanTell`, `Coincide`) are stated of pairs of
  documents and of sets of rows, and have been checked for the sets of documents of the instance
  only; that they suffice for any is not proved.

## Not modelled

What is data or a pure reading of the outside: prompts and what agents judge, rendering,
feeds, job boards, market data, HTTP, resume text and PDF, the wiring in `cmd`, deployment
but for the script that forwards mail. Notes are files written by one command each; what
matters of their order is part of the workflow that writes them. Of the parts that are
modelled:

* job links that come in through Slack (their threads and replies);
* the names of channels and of memory projects, which two users may compete for
  (`store/users.go:100`), users without a Slack identity, archived channels, the removal of
  accounts;
* a chat turn's files, the updates of its reply and its hooks other than the link requests (the
  channels' set-up is in `UserChannels`);
* which items lead an inbox digest and what it says;
* contract notes' PDF, the history of prices, the spending summaries;
* the MCP tools that only read.

## Plan

1. `CountedOnce` as a theorem, from the conditions it is checked under.
2. `MemoryProjects`: names competed for by user-setup and resume-import of two users.
3. Job links that come in through Slack, over `Conversations` and `JobAssistant`.
