# Verification of naholosy_bot

TLA+ models of the bot under `src/`, TLC configurations that check them on small
instances, and TLAPS proofs of what holds for every instance.

The bot drives a conversation whose hard part is a *practice run*: quiz polls
with a clock, answers that arrive in any order or twice, a process that keeps
half of the state and a row that keeps the other half, and a database and a
network that fail between the two. That is what is modelled first.

## The system

| Part | State it keeps | Operations | Talks to |
|---|---|---|---|
| `bot/bot.go` runtime | - | `dispatch`, `dispatchPollAnswer`, `watchTimeouts`/`timedOut`, `run`, `recover` | Telegram's updates, locks, handlers |
| `bot/locks.go` KeyedMutex | one mutex and count per user in use | `Lock`, release | every dispatch |
| `bot/router.go` | - | `Resolve(stage, text)` | dispatch |
| `handlers` | quiz registry (open poll, clock, misses in a row), channel of expiries | one handler per route, `Fallback` | practice, users, sender |
| `practice` | missed words (process), session (row) | `Begin`, `Question`, `Answer`, `Finish`, `Abandon` | repositories, word list |
| `user` + `storage/sqlite` | stage, tutorial, session, learned words | `Ensure`, `Save`, `Load`, `Reset`, `Add`, `Remove`, `IDs` | SQLite |
| `accent`, `words` | the immutable word list | draws, lookups, letters, variants of a word | practice, handlers |
| `sender` | two counters | sends with retries | Telegram |
| `broadcast` + `handlers/admin.go` | one staged message per admin | prepare, test, confirm, cancel, deliver, report | sender, users |
| `stats`, `metrics` | atomic counters, timings of each route under a mutex | count, observe, snapshot | every dispatch, `/status` |
| `app`, `config`, `logger` | - | wiring | - |

What is hard about them, and what makes each correct:

- **Runs** (handlers, practice). State about one question is in four places: the
  row (stage, current word, tally), the process (registry, clock, misses,
  missed words), Telegram (the poll, the keyboard) and in flight (an answer, an
  expiry). Correct: as long as a run is on there is a question in front of the
  user that something will move on; an answer counts for its own question or
  not at all, and once; the tally adds up; the words named as missed are of this
  run; a run ends whatever the user does.
- **The registry**. Its two maps are shared by all users, its timers fire when
  they like, and a poll that is forwarded is answered by somebody else. Correct:
  the maps agree, no clock outlives its question, a question is settled once.
- **Locks and goroutines**. The entry a thread is about to lock may be dropped by
  the thread before it; one goroutine serves the expiries of all users; handlers
  fail, panic and run out of time. Correct: one update of a user at a time,
  everyone served, the lock given back on every path and not held beyond the
  deadline of the update.
- **Sends**. Telegram limits the rate, loses answers, refuses. Correct: a message
  is there at most once, the verdict about it is true, waits are bounded.
- **Broadcasts**. Correct: nothing leaves before it is confirmed, what leaves is
  what was shown, once, at the pace of the ticker, and the report is true.
- **Statistics**. Correct: nothing recorded at a time is lost, and a report is of
  one instant where it is made under the mutex.
- **Questions and lists**. Correct: the answer is always offered, nothing but the
  stress gives it away, and the alphabet leads to every word.
- **Failure**. Each handler is a sequence of calls any of which may fail or be
  cut off by a restart; what was done before stays. Correct: the invariants of
  the data survive any prefix.

`PROJECT.json` lists the components, the hazards at their lines with the
properties aimed at them, and the lines every definition stands for.

## Modules

| Module | Models | Built on |
|---|---|---|
| `Practice` | sessions, draws, grading, learned and missed words, as operators on a user's record | - |
| `Router` | `bot.Resolve` | `Practice` |
| `Handlers` | every conversation handler as an operator from a user's state to its possible outcomes | `Router` |
| `Conversation` | what dispatches, clocks, expiries, Telegram, the user and restarts do to that state | `Handlers` |
| `Quizzes` | the quiz registry, call by call, for several users whose dispatches interleave and who forward polls | - |
| `KeyedLock` | the promise of `KeyedMutex`: a lock per key | - |
| `KeyedMutex` | `Lock` and the release function, step by step; implements `KeyedLock` | `KeyedLock` |
| `Delivery` | the promise of a send: there at most once, and a true verdict | - |
| `Sending` | one call of `attempt`, as operators on its state | - |
| `Sender` | several sends at a time and the counters; implements `Delivery` | `Sending`, `Delivery` |
| `Dispatch` | the goroutines of the runtime: locks, contexts, sends, failures, panics, counters; implements `KeyedLock` | `Sending`, `KeyedLock` |
| `Broadcast` | the admin commands and the deliveries that run beside them | - |
| `Metrics` | counters and timings while they are counted and reported at a time | - |
| `Questions` | the options of a quiz and the way of a pick back to a verdict | - |
| `WordList` | the catalog's letters, letter requests, and the list sent back | - |
| `Vocabulary` | the two before, as a user meets them | `Questions`, `WordList` |
| `MCConversation`, `MCKeyedMutex` | instances for TLC | |
| `ConversationProofs` | the properties of `Conversation`, handler by handler: through faults, and while nothing fails | `Conversation` |
| `KeyedMutexProofs`, `SenderProofs`, `BroadcastProofs`, `DispatchProofs`, `QuizzesProofs`, `MetricsProofs`, `VocabularyProofs` | the safety properties of each | the module of that name |

A definition whose comment begins with *Mutant* is not the code: it is a
plausible bug in the definition that follows it, and `PROJECT.json` says which
property it breaks.

### How state and actions correspond to the code

**`Conversation`.** The state of one user is one record (`UserStates` in `Handlers`):

| Fields | In the code |
|---|---|
| `stage`, `tutorial` | `menu_stage`, `skip_tutorial` of the row |
| `size`, `answered`, `correct`, `wrong`, `word`, `asked` | the session on the same row |
| `learned` | `users_xp.learned_words` |
| `missed` | `practice.Service.missed` |
| `quiz`, `misses` | `quizzes.open`/`current` with the clock, `quizzes.missed` |
| `kb`, `polls` | Telegram: the keyboard on the screen, what became of each poll |

A *handler* is an operator from that record to a set of outcomes. Each call that
can fail adds the outcome in which it did: `DbFails` for the repositories,
`SendFails` for the sender, where a failed send may or may not have got through.
An outcome carries the stage of the in-memory user too, because `moveTo` changes
it before it saves and `Fallback` reads it. `Run` takes one outcome and, after a
failure, `Fallback`.

A *dispatch* is one step of `Conversation`. The code holds the user's lock from
before `Ensure` to the end of the handler, including `Fallback`, and nothing
outside that lock touches the state of the user except the clock, which only
sends on the channel, and the answer of another user to a forwarded poll, which
is in `Quizzes`. `KeyedMutex` shows that the lock does what this needs, and
`Dispatch` that the runtime uses it so. What Telegram and the user do in the
middle of a handler commutes with it: a pick or a close only changes the poll,
which no handler reads.

A *process that dies in the middle of a handler* is the outcome in which the call
it died in failed, with the fallback message lost, followed by `Restart`.

A *poll* is open, then closed or picked; a pick is `sent` until it is dispatched
and, where restarts are considered, `handled` until Telegram is told so. A
restart delivers it once more or loses it. A poll identifier is a slot that may
be used again once nothing refers to it.

*Words* are pairs of a plain word and a stress. `Normalize` forgets the stress;
the options of a quiz are some of the stresses of the same plain word, so a user
may pick any of them. Two entries with the same plain word are homographs.

**`Quizzes`.** `open`, `current` and `missed` are the maps of the registry, `clock`
the timer of each poll. What a dispatch does between two calls of the registry
is no step of its own, so a dispatch is at most two steps: the first takes the
question or starts the run, the second (`Ask`, `Leave`, by what is in `doing`)
puts the next or forgets. A timer that has fired is an expiry on its way;
`Stop` on it comes too late. A poll can be answered by whoever it was sent or
forwarded to.

**`Dispatch`.** `at` is the place of a goroutine in `dispatch`/`timedOut` and `run`,
`call` its latest send, whose `left` is what remains of the context; an update
has a context of `handlerTimeout`, the goroutine of `watchTimeouts` one without a
deadline. `owner` is the mutex of each user, `timeouts` the channel. A handler is
up to `MaxSends` sends that may be rate limited, and then returns or fails. A
panic may strike wherever user code runs under the lock: as the user is loaded
and the route resolved (`Begin`), in the handler and in the fallback (`Panic`). The
deferred release runs in each case; the recovery that counts it is there for an
update and not for an expiry, whose panic ends the process. Time passes (`Tick`)
only in a request, in a wait for a rate limit, or for a goroutine that waits for
a lock.

**`Sender`.** `call` holds for every send where `attempt` is, and `copies`, what
really arrived; `waited` is how long it has waited for rate limits.

**`Broadcast`.** `pending` is `Service.pending`, `job[d]` the goroutine started by
the `d`-th confirmation with its `Report`, the targets it has left and its ticker,
`rows` the users in the database. Each delivery has a ticker of its own, with a
phase of its own (`Pace(d)`); its channel holds one tick (`tick`), and `ticks` counts
how many there were. `edition`, `previewed`, `chats` and `staged` are the world:
edits of an original, what each admin was shown, what arrived with whom, how
often something was staged. A command is one step, as the lock of the admin is
held during it; a delivery takes a step for each target. Its end is a single send
of the report, which may fail: `BroadcastConfirm` logs that and does not try
again, and the job is `unreported`. A panic in a delivery is recovered by
`background` and ends it without a report (`gone`), as a restart does.

**`Metrics`.** `counter` are the atomics, `handlers` the map under `mutex`; `found`
is what a dispatch has looked up and not yet recorded. The report reads the
counters one at a time, then takes the mutex and reads the timings one at a time.

**`Questions`, `WordList`.** A spelling is its length, the positions of its vowels
and those of its capitals; a catalog is a sequence of words, each its first
letter and a number. `Put` and `SearchByLetters` are the calls of `ask` and
`SearchByLetters`, with every random choice as a choice of the step.

### Not modelled

- Start-up, configuration and logging: they run once, in sequence. Opening and
  seeding the database, and the ten seconds a shutdown waits: what was under way
  is cut off by a restart.
- Wording and layout of messages, `Grade`, the order of the status report, the
  file ID of the handbook, which only saves an upload.
- `SetReaction`, `Edit` and `AnswerCallback` of the sender,
  `GenerateAccentVariants` and `HasDoubleStress`: nothing calls them but tests.
- Which of the two draws is made: the set of words either may yield is the same.
- Updates the runtime ignores by their shape (bots, edited messages, an empty or
  out-of-range option).
- What panics: the code shows no path that does. `Dispatch` lets any part of a
  dispatch, the fallback included, and `Broadcast` any delivery, to check what
  the two `recover` do about it. `panicsRecovered` in `Dispatch` is what the one in
  `bot.go` adds; the one in `background` adds to the same counter.
- Time in `Conversation` and `Quizzes`: an answer may take any time to arrive. A
  clock runs longer than its poll is open (`timeoutGrace`); in `Conversation` it runs
  out any time after the poll has been closed or answered, in `Quizzes`, which
  knows nothing of Telegram's clock, any time.
- Words no quiz can be made of: `NewCatalog` and `validate` let a word with a single
  vowel or with a capital consonant pass. `Questions.Words` has only words with two
  vowels or more and no capitals but on vowels, as in the seeded list.

## Runs

| Run | Instance | Shows |
|---|---|---|
| `conversation_safe` | 1 user, 2 words and a homograph, runs of 2, every message, no faults, fair | a run has a live question, its finish button, and ends: with the last answer or the second miss, in the very dispatch, and in the end whatever the user does |
| `conversation_faults` | 2 words, runs of 2, 2 faults of any kind, rows of the old bot | type, tally, missed words, question only in a run, answers graded on their own question, expiries acting on theirs |
| `quizzes` | 2 users, 3 polls, one user forwards theirs | the maps agree, each question settled once, nobody who forwards nothing is left hanging |
| `keyed_mutex` | 3 threads, 2 keys, fair | mutual exclusion, exact counts, everyone served, a lock per key |
| `dispatch` | 1 update, 2 expiries, 2 users, rate limits, panics, fair | lock held within the deadline and used as `KeyedLock`, no failure or panic counted twice, updates and expiries handled |
| `sender` | 2 sends, 3 attempts, waits up to and beyond the cap, with and without a deadline, fair | exact counters, bounded waits, every call returns, at most one copy and a true verdict |
| `broadcast` | 1 admin and 1 user, a text and an original, 2 deliveries, 1 edit, 1 restart, panics, fair | sent as shown, once, only when confirmed, in pace, with true figures, and to the end |
| `metrics` | 2 dispatches, 2 routes, 2 counters, a report | exact timings, of one instant; a figure that was true while the report was made |
| `vocabulary` | words of up to 4 letters with 1 to 3 stresses; lists of up to 2 words a letter | answer offered, graded as shown, no tell; every word reachable and listed once, under its letter |
| `restart_stuck` | 1 word and a homograph, fair, 1 restart | violated: nothing moves a run on after a restart |
| `homograph_answer` | 1 word and a homograph, 1 failing send | violated: an answer is graded on another question |
| `quizzes_forwarded` | as `quizzes` | violated: the run of a user who forwards a poll is left hanging |

The properties, in a sentence each, are next to their definitions. The type
invariants of `Sender`, `Broadcast`, `Dispatch`, `Quizzes`, `Metrics` and `KeyedMutex`
are proved, and not checked again; so are `CurrentWordAsked` and `ClockOnlyForOpen`.

### Bounds

- `Words`, `Catalog`: two words are enough for a draw to have a choice, for a
  wrong answer to bring a word back and for an answer to be late for another
  word; the homograph is a third entry with the spelling of one of them. Every
  word is used up in both, so that running out of them happens too.
- `Sizes = {2}`: a run has a first answer that does not end it and a last one
  that does.
- `MaxInFlight = 1`: one answer of the user sent and not yet confirmed; more
  than one poll may be open at a time all the same.
- `Polls` of `Conversation`: at least the open question, one that was superseded
  and is still on the screen, and one in flight. With every slot in use the model
  does not ask another question until one of them closes, which it always may.
  Of `Quizzes`: each is sent once, and three are a question, the one that
  follows it and one of another user.
- `TimeoutBuffer`: 64 in the code. In `Conversation` at least the number of
  expiries one user can have waiting, as nothing is to be dropped there; in
  `Dispatch` 1, so that the channel is full at times.
- `MaxFaults = 2`: a fault while another is being recovered from. The proofs are
  free of this bound, and of all others.
- One user in `Conversation`: users share the expiry channel (`Dispatch`) and the
  registry (`Quizzes`), of which there are two. The proofs are for any number.
- `Entries = 3`: each of three threads may hold one.
- `HandlerTimeout = MaxRetryAfter = 2`, `Waits = {2, 3}`: the thirty seconds of the
  code are the same for both; a wait is one that is worth it or one beyond the
  cap. `SendAttempts` is 3 in `sender` as in the code and 2 in `dispatch`, where
  the second attempt is the first that the deadline can cut short.
- `MaxStaged = 2`, two deliveries: a message staged over another, and one
  confirmed while the one before it is being delivered.
- `MaxLetters = 4`: from two to four vowels, so that a word has more wrong
  double options than are wanted, exactly as many, or fewer. The words
  in the seeded list have one or two stresses. `LongestMessage = 3` letters of an
  alphabet of two: a message names a letter twice, or one no word begins with.

### Fairness

Nothing is asked of a user, in any module.

`Conversation`: Telegram delivers an answer that was sent, closes a poll whose
open period is over and confirms what was handled; a clock that was started runs
out (`time.AfterFunc`); the goroutine that reads the channel runs, and the
dispatch it makes returns, which is what `dispatch` shows. Weak fairness is
enough: once enabled these stay enabled until they happen.

`KeyedMutex`: a goroutine runs and a handler returns (weak), and `sync.Mutex`
gives the lock in the end to one that waits, since it switches to hand-off after
a millisecond (strong, on the three steps that take a mutex). `Dispatch` has the
same for `Begin`, where a goroutine gets the lock of its user; the rest of a
dispatch, `watchTimeouts` and time are weakly fair.

`Sender`: a request comes back, a timer or a deadline fires, time passes (weak).
`Broadcast`: a delivery and its own ticker run, and the send of its report comes
back, with whatever answer (weak); that the report arrives is not assumed, and
the admin need not confirm anything.

`CHECK_DEADLOCK FALSE` is in the two configurations of `Quizzes` only: each poll
is sent once there, and when all are used and answered nothing is left to do.
Elsewhere a state without a next one would be an error.

## Disagreements with the documentation

Each of these has a run in which TLC finds it.

1. *restart_stuck.* `README.md` and `quizzes.go` say that after a restart "the run
   moves on to the next word". It does if the user answers the poll that was open
   before; if that poll has closed, or closes unanswered, no clock is running and
   every message but the finish button is ignored.
2. *homograph_answer.* `ErrStaleAnswer` is for a reply that "does not belong to the
   question currently open". The check compares plain spellings, so after a
   failed `SendQuiz` an answer to the poll before is graded on a homograph.
3. *quizzes_forwarded.* An open question is "a question put to a user", kept
   "until it is answered". It is taken by whoever answers it: when a user in a
   run answers the poll that another has forwarded to them, the question of the
   other is gone, its clock is stopped and nothing moves that run on.

These have none of their own; the constants, where a property is there to try
them with, reproduce them.

- `keyboardForStage` is there "so that an error message does not strand them
  without one" (`menu.go:60-61`). When the Save in `moveTo` fails, it goes by the
  stage that was not saved: the row says `game`, the screen shows the run
  lengths, and the router ignores them. `RunKeyboard` with `Faults = {"db"}`.
- "Leaving the stage behind would strand the user in a finished run"
  (`service.go:277-278`). When the reaction of `complete` fails to send, the run is
  left with every answer given, and the next message or expiry finds it so.
  `RunWithinBounds` with `Faults = {"send"}`.
- A full channel drops the expiry of a run that then has no clock
  (`practice.go:268-274`). `RunHasLiveQuestion` with two users, `TimeoutBuffer = 1`,
  `Polls = {1, 2}` and `MaxInFlight = 0`.
- Running out of words "cannot happen at the offered run lengths"
  (`service.go:21-23`). An answer to an unknown poll asks another word and counts
  nothing; a user who falls one poll behind stays one behind, and each of their
  answers uses up a word. That the run ends all the same is part of `RunEnds`.
- An original that its author edits after the preview goes out as edited
  (`admin.go:126-133` copies it each time). `SentWasPreviewed` therefore asks for
  the message that was shown, in that edition or a later one.
- The pace "keeps the bot below Telegram's limit" (`broadcast.go:20-21`) for each
  delivery by itself; of two at a time it is twice that. `DeliveriesSpaced`
  bounds each delivery by the ticks of its own ticker, and says no more.
- The report that ends a broadcast is one send, which may fail and is then only
  logged (`admin.go:87-93`). `EveryDeliveryEnds` therefore says that a report is
  sent off, not that it arrives.
- Failed updates and recovered panics are two figures of the status report
  (`bot.go:282`, `bot.go:132`), and an update whose fallback panics is in both.
  `FailuresCounted` bounds each by itself, not their sum.
- The fallback runs under the context of the update (`bot.go:263`, `bot.go:285`), and
  says nothing to the user when it is the deadline that made the handler fail.
- An expiry that cannot load its user counts as a failed update and not as an
  update (`bot.go:244`), which `FailuresCounted` allows for.
- A panic of a handler ends the process when an expiry has called it
  (`bot.go:101`), while `README.md:113-115` says that one is contained.
- A word without a stress passes the checks at start-up (`catalog.go:36`).
  `AnswerOffered` with `LeastStresses = 0`: its answer is not among the options.
- The list is "sorted alphabetically" by the order of the rows (`accents.go:21`,
  `render.go:66-68`), which is the order of seeding. `ListedUnderEach` with
  `Seeded = FALSE`: a letter gets two sections.
- `BroadcastTest` reports that the test was sent although the send may have failed.

## Proofs

TLAPS proves, for every value of the constants that the assumptions allow:

| Theorem | Says |
|---|---|
| `ConversationProofs!UsersStaySound` | the inductive invariant behind the five that follow |
| `ConversationProofs!TypeCorrect` | `[]TypeOK` |
| `ConversationProofs!QuizOnlyInRunHolds` | a question is open only inside a run |
| `ConversationProofs!CurrentWordAskedHolds` | the current word is among the words asked |
| `ConversationProofs!TallyAddsUpHolds` | the tally adds up, no word counts right twice |
| `ConversationProofs!MissesBelongToRunHolds` | the missed words are of this run |
| `ConversationProofs!UsersStaySteady` | the inductive invariant, while nothing fails |
| `ConversationProofs!RunWithinBoundsHolds`, `RunKeyboardHolds` | an open run has answers to come, too few misses to end, and its button |
| `ConversationProofs!PollsStayShown` | a poll that can be answered is about the word of its question, whatever fails |
| `ConversationProofs!GradedOnSameLetters` | only the dispatch of an answer to the poll of the open question grades anything, on a word with the letters the user was shown, homographs and faults included |
| `ConversationProofs!GradedOnOwnQuestionHolds` | and the question of that poll is about the word on the row, where no two words of the catalogue have the same letters |
| `ConversationProofs!ExpiryOnOwnQuestionHolds` | a miss is counted by the expiry of the open question only; only that or an answer puts another in its place |
| `ConversationProofs!LiveWhileNothingDropped` | while nothing fails, a run is stuck only by an expiry dropped at a full channel |
| `ConversationProofs!RunHasLiveQuestionHolds` | with room in the channel for every poll, never |
| `QuizzesProofs!RegistryStaysSound`, `TypeCorrect` | the inductive invariant, and the type |
| `QuizzesProofs!RegistryConsistentHolds` | the two maps are inverse to each other |
| `QuizzesProofs!ClockOnlyForOpenHolds`, `SettledOnceHolds` | no clock outlives its question, each is settled once |
| `QuizzesProofs!NotLeftHangingHolds` | the run of a user who forwards nothing always goes on |
| `KeyedMutexProofs!TypeCorrect` | no count goes below zero |
| `KeyedMutexProofs!MutualExclusionHolds` | one update of a user at a time |
| `KeyedMutexProofs!EntryCountedHolds` | the map holds exactly the entries in use, counted exactly |
| `KeyedMutexProofs!Implements` | `KeyedMutex` implements `KeyedLock` |
| `DispatchProofs!GoroutinesStaySound`, `TypeCorrect` | the inductive invariant, and the type |
| `DispatchProofs!HoldBoundedHolds` | no update holds a lock beyond its deadline |
| `DispatchProofs!FailuresCountedHolds` | no update or expiry is counted as failed twice, and no update as panicked twice, the fallback's panics included |
| `DispatchProofs!UsesLockHolds` | `Dispatch` implements `KeyedLock` |
| `SenderProofs!CallsStaySound`, `TypeCorrect` | the inductive invariant, and the type |
| `SenderProofs!CountersExactHolds`, `WaitBoundedHolds` | counted once, bounded waits |
| `SenderProofs!Implements` | `Sender` implements `Delivery` |
| `BroadcastProofs!DeliveriesStaySound`, `TypeCorrect` | the inductive invariant, and the type |
| `BroadcastProofs!OncePerStagingHolds`, `SentWasPreviewedHolds`, `NothingLeavesUnconfirmedHolds` | once, as shown, and only when confirmed |
| `BroadcastProofs!ReportAddsUpHolds`, `DeliveriesSpacedHolds` | true figures; each target after the first uses up a tick of the delivery's own ticker |
| `MetricsProofs!MetricsStaySound`, `TypeCorrect` | the inductive invariant, and the type |
| `MetricsProofs!TimingsExactHolds`, `SnapshotWithinHolds`, `TimingsOfOneInstantHolds` | nothing lost, and reports true of an instant |
| `VocabularyProofs!QuizStaysSound`, `CatalogStaysSound` | the inductive invariants of the quiz and of the catalog |
| `VocabularyProofs!AnswerOfferedHolds` | the answer is among the options, all of them spellings of the word, where every word has a stress |
| `VocabularyProofs!GradedAsShownHolds`, `NoTellHolds` | a pick counts as Telegram shows it; no option gives itself away |
| `VocabularyProofs!AlphabetLeadsToWordsHolds` | the keyboard leads to every word, and to no empty list |
| `VocabularyProofs!ListedOnceHolds` | a word asked for is listed in one place, under its letter, however the rows come |
| `VocabularyProofs!ListedUnderEachHolds` | and each letter has one heading, where the rows come in alphabetical order |

Each follows the same argument: an invariant `IInv` that holds at first, that
every action keeps, and that implies the property.

*Conversation.* `IInv` says that each user's record is `Sound`: the conjunction,
for one user, of the type and the four properties. It has to be one conjunction,
as they lean on each other: that a right answer is a new word needs the current
word to be among those asked; that the missed words are at most the wrong answers
needs the tally and the missed words to be cleared together or the missed words
first, which is the order `PracticeMenu` and `Begin` have to fail in.
`ConversationProofs` shows first that every outcome of every handler is sound
when it started from a sound state, handler by handler and failure by failure,
and then adds the clock, Telegram and the restart. The assumptions
used: the word list is finite, the run lengths are positive, and the "no such
thing" values are not things.

`RunWithinBounds` and `RunKeyboard` need `Faults = {}` and no row of the old bot, and
say so. What they need besides `IInv` is `Steady`: a user in a run has the button
and is within the bounds; one about to start has answers to come, or `StartRun`
would open a run already over; outside a run no misses are counted, or the next
run would begin with some.

What an answer is graded on is decided by one more invariant, through any
faults: `Shown`, the text behind the poll of the open question has the letters of
that question's word. Every handler either grades nothing, or grades the word on
the row while a question with the same letters is open (`Own`). That is as far as
it goes: a pick says letters and stress, and `homograph_answer` shows an answer
graded on the other of two homographs. Which poll was answered is part of it: an
answer grades only in the step that dispatches an answer to the poll of the open
question, as one to any other poll takes the path of `Answer` that asks and grades
nothing. `GradedOnOwnQuestionHolds` assumes
`OneEach`, that no two words of the catalogue have the same letters; the seed list
has five pairs that do, and for those it is the theorem before that holds.

What an expiry may do needs no invariant beyond `IInv`. Two states are `Calm` when no
miss was counted and no question put up between them: menus, the ends of a run
and commands are. `ask` puts up a question and counts nothing, and is reached in
three ways: from a message only outside of a run, where `IInv` says no question is
open; from an answer; and from an expiry, behind the check that it is the one of
the open question.

`RunHasLiveQuestion` needs `Live`: a user in a run has a question about the word on
the row, and its clock runs, or its expiry is in the channel or in a goroutine
that waits for the lock. The clock's callback drops the expiry when the channel is
full (`startClock`, `practice.go:269-273`), and then the invariant is gone. So the theorem
comes in two parts. As long as nothing is dropped (`NothingDropped`, an action
property) a run is live. And nothing is dropped when the channel has room for
every poll of every user: an expiry is in the channel once (`AnnouncedOnce`), and a
sequence without repetitions that misses an element is shorter than the set.
With more polls than places (`timeoutBuffer` is 64) a dropped expiry is a way to be
stuck; the code logs it, and counts on one question per user at a time.

*Quizzes.* The two maps are inverse, an open question has been sent to the user
it is open for and has not been settled, and its clock runs or has fired. A
question that is not open has no clock, so settling is once. Who forwards nothing
is answered for by nobody else, which is what `NotLeftHanging` adds: their
question is taken only by a dispatch of theirs, which then puts another or ends
the run.

*KeyedMutex.* The invariant ties the place a thread has reached to what it holds
(`Held`) and the map to the threads registered for each key (`Mapped`). Mutual
exclusion alone is not inductive: two threads exclude each other only because
they refer to the same entry, which holds only because an entry is never dropped
while a thread is registered on it, which holds only because its count is exact.
The refinement then maps taking the entry's mutex to `Grant`, giving it back to
`Free`, and the bookkeeping around them to nothing.

*Dispatch.* The time an update has held its lock and what its context has left add
up to `handlerTimeout` at most: time passes, while it holds the lock, only in a
send, which its context ends. `LockSound` ties the place of a goroutine to the
lock it owns, which makes every step one of `KeyedLock` or none. That no failure is
counted twice is a sum: what has failed, the goroutines that may still fail and
the expiries waiting in the channel come to no more than the updates and expiries
there have been. Panics make a sum of their own: those recovered and the updates
that may still panic, those in the fallback among them, come to no more than the
updates there have been. It is the one proof here that needs the updates to be finitely
many (`DispatchAssumption`), to count them.

*Sender.* That a message is there at most once is not inductive: it needs that a
call that will try again has delivered nothing, which holds because only a rate
limit, an answer that says so, is waited out. How long the waits may be in all
has to be said attempt by attempt.

*Broadcast.* The report adds up because a target is left until its one turn: what
was delivered, what failed and what is left make the total, and a copy arrived
with as many as were counted delivered, or more where an answer was lost. No tick
is used twice: the targets done, and the tick that waits in the channel, come to
no more than the ticks there were and the first target, which needs none. Once
per staging, because what is pending and what was started are both paid for by
the count of what was staged.

*Metrics.* Whoever has looked up or reads timings holds the mutex, so that what was
looked up is still so when it is recorded.

*Vocabulary.* The invariants are short (the question is one that `ask` puts, the
catalog is one that `NewCatalog` reads); the work is in what the operators return.
For the quiz: with at most two stresses the options are the spellings with one
stress, in order, and behind them some of those with two, in any order, the answer
among them (`Variants`). So many are chosen as `Doubles` says, which is the same number
for every spelling of the word that has the same doubles on offer, and a chosen one
could have been the answer: which is `NoTell`. With more than two stresses the answer
is appended (`ManyOffered`); `NoTell` leaves those words out, and the seeded list
has none.
`AnswerOfferedHolds` assumes `LeastStresses >= 1`, for without a stress
`AnswerVariants` has nothing right to offer; the other theorems do not.

For the list, the loops of `NewCatalog`, `ByLetters` and `groupByLetter` are folds of
the community modules, which are defined by a `CHOOSE` of a recursive function. That
there is such a function is shown by taking a least number for which there is
none (`FoldExists`); its values on the first rows, then the first and second, and so
on, are then those of the loop (`LettersLoop`, `ByLettersLoop`, `GroupLoop`), and what is
true of the result is shown along them: the letters so far are those of the rows so
far, a word is added in one place and nothing else moves (`Placed`). In alphabetical
order a word either has the letter of the last section or one behind all there
are, so that no heading comes twice (`PlacedHeaded`). In a database in another order one
may: `groupByLetter` looks at the last section only. `ListedUnderEachHolds` therefore
assumes `Seeded`, and `ListedOnceHolds` says what is left without it.

Every safety property that a run checks is also proved, each from the assumptions
named with it. Only model-checked, as out of the prover's reach, is liveness under
fairness: `RunEnds`, `EveryoneServed`, `EveryUpdateHandled`, `EveryExpiryDispatched`,
`EveryCallReturns` and `EveryDeliveryEnds`.

## Plan

1. An abstract run (asked, answered, ended) that `Conversation` implements, handler
   by handler, and the proof of it.
2. `Quizzes` as the refinement of what `Handlers` says about one user's question.
3. `Broadcast` with `Sending` for the sends it takes in one step, as `Dispatch` has it.
