# Kaya: a verification development

Kaya finds out who met whom. Phones post *mposts* (a Bluetooth sighting: who
posts, when, and which other devices were seen); a background process groups
the mposts that saw each other into *meets* (encounters). Around that core, a
Rails application keeps users, invitations, comments (*chatters*), and
*cirkles*, the lasting groups behind repeated encounters.

This directory models the parts of the program that are hard to test: the
asynchronous pipeline from a web request to a meet, the greedy selection of a
group, and what exceptions, redelivered jobs and restarts may do to them; and
the rows and counters that concurrent web requests share. It models the scripts
of the pages as well, with the parts of jQuery and jQuery UI they rest on: there
the mouse, timers, animations, answers and callbacks meet in any order. TLC
checks the models on small instances; TLAPS proves the safety properties of the
Ruby modules, and those of the scripts but two, for every instance.

Paths below are relative to `src/`.

## 1. Inventory

| Component | State | Operations | Interacts with |
|---|---|---|---|
| Mposts controller (`app/controllers/mposts_controller.rb`) | `mposts` rows | `create` | saves a mpost, enqueues a delayed job |
| Delayed job (`Mpost#perform`, external library) | job rows | perform, at least once | pushes the mpost onto the process queue |
| Process queue (`lib/kaya_tqueue.rb`) | `@tqueue_queue`, one process thread | push, pop, perform protected from exceptions | timer thread and delayed job push, process thread pops |
| Timer (`lib/kaya_timer.rb`) | thread, two mutexes | start, stop, pause, resume, run | pushes `process_meets` |
| Meet processer (`app/models/meet_processer.rb`) | the pool: pending mposts, raw and processed clusters, pooled mposts | `process_mposts`, `process_meets`, record, replay, restart | reads and writes `mposts` and `meets` rows |
| Group selection (`MeetRelation` in the same file) | graph, pending, skipped and seeded nodes | populate, seed, proceed | called for every cluster and every candidate meet |
| Meets (`app/models/meet.rb`) | `meets` rows, their counters and members | `extract_information`, encounter counters, deletion | processer, controllers |
| Cirkles and encounter counts (`meet.rb` 659-860) | special meets and the reference counts in their mposts | `add_encounter`, `delete_encounter`, lookup | every change of a meet's users |
| Chatters (`app/controllers/chatters_controller.rb`) | `chatters` rows, counters on topics and meets | create, destroy | concurrent web requests, optimistic locks |
| Invitations (`app/controllers/invitations_controller.rb`) | invitations, pending users, their mposts | create, confirm | users, meets, mails |
| Users and sessions (`app/models/user.rb`, `users_controller.rb`, `sessions_controller.rb`) | `users` rows: status, name, passwords, `lock_version` | sign up, update, reset, remove, sign in | concurrent web requests, mails |
| Meets controller (`meets_controller.rb`) | decisions of invited users | update, destroy, pending decision | mposts, meets |
| Cursorize (`lib/kaya_base.rb` 494-632) | none | offset, limit and index of a listing | every listing |
| Page scripts (`public/javascripts/application.js`) | the menu's timer, flags of each form, classes and places of items | follow the mouse, the focus, the text, the window | jQuery's events and animations |
| Content slider (`jquery.contentslider.js`) | position of the articles, the flag `inuse`, two buttons | click | jQuery's animations |
| Remote forms (`rails.js`) | the buttons of forms and their labels | submit, click, confirm, disable | jQuery's requests |
| jQuery requests (`jquery.js` 5720-6200) | `jQuery.active`, per request what its closure holds | send, answer, timeout, abort, JSONP | rails.js, tabs, autocomplete |
| jQuery effects (`jquery.js` 1333-1440, 6474-6990) | queues, `jQuery.timers`, one interval | animate, delay, stop, clear, show, hide | every script that moves something |
| jQuery events (`jquery.js` 1824-2955) | handlers by element and type, native listeners | bind, live, one, unbind, trigger, dispatch | every script |
| jQuery data (`jquery.js` 1108-1500, 4400-5213) | `jQuery.cache`, the number in each element | data, insert, clone, replace, remove | events, effects, widgets |
| jQuery ready (`jquery.js` 275-905) | the list of functions, `readyWait` | `jQuery(fn)`, hold, the browser's events | every script |
| jQuery selectors (`jquery.js` 3007-4619) | marks on the elements | `find`, `filter`, `closest`, traversals | every script |
| jQuery UI widgets (`jquery-ui.js`): slider, tabs, accordion, dialog, autocomplete, selectable | options, classes, queues, overlays, timers of each | what the user and the page do to them | jQuery's events, effects and requests |

Three of the scripts are libraries that the repository ships under
`public/javascripts` (jQuery 1.4.4, jQuery UI 1.8.7, easing). They are modelled as far as the
program's own scripts, or the widgets the repository keeps for them, rest on
what they promise. The layout (`app/views/layouts/application.html.erb` 12, with
the defaults of `config/application.rb` 37) loads `jquery.js`, `rails.js` and
`application.js`; jQuery UI, easing and the content slider are in the repository
and are not loaded by it.

Not worth a model: views, helpers, mailers, static pages, statistics and debug
switches, CSS and images under `public/`, migrations.

### Behaviours that are hard to test

* Three kinds of threads (web requests, timer, process thread) and a second
  process (the delayed job worker) meet in one queue; a mpost can arrive
  before, during or long after the processing of its neighbours.
* The pool is in memory, the meets are in the database. The code keeps the two
  in step by hand and takes shortcuts when it believes that one of them cannot
  know a mpost (`is_definitely_cold?`, `is_definitely_warm?`).
* A job that raises is dropped where it stands. What it had put in the pool
  stays; what it held in local variables is gone.
* The job is deleted only after the mpost is on the queue, so a mpost may be
  delivered twice; the queue does not survive a restart, so it may be lost.
* The selection of a group is greedy with exclusions and second chances.
* Web requests are served by several processes. A request is a sequence of
  statements; the counters of a meet are saved under an optimistic lock with a
  limited number of retries, everything else without a lock.
* A browser runs one function at a time, but any event, timer or answer may come
  between two of them, and jQuery calls the page back from the middle of its own
  loops: a callback may stop, begin, bind or unbind what is being gone through.
* The scripts remember in flags and timers what they could read from the page:
  the flags must stay true while the page changes without them.

`PROJECT.json` lists these hazards with the line where each one bites and the
properties that cover it.

### What makes the components correct

* Pipeline: no mpost is forgotten; a mpost is in one place at a time; its meet
  never changes; memory and database agree; every mpost settles.
* Selection: no two members of a group exclude each other; the coefficients
  kept incrementally are exact; members of a meet are never dropped; the loop
  ends.
* Timer and mutexes: jobs keep coming after a raise, pause and resume.
* Cirkles: the reference count of a user in a cirkle is the number of active
  encounters that brought the user there.
* Chatters: counters equal the number of rows they count.
* Users: the owner of an account has been told a secret that opens it, however
  requests overlap; an active account has a name; repeated mails agree.
* Invitations: a pending mpost is confirmed or declined once, and the counters
  follow.
* Page scripts: what is shown, lit, enabled or open fits where the mouse, the
  focus and the window are; what was written can be sent, once.
* Requests: each ends once, and the page is told when the last one has.
* Effects: the sentinel of a queue says whether something is under way, and every
  queue drains.
* Events and data: the browser listens for what has handlers, and nothing is left
  of an element that is gone.
* Selectors: whatever marks and changes earlier calls have left, a query finds what
  it means.
* Widgets: at rest they are consistent, whatever was done to them in motion; the
  mouse decides by where it ends.

## 2. Plan

1. `MeetProcesser` with its abstract specification `MpostLifecycle`, the
   instances `MCPeers` and `MCHosted`. *Done.*
2. `MeetRelation`, the selection the pipeline relies on. *Done.*
3. Proofs: type correctness, the safety properties, the refinement. *Done.*
4. `Chatters`: topics, comments and counters under concurrent requests, and the
   proof that the counters settle. *Done.*
5. `Cirkles`: `extract_information` and the reference counts of cirkles; and
   `Extractions`, several of them at a time. *Done.*
6. `Accounts`: signup, update, reset and invitation of users under optimistic
   locks, with their proofs. *Done.*
7. The scripts of the pages: `ContentSlider`, `PageMenu`, `PostForm`,
   `FloatingItems`, and `RemoteForms` with the requests of `Ajax`. *Done.*
8. What they rest on: `Effects`, `Events`, `DomData`, `Ready`, `Sizzle`. *Done.*
9. The widgets with the most state: `RangeSlider`, `Tabs`, `Accordion`,
   `Dialogs`, `Autocomplete`, `Selectable`; `MCScripts` checks 7 to 9. *Done.*
10. Proofs: what cirkles hold, the coefficients of the selection, chatters with
   one process, overlapping extractions, the reference counts; the forms, what
   is shown in place, the mouse, the field with suggestions, the functions that
   run once, the widgets at rest, what jQuery keeps of elements and handlers. *Done.*

Left for later: the pending mposts an invitation to a meet makes, and declining
them; two extractors that look for the cirkle of a pair; `Cursorize` as operators, checked against a
reference definition; draggable and sortable of jQuery UI.

## 3. The modules

### MeetProcesser

State. `posted`, `meetOf`, `meetCount` and `mode` are the database
(`mposts.meet_id`, the `meets` rows, `mposts.host_mode`); `delayed` and `jobs`
the delayed jobs and the process queue; `pending`, `raw`, `warm`, `pooled` the
`MeetPool` and `@pooled_mposts`; `todo`, `flushed`, `groups`, `rejected`,
`skipped` the local variables of the job that runs, and `phase` where it is.
`discarded`, `absorbed`, `lost` and `disturbed` are history: they record what
happened to a mpost that ends without a meet, and whether a job has raised or
was delivered twice.

| Actions | Code |
|---|---|
| `Post` | `MpostsController#create` |
| `Deliver` | `Mpost#perform`, `MeetWrapper#process_mpost` |
| `Timer` | the block of `start_tqueue` |
| `ProcessMpost`, `ProcessMeets`, `SkipProcessMeets` | the process thread taking a job, `is_timer_interval_ok?` |
| `SkipProcessed` ... `CreateRawCluster` | one turn of the loop of `process_pending_mposts`, by its branches |
| `PendingDone`, `FlushMeet`, `FlushDone` | `pending_mposts.clear` and the pooled mposts |
| `ProcessGroup`, `PutBack`, `GroupsDone` | the host and join groups, and the rejected mposts, one after the other |
| `DiscardCluster`, `SkipCluster`, `CreateMeetFrom` | one raw cluster in `process_raw_clusters` |
| `ReleaseColdMeets` | `release_cold_meets` |
| `RaiseOnScore` | the exception in `delta_time_discount`, which always happens for some pairs |
| `RaiseAnywhere`, `RaiseInFlush`, `RaiseAfterSplit` | a failing database statement |
| `Crash` | the worker process dies and starts again |

A job is cut where it uses the database, since that is where it can raise and
where others can read what it wrote. Time is counted in timer intervals; the
clock stops at `MaxClock`, which stands for every later time, and a timer job
issued then is never too early.

Abstractions. A cluster is its set of mposts: `latest_mpost`, `earliest_mpost`
and the master mpost are functions of it. A meet is its row number and its
members; a processed cluster also has the members that its `Meet` object has loaded
(`cached`), which late mposts are scored against (`meet_processer.rb` 724): what is
saved through another object of the same row does not reach them, and a retry after
a stale save may have reloaded them (`SavedThroughKey`). The other columns of a
meet, its hoster and its mviews are left to the model of `extract_information`; the
check that an owner's mpost names its owner as the hoster is there (`HosterOf`). What `MeetRelation` returns for a cluster is any
non-empty subset without exclusions, and what `split_cluster` makes of the
rest any partition into linked sets: both contain what the code does. The old
API's durations (`meet_duration_tight_compat`) and the collision flag of join
mposts are left out, and so is what `add_owners_to_joined_meet` does with it (`xx_mposts`):
collisions are deletions of the model of cirkles. Cirkle creaters never reach the queue.

`MpostLifecycle` is what a client sees of a mpost through
`Mpost#processing_status`: new, waiting, then grouped for good or dropped.
`FollowsLifecycle` states that the pipeline implements it.

### MeetRelation

The greedy selection: `PopulateFromCluster` or `PopulateFromMeet`, then
`SeedFirstNode`, and `PromoteCandidate` or `SkipCandidate` until nothing is
pending. Where the code takes the first maximum of a hash, the model takes any.
Coefficients are integers: a pair that sees each other within the duration
counts 1 (`see_each_other?` makes both directions hold), one outside it counts
minus `Infinite`. Only the mean of `coeff_stats` is used, so only it is kept.

### Chatters

The topics and comments of one meet. State: the rows of `chatters` (`rows`, and
their columns `author`, `topicOf`, `placed`, `counted`), the meet's counters
`cached` and its `version`, and for every request its next statement `pc`, what
it is for (`kind`, `by`, `on`), its copies of the rows it has loaded (`copy`,
`loaded`), what it has read (`tally`, `own`, `rest`) and its remaining `tries`.
`owes` is history: the request has changed the rows of the meet and not saved
the counters yet; `disturbed`, that one died or gave up in that state.

| Actions | Code |
|---|---|
| `StartPost`, `StartComment`, `StartMessage`, `StartDelete` | the filters `authorized_chatter`, `authorized_chatter_owner` |
| `StartTouch` | any other save of the meet, such as `force_timestamping` from an encounter |
| `Insert`, `Place`, `Attach`, `CountComments`, `SaveTopic` | the statements of `ChattersController#create` |
| `RaiseInMessage` | `get_cirkle_for_users` without an encounter |
| `LoadMeet`, `ReadComments`, `DropOwn`, `DropDone`, `AskEmpty`, `Destroy`, `Orphan` | `delete_chatters`, for the one chatter of `ChattersController#destroy` |
| `CountTopics`, `CountChatters`, `SaveMeet`, `Retry`, `GiveUp` | `opt_lock_protected { update_chatters_count; save }` |
| `Fail` | a statement raises, or the server process is killed |

Abstractions. A counter is the set of the rows it counts, which also stands for
the list of the latest ids kept next to it; the photos are left out. A row has
the name of the request that inserts it. Rails 3.0.3 is modelled by what it
does to the rows: a serialized column (`cached_info`) is written by every save,
a save of a row that is gone changes nothing, a `has_many` that is dependent on
its owner is destroyed with it as far as it is loaded, and an association found
empty by a count is taken for loaded. Who belongs to the meet is left out:
every user may post. `ChatterProcesses` adds how many processes answer the
requests, and what holds if it is one.

### Cirkles

`extract_information` and what it does to cirkles. State: `posted`, `claim`,
`meetOf`, `deleted` are columns of the mposts (`claim` the cirkle id a hoster
posts); `meetType`, `collided`, `cirkleOf` columns of encounters; `cirkles` the
row of a cirkle with its mposts, by user: the reference count and the status.
The encounter list of a cirkle is `encounters`, its cached member count
`usersCount`. `quit` and `withdrawn` are history: who has deleted a cirkle, and
which hosters' mposts were in an encounter that the hoster has deleted.

| Definitions | Code |
|---|---|
| `PostHoster`, `PostCreater` | `process_from_api`, the shortcut of `MpostsController#create` |
| `AssignMposts` | `assign_mposts_to_meet`, for a new meet or one in memory |
| `LeaveEncounter`, `LeaveCirkle` | `MeetsController#destroy` |
| `Extract` | `extract_information`, called by all of these but the last |
| `TypeFor`, `MustLeave` | `extract_meet_type`, the three reasons to leave a cirkle |
| `With`, `AddEncounter`, `Without`, `DeleteEncounter` | `add_encounter`, `delete_encounter` |
| `GetCirkleForEncounter`, `GetCirkleForUsers`, `StartCirkle` | the class methods of these names |

`delete_encounter` decrements every count and saves only those that reach zero;
then its second half raises. Both are part of `Without` and `DeleteEncounter`.
An encounter is extracted as a whole by one request or job at a time. Which
mposts come together is any set that sees one another (`Sees`); `MeetRelation`
has the details. Invited (pending) members, time, place and name are left out;
with them, that an invited user who confirms a private encounter gets into the
private cirkle of the pair (`meet.rb` 276).

`Extractions` is about several extractions that add to one group cirkle at a
time, statement by statement: the process thread that forms an encounter or adds
a late mpost, requests that confirm an invitation, requests that delete an
encounter. A thread has its next statement (`step`) and what it has read (`job`).
The rows with a `lock_version` are `cirkle` and `meetings` (the encounters); in
place of versions, `stale` and `outdated` are the threads whose copy of them
somebody else has overtaken. `refs` are the cirkle's mposts, which have no
version: one per user if all goes well. `neglected` is history: a change of the
cirkle's counters was given up after the last retry.

| Actions | Code |
|---|---|
| `Form`, `ComeLate` | `assign_mposts_to_meet`, `assign_mpost_to_meet` |
| `Confirm`, `Leave` | `pending_decision`, `destroy` of `MeetsController` |
| `LoadCirkle`, `Touch` | `extract_information`: whom to add to which cirkle, `force_timestamping` |
| `ReadMposts`, `SaveUsers`, `SaveMpost` | the first block of `add_encounter`, and what it saves after it |
| `Link`, `CountEncounters`, `SaveCount` | its second and third block |
| `SaveMeet` | the end of the block that encloses all this, or its repetition |

### Accounts

The rows of `users` and the requests that save them. A row has its `status`, a
name or none (`named`), the secret behind `encrypted_password` (`secret`), the
temporary password (`temp`) and `lock_version` (`version`). A request has its
next statement `pc`, what it is for (`kind`, `on`), the row it has loaded
(`copy`), the `password` attribute of that object, which a reload does not touch,
the saves it has left (`tries`), and for an invitation the addresses it still
has to look at (`todo`) and the rows it will write to (`invitees`). Two
variables relate this to people: `known` are the secrets an owner has chosen
or been mailed; the histories `overtaken` and `unmailed` record that a reset
saved an account after a reload and that a mail was never sent.

| Actions | Code |
|---|---|
| `StartSignup`, `Insert` | `UsersController#create`, which adopts an invited user or inserts a row |
| `StartUpdate`, `StartReset` | `UsersController#update`, `SessionsController#create_reset` up to the block |
| `Save`, `Refuse`, `Reload` | the block of `opt_lock_protected`: the assignments, the validations, the hooks, a stale save |
| `MailReset` | `InvitationMailer.password_reset` |
| `StartInvitation`, `FindInvitee`, `CreateInvitee`, `SkipInvitee` | `InvitationsController#create`, one address at a time |
| `MailInvitee`, `InvitationDone` | the mails, once every address is looked at |
| `Die` | a mail cannot be delivered, a row hits the unique index after the validation, the process is killed |

`Assigned` tells what a block assigns again after a reload from what was
assigned once before it; `Password` and `Encrypted` are the two `before_save`
hooks; `Changed` says that a save without dirty columns writes nothing and
checks no lock (Rails 3.0.3). A secret has the name of the request that drew or
chose it, since `passcode` is random. Not modelled: status 1 and 2, which no
request can save (section 4), the admin's `perm_destroy`, and sign-in cookies.

### Scripts of the pages

A browser runs one function at a time, so a step of these modules is a function
that a browser event, a timer, an answer or the page calls, with all it calls in
turn. Where jQuery calls the page back from inside a loop of its own (`Effects`,
`Events`), the loop is cut there, and the stack of loops under way is a variable.
Places on the screen are elements, rows, lines or values; what only styles is
left out. Each module bounds the steps of users and page by a `Max` constant;
timers, animations and answers are never bounded.

| Module | State | Actions and their code |
|---|---|---|
| `ContentSlider` | where the articles are, the flag `inuse`, the two buttons and what is queued for each | `ClickButton`; `ArticlesStop`, `ButtonFadeStep`, `ButtonFadeEnds` are the animations |
| `PageMenu` | the pointer, the open menus, the script's timer and those it has forgotten, lit rows, the page gone to | `MovePointer` (all handlers of `jsddm`, `hover_highlight`, `hover_visibility`), `TimerExpires`, `ClickPage`; `clickable_row` is in the last |
| `PostForm` | focus, length of each text, file, `toggle_on`, `permanent_toggle`, the limiter's box, the heights | one event with the handlers of `form_toggle`, `inputlimiter` and `TextAreaExpander`: `MoveFocus`, `Key`, `Paste`, `ChooseFile`, `ChangeSelect`, `Clear`, `Submit`; `BoxFades` |
| `Ajax` | what the closures of `jQuery.ajax` hold (`requestDone`, `xhr`, timeouts, JSONP functions) and `jQuery.active` | `Send`, `Veto`, `SendRaises`, `AnswerArrives`, `ScriptLoads`, `Timeout`, `AbortRequest` |
| `RemoteForms` | buttons, their labels, what each request was for; composes `Ajax` | `BindHandlers`, `UseRemote`, `UseOrdinary`, `UseUnhandled`, and `RequestEnds` with what `Ajax` does |
| `FloatingItems` | the scrolled window, followers, the item that floats over its row or gives way (`gives_way`) | `Scroll` (`follow_display`), `EnterRow`, `LeaveRow` (`hover_display_toggle`, `floating_toggle`) |
| `Effects` | the queue of each element, `jQuery.timers`, the interval, delays, the stack of ticks, stops and callbacks | `Animate`, `Delay`, `ShowOrHide`, `ClearQueue`, `Stop`, `Tick`, one step for every turn of the two loops, callbacks that stop or animate |
| `Events` | handlers by element and type, the browser's listeners, the stack of events being dispatched | `BindHandler`, `Live`, `UnbindHandler`, `Fire`, `Trigger`, `CallHandler`, `CallOne`, `CallWithin`, `CallLive`, `Bubble` |
| `DomData` | the tree, `jQuery.cache`, the number in each element, the listeners | `SetData`, `DomBind`, `DomUnbind`, `RemoveData`, `TakeOut`, `Detach`, `Empty`, `Insert`, `ReplaceWith`, `Clone` |
| `Ready` | `readyState`, who will call `ready`, the list, `readyWait` | `Register`, `Hold`, `ReleaseHold`, `ReadyEvent`, `IEEvent`, the document's progress |
| `Sizzle` | the page and the marks that queries leave on it | `Query` (the engine from the right, `POS`, `CHILD`, the native one), `Traversals`, a page that changes |
| `RangeSlider` | the handles, the flags of mouse and keys, the timer of the delay, keys and buttons that are down | `Down`, `DragHandle`, `DragDelayOver`, `ButtonUp`, `UpMissed`, `KeyDown`, `KeyUp`, `KeyUpElsewhere`, `SetValue`, `SetOption`, `DisableRange` |
| `Tabs` | tabs, selection, classes, the queue of a selection, animations, the load | `SelectTab`, `Load`, `Add`, `RemoveTab`, `Enable`, `DisableTab`, `SetDisabled`, `Url`, `DestroyTabs`, `AnimationEnds`, `Answered` |
| `Accordion` | the active header, `running`, panels, attributes, slides | `ClickHeader`, `Arrow`, `CloseAll`, `DisableAccordion`, `DestroyAccordion`, `Veil`, `PanelStops` |
| `Dialogs` | each dialog, the overlays and those to be used again, the z-indices | `Open`, `Close`, `Raise`, `Escape`, `DestroyDialog`, `HideEnds`, `BindGuard` |
| `Autocomplete` | the field, the menu, requests, the closing timers | `Type`, `SearchTimer`, the keys, `LeaveField`, `EnterField`, `Hover`, `MenuDown`, `MenuClick`, `OutsideDown`, `ClosingTimer`, `AnswerSearch` |
| `Selectable` | the classes of the items, their data, the lasso | `Press`, `Pulled`, `ReleaseLasso`, `DisableSelectable`, `PageSelects` |

The browser is external: which events it sends, in which order listeners are
called, that a timeout once set expires, and that an element shown is where its
style puts it. Histories (`disturbed`, `cut`, `odd`, `torn`, `hurried`,
`misused`, `revived`, `crossed`) name the sequences after which a property does
not hold; section 4 lists what goes wrong there.

### Instances

`MCPeers` and `MCHosted` give the phones, sightings and limits, `MCRelation`
the trigger times, `MCChatters` the requests and the rows they may find, in
which `together` (of `ChatterProcesses`) is one process or two, `MCCirkles` the mposts, the devices they have seen and their modes, and in
`overlapping` whether extractions come one by one (`Cirkles`) or together
(`Extractions`), with numbers for ids, given in order. `MCAccounts` gives
interchangeable addresses and requests.
`MeetInvariant` holds the inductive invariants of the pipeline. In `MCScripts` a
behaviour is about one script, its `scene`; the other modules stay as they began.
A property of that run is about every scene, or joins the named properties of
several modules.

## 4. What is checked

Sizes are TLC's distinct states.

| Run | Instance | Shows |
|---|---|---|
| `peers` (45,548) | a, b, c see each other; a and c are 4 intervals apart, the duration is 3 | types, disjoint clusters, memory and database in step, the refinement, and that everyone settles |
| `faults` (1,553,218) | a, b, d with a pair at exactly the duration; one raising statement, one redelivery, one crash | nothing is forgotten unless it is counted lost |
| `hosted` (255,543) | owner's sighting, owner, guest, client of a join; every second timer job is too early; one raising statement | `HostedHolds`: clusters stay disjoint and nothing is forgotten with host groups, and exceptions lose no peer, nor whoever became one again; rejected mposts settle in peer mode; only mposts held in local variables are lost, and everybody else settles |
| `relation` (28,737) | every relation between five mposts | no excluded pairs, `ScoresExact`, members stay, and that the selection ends |
| `chatters` (1,772,065, up to symmetry) | three comments, deletions or touches, two at a time, two tries each; or three requests of any kind one after the other, of a user and the admin, one of which may die | the counters of the meet are right once all are answered; with one process, comments keep their topics, topics count them, and a deletion takes nobody else's chatters |
| `cirkles` (1,335,917) | three users, eight mposts, three encounters, three cirkles; or three extractions of three encounters, two at a time, two tries each | encounters are listed in cirkles that fit; `CirklesAddUp`: these have their people, counts cover encounters, one private cirkle per pair; `OverlapsAddUp`: when extractions overlap, `users_count` is the number of mposts, who is in an encounter has one, the encounters are counted |
| `accounts` (719,547, up to symmetry) | four requests for two addresses, two at a time, two tries each | owners can sign in, passcodes stay |
| `scripts` (378,523) | seventeen scenes, one per script, the largest (events) of 99,780 states | see below |

What `scripts` checks, with the scenes each property is about:

| Property | Scenes | Shows |
|---|---|---|
| `TypeOK` | all | types |
| `ShownInPlace` | slider, float, menu | articles slide once at a time, and a slider nobody hurried shows the buttons that lead somewhere; an item that floats over its row, or gives way to the mouse, is in the window if it fits and not above its container; followers at the top edge are fixed exactly when the window has passed them; no menu but the one under the pointer or left last is open, no timer closes it under the pointer, and the buttons of a row are shown only under the pointer, on a lit row |
| `FormsHold` | form, rails | what was written can be sent, and nothing else; the limiter's box goes with the focus; an ordinary form that disables its button is sent once; the button of a remote form is never disabled and has its label until the form's first request is over |
| `MouseDecides` | range, selectable | handles stay in order, unless the page crossed them or a press beside crossed ones has added a third value, and the page was told their values; what a drag selects is decided by where it ends, and the page hears of it unless the widget was enabled during the drag |
| `WidgetsAtRest` | tabs, accordion, dialogs | the selected tab, its panel and its classes agree; the active header, its panel and attributes agree; each open modal dialog has one overlay right below it |
| `FieldAndMenuAgree` | autocomplete | the menu shows what the last search found; a field says that it is loading only while an answer is awaited, and then does, unless its search has cut off another one; a field that was left closes its menu and tells of its change |
| `FunctionsRunOnce` | ready, ajax, rails | functions that wait for the document run once and none is forgotten; every request ends once, and `ajaxStart` and `ajaxStop` follow the activity |
| `BooksAreRight` | data, events, effects | every number belongs to one element and its entry, listeners to handlers, and what is removed leaves nothing; a handler of `one` runs once, a live one once for an event; the browser listens for what has handlers; the sentinel of a queue stands for exactly one animation or delay under way |
| `FindsWhatIsMeant` | selectors | a query finds nothing its selector does not mean, in order, and all of it unless the engine's haste is known; traversals and filters are exact, whatever marks earlier calls left |
| `MenuCloses` | menu | a menu the pointer has left closes |
| `QueuesDrain` | effects | every queue that was not disturbed drains |
| `TimedRequestsComplete` | ajax, rails | a request with a timeout completes, unless a callback raises |

Four more runs violate what a comment or a document of the code says;
`PROJECT.json` quotes them under `findings`:

| Run | Property | What happens |
|---|---|---|
| `excluded_members` | `MembersDoNotExclude` | two mposts that exclude each other join a meet in the same cycle |
| `poison` | `BystandersSettle` | one unscorable pair stops all later work of every cycle |
| `two_sessions` | `RemovedWithLastEncounter` | a user with two mposts in an encounter deletes it and loses the cirkle of another one |
| `accounts_race` | `MailedOwnersGetIn` | a reset that is overtaken by another save encrypts one passcode and mails another, or none |

Smaller disagreements that the models follow and no run singles out: a chatter
for a user (`doc/JSON_API2` 161) is saved and then the search of its cirkle
raises (`meet.rb` 832); an encounter that leaves its cirkle is counted there for
ever, and waits without a cirkle for its next change, because
`update_encounters_count` takes none of the two arguments it gets (690); a meet
leaves memory by the age of its earliest mpost, not its latest (`is_cluster_cold?`, comment at `meet_processer.rb` 906); the selection seeds
the latest of its candidates, not the oldest (1368); after an exclusion a group
can fall in two parts that never saw each other (1175). With several server
processes a comment can arrive while its topic is deleted, or be attached to a
comment that is not attached itself yet: the shape of comments and the counts
of topics are checked for one process only. A topic that
outlives its owner still counts the owner's comments, which `doc/JSON_API2` 74
does not expect; `TopicsCounted` leaves such topics out. Clearing the temporary
password (`users_controller.rb` 724, "only one time use") does not take back
that it was also saved as the encrypted one. A user can never be removed:
`User#delete` renames the email to one with colons, which the format
refuses (`user.rb` 113 and 176), and `users_controller.rb` 755 ignores the
failed save. The salt never changes, against the comment at
`users_controller.rb` 734. `redirecto_to` (`sessions_controller.rb` 39) raises
after the mail of a reset is sent. `Mutex#safe_run` (`lib/kaya_base.rb` 272) has no
`ensure`, so what raises in a protected block leaves the mutex locked. A retry of
an optimistic lock repeats `add_encounter` where `extract_information` is in the
block (`MeetsController#destroy`, `assign_mposts_to_meet`), and counts twice.

In the scripts. *Selectors*: a relation is followed without going back, so
`#a + b c` looks inside `#a` only, and `> b` starts at the document. *Content
slider*: a click that finds no article leaves `inuse` up, and no click is taken
any more. *Range slider*: a value aligned to a step may lie beyond the largest. When the page
has crossed the handles so that the second is at the minimum, a press on the track
that is nearer to the second takes a third handle: there is none, but
`options.values` gets a third value (`jquery-ui.js` 10351, 10373, 10551), and from
then on nothing holds the two handles apart (10473).
*Remote forms* are never disabled: `data-disable-with` waits for an event
`ajax:before` that nobody triggers; `ajax:complete` still puts the label back, which
nobody has saved, so the button is left without one. *Data*: `removeData` leaves entries and
listeners behind. *Ready*: a function that raises drops those behind it. *Floating items*
placed twice drift; a *row* stays lit while a box covers it, until the pointer
moves. *Tabs*: adding, removing or an option in the middle of an animation makes
`selected` wrong, and the page's `load` aborts that of the selected tab.
*Accordion*: `activate(false)` during an animation makes `running` negative, and
clicks are ignored from then on; `aria-expanded` survives it, and no header is
left in the tab order; a panel that opens while the accordion is hidden has no
height. *Dialogs*: closing a closed modal dialog takes the overlay of another
one, and a dialog opened again while it is being hidden ends invisible.
*Autocomplete*: `abort` calls the error callback of the request it cuts off, in the
middle of the search that follows, so the class of loading just set goes again; a late answer opens the menu of a field that was left, a field
left and entered quickly is not told of its change, and clearing the field with
a request under way shows its answer. *Selectable*: without `autoRefresh` it
works on the state before the page's own changes; disabled and enabled again with
the button down, it can deselect an item and tell nobody. *Effects*: the loops of
`fx.tick` and `stop` splice by index, so a callback that stops something makes
them remove another animation, or raise. None is a claim of a document of the repository, so no run is kept for it.

Bounds. Three or four mposts are enough for a cluster, a neighbour that is too
far away and a late one that bridges two clusters; five for the selection, so
that an exclusion can be followed by a second chance. `LastPost` and `MaxClock`
leave room for a mpost to arrive after its neighbours' meet was created, and
for every cluster to expire. `MaxTicks` bounds the timer jobs in the queue: a
second one right behind the first sees the same pool. The limits are scaled so
that hot, cold and expired fall on different ticks. With the program's default
limits `is_definitely_warm?` is never true (the margin is larger than the cold
limit); the runs use limits under which each branch happens.

A request reads the meet at most twice, so three requests show every order of a
count, a rival's change and a rival's save. The program retries five times; two
and three tries let a request give up with few rivals. With one worker, requests
follow each other as in a single server process, which Rails serializes while
`config.threadsafe!` is off (`config/environments/production.rb` 42); more
workers are several server processes. Who gives up after rivals that only touch
the meet does leave wrong counters behind, and `CountersSettle` excepts it.

In `cirkles`, three users are what it takes to outgrow a private cirkle, two
hosters to collide, and two encounters of a pair to share a cirkle. `MaxRef`
stops the extraction once a user is counted three times, one more than the
encounters she can have there. A peer and a hoster delete encounters.
`CirklesAddUp` has three exceptions, and each is something that the code gets
wrong. Users with two mposts in an encounter (`Regular`): `two_sessions` shows
what happens to them. Hosters who delete an encounter (`withdrawn`): when one leaves
before the guests come, the encounter keeps the cirkle without counting them,
and after a second hoster's mpost they can be missing from it. Who deletes a cirkle
(`quit`) is not in it while her encounters are. `CHECK_DEADLOCK` is off: the module
only answers requests, and there is nothing to do when they end.

When extractions overlap in that run, one encounter has started the cirkle and
two come into it, so both ways to choose whom to count occur, and a list of
encounters can be counted before another one comes; the saves of one extraction
can overtake another twice, which makes it give up.
Counts above two are not told apart (`MaxCount`): no count decides anything
before a cirkle is left, and nobody leaves one there.

In `accounts`, two requests at a time and two tries let one save be overtaken
and repeated or given up; four requests are enough for an account to be created,
become pending, and be saved by two more that overlap; a second address lets an
invitation die between its mails. `CHECK_DEADLOCK` is off: requests end.

In `scripts`, five to seven elements of a page and two to six steps of users and
page are enough for each flag, timer and callback to be overtaken once and for
the next step to meet what is left: a second click during an animation, a third
dialog over a reused overlay, an unbind in the middle of a nested dispatch. A
larger `Max` constant of a single scene checks it further. The document itself is
found by `parent` of the topmost element only, and no page filters a set with it or
asks for its siblings, which raises (`WithoutDocument`). `CHECK_DEADLOCK` is
off: users stop, and then so does the page.

Fairness. The process thread and the timer loop for ever (`WF` of
`ProcessThread` and `Timer`), and the worker performs and finally deletes each
delayed job (`WF` of `Deliver` that removes the job). Web requests, exceptions
and crashes are never owed. `hosted` checks liveness with a raising statement,
for those it does not lose. In the scripts, only the browser owes something: timeouts and
the interval expire (`MenuFairness`, `AjaxFairness` for requests that have a
timeout, `FxFairness`), a function that was called returns, and an animation that
is ticked for ever comes to its last step (`SF`), since its time passes. A step
of the user, the page or the network is never owed.

Every property of a passing run has a mutant: a variant of one action or
helper with a plausible error, kept next to the definition it changes and
marked as such, under which TLC finds the property violated.

## 5. What is proved

TLAPS checks these for any constants that satisfy `DataAssumption` and
`LimitAssumption` (trigger times and limits are naturals, one base device per
user device): any number of mposts, any sightings, faults, redeliveries and
crashes.

| Theorem | Module | Property |
|---|---|---|
| `TypeCorrect` | `MeetProcesser_proofs` | `TypeOK` |
| `NothingIsForgotten` | `MeetProcesser_proofs` | `NothingForgotten` |
| `PeersSurviveExceptions` | `MeetProcesser_proofs` | `ExceptionsLoseNoPeer`, part of `HostedHolds` |
| `ClustersAreDisjoint` | `MeetProcesser_proofs` | `ClustersDisjoint` |
| `MemoryInSync` | `MeetProcesser_proofs` | `MemoryMatchesDatabase` |
| `MeetIsForGood` | `MeetProcesser_proofs` | `MeetNeverChanges`, by no run |
| `ImplementsLifecycle` | `MeetProcesser_proofs` | `FollowsLifecycle` |
| `HostedMeetsHold` | `MeetProcesser_proofs` | `HostedHolds` |
| `RelationTypeCorrect` | `MeetRelation_proofs` | `TypeOK` |
| `GroupsHaveNoExcludedPair` | `MeetRelation_proofs` | `NoExcludedPair` |
| `ScoresAreExact` | `MeetRelation_proofs` | `ScoresExact` |
| `MembersAreKept` | `MeetRelation_proofs` | `MembersStay` |
| `TypeCorrect` | `Chatters_proofs` | `TypeOK` |
| `CountersAreRight` | `Chatters_proofs` | `CountersSettle` |
| `TopicsStaySound` | `Chatters_proofs` | `TopicsAreSound` |
| `OthersKeepTheirComments` | `Chatters_proofs` | `OthersKeepTheirs` |
| `TypeCorrect` | `Cirkles_proofs` | `TypeOK` |
| `EncountersAreListed` | `Cirkles_proofs` | `EncountersListed` |
| `CirklesFit` | `Cirkles_proofs` | `CirkleFits` |
| `PrivateIsForGood` | `Cirkles_proofs` | `PrivateStaysPrivate` |
| `CirklesAlwaysAddUp` | `Cirkles_proofs` | `CirklesAddUp` |
| `ExtractionsTypeCorrect` | `Extractions_proofs` | `ExtractionsTypeOK`, by no run |
| `OverlapsAreSafe` | `Extractions_proofs` | `OverlapsAddUp` |
| `TypeCorrect` | `Accounts_proofs` | `TypeOK` |
| `OwnersCanGetIn` | `Accounts_proofs` | `OwnersGetIn` |
| `ActiveAccountsHaveNames` | `Accounts_proofs` | `ActiveIsNamed`, by no run |
| `PasscodesStay` | `Accounts_proofs` | `PasscodeStays` |
| `AlwaysShownInPlace` | `Scripts_proofs` | `ShownInPlace` |
| `MouseAlwaysDecides` | `Scripts_proofs` | `MouseDecides` |
| `FieldAndMenuAlwaysAgree` | `Scripts_proofs` | `FieldAndMenuAgree` |
| `WidgetsAlwaysRest` | `Scripts_proofs` | `WidgetsAtRest` |
| `FormsAlwaysHold` | `Library_proofs` | `FormsHold` |
| `FunctionsAlwaysRunOnce` | `Library_proofs` | `FunctionsRunOnce` |
| `CacheAlwaysFits` | `Library_proofs` | `CacheFits`, part of `BooksAreRight` |
| `HandlersAlwaysMatch` | `Library_proofs` | `ListenersMatch` and `RunsOnce`, parts of `BooksAreRight` |
| `BooksAlwaysRight` | `Library_proofs` | `BooksAreRight` |

The argument. `NothingForgotten` alone is not inductive: when the pending loop
ends, the pending set is cleared, and one must know that every member has
arrived somewhere. `Inventory` says so: during the loop, a pending mpost is
still to be reached or is in a cluster, pooled, in a group or settled; during
the flush, a mpost pooled for a flushed meet has a meet. The proof has one step
per action and shows that what leaves one place arrives in another or settles.

The properties about clusters and meets hold while nothing has raised or been
redelivered (`~disturbed`), because afterwards the code really can hold a mpost
twice. Their invariant `OnePlace` follows a mpost on its way: upstream of the
pool it is in exactly one of delayed jobs, queue, pending and groups and
untouched by clusters and meets (`UpstreamInv`); raw clusters are disjoint from
each other and from everything else (`RawInv`); a pooled mpost is pooled for
one meet and gets that one (`PooledInv`); a processed cluster holds mposts of
its meet or pooled for it (`WarmInv`). `OnlyPosted`, which holds throughout,
says that no place holds a mpost before it is posted. The refinement maps each
action to `Save`, `Group`, `Drop` or a stutter with these invariants.

The selection has finitely many mposts (`RelationAssumption`), and
`InfiniteAssumption` says that there are not more of them than `Infinite`, the
20000 that count against a pair that excludes each other (`meet_processer.rb`
134). The coefficients are sums over sets of nodes, so `MeetRelation_proofs`
begins with what it needs of them, that a sum splits into those of the parts,
by induction over the subsets of a finite set. `ScoresExact` is then inductive
with the types (`RelInv`): a promotion moves one node and drops others, and
`CoeffToMoved` is what it does to each coefficient. `MembersStay` rests on
`MeetInv`: the one mpost that asks to join a meet is pending next to the seeded
members, or refused, or has joined. If it excludes a member, it gains
nothing: a member is worth `Infinite`, more than all the mposts that the asker
can join (`NodeCoeffBound`); here the assumption is used.

For the chatters the constants need only `ChattersAssumption`: any number of
requests, workers, users and tries. `CountersSettle` follows from `Owed`: while
the counters are not exact, some request owes a save. That is inductive only
together with `Tallied`: what a request has counted is still exact, or stale
with respect to its `loaded` version, or else somebody else owes a save; so the
save that discharges a request's own debt is either right, refused, or leaves
another debtor.

With one process, the request in flight is alone with the rows, so what it has
read stays true. `AloneInv` of `ChatterProcesses` says what that is at each
statement: a new row is a topic without comments until it is attached to a
topic (`Unborn`, `NewRow`); the chatter to delete is as it was loaded, its
comments are those read, and none is left when it is destroyed (`OldRow`); and
every topic with an owner counts its comments but the one whose count the
request has still to save (`CountsDue`).

The cirkles have their own `DataAssumption`: finitely many users and mposts,
and any sightings. `PrivateStaysPrivate` is not inductive: an encounter that is
extracted again adds all its users to the cirkle it is in, so one must know
that they are there already. `Paired` says it: the users of an encounter in a
solo or private cirkle, those who have left included, have a row in it and are
exactly as many as it is for. This survives a new mpost because of
`extract_meet_type`, which counts everybody an mpost names (lemma `TypeIsSize`):
an encounter that gets a third name is of a group from then on, and
`MustLeave` takes it out before its users are added (`ExtractMoves`).

`CirklesAddUp` is a second induction, on top of that one (`CountInv`). That a
count covers a user's encounters is not enough: she must also stay in the
cirkle until the last of them leaves (`AllMembers`), which follows because
`delete_encounter` removes her only at a count of one. That a pair has one
private cirkle rests on the search by `users_count`, so a private cirkle must
always have two rows with equal counts and be found by its two users, unless
both have left it with its last encounter, and then nobody finds it or is in it
(`PairsInv`). Two facts rule out the other cases: an encounter of no type is
in a cirkle only while a hoster claims it (`ClaimsHold`), and a collided one has
nobody left and is in no private cirkle (`CollidedInv`). When each user has one
mpost, what `extract_information` does to the counts is one of `Stays`, `Leaves`,
`Enters` and `Starts` (`ExtractCounts`).

For overlapping extractions the extractors and persons are finitely many
and every encounter has attendants. `ExtractionsInv` relates what an extraction
has read to the rows that others have changed since. An mpost that is counted
and not saved yet has a name of its own: its extraction is going to insert it, and
nobody else can (`TodoInv`), so the mposts that `users_count` counts are the rows
and what extractions are still to save, disjoint sets. Whoever is in an
encounter that is linked, or will be, gets a mpost (`AddsInv`); that needs that
a copy of the encounter which is not `outdated` is right, and that an old copy errs
only by not knowing the cirkle (`CopyInv`). A list of encounters that can still be saved is
complete, or another extraction is still to count (`TallyInv`): a save that is
not stale has been counted after the last save of the cirkle, and whoever
has linked an encounter since then is counting.

For the accounts, `AccountsAssumption` only keeps secrets, `nil` and the null
password apart. `OwnersGetIn` says nothing while a mail is under way, so the
inductive form is `SecretsTold`: what opens an account is known to its owner or
among the passcodes that requests still have to mail (`Owing`). A save must
then leave a secret that is in one of the two: the one that was there, the
request's own, or the temporary password it is about to mail. For that one must
know what the `password` attribute holds (`Attribute`), and that a save that is
not stale has loaded the very row it overwrites (`Loaded`, from the versions).
`RowShape` carries the names and says that a pending account has a temporary
password, which makes `PasscodesStay` follow: a reset draws a new one only if
there is none.

For the scripts the constants have the assumptions of their modules only: any
articles, items, rows, texts, requests, forms, heights, words, suggestions, tabs,
panels, dialogs, elements and handlers, and any bound on what the user does. Each
script has an invariant of its own: those of `application.js`, the content slider
and jQuery UI are in `Scripts_proofs`, those of the forms, of `rails.js` and of
jQuery in `Library_proofs`. A step of the page is a step of one script and leaves
the variables of the others alone (`OneAtATime`), so `ScriptsInv` and `FormsInv`,
the conjunctions of the invariants, are inductive, and so are `DomInv`, `EventsInv`
and `FxInv`. What is not obvious in them:

* Content slider: a slide that begins while the buttons stand still gives each of
  them one animation at most, at whose end the button is there if it leads on from
  the article the slider is heading for (`ButtonSettles`).
* Menu: the one timeout that may be pending is the one the script knows and can
  cancel (`TimerIsKnown`), and the one open menu is the last one opened and under
  the pointer, if any is (`LastIsOpen`).
* Forms: `OnceOnly` follows from `SentByButton`, which ties the number of times a
  form was sent to the state and label of its button, whatever the requests of
  `Ajax` do meanwhile. `LabelsLast` needs that only a request of the form itself, once
  it has completed, empties the label of its button (`EmptiedByAnswer`), that what has
  completed stays completed (`NetGrows`), and that what a remote form's button
  would put back was never saved (`Unsaved`).
* Requests: one that is not done has answered nobody (`CallsOnce`), and
  `jQuery.active` is the number of those that have not completed, until a request
  that could not be sent completes again (`ActiveCounts`).
* Functions that wait for the document: `readyWait` is one more than the holds until
  the document is ready, and as many as the holds until the list has been run
  (`HoldsCount`); so whoever calls `ready` then runs the list once, and a hold that
  is released late still does.
* Range slider: the values have been told unless a handle slides, which it does
  only with the button or key down, or with its release lost
  (`ToldUnlessSliding`); and aligning keeps the order of values (`TrimAlign`).
  Once a third value has come in nothing is claimed of the order, until the page
  sets the option again (`third`).
  `MouseAlwaysDecides` supposes `WholeSteps`: the range is a whole number of steps.
  Without it the order can be lost: from 0 to 20 in steps of 7, 19 is aligned to 21
  and the end to 20.
* Selectable: during a drag the classes of the items and the data jQuery UI keeps
  for each agree (`HalfKnown`, `StartsKnown`), what is being selected is what the
  lasso hits (`Follows`), and what the page will have heard at its end is what is
  selected (`Told`). The last supposes that the widget was not enabled during the
  drag (`woken`): with more pulls than `scripts` allows, an item is then
  deselected and the page not told.
* Autocomplete: an open menu whose field was left has a timer that will close it, or
  an excuse (`WillClose`); and what the page was told last is what the field had when
  it got the focus, or what it has and keeps (`WillTell`). Both need to know which
  timers there can be (`TimersKnown`): a forgotten one only after the field was
  entered in haste, and none for a field that has the focus. That a search cuts off
  another one inside itself changes its record twice (`CutKeeps`): the answer of
  nothing closes the menu first, then the new request is on its way with the
  class gone (`"cut"`).

* Tabs: a widget is torn (its list was rebuilt in the middle of a selection, or a
  load of the page cut off that of the selected tab), gone, or `Fine`:
  the list and the selection agree, whoever is to be seen is seen or on its way
  (`WillBeSeen`), and a selection is at ease, leaving the old panel or coming to
  the new one, with nothing in the queue but what comes next (`Phase`).
* Accordion: unless it was hurried, one panel slides at the most, and when the
  slide ends what is open is what is active (`OneSlides`, `NoneSlides`). `running`
  alone does not say it: the slide must be that of the panel to show or to hide.
* Dialogs: `OverlaysFit` counts overlays, and is inductive only when one knows whose
  they are: every open modal dialog has an overlay of its own, one below it, and
  an overlay is either shown or put away (`EachHasItsOwn`, `OverlaysKept`). Hence
  there is always one to take, there being as many as dialogs.
* Elements and their data: an element's number is its own, `uuid` is past all of them, an
  entry knows the handlers its element listens for, and numbers without an element
  were let go of by `removeData` (`DataFits`); `clone` and `remove` keep that for every
  subtree.
* Handlers: an element listens for a type if it has handlers for it, `mouseenter`
  through one handler of `mouseover` (`EntersWithin`); a live handler has a caller
  where it is kept, unless `unbind` cut it off, and a caller has its live handler;
  no handler is bound twice (`BusFits`). For `RunsOnce` one follows the event under
  way: a handler of `one()` it has still to call has not run and is bound nowhere
  but where the event is (`OnesFit`), and a live handler that has run for it is at
  no level the event has still to reach (`LivesFit`). A handler that triggers an
  event of its own may run others again; then nothing is claimed (`nested`).
* Effects: that the sentinel tells the truth (`TellsTruth`) is inductive only with
  what the loops know (`FxInv`). An animation is of one element and waits, runs or
  is delayed, once (`IdsFit`); an fx object that has not ended has something left to
  do, and what is left to do some fx object will (`TimersLive`, `TimersWhole`). A
  `stop` takes the fx objects of its element one after the other and breaks that on
  the way, but all that are left are still ahead of its index (`Ahead`), and with
  `gotoEnd` the queue may be empty behind the one animation that runs (`Cleared`).
  The stack is at most a loop with the callbacks its fx object called, and a loop
  of `stop` on the top (`StackOk`), so each call of `dequeue` finds nothing of the
  element running. Queues moved on behind the sentinel's back (`disturbed`) are
  excepted, and after a `stop` that raises, all are.

Only model-checked: liveness (`EverybodyElseSettles`, `EverySightingSettles`,
`Terminates`, `MenuCloses`, `QueuesDrain`, `TimedRequestsComplete`), which TLAPS
cannot treat; and of the scripts `FindsWhatIsMeant`, which compares folds over the
document with each other, and the types, of which those of `Sizzle` are of what such
folds return.

## 6. What is not modelled

* Record, replay, `restart_up`, `catch_up` of the processer: `stop_record`
  calls an undefined `is_recoding?`, `catch_up` and `restart_up` use undefined
  names, so these operations raise before they change the pool. They are the
  only callers of the timer's `stop`, `pause` and `resume`, so of `KayaTimer`
  only `start` and the loop are reached, and both are in `MeetProcesser`.
* Two extractions at a time that look for the cirkle of a pair, or of which one
  takes an encounter out of a cirkle. Two that add to one cirkle are in
  `Extractions`: its mposts are saved outside the block its lock version protects
  (`meet.rb` 762), so an overlap loses counts and inserts a second mpost for a
  user, whom `users_count` then counts twice; `OverlapsAddUp` says what survives.
* Several worker processes, each with its own `MeetProcesser` singleton.
* Invitations to a meet: the pending mposts they make, declining them, and what
  a confirmed one does besides `Confirm` of `Extractions`.
* Draggable, droppable, resizable, sortable, button, datepicker, progressbar and
  the visual effects of jQuery UI; attributes, styles and offsets of jQuery
  (functions of the element alone); easing curves; cookies and image previews.
* Listings (`Cursorize`), filters, mviews, views and pages, which read rows and
  keep no state between requests.
