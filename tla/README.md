# A verification project for openitcockpit-mcp

The repository is an MCP server: it offers tools by which a language model
reads and changes a monitoring system, openITCOCKPIT, over that system's HTTP
API. The server keeps little state of its own. What makes it hard to get right
is what lies between two requests of one tool call: other calls of the same
server (FastMCP runs each synchronous tool in a worker thread), other people in
openITCOCKPIT, and a monitoring engine that runs commands some time after they
were accepted. These TLA+ modules model that; TLC checks them on small
instances and TLAPS proves the most important results for every value of the
constants.

Paths below are relative to `src/src/openitcockpit_mcp/`.

## Inventory

| Component | State | Operations | Hard behaviour | What makes it correct |
|---|---|---|---|---|
| Scope cache, `api/scope/service.py` | one dictionary for all users, an entry per (partition, key) with its time; a lock | lookup, fetch, insertion, `invalidate` | threads of several users; the lock is released for the request; a write whose answer is lost | users never see each other's bundles; how old a lookup can be |
| Engine commands, `api/commands.py`, `tools/acknowledge_problem.py`, `tools/remove_acknowledgement.py`, `tools/reschedule_check.py`, `tools/support/commands.py` | none; the steps of a call between reads and commands | acknowledge, remove, reschedule, each with services | queued commands that run later, other users' commands, pages shorter than the list, a request whose answer is lost, a bounded wait | the outcome is what happened; the call ends |
| Downtimes, `api/downtimes.py`, `tools/schedule_downtime.py`, `tools/cancel_downtime.py` | none; the rows a call read first | schedule, cancel | a name filter that matches parts of names, a page of ten rows of a window of ninety days, rows without an id, downtimes that begin and end meanwhile, an object page that lags behind the list | what is commanded is what the filter matched when the call looked, and all of it that could be seen; a new row is told from an old one |
| Configuration export, `api/exports.py`, `tools/apply_configuration.py` | none; status, check and launch of one call | apply | three requests that nothing keeps together, exports that overlap, one that hangs | what `done` means |
| Host update, `tools/update_host.py`, `fields.py`, `api/scope/validate.py` | none; the host a call read | update | a read-modify-write of everything, template inheritance, the contact pair, a move to another container | untouched fields stay, references are in scope |
| Contacts, contact groups, host groups, templates and their groups, `tools/create_*.py`, `tools/update_contact*.py` | none; the object an update read | create, update | containers, what is visible from them and the object are read at different times | what is stored is visible from its own containers |
| Hosts and services, `tools/create_host.py`, `create_service.py`, `update_service.py`, `delete_object.py`, `stop_monitoring.py`, `resume_monitoring.py`, `api/lifecycle.py`, `api/names.py` | none; names, ids and scopes a call read | create, rename, switch off and on, delete | names that are not unique, objects that change between lookup and write, a second step that fails after the first | the named object and no other; no half-made object is reported as done |
| Names, `api/names.py`, `tools/support/servicetemplate_names.py` | none | resolve | a template has two names, and one's may be another's; containers a user sees in part | what is found bears the name |
| User clock and argument help, `api/clock.py`, `argument_help.py`, `lookup_hints.py`, `middleware.py`, `delegation.py` | a cache of the users' zones, one of host names for all users | zone reads, hints for missing arguments and unknown names | two reads in one call, no invalidation, overlapping calls of several users | whose zone and whose names a call sees, and how old |
| Availability report, `tools/get_availability_report.py`, `api/availability.py`, `analysis/availability.py` | none; what a call has read | report | a history that grows while its pages are read, a window older than the history, changes in one second, overlapping downtimes, other objects' among them, a change of the clocks | the seconds of each state are those the history gives, and the shares are of the window |
| Overview and impact, `tools/get_problem_overview.py`, `get_impact.py`, `analysis/causes.py`, `tools/support/topology.py`, `api/hosts.py`, `api/services.py`, `api/topology.py` | none; counts and the status map | overview, impact | parent relations that share hosts and form loops; counts taken by requests of their own, in chunks | causes are the down hosts above; the parts add up to the whole |
| Start, `cli.py`, `config.py`, `server.py`, `toolsets.py`, `guides.py`, `tools/support/registry.py` | the tools and guides registered | validate, register, narrow | a toolsets file read several times, guides of the operator's own | what is served is what was selected and enabled |
| Evaluation, `evaluation/*.py` | results of a run, the instance, a database | set up, ask, put back, grade, save | worker threads, endpoint errors, an interrupt, a kill between two steps | acting cases are alone and cleaned up after; what is kept is whole |
| Throwaway instance, `scripts/eval-throwaway.sh`, `scripts/seed_scale_dataset.py` (beside `src/`) | an instance that may be kept | start, fill, ask, remove | a fill that breaks off, an instance kept half filled | a model is asked about all the data |
| Other analyses and reading tools, `analysis/history.py`, `trend.py`, `noise.py`, `notifications.py`, `tools/find_*.py`, ... | none | read and summarise | boundaries of periods | results equal what the rows say |

Components interact by plain calls; the only state two calls share inside the
server is the scope cache, the zone cache and the host names of the argument
help. Everything else they share is openITCOCKPIT, which the modules model as
far as the code depends on it, marked external in the map.

## Plan

1. `ScopeCache` (done, with proofs): the one shared mutable structure.
2. `CommandContract` and `EngineCommands`, `Downtimes`, `ConfigExport` (done,
   with proofs): the abstract contract of the `outcome` field, and three
   components that implement it.
3. `HostUpdate`, `ScopedWrites` (done, with proofs): the read-modify-writes and
   what they may refer to.
4. `Availability` (done, with proofs): requests page by page, and arithmetic
   checked against a count second by second.
5. `Lifecycle` (done, with proofs): hosts and services from their creation to
   their deletion; `Names` (done, with proofs).
6. `CallContext` (done, with proofs): the caches without invalidation.
   `ServerStart` (done, with proofs): what is served.
7. `Evaluation` and `Throwaway` (done, with proofs): runs that are stopped, fills
   that break off.
8. `Overview` (done, with proofs): two walks over a graph and a sum of counts.
9. What is left: the other analyses (episodes, noise, trends), whose inputs are
   one answer; times as people write them (`tools/support/times.py`); the
   references a service update leaves alone.

Components that share no state but whose instances are small are checked by one
run: an `MC` module extends them, and a variable `part` says which one moves in a
behaviour while the others rest in one fixed state. `MCServing` has `ScopeCache`,
`ServerStart`, `CallContext`, `Evaluation` and `Throwaway`; `MCCommands` has
`EngineCommands`, `Lifecycle` and `Overview`; `MCConfiguration` has `HostUpdate`,
`ScopedWrites` and `Names`; `MCExportReport` has `ConfigExport` and `Availability`.

## Modules

`CommandContract` is the abstract specification: of each call it keeps whether a
command was sent for it and its outcome, which is `not_sent` only when none was
sent, and `done` or `sent_not_visible_yet` only when one was. A call that raises
promises nothing. `EngineCommands`, `Downtimes` and `ConfigExport` each
instantiate it with a refinement mapping (`sent <- {c : ...}`) and state
`KeepsContract == Contract!Spec`; `ConfigExport` maps its own word
`still_running` to `sent_not_visible_yet`.

### ScopeCache

One worker thread handles one call at a time. `Hit`, `Ask`, `Answer`, `Store`
and `FetchFails` are `_fetch_cached` cut where the lock is released: the lookup,
the request, its answer by openITCOCKPIT, the insertion, and a failure. A bundle
is the version of the configuration (`db`) it was answered from and the user it
was answered for. `Write` is a create or update tool's post and `Invalidate`
what follows it; `WriteUnanswered` is a post that was applied and whose answer
was lost, after which nothing is invalidated; `Delete` stands for the three
tools that change the configuration without invalidating; `ExternalChange` is
somebody else's. `floor`, `storedAfter`, `wroteAt` and `cleared` are
history that only the properties read.

### EngineCommands

`Look` is `find_target`, `refusal` and the tool's decision; the three tools
share the wait (`SeeChange`, `SeeNothing`, `GiveUp`) and differ in what they
decide, what shows the change (`Shows`) and what follows (`AfterWait`,
`ListServices`, `CountServices`, `RemoveNext`, `SeeNoneLeft`, `SeeSomeLeft`,
`GiveUpServices`). Every request can fail before or after it had its effect
(`ReadFails`, `SendFails`). The engine is a queue: `RunCommand` takes the next
command, an acknowledgement has an effect only on a problem, a scheduled check
may or may not bring a new result. `StateChange` may end an acknowledgement. An
object may be acknowledged before the first call (`Earlier`); acknowledgements
made meanwhile are those of the other calls, whoever makes them.

### Downtimes

Time is in minutes. `listed` is what the list knows, `page` what an object's
page shows, which follows later (`RefreshPage`). `Reads(o)` are the answers a
query can give, and three things stand between them and the downtimes of `o`:

- the name filter, which matches a part of a name (`Matching`): rows of other
  objects come with the object's own;
- the window of the endpoint, 30 days back and 60 ahead, which the code names
  (`api/downtimes.py:3-4`) and never sets (`Window`, with `Back` and `Ahead`);
- the page, the first `DOWNTIMES_READ` rows by start (`FirstBy`).

A row may come without the id that cancels it (`numbered`): `List` leaves such
rows out of what `CancelNext` commands, and `Added` takes their ids for one and
the same. A downtime may be scheduled for a minute that is past or beyond the
window (`Starts`). A wait's round reads the page and then the list (`ReadPage`,
`CheckList`).

Where all rows found are without an id, `cancel_downtime` sends nothing and
returns `done` or `sent_not_visible_yet` all the same (`cancel_downtime.py:45-64`).
The description of the outcome (`tools/support/commands.py:32`: "the engine has the
command") and `systemprompts/en/operations.md:36` ("the command went out") say
otherwise. The refinement counts such a call as one that sent (`NothingToSend`), and
that is the one exception to the contract.

### ConfigExport

`valid[v + 1]` says whether the engine can run version v of the configuration;
`db` is the newest. The job server runs one export after the other; an export
takes the configuration that is there when it begins. The status shows an export
from its launch to its end, as `tests/tools/test_configuration.py` describes it.

### HostUpdate

A host is a container, a template and, per field, a value of its own or
`Inherit`. `Read` takes the effective values, `Merged` puts the caller's fields
on top, `Verified` and `Accepted` are the checks against the scope of the
container the host will be in, `Post` sends the result and openITCOCKPIT's
`Save` turns what equals the template back into an inherited value. A set of
names is one value. The scope is read live here; that it may be stale is
`ScopeCache`'s subject.

### Availability

Times are seconds. The history is recorded newest last, the answers are newest
first: `PageRows` counts places from the end, so a change recorded between two
pages (`Record`, at the very end of the window, as the window ends when the call
begins) moves every row on. `ReadOpening`, `ReadPage` and `ReadDowntimes` are
the requests of `state_before`, `changes` and `downtimes`; `NextChange` is a
round of the loop of `segments` together with what `measure` adds for the span,
`Report` the last span. `Shift` is how far the clocks are set back inside the
window: Python subtracts two times of one zone as wall-clock times, and only the
begin and the end of the window are of one zone (recorded times are parsed with
an offset), which `Seconds` says. `Held` and `RealTotal` are the reference: the
state the history gives for each second.

The downtimes come by a part of the name as well, one page of them (`Pages`), and
the endpoint lists none from before its own window (`Since`). So the rows need not
be the object's own, nor all of it: the docstring's "the downtimes of the object
that were actually in force" (`api/availability.py:101`) is what `PlannedOnce`
claims where they are (`OwnRead`); where they are not, it claims the seconds of the
rows read. Downtimes of an object whose name contains this one's then count as
planned, and those beyond 200 rows, or begun more than 30 days ago, do not.

### ScopedWrites

A call is at `read` (the edit view an update starts from), `place` (are the
containers of a kind that may hold the object), `scope` (what is visible from
them, and the references looked up in it), `commands` (global, looked up by name
alone) and `post`. A stage a tool leaves out is skipped: `ChecksLegal`,
`AsksScope` and `Required` say which tool does what. `Made` and `Edits` are the
parameters a tool has; `Sent` puts them over what was read; `Looked` are the
fields that are looked up, all of them if the containers change. `Shift` changes
what a container sees while calls run, `shrunk` remembers that something went out
of sight. The scope is read live, as in `HostUpdate`.

### Lifecycle

Hosts and services have an id that counts up and a name that need not be unique.
A call finds an id by name (`FindTarget`, `FindHost`, `FindService`), among the
active objects first and, for `resume_monitoring` and `delete_object`, among the
disabled ones by another request (`Fallback`), which reads one page of what the
filters match (`Matched`, `DisabledPages`; 50 rows in the code), so that the object
may lie beyond it; reads the object's page
(`ReadPage`, with `refusal`) or its host's scope and edit view (`ReadScope`,
`ReadEdit`); and sends its change for the id (`Apply`, `PostService`,
`PostEdit`, `AddHost`, `Connect`). `Raise` is a request that fails at any of these
steps, and `Apply` and `Answer` are two steps, so that a change can be made and
its answer lost. The names a host's services have come from the scope cache: read now,
or what an earlier call read (`ReadScope`). A service is found by both names on
whichever host bears the host's. Other people rename and switch (`ChangedElsewhere`). A service's other
fields and references, and the downtime in which `stop_monitoring` leaves a
service, are left out.

### Names

`TryGiven`, `MapNext` and `TryMapped` are the lookup of service template names as
given, the requests that look each up as a display name, and the second lookup. A name that is
a template's display name is accepted wherever the given ones are not all template
names, also by `create_servicetemplategroup`, whose docstring says that names are
matched against the template name, "not its display name"
(`create_servicetemplategroup.py:30-31`): the lookup it calls
(`servicetemplate_names.py:6-7`) promises the fallback, and `EitherName` follows the
lookup, with the condition under which it falls back.
`Top` is `resolve_top_container_ids` on paths of containers a user sees in part.

### ServerStart

`cli.main` step by step: `LoadSettings`, `LoadFile`, `Probe` (the throwaway server
that shows which tools there are), `Validate`, and then `create_server` outside
`main`'s `try`: `Resolve`, `Register`, `RegisterGuides`, `Narrow`, `Count`. The
toolsets file is read at four of these steps, and `Edit` may change or remove it,
the operator's own guide or the style file between any two, or take the right to
read it away. `main` catches `ValueError`: a file that is missing or misshapen is one
(`Misshapen`), a file that is there and cannot be opened is an `OSError` and ends the
start in a traceback (`disk.open`, the style `"locked"`).

### CallContext

`Receive` decides for whom a call is made. A call without its host name holds the
event loop while names are read for a hint (`AskNames` to `HintWithoutNames`); one
with all arguments reads the zone twice in a worker thread (`ZoneFromCache`,
`AskZone`, `AnswerZone`, `StoreZone`), once to parse the times and once for the
present. Both caches expire and are never invalidated.
The zones are kept apart by user, the host names are kept once for all (`hosts`).

### Evaluation and Throwaway

A job is one sample of one case with one model. Reading jobs run in a pool
(`TakeUp`, `ClosePool`), acting ones one at a time in the main thread with their
steps of setup and reset (`SetUp`, `PutBack`, and what happens when one raises).
`Turn` and `EndpointFails` are the conversation with its limits and retries.
`InsertRun`, `InsertSamples` and `Commit` are one transaction for each model. The
process may be interrupted in a job (`Interrupt`, which still resets) or killed
(`Kill`, which does not). `Throwaway` is the script around it: an instance that is
started, probed for its first server, filled step by step and removed, or kept
when `KEEP=1`. What `hosts/index` lists is external: hosts an export has taken to
the engine, as `--export` of the fill and the wait after it say.

### Overview

Each request of `get_problem_overview` is an action, as states change between any
two (`Turn`); so is each host a walk takes off its stack (`TakeHost`, `Visit`,
`Attribute` for `unreachable_causes`, `VisitDown` for `behind`). A host has one
service here, which has a problem or none; nothing is acknowledged or in a
downtime, names are unique. Where the walk finds no down host the tool names no causes at all
(`tools/support/topology.py:23-24`). `Reach` defines what a walk should find without
walking: the least set that has the start and whatever its hosts lead to.

## Runs

| Run | Instance | Shows |
|---|---|---|
| `scope_cache` | `MCServing`. Cache: 2 threads, 2 users, 1 key, TTL 2, 4 instants, 2 changes | partitions stay apart; what a lookup may miss is younger than TTL plus request time; only a fetch that overlaps an invalidation can bring back what it cleared |
| | Start: 1 read and 1 write tool, 10 selections, every file, missing, misshapen or not to be opened, 1 edit | a server has a tool, and none that is not enabled; without edits the tools are those selected; an undisturbed start ends in a traceback only for a file that cannot be opened or the operator's own guide |
| | Call context: 2 calls, 2 users, TTLs of 1, 3 instants, 1 change of a zone | zones and host names are recent, and zones the caller's own; the tools named are offered |
| | Evaluation: 2 models, a reading and an acting case, 2 workers, 2 turns, 2 attempts, 2 steps of setup | acting cases are alone and undone unless a step failed; what the database holds is whole |
| | Throwaway: 2 servers, 2 starts | a model is asked on all the data, or on an instance kept half filled |
| `scope_cache_overlap` (violation) | 2 threads, 1 user | ... a lookup after `invalidate` can still miss the write |
| `engine_commands` | `MCCommands`. Commands: 2 calls, a host and a service, one page of 1 service | the contract; an acknowledgement reported as done was made after the call looked |
| | Lifecycle: 2 calls, or a call and a change by others; up to 2 objects at first and 3 in all, 2 host names of which one contains the other, 2 service names, a page of 1 disabled object | "not found" is true but for a switch meanwhile or a page too small; no second service of one name unless the call was overtaken; a host reported has its agent connection |
| | Overview: every topology and map of 3 hosts, 1 change, pages of 2, 1 host per count | causes and impact are what the relations say, loops included; the counts add up |
| `engine_commands_live` | 1 call, a host and 2 services, one page of 1, fairness | `done` of a removal means none is left, though a page shows half; the call ends |
| `downtimes` | 2 calls, 2 hosts of which one's name contains the other's, a service; 2 minutes and starts up to a third, a window of 2 minutes, a page of 2, up to 3 downtimes of others | the contract; a row taken for the call's own is new, or was out of window or page at the first read; a cancel commands what its filter matches and had been made by then, and each downtime of its object but those without an id or out of window or page |
| `downtimes_part_of_name` (violation) | 1 call, `web1` and `web10` | with openITCOCKPIT's filter it cancels those of `web10` too |
| `exports_and_reports` | `MCExportReport`. Export: 2 calls, 2 changes, fairness | the contract; `done` comes after the call's own export, and if nothing changed since the check the engine runs what was checked; the call ends |
| | Report: a window of 3 seconds, 2 states, 3 changes and one meanwhile, pages of 2 rows and a limit of 4; up to 3 of 4 downtimes, a page of 2 of them, fairness | the seconds of each state, and those of them in a downtime read that ran, are what the history gives; the shares add up; the report ends |
| `host_update` | `MCConfiguration`. Host: 1 call, one time period, host groups and the contact pair, 2 values and 2 containers, up to 2 fields named | untouched fields keep their value, references are in scope but for half a contact pair, the pair is reset together, a round trip changes nothing |
| | Scoped writes: 2 updates and a change of what is visible, or a create and one; 2 containers, 2 things | as long as nothing goes out of sight, what is stored is visible from its own containers |
| | Names: 2 templates with 2 names each out of 3, 1 renaming, lists of up to 2; sets of 3 containers of 3 levels | a template found bears the name; the top containers cover all once |
| `host_update_move` (violation) | host part alone, without the other fields | half a contact pair is carried along unverified |
| `availability_clocks` (violation) | a window of 4 seconds, 2 changes, the clocks set back by a second | the shares exceed the window |
| `hints_own` (violation) | `CallContext` alone, 2 calls, 2 users | where calls are delegated, one user is shown the host names another's token may see |
| `names_as_given` (violation) | 2 templates, lists of up to 2 names, no renaming | beside a name that is none, a template name stands for another template |

The bounds. Two calls (or threads) are enough to meet every race found in the
code: each hazard is a step of one other call, or of openITCOCKPIT, between two
steps of a call. A page of one row makes two rows the list that does not fit.
One poll gives a wait that sees the change at once, later, and not at all. In
`ScopeCache` a TTL of 2 with a request time of 1 tells `<` from `<=` at the
expiry and lets an entry expire within the run. `MaxChecks` is 0 with two calls,
where checks matter to no property, and 1 with one. `MaxTouched = 2` covers both
sides of the contact pair, and each field alone and with another one. With two
values of a field and two containers, one thing is visible in both and the other
in one. In `Availability` three changes and one more that arrives while pages of two rows
are read fill a page exactly, end within one, or move a row from one page to the
next, where it is read again; two of them may lie inside the window, in different
seconds or in one; the limit of 4 is reached by the history that grows and by no
other. The four downtimes overlap, end early, did not start, began before the
endpoint's window or are another object's, and three of them do not fit its page.

In `downtimes` the constraint `FewActors` keeps to two calls (`TwoCallsOnly`), to a
call and a downtime of somebody else (`CallAndOther`), or to a call on a host for
which others filled more than a page before it looked (`FullBefore`), and lets only
a call that is alone wait for another round of reads: what overlapping calls do to
each other, they do before that. With a page of 2 and three downtimes one of them is
hidden; with `Back = 0` and `Ahead = 1` a start in the past is out of the window at
once, a later one comes into it as time passes. `MaxActors = 2` bounds `Lifecycle` in the
same way. In `ScopedWrites`, `Cost` prices what happens so that `MaxMoves = 6` is
two updates, or one of them or a create with a `Shift`, or three of these: a
create shares nothing with other calls but what is visible. `MCCommands` varies
either the topology or the service problems of the overview, since its counts do
not depend on the topology. With three hosts, `FAILED_HOSTS_READ = 2` is a page
that is full and one that is not, one host per count needs two requests, and
`PROBLEMS_READ = 2` lists all problems or leaves one out. Two turns, two attempts
and two steps of setup are a conversation that ends in time and one that does not,
a retry that helps and the last one, and a step that fails after another was done.

Symmetry is used in safety runs only, over calls, services, hosts of the overview,
threads, users, containers and things to be seen, which the modules never compare
but for equality; `Downtimes` makes its initial request with a `CHOOSE` over
objects, which are not permuted.

Deadlock is checked in every run. The modules whose calls are made once have a
stuttering action for when all were made (`AllReturned`, `AllOver`, `Over`,
`NoWriter`, `NoneRuns` and the like).

Fairness is weak fairness of the next step of a call that was started (of the
report's next step in `Availability`), and of nothing else: the thread of a call
keeps running, because the requests it makes end by the client's timeout
(`api/client.py`). The engine, the job server and openITCOCKPIT are not assumed
to do anything. `CallsReturn` then rests on the bounded waits, `WAIT_SECONDS` in
the code and `MaxPolls` here, and `ReportReturns` on a page that
is not full ending the reading.

## What the violations say

- `ReadYourWrites`: `_fetch_cached` releases the lock for the request, and an
  answer from before a write is stored after its `invalidate()`; it is served
  until it expires. `StaleOnlyFromOverlap` says this is the only way, and
  `StalenessBounded` how long it lasts.
- `CancelsOnlyItsObject` under `Matching <- PartOfName`: `on_object` takes the
  rows as the query returns them.
- `RefsInScope`: `update_host` verifies the contact pair only when the call
  names neither side.
- `SharesOfWindow` with `Shift = 1`: with one change recorded in a window in
  which the clocks are set back, its spans are an hour longer together than
  `window_seconds`, which is taken from the wall clock, and `percent` of a good
  state is above 100.
- `HintsAreOwn`: `ArgumentHelpMiddleware` keeps the host names it read in one slot,
  whoever they were read for. In delegated mode a call of another user that lacks
  its host name is shown them, also without a token of its own. `docs/security.md`
  says that openITCOCKPIT answers as that user, "their containers, their
  permissions", and keeps the cached scope lookups apart for this; `delegation.py:5-7`
  says "nothing more". `HintsAreRecent` is what holds whoever asked.
- `AsGivenFirst`: if one name of a list is no template name, every name of it is
  looked up as a display name, so that one that is a template's name and another
  one's display name stands for the other. Alone it stands for the first.

Other behaviour the models show, which no run is spent on: an acknowledgement
or downtime reported as done may be another user's made meanwhile; a removal
removes whichever acknowledgement there is, and names the one it read; the
number of acknowledged services is that of one page, and those beyond it get no
removal; with more than ten downtimes, or some outside of the endpoint's window, an
old one may look new and later ones are not cancelled; a row without an id is
skipped without a word; with 50 disabled objects whose names contain a name, the
one that bears it may be reported as not found; a repeated `create_host` makes a
second host; a downtime
that begins between the list and the cancel is on the page when the call says it
is gone; a change between the check and the export is exported unchecked; an
update between a call's read and its post is undone by it. Deletes, disables and
enables do not invalidate the scope cache (`Delete` leaves it alone), so an
object made under a deleted reference's name may be verified against it until
the entry expires; `StalenessBounded` covers this too. Of changes recorded in one
second `segments` keeps the one with the greatest code, since it sorts pairs,
where its docstring says the last one; `MeasuresHistory` leaves such histories out
(`Untied`). A history of exactly `MAX_CHANGES` rows on
full pages is called longer than that; and where the reading did stop early, the
part that is missing is the oldest and counts for the opening state, so the
figures are not the lower bound the sentence calls them
(`tools/get_availability_report.py:124`): they may be too high or too low.

Of the start: the toolsets file is read again after it was validated, so an edit
meanwhile is served unvalidated; a guide of the operator's own that is missing, which
nothing looks at before, ends the start in a traceback, and so does a toolsets or
style file that is there and cannot be opened, although `cli.py:98` calls a
misconfiguration "a user error, not a stack trace" (`TracebackOnlyForFiles` says that
nothing else does); with a bare tool name selected and no set, the
guides served are those of no set at all. Of the call context: while host names
are read for a hint the event loop stands still, so no other call begins.

Of the evaluation: `scripts/eval-throwaway.sh` starts the fill without `--export`,
and its last step takes the first row of a list of monitored hosts
(`seed_scale_dataset.py:506`), of which there are none before an export:
`AskedOnWholeData` therefore has `known # {}`. An instance kept after a fill that
broke off is taken for whole by its first server. A reset that raises after an
interrupt takes the interrupt's place, and the run goes on. An interrupt loses the
results of the run.

Of the overview: the service problems on failed hosts are counted after all service
problems are, so with a change between the two the rest can be negative; and that
failed hosts were cut at `FAILED_HOSTS_READ` is not said.

## What is proved

Every invariant and every action property of a passing run is stated by a
theorem; what is left to TLC alone is named at the end of this section.

`ServingProofs` is about the five parts of the run `scope_cache`.

- The cache, for every number of threads, users and keys and every TTL and
  request time: `TypeCorrect`, `PartitionsStayApart`, `StalenessIsBounded`,
  `StalenessNeedsOverlap`, and `SerialReadsItsWrites`: with one thread,
  `ReadYourWrites` holds. The inductive invariant adds to the properties what they
  rest on: counters never overtake each other (a write's version is at most `db`,
  what is cleared is at most what was written, times never lie in the future), a
  fetch that is under way was sent at most `RequestTime` ago and shows everything
  written before it was sent, and an entry's age and version are those of its
  fetch. Without the part about fetches `StalenessBounded` is not inductive: an
  entry is stamped when it is stored, not when it was answered.
- The start, for any tools, sets and guides: `SelectionServed` and
  `TracebackIsOfFiles`. `StartInv` says of what each step has taken over from the
  steps before it and, as long as there was no edit (`AsRead`), that it is what
  the file held; after an edit nothing relates two reads.
- The call context, for any number of calls and users and any positive TTLs:
  `ZonesRead` and `HintsShown`. `ContextInv` keeps, for each call at each of its
  steps, when what it holds was asked for and that it was the case then or later
  (`CallAt`), and of each cached zone and the cached host names that they were stored
  at most `AnswerTime` after they were asked for. The proof found an assumption: with a TTL
  of 0 an entry of this very instant is not served, the bound is missed by one and
  `ZoneIsRecent` is false. The zones' TTL is 300 seconds (`api/clock.py:43`), the host
  names' is 60 (`argument_help.py:48`), so `TimesAssumption` asks for positive ones.
- The evaluation, for any numbers of models, samples, cases, workers, turns and
  attempts: `ActingAlone`, `InstanceRestored` and `RunsKeptWhole`. `EvaluationInv`
  says where each job can be in each phase (`JobIs`, `PhaseIs`), that acting jobs
  are taken in order and no two at once (`InOrder`), which steps of setup have been
  undone (`PutBackSoFar`), and what an open transaction holds (`DraftIs`).
- The throwaway instance, for any data: `WholeDataAsked`. `ThrowawayInv` adds what
  the instance holds after each step of the fill, since each step adds only to what
  it finds (`FilledSoFar`).
- `ServingTyped`, the type invariant of the five together: a step of one leaves the
  others' invariants as they are.

`EngineCommandsProofs`, for every number of calls and services and every page
size and wait: `TypeCorrect`, `DoneShowsNew`, `NothingIsLeft`, and
`ContractKept`, that `EngineCommands` implements `CommandContract`. The invariant
says how far a call is and what it has queued by then (nothing before its send,
something after it, an open outcome as long as it has not returned), and numbers
acknowledgements by the engine's run that made them: a call that proceeded saw
none, so whatever shows later is of a later run. The contract's proof maps each
action to a step of the contract or to a stutter.

Four components wait or read on for something that may never come:
`EngineCommands`, `ConfigExport`, `Downtimes` and `Availability`. For each,
`StepsLeft` counts the requests that can still be made, `EveryStepCounts` says that
every step of a call lowers it, and `StepsRunOut` proves that; `StepsAreLeft` and
`StepsAreFew` prove that it is a natural number and 0 only where the call is over.
A call that keeps taking steps therefore returns, whatever the engine, the job
server and the other calls do: what `CallsReturn` and `ReportReturns` add is that
its thread does take them. These definitions stand in the proof modules alone; on
an instance the liveness properties show as much, and for `Downtimes`, of which no
run checks liveness, the theorem is what there is. The count of a removal with
services needs that nothing is left to remove for a call that has not begun
(`NothingYet`), that of a cancel that it has finitely many rows (`Countable`), that
of a report that it reads on only below `MaxChanges` and found no more changes than
it read (`BoundInv`).

`ConfigExportProofs`, for every number of calls and changes: `TypeCorrect`,
`DoneIsAfterExport`, `DoneRunsChecked`, and `ContractKept`. The invariant says
that an export is in one place only (queued, running or over), that a call that
waits has launched one, and that the engine runs no version newer than the
database's and none older than a runnable one whose export is over.

`DowntimesProofs`, for every number of calls, objects and rows, every page, window
and name filter: `TypeCorrect`, `ContractKept`, and that `AddedIsNew`
(`AddedRowsAreNew`), `CancelsOnlyMatching` (`OnlyMatching`) and `CancelsEvery`
(`EveryOneIsCancelled`) hold. None of them assumes that names match exactly or that
rows fit a page: the properties themselves say what a read could not show
(`Unlisted`). The invariant numbers the rows (`Numbered`) and keeps, for each call,
what its first read stands for: every row the filter matched then was read, or
starts outside of the window, or after all the rows of a full page (`ReadInv`);
and what a cancel has still to command and has commanded are together the
rows it read that have an id.

`HostUpdateProofs`, for any fields, values, templates and containers:
`TypeCorrect`, `UntouchedIsKept`, `RoundTrip`, `PostsInScope`, and `PairIsWhole`.
The invariant says that the stored host is normal (saving it as it reads gives it
again), that a payload has both sides of the contact pair or none, and that what
is about to be posted is the merge of what was read and was accepted.
`RoundTrip` needs the normal form: a save would otherwise turn an override into
an inherited value.

`AvailabilityProofs`, for any window, history, page size, limit and finite set of
downtimes: `TypeCorrect`; and where the clocks do not change in the window
(`Shift = 0`; the run `availability_clocks` shows that this is needed)
`ReportMeasures`, that `MeasuresHistory` holds, `PlannedCountsOnce`, that
`PlannedOnce` does, and `SharesAddUp`, that `SharesOfWindow` does. The invariant of
the first has three parts. `ReadInv`: what was
read was recorded, and the pages read so far leave out nothing newer, although
rows move on meanwhile; a page that is not full reaches the window's begin
(`ShortPageIsLast`). `OpeningInv`: the opening state holds in the window's first
second, or nothing is recorded by then. `CountInv`: up to the cursor the seconds
are counted, and the state at the cursor is the current one; a span keeps this
because nothing lies between the cursor and the next change read (`NextIsNext`,
`SpanCounts`). The reading matters to the counting only through `Complete`.

The other two rest on sums and merges over sets. `Merge` puts together downtimes
that overlap or touch; `MergeMerges` shows of it what the counting needs
(`Merged`): periods apart from each other and in order, which have together the
seconds of the downtimes and no others. Hence the seconds of a span that lie in
merged periods, added up period by period, are those that lie in some downtime,
each once (`InDowntimeCounts`). `PlannedInv` says that for each state this is what
was counted up to the cursor, `SharesInv` that the seconds of all states up to the
cursor add up to those since the window's begin, and that no more of a state is
planned than there is of it. Sums and merges are functions that go through a set
one element after the other. That they have a value with the right property for
every finite set, which an induction would say, is proved by a smallest
counterexample: what fails for some subset fails for one of least cardinality
(`SmallestSubset`).

`OverviewProofs`, for any finite set of hosts, whatever loops their parent
relations form: `TypeCorrect`, and `CausesAreRight`, that `CausesAreAbove` holds.
`Reach` is the least set closed under what its hosts lead to. The invariant of a
walk says that what was visited or is on the stack is in `Reach`, and that
what was visited leads only to what was visited, is on the stack, or is where the
walk has to stop; with an empty stack the visited set is closed, so it is all of
`Reach`. The direction down adds that the host the walk is about is passed by.
`ProblemsAddUp` is the overview's sum, for any sizes of pages and chunks: as long
as no state changed meanwhile, what was counted so far is what there is in the
chunks asked for (`SumsInv`), and chunks are disjoint, so their counts are that of
all failed hosts.

`WritesProofs`, for any number of calls, containers, names, templates and objects:

- `InScope`, that `StaysInScope` holds: what an update has read is visible from the
  containers it was read with, and what a call is about to send is visible from
  those it sends; both survive a change that takes nothing out of sight, and an
  update that replaces the object by another call's.
- `Reported`, that `ReportedIsComplete` does: no two creates hold one id and none
  holds an id yet to be given, so that nothing but its own call connects a new
  host's agent, however often hosts of one name come and go.
- `NotFound`, that `NotFoundIsTrue` does: what is kept of the first, active lookup
  when the second is made is that everything then of this name was disabled
  (`LookInv`); a page that holds all that the filters match holds these, so it does
  not miss them (`RoomyPageHoldsAll`, `NamedIsMatched`). `NoSecond`, that `NoSecondOfName` does.
- `FoundByEitherName`, that `EitherName` does, whatever is renamed meanwhile: what a
  display name was mapped to is a name of a template that bore it at some time of
  the call (`NamesInv`), and what is found for a name bore one or the other, the display name only where
  the names given were not all template names.
- `TopsCover`, that `TopsCoverOnce` does: of the containers above one, which are
  above each other, the one of the shortest path is a top container, and no other is.
- The types: `ScopedTypes` (a contact keeps a container and its periods, a group its
  container and a member, through every update), `NamesTyped`, and `LifecycleTyped`,
  for finitely many calls (a host never has a service's name, since no id is given
  twice). The last found two assumptions: there is a host name to make the first
  host with, and there is room for the two objects there may be at the start.

The assumptions are the named `ASSUME`s of the modules: constants are numbers,
services are finitely many and the host is none of them, a page has room for one,
a window has a begin before its end, hosts and downtimes are finitely many, cached
answers live for a positive time, a host has a name, and the bound on objects leaves
room for those at the start. Those of `SerialReadsItsWrites` (one thread) and of the
reports (`Shift = 0`) are hypotheses of the theorems; each is dropped by a run, which
then finds a violation.

Model-checked only: `CallsReturn` and `ReportReturns`, since liveness under fairness
is out of the prover's reach, as is `ENABLED`; of them `StepsRunOut` is the part
without fairness. Induction theorems of the library
take an operator as a parameter, which no installed prover instantiates; where a
proof needs one (sums, merges, paths) it argues from a smallest counterexample
instead.

## Not modelled

Headers, logging, wording and layout of results, status texts. Times as people
write them (`tools/support/times.py`): `Downtimes` has minutes, and the zone they
are read in is `CallContext`'s. What a name resolves to inside a bundle beyond
visible or not. The payload of the fields no property tells apart (scalar fields
of contacts, templates and services, the payload of `create_command`), and the
references of a service that an update leaves alone. Episodes, noise, trends and
notifications: sorting and arithmetic over the rows of one answer, without a state.
The readers and formatters, which make a request or two and translate the answer,
and with them what `investigate_problem` gathers. In the overview, what handles a
problem and the grouping by name. Reading case files and comparing runs in the
evaluation. The settings that change no control. `PROJECT.json` lists every
component with its status.
