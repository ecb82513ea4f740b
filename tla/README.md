# A verification project for NIDS-Win

NIDS-Win captures the traffic of a Windows host, cuts it into windows of a
fixed length, computes features of each window and reports what is abnormal:
features that leave their baseline, external destinations never talked to
before, and contacts at regular intervals. It runs as one process, a FastAPI
server with one capture thread, and keeps alerts, known destinations and the
learned baselines in one SQLite file.

This directory holds TLA+ models of its logic, the TLC configurations that
check them on small instances, and proofs for every value of the constants.
Paths below are relative to `src/nad/` of the repository unless they say
otherwise.

## 1. Inventory

| Component | State | Operations | Hard part |
|---|---|---|---|
| `features.py` `WindowAggregator` | start of the window, counters of the packets in it | `add` (may close one window), `flush` (called by the replay script only) | a packet clock that stands still, jumps or goes back; the window in progress at shutdown |
| `detect.py` `BaselineDetector` | per feature: EWMA baseline, streak, mute | `update`, `state_snapshot` | streak, mute and freezing of the baseline together |
| `stats.py` | EWMA median/MAD, CUSUM sums, P² markers | `update`, `reset`, queries | marker positions; a chart that is reset and one that is re-anchored |
| `adaptive.py` `AdaptiveDetector` | per time bucket and feature: baseline, CUSUM chart and anchor; per feature: fallback baseline, cutoff, streak, mute; last bucket | `update`, `state_snapshot`, `serialize`, `restore` | streak and mute run across buckets and baselines; anchors belong to a visit of a bucket |
| `behavioral.py` `FirstSeenDetector` | known destinations, watched ones, mutes, recency since the last sweep, count of windows | `__init__` (load), `update`, `_prune` | memory and table forget by different recencies; a thread that ends between commits; the cap |
| `behavioral.py` `BeaconDetector` | contact times per destination, mutes, last activity | `update`, `_evaluate`, `_evict` | mute, eviction at the cap, long pauses in a history |
| `storage.py` `AlertStore`, `DestinationStore` | a connection and a lock each; tables `alerts`, `detector_state`, `known_destinations` | one method per statement, each its own commit | failed writes, use after `close` |
| `service.py` `MonitorService` | the objects above, recent windows and alerts, a lock, a stop event, a count of windows since the last save | `start`, `stop`, `_run`, `_handle_window`, `_save_detector_state`, read paths | a detector without a lock between two threads; `stop` whose join times out |
| `capture/` | an Npcap handle | iteration over packets | blocks on a quiet wire; raises |
| `web/app.py` | none | four data routes, startup and shutdown hooks | requests run in threads beside the capture thread |
| `web/static/app.js` | what is on the page | `tick`, every `POLL_MS` | ticks overlap; answers out of order |
| `classify.py`, `cli.py` | none | a mapping to texts and severities; options and wiring | none |

How they interact. The capture thread alone runs `_run`: it reads a packet,
looks at the stop event, adds the packet to the aggregator and, if that closes a
window, calls `_handle_window`: append the window under the service lock; call
the statistical detector, then the first-seen and the beacon detector, with no
lock; write each alert under the store's lock and append it to the recent ones
under the service lock; every `baseline_save_interval` windows serialize the
detector and store it. An exception anywhere ends the thread. Request threads
read windows under the service lock, alerts under the store's lock, the status
under both (the store's inside the service's), and the detector's dictionaries
under none. The shutdown hook runs `stop`: set the event, join for at most
three seconds, save the detector, close both stores.

What makes each component correct:

- *Statistical detectors*: an alert exactly when enough consecutive breaches
  lie outside a mute; a baseline that is never frozen for good; a cold bucket
  that always warms; scores of a streak that do not absorb the streak; a drift
  measured from this visit of a bucket.
- *First-seen*: what is remembered is persisted and stays so; a destination is
  reported when it lasted, once, and not within its mute; the memory is capped.
- *Service*: bounded loss at a crash, no loss at an orderly stop, alerts written
  before more traffic is read, no deadlock, a stop that returns, readers that do
  not fail.
- *Aggregator*: every packet in exactly one window, windows in order.
- *Beacon*: a periodic contact is reported, once per mute.
- *Quantile*: markers that never meet, heights in order, positions that keep up.
- *Snapshot*: a restart loses a bounded number of windows, counts none twice or
  under another bucketing, and never brings back a state that stops the capture.
- *Dashboard*: the page is of one answer and comes to show the latest.

The hazards behind these, each at its line, are listed in `PROJECT.json`.

## 2. Modules

| Module | What it is | Code |
|---|---|---|
| `Counters` | saturating and decreasing counters, the rectifier | idioms of all detectors |
| `AlertPolicy` | abstract specification: when a feature may raise a spike or a drift, over its history | docstrings of the two detectors, the branches that raise |
| `BaselineDetector` | implements `AlertPolicy` | `detect.py` |
| `AdaptiveDetector`, `MCAdaptiveDetector` | implements `AlertPolicy` | `adaptive.py`, `stats.py` (CUSUM) |
| `P2Quantile` | the markers of the quantile estimator | `stats.py` |
| `Checkpoint` | abstract specification: a worker that keeps what it learned in a store | `service.py`, `restore`'s promise |
| `DetectorSnapshot` | implements `Checkpoint`: what was learned, the row of `detector_state`, the processes one after the other | `adaptive.py`, `stats.py`, `service.py`, `storage.py` |
| `FirstSeen`, `MCFirstSeen` | detector, table, alerts, ends and starts of the capture thread composed | `behavioral.py`, `storage.py`, `service.py` (the alert writes) |
| `Windows` | the aggregator under its live driver and under the replay of files | `features.py`, `service.py` (`_run`), `capture/`, `scripts/replay_pcap.py` |
| `Beacon`, `MCBeacon` | histories of contact times, mute, eviction | `behavioral.py` |
| `MonitorService`, `MCMonitorService` | threads, locks, failures | `service.py`, `storage.py`, `web/app.py` |
| `Dashboard`, `MCDashboard` | the page, its ticks and the server they ask | `web/static/app.js`, `web/app.py`, `service.py`, `storage.py` |
| `BaselineProofs`, `AdaptiveProofs`, `FirstSeenProofs`, `WindowsProofs`, `BeaconProofs`, `ServiceProofs`, `P2Proofs`, `SnapshotProofs` | theorems about `BaselineDetector`, `AdaptiveDetector`, `FirstSeen`, `Windows`, `Beacon`, `MonitorService` with `Dashboard`, `P2Quantile` and `DetectorSnapshot` | |

**AlertPolicy** knows nothing of streaks and cooldowns. Its state is how many
windows in a row breached (`breaches`), how long ago the last alert was
(`quiet`), both saturating where larger values no longer matter, and what the
last window raised. A spike is due at the breach that completes
`ConfirmWindows` consecutive breaches all later than the mute of
`CooldownWindows` windows; it is raised then and at no other window. A drift is
allowed, never required, at a calm window outside the mute. Both detectors
declare the variables `breaches` and `quiet` as history, update them with
`Policy!Record` and have `Policy!Spec` as a property: the refinement mapping is
the identity on these and on `alert`. A window that the detector does not score
counts as no breach.

**BaselineDetector** is one iteration of the loop of `update` for one feature;
features share nothing. The value is abstracted to the bit `|z| >= threshold`,
free in every window: every traffic and every arithmetic of the EWMA is a
behaviour of the model. Actions: `Unscored` (warm-up), `Muted`, `Confirm`,
`Hold` (mid-streak, baseline frozen), `Calm`. `n` is the sample count up to the
warm-up, `streak` and `cooldown` are the dictionaries' entries.

**AdaptiveDetector** adds the time buckets: any bucket may follow any other.
`Scorer(b)` and `Learners(b, frozen)` are the choice of lines 175-177 and
280-287. The chart of a bucket is whether it has an anchor, how many windows
seeded it, and its two sums; the residual fed to it is a free integer, so
scales and the moving reference are left out. History variables record which
anchors are of an earlier visit (`stale`), how many calm windows of this visit
the chart was fed (`calm`), which baselines scored the current streak
(`scorers`) and which learned part of it (`absorbed`), and how many windows each
bucket was given (`visits`).

**FirstSeen** is the memory (`known`, `watch`, `cooldown`, `seen`,
`windowsSeen`), the capture thread (`capturing`, and `pending`, the alerts it
has in hand) and the disk (`db`, the last-seen time of each row, and `rows`, the
alerts saved). A window is a set of destinations that passed the filters and a
later time. `Window` is all of `update`, sweep included, when it returns;
`SaveAlert` is one turn of the loop over its alerts. The thread ends inside
`update` (`Broken`), before its first commit, after the upsert, the touch or the
delete by time (`Midway`), or outside it (`Ends`), before, between or after the
alerts. One action stands for every way to end, since all leave the same: a
crash, a write that raises, which `_run` turns into the end of the thread, and a
stop. A death after the last commit of `update` is `Window` and then `Ends`.
`Start` is the next process. The order in which equal times are dropped by the
cap, or skipped by the load, is free (`Newest`). History variables are the last
contacts, the consecutive windows and the windows since a report of each
destination, the alerts whose destination was committed (`confirmed`) and the
last window of each thread that ended (`ends`).

**Windows** keeps, instead of the counters of a window, the set of the packets
in it: every counter is a function of that set. A packet is a time and a file;
times are free, so the clock stands still, jumps and goes back. `driver` is
chosen once: the live loop stops at the first packet after `stop` (`EndCapture`,
which is also an iterator that raises) and leaves its last window in the
aggregator; the replay places each file one second after the last packet of the
one before (`Base`), and ends
with `Flush`. What the detectors are given is `handed`.

**Beacon** is one action, all of `update`: mutes run down, contacts are pushed,
those due are reported, then the cap is enforced. `Periodic` is the test of the
coefficient of variation multiplied out, so that it is exact in integers. It
assumes what `Windows` proves, that windows ascend in time; so the order of the
last contact times is the order of `_seen_count`, which has no variable of its
own. History variables are all contacts ever (`contacts`), the first since a
destination was last forgotten (`since`) and the windows since its last report
(`quiet`).

**MonitorService** has a program counter per thread. A critical section that
takes no second lock is one step; writes and `status` hold their locks across
steps. A pass over the detector's dictionaries (`state_snapshot`, `serialize`)
is two steps and fails if a key was added between them, which is what CPython
does. The detector is the number of windows it learned. `Join` may return
while the thread is still alive, as after three seconds it does.

**P2Quantile** keeps positions and the order of the steps exact: a desired
position counts units of `1 / (2 * Den)`, in which every increment is an
integer. Heights are known only up to their order. The code keeps the parabolic
estimate if it lies strictly between the neighbours and takes the linear one
otherwise, so a height may become any between its neighbours, or any between
the two the linear estimate interpolates (`Height`). What the code gives is one of these.

**DetectorSnapshot** follows one feature through the processes that learn it. A
baseline is its count and what its seeding buffer holds; the cutoff is whether
its markers are set, for which rate, and whether all its lists are there
(`whole`). `Window` is the update of the detector with the count of windows and
the save that may follow, which may fail; `Stop` is the final save, which may
fail too; `Crash` has none. `Start` chooses the options of the next process and
restores, if the row is of its bucketing. The code reads the fields of the row
one after the other and stops at the first that is missing. `Damage` takes a
field out, of a baseline or of the cutoff, and `Restore` leaves what the code
then has: baselines before it, in any order of the row's dictionary, and, if
the field is one of the last of a cutoff, heights without positions. The next
window it scores ends the capture thread (`Dies`). The snapshot carries a
version; no code reads it.

**Checkpoint** knows nothing of buckets or cutoffs. Work is a number per part,
done in a mode; it is at risk since the last save that succeeded, for less than
`Interval` units for each failed save and one more. A start in the kept mode
takes all of the work over, in another mode nothing, from a damaged store each
part whole or not at all. The refinement maps keys to parts, bucketings to
modes, sample counts to work, and `sinceSave + Interval * failed` to the units
at risk.

**Dashboard** has any number of ticks under way, each with two requests that
are answered one by one, with what the server knows at that moment; the
alerts' answer is the number of the latest row, which with the limit determines
its rows. `Render` and `Fail` are the two ends of a tick; `Filter` and
`ToggleExpand` draw the table again from the alerts of the last tick that
worked. The server warms up, gets alerts, loses its capture thread, ends and
starts again with the same table, in a warm-up unless `--warmup 0` leaves none.
A server that has stopped answering may still save an alert or lose its capture
thread, as the last steps of `stop` let it. The names of `Dashboard` differ from those of
`MonitorService` (`PageInit`, `PageSpec`, `CaptureDies` ...) so that one module
can extend both: `ServiceProofs` shows that the one is the service the other
assumes.

`Learners`, `Raised`, `Step` and so on are preceded by *slips*: the same
operator with a plausible defect. No action uses them. Each property is
violated when its slip replaces the operator.

## 3. Runs

| Run | Configuration | Bounds | States | What it shows |
|---|---|---|---|---|
| `baseline` | `MCBaselineDetector.cfg` | warm-up 6, confirm 5, mute 24 | 324 | refinement of `AlertPolicy`; the baseline never starves; an anomaly that lasts is reported infinitely often |
| `adaptive` | `MCAdaptiveDetector.cfg` | 3 buckets, warm-up 3 and 2, confirm 3, mute 2, seeding 3, residuals -3..3, K 1, H 3 | 67,487 | refinement across buckets, warming of cold buckets, stable scores, seeded drifts, how anchors age |
| `first_seen` | `MCFirstSeen.cfg` | 2 destinations, cap 1, lifetime 2, sweep every 2 windows, learning 1, confirm 2, mute 4, times up to 8, gaps up to 2, 1 restart | 166,472 | agreement of memory and table, fresh recency, alerts earned, given, and lost of a last window only |
| `confirmed_alerted` | `MCConfirmedIsAlerted.cfg` | as above | violation | a destination known for good without its alert |
| `windows` | `MCWindows.cfg` | window length 2, times up to 4 (further for a next file), 5 packets, 3 files | 30,956 | each packet once and in the window of the latest time; windows ascend |
| `beacon` | `MCBeacon.cfg` | 3 destinations, cap 2, 3 events, history 4, periods 2 to 3, max_cv 1/4, mute 3, times up to 7, gaps up to 2 | 1,911,023 | what a history holds, who is forgotten, a steady period is reported |
| `service` | `MCMonitorService.cfg` | 2 requests, 3 windows, save every 2, 1 alert per window, 1 failed write, 1 new key | 106,717 | loss at a crash and a stop, no deadlock, requests are answered, stop returns |
| `readers_never_fail` | `MCReadersNeverFail.cfg` | as above | violation | `baseline()` fails beside the capture thread |
| `quantile` | `MCP2Quantile.cfg` | quantiles 0.1, 0.5 and 0.995, four scores, 20 samples | 7,203 | markers stay apart, ordered and within three positions |
| `snapshot` | `MCDetectorSnapshot.cfg` | 2 buckets, 2 bucketings, warm-up 2 and 1, seeding 2, save every 2, 4 windows per bucketing, 1 failed save in a row | 1,433,264 | refinement of `Checkpoint`; own samples only; whole seeds; only damage stops the capture |
| `cutoff_follows_rate` | `MCCutoffFollowsRate.cfg` | the same, 2 rates | violation | a restored cutoff ignores `--target-rate` |
| `dashboard` | `MCDashboard.cfg` | 2 ticks under way, 2 alerts of 2 severities, limit 1, outages without bound | 1,652,346 | the page comes to be current, of one answer, and stays so |

Why the bounds are enough. *Detectors*: every counter saturates where the code
only compares it, so the runs are the complete state space of the instance,
with no cut in time. The mute of `baseline` is longer than a confirmation and
that of `adaptive` shorter, so breaches that begin before, during and after a
mute occur in both. Three buckets let one be left and re-entered while a third
is cold. *First seen*: two destinations against a cap of one make each sweep
choose; gaps of 2 exceed the lifetime from one sweep to the next; the mute of 4
windows exceeds the lifetime, so a reported destination is forgotten while
mute; eight units of time hold up to eight windows, which covers learn, watch,
confirm, forget, watch again, and an end of the thread in any place, with a
second thread after it. Time ends at
`Horizon`, here and in `beacon`, so deadlock is not checked there. *Windows*:
five packets allow two closed windows and one in progress with a step back in
between, a jump over a window, and three files; the proofs cover the rest.
*Beacon*: three destinations for a cap of two give ties and a choice at each
eviction; a contact in every window is below the least period, one in every
fourth above the greatest; seven units of time hold a report, a mute of three
windows and a second report, and five contacts against a deque of four.
*Service*: three windows with a save after the second put a stop before, during
and after a save and between saves; a further window repeats these. *Quantile*:
fifteen samples after the markers are set are enough for the middle markers to
be blocked by a neighbour, to fall behind by more than two positions and to
catch up; the number of samples ends the run, so deadlock is not checked there,
and the proofs cover longer streams. *Snapshot*: four windows under a bucketing
fill a seeding buffer, warm a bucket, set the markers, and span two saves of
which one fails; two bucketings let a row come back after another was tried;
the number of restarts is not bounded. *Dashboard*: a third tick under way
repeats the second's effect, since a tick reads no other; two alerts against a
limit of one let an alert leave the page while it is open. Here no history is
kept, and the run is the complete state space.

Where deadlock is checked (all other passing runs), a stopped service stays in
`Exited`, an ended driver in `Ended`.

Fairness. `baseline` assumes that windows keep being closed (weak fairness of
`Next`), which holds while there is traffic; `SustainedIsReported` speaks of
breaches that go on, so of traffic. `service` assumes that a thread that can run
goes on and that one waiting for a lock gets it if the lock is free again and
again (strong fairness of each thread; CPython hands a free lock to a waiter),
and that `join` times out. It assumes neither that packets or requests come nor
that the shutdown does: `StopReturns` holds on a wire that is silent for ever.
`dashboard` assumes of the browser that its timer and its callbacks run (weak
fairness of `Tick`, `Render` and `Fail`), and of a server that is up that it
answers, which is what `service` checks. `EventuallyCurrent` speaks of a server
that stays up from some time on; it assumes nothing of the user, nor that
outages end.

## 4. Disagreements with the code's own texts

Shown by a run that TLC finds violated:

1. *Known, never alerted* (`confirmed_alerted`). The destination is committed
   before its alert (`behavioral.py:134`, `service.py:160`), against
   `behavioral.py:50-51`. A crash, a save that raises and a stop that closed the
   stores can all come in between. `LossIsOfLastWindow` bounds the loss to the
   last window of each capture thread.
2. *A reader that fails* (`readers_never_fail`). `service.py:211-212` against
   `service.py:3-5`.
3. *A rate that does nothing* (`cutoff_follows_rate`). A restored cutoff keeps
   the increments of the rate it was made with (`adaptive.py:384`), and nothing
   reads the new one. Against lines 170 and 255 of the repository's README.

Met while modelling, in the models as the code has them, and bounded by
properties that pass:

4. *A drift across days*. A bucket entered during the mute keeps its old CUSUM
   anchor (`adaptive.py:186-199`), against the comments at 156-157 and 192-195.
   `AnchorsAgeOnlyInMute` says that it happens in no other way.
5. *A streak judged by a baseline that learned it*. Freezing protects the scorer
   of the moment only (`adaptive.py:280-287`), against 276-277, when the scoring
   is handed over in mid-streak. `StableUnlessHandover` says: only then.
6. *Not a cold start*. `restore` finds a missing field half-way, returns
   `False` and leaves what it has set (`adaptive.py:372-386`), against 367-369,
   "a bad snapshot just means a cold start". The baselines left are whole
   (`ImplementsCheckpoint`), but the cutoff may have heights and no positions;
   the first window it scores then ends the capture thread, the stop saves it,
   and the next process meets it again. `OnlyDamageKills` says that nothing
   else does this.
7. *Learning again at every start*. `_windows_seen` is not persistent
   (`behavioral.py:89`), against 54-55, which speak of a fresh install.

Noted, not modelled: the replay sets the current file before `add()` closes the
last window of the one before, so that window's alerts are noted under the next
file (`scripts/replay_pcap.py:105-112`, against 93); the page counts the last
day's alerts among the 200 rows it asked for, and labels the count of the whole
table "since service start" (`web/static/app.js:113, 199-203, 383`).

In the model as the code has it, and bounded by no property: `status` counts the
warm-up in windows of this process (`service.py:185-201`), so that after a
restart the page says the baseline is being learned (`web/static/app.js:118`)
while the restored detector is warm, against "no re-warmup" (line 267 of the
repository's README).

## 5. Proofs

`tlapm` on the eight modules named `...Proofs` checks everything below for all
values of the constants that satisfy the modules' assumptions (`ASSUME` beside
the constants). They hold of everything the command line and the service pass by
default and of every sensible choice. The constructors clamp the streaks and the
caps to at least one, as the assumptions have them, but accept, without a check,
values the assumptions leave out: a negative lifetime, period or CUSUM bound, a
negative number of windows, a window below a nanosecond. A mute of less than one
window is none, in the code and in the models. Reals are integers in some unit.
Every invariant, every action property and every refinement that
a passing run checks is also a theorem, those of `Dashboard` included; liveness
is not.

**BaselineProofs.** The counters are functions of the policy's history:
`cooldown` is what is left of the mute since the last alert, and `streak` the
consecutive breaches, limited to those later than the mute. With
`FrozenByStreak` (windows the baseline did not learn are windows of the streak)
this gives `NeverStarves` and the refinement. `BreachesAreReported` is what
`SustainedIsReported` says without its fairness: each scored breach lowers
`BreachesLeft`, which is at most the mute and a confirmation, or is reported.

**AdaptiveProofs.** Type correctness, with the bound `CusumH` on the sums
between windows (a sum above it is a drift and is reset in the same window).
`AdaptiveImplementsPolicy` needs to know how the counters follow from the
history: while mute, `cooldown` is `CooldownWindows` less the windows since the
alert; outside, `streak` is the number of consecutive breaches, limited to
those later than the mute. This holds only if a bucket that hands over to a
cold one finds the fallback warm, which is why the theorem assumes
`GlobalWarmup <= BucketWarmup` (the defaults are 30 and 200) and carries the
invariant `ColdFallback`: while the fallback is cold nothing was scored (no
breaches, no mute) and no bucket is ahead of it. With the opposite order a
window in a cold bucket is not scored and does not end the streak. What then
still holds is proved without the assumption: alerts of either kind are a mute
apart (`AlertsAreSpaced`, from the half of the invariant that speaks of the
mute), and a breach that does not end is reported as soon as in
`BaselineDetector` (`BreachesAreReported`), since no change of bucket or
baseline winds mute or streak up again. The other theorems need an invariant each: the samples of a cold bucket equal its visits;
the scorers and the learners of a streak are disjoint within one kind of
baseline; the seeds of a chart that is not stale are bounded by the calm
windows of the visit.

**FirstSeenProofs.** Lemmas about the table operators (`Stamp`, `Only`,
`Newest`) come first. Three inductive invariants follow.

- `PersistInv`: types, no time ahead of the clock (`Past`), `KnownIsPersisted`
  and `RecencyIsCovered`. Neither of the last two is inductive alone: a row
  survives the delete by time because its time is at least that of the memory
  (`TouchCovers`, the step where the touch of `seen` matters), and that
  comparison needs the row to exist.
- `WatchInv`: `WatchIsConsecutive`, `SustainedIsRaised`, that nothing is watched
  before the learning phase ends, and that the mute is what is left of
  `CooldownWindows` since the report. `AlertsAreEarned` is its action property.
- `FreshInv`: `PersistInv`, `ContactIsKnown` (the memory has the last contact
  this process saw) and `SeenIsSwept`. With `RecencyIsCovered` they give
  `RecencyIsFresh`: the table has that contact too, but for destinations in
  `seen`, which every sweep empties. That much a restart forgets.

`SweepsBoundMemory` needs types only: at a sweep and at a start the memory is
one of the sets `Newest` allows. So does `SweepsExpire`: whatever a sweep leaves
in memory or table, rows included that no start will load, is within the
lifetime. `LossesAreOfLastWindows` is the other side of the violated
`ConfirmedIsAlerted`. Its invariant `LossInv` follows an alert from its
confirmation: it is saved, or in the hand of a running thread and of the window
that thread was given last, or of the last window of a thread that ended. Every
action that ends a thread drops what is in hand, whatever ended it; a thread
that goes on after a failed save would break the second part. `EndsAreFew`
counts the threads.

**WindowsProofs.** Two lemmas on boundaries: the aligned time is the last
boundary not after the packet, and boundaries lie at least a window apart. Then
six invariants, each proved for `add()` and `flush()` separately.

- `Open`: a window in progress has a start (typing needs it: `flush` hands that
  start over).
- `Counted`: `EveryPacketOnce`, element by element.
- `WindowsAreRuns`: windows are consecutive pieces of the stream, the one in
  progress its end. What waits on a quiet wire, and what a live stop discards,
  is therefore never older than anything handed over.
- `Clock`: the window in progress is that of the latest time. It is what makes
  `Follow` (`PacketsFollowTheLatestClock`) and `Ascend` (`WindowsAscend`)
  inductive: the packet that closes a window lies a whole window after its
  start, and both starts are boundaries. `PacketsInTimeAreInPlace` follows from
  `Follow`: a packet that was on the latest clock is in its own time's window.
- `FilesFollow`: wherever the file changes the clock is one window ahead. With
  `Follow` it leaves no room for two files in a window on a clock that never
  went back (`MixNeedsStepBack`).

**BeaconProofs.** `HistoriesHold` says what a deque is: ascending, part of the
contacts since the destination was last forgotten, and either all of them or as
many as it can hold, the missing ones earlier. What `Periodic` makes of a
history plays no part in it. `ReportsStaySpaced` needs only that the mute is what is
left of `CooldownWindows`. For `LeastRecentAreForgotten` the invariant adds that
the last time of a history is the destination's latest contact; then everyone
as recent as a forgotten one fills the cap (`AsActive`), in this eviction or in
one before it. `SteadyStaysReported` goes from the contacts to the test of the
code: contacts that are evenly spaced leave a history with equal gaps; the sum
of the squares of equal gaps, which `Periodic` folds over a set, is their number
times one square; so the test accepts, the destination is due, and is reported
or mute. The fold is the one place where a proof inducts over data. The
library's induction rules take an operator, which the provers here cannot
instantiate, but well-foundedness of a concrete set can be cited (`WFMin`): the
sum is right on every subset, because a least wrong subset would not be least.
`ReportsStayOfContacts` is the converse: what is reported has enough contacts,
at a mean period in range.

**ServiceProofs.** `Backlog` says what is unsaved at each place of the capture
thread: `SaveInterval` for every failed save, what `sinceSave` counts, and the
window learned and not yet counted, if the thread is between the two. It holds
as long as no join timed out, which `JoinOrder` (a thread that was joined stays
ended) makes inductive. `StopSaved` follows the copy that `stop` serialized from
its making to the row. `AlertsCounted` says that alerts raised are those in the
table and those in hand.

Locks: `LocksAreHeld` ties each lock to the thread whose place is inside it, so
that neither a failed write nor an exception leaves one locked, and gives mutual
exclusion (`LocksExclude`). `LocksAreOrdered` follows: `status` asks for the
store's lock inside the service's, but who is inside the store's asks for
nothing. `StopsAreBounded` ranks the places of the capture thread and of `stop`:
once the event is set, each step of the process lowers `StepsLeft`, whatever
fails and whether or not `join` waited, and `StopsAreNeverStuck` says that the
locks a stop needs are free or held by a write under way. The two are the safety
half of `StopReturns`; the other half is that the threads are scheduled.

The page: `PageInv` says what an answer on its way may hold and what the page
shows of the last answer that arrived; `PageTypes` and `PageShowsOneAnswer`
follow for every table, limit and number of ticks under way. `PageCatchesUp` is
the safety half of `EventuallyCurrent`, stated for each step while the server is
up and says nothing new: ticks that hold an outdated or a lost answer (`Stale`)
only get fewer, each leaves that set when it ends, every other tick makes the
page current when it ends, and once none is stale a current page stays current
through every click. What is left to liveness is that ticks start and end.

The two together: `Dashboard` assumes a service that warms up, gets alerts, may
lose its capture thread and goes down. `ServiceIsThePages` shows that
`MonitorService` is that service. Under the mapping `Seen`, `up` is
`main = "serving"`, the table is `rows`, and the health follows from the place
of the capture thread and the windows it handed over (`Health`, `Handed`), for
any length of the warm-up and any `history_size`; every step of capture, `stop`
and requests is then a step of `Dashboard`'s service or none. It needs that
alerts raised are at most `MaxAlerts` per window learned (`RaisedFit`), and assumes that the
bound on `Dashboard`'s table leaves room for all of them
(`MaxWindows * MaxAlerts <= MaxStored`), a relation between two bounds of the
models. It covers one process; `Up` starts the next. `StatusIsOfOneMoment` justifies the remaining simplification,
that `Reply` answers in one step what `status` reads in two, the health when it
takes the service lock and the number of alerts when it gets the store's. A
history variable (`asked`) keeps what the first read saw. In between, the
capture thread may save one alert and then waits for the service lock, or it may
die, but not both (`HeldMoment`); so the answer is that of one of the two
moments.

**P2Proofs.** The positions are `Apart`, the heights `Ascending`, the desired
positions `Proportioned` (the inner ones lie at fixed ratios between the outer
two), and `Follows` bounds the distance of each marker from its desired
position, differently for each marker, since they move one after the other.
Each is shown for the three parts of an update: counting the sample in its
cell, and each of the three moves, which see the marker below already moved and
the one above not yet. `MarkersFollow` is the weakest of these bounds.
`DivisorsStayPositive` says of the same intermediate positions that what the
interpolations divide by is positive, and `SamplesHaveOneCell` that ordered
heights leave the comparisons of `update` exactly one cell for each sample.

**SnapshotProofs.** The invariant adds three facts to the properties: a process
that is down has no memory and no failed save; what was never learned or saved
counts nothing; a row is intact unless something was damaged. The refinement is
shown action by action: `Window`, `Dies` (a stutter), `Stop` and `Crash`
(`Halt`), `Damage`, `Start`. What `Window` puts at risk is
`sinceSave + Interval * failed`, which a failed save leaves as it would be
without one. `LossStaysBounded` states the consequence in the detector's own
terms, key by key: what a process has learned is in its row but for the windows
at risk, and what it was started from it still has, so that the next save
replaces nothing by less. `RowsOnlyGrow` is its action property.

**Only model-checked**: liveness (`SustainedIsReported`, `RequestsAreAnswered`,
`StopReturns`, `EventuallyCurrent`), which the prover does not reach, though the
bounds and the absence of a lock cycle above are most of the argument for the
first three, and `PageCatchesUp` for the last; and the three violations, which are counterexamples. **Only
proved** are the theorems without a `property` in `PROJECT.json`; TLC checked
each on the instance of its module's run before it was proved.

## 6. Not modelled

- Values of features and the arithmetic of the baselines: a free bit, a free
  residual and free heights stand for all of them.
- `classify.py`: a table from a feature, a sign and a score to texts, without
  state; a model would be the table again.
- `cli.py`: options and wiring. The order of options where `global_warmup`
  exceeds `warmup_windows`, which it accepts, is outside the assumption of
  `AdaptiveImplementsPolicy` (section 5).
- Opening the device, the filter and the parsing of frames in `capture/`: they
  lie behind ctypes and are external; a packet is a time, a failure an end of
  the iteration. The `egress_ratio` feature is constant in a live capture, whose
  packets have no direction; that is one assignment and needs no model.
- `scripts/evaluate.py` and `scripts/eval_unsw.py`, which feed data sets to the
  detectors and are no part of the running system.
- The layout of the page, the bins of its histogram and its texts.
- Two processes on one database, which the program does not exclude and no text
  describes.

What could follow: an instance of `AdaptiveDetector` with the opposite order of
warm-ups, and an abstract policy that it implements; `MonitorService` with more
than one process on the stores.
