# A verification development for mdadm

mdadm manages Linux md arrays. Much of its source parses options, reads and
prints on-disk formats, and issues ioctls. What is hard to get right is where
several parties work on the same disks and the machine may stop between any two
steps:

* **mdmon**, a daemon of two threads that keeps *external* metadata (DDF, IMSM)
  up to date while the kernel writes to the array. The kernel blocks a write, or
  a device failure, until mdmon has put a fact on the disks;
* **`mdadm --grow`**, whose child (native metadata) or metadata handler (IMSM) backs up
  what a reshape is about to destroy, and the assembly that restores it after a crash;
* **assembly**: udev starts one `mdadm --incremental` for each disk, at once; a
  listed assembly decides by event counts which disks hold the data.

The modules are checked with TLC on small instances (`*.cfg`). The theorems of the
`*Proofs` modules are proved with TLAPS for every value of the constants.

## 1. Inventory

| Component | Source | State | Operations | Hard behaviour |
|---|---|---|---|---|
| monitor thread | `monitor.c` | `prev_state`, `curr_state`, `next_state`, the same for `sync_action`, `resync_start`, `sync_completed`, `state_fd` and `curr_state` of each device, `last_checkpoint`, `dirty_arrays` | `wait_and_act`, `read_and_act`, `read_attr`, `write_attr` | reads a changing array attribute by attribute; the order of metadata and sysfs writes; crash between any two |
| manager thread | `managemon.c` | list of arrays, `pending_discard`, update lists, `sigterm` | `manage`, `manage_new`, `manage_member`, `replace_array`, `remove_old`, `duplicate_aa`, `check_update_queue`, `queue_metadata_update`, `handle_message`, `read_sock`, `do_manager` | changes what the other thread reads, without a lock |
| DDF handler, run-time part | `super-ddf.c` | virtual disk state (consistent, fully initialised, degraded) and state of each physical disk | `open_new`, `set_array_state`, `set_disk`, `sync_metadata`, `activate_spare`, `process_update`, `container_content` | called from both threads |
| IMSM handler, run-time part | `super-intel.c` | two maps of a volume, migration record, rebuild flag of a disk, `failed_disk_num`, dirty flag | `imsm_set_array_state`, `imsm_set_disk`, `handle_missing`, `imsm_activate_spare`, `imsm_process_update`, `container_content_imsm` | one record for failure, resync and rebuild |
| update channel | `msg.c`, `util.c`, `managemon.c` | three lists, `monitor_loop_cnt`, pending `SIGUSR1` | `flush_metadata_updates`, `send_message`, `wait_reply`, `ack`, ping | two sleeping threads, several clients, SIGTERM, kill |
| life of mdmon | `mdmon.c`, `util.c`, `Create.c`, `Assemble.c` | pid file, socket, `sigterm` | start, take-over, exit, `start_mdmon`, `ping_monitor` | two mdmon at once, or none |
| member array control | `Manage.c`, `Assemble.c`, `sysfs.c` | `array_state`, `metadata_version` | `Manage_ro`, `Manage_stop`, `assemble_container_content` | acts on the same sysfs files as mdmon |
| md driver | external (`md_p.h`, `md_u.h`) | `array_state`, `sync_action`, devices, `blocked`, `sync_max`, suspended range, superblocks | writes, failures, resync, recovery, reshape | runs between any two steps of the others |
| reshape and backup, native | `Grow.c` | backup file and its header, suspended range, `sync_max` | `progress_reshape`, `child_monitor`, `grow_backup`, `Grow_restart`, `Grow_continue` | a crash in the critical section, and in the restart from it |
| reshape and backup, IMSM | `super-intel.c`, `Grow.c` | migration record on two disks, copy area, suspended range, `sync_max` | `imsm_manage_reshape`, `save_backup_imsm`, `save_checkpoint_imsm`, `recover_backup_imsm`, `Grow_continue_command` | the same, with a record that is written twice, mdmon, and an mdadm that is killed and replaced |
| incremental assembly, map file | `Incremental.c`, `mapfile.c`, `mdopen.c` | the map, its lock file, arrays that are not complete | `map_lock`, `map_update`, `Incremental`, `count_active`, `IncrementalScan` | concurrent udev events, killed processes |
| assembly from superblocks | `Assemble.c`, `util.c`, `super1.c` | superblocks, event counts | `load_devices`, `force_array`, `start_array`, `enough` | disks that missed updates, crashes between two superblocks |
| geometry, RAID6 recovery | `restripe.c`, `raid6check.c`, `raid5extend.c` | none | `geo_map`, GF(256) tables, `save_stripes` | arithmetic |
| native formats, bitmaps | `super0.c`, `super1.c`, `bitmap.c`, `super-gpt.c`, `super-mbr.c` | none at run time | load, store, examine | formats |
| `mdadm --monitor` | `Monitor.c`, `Manage.c` | what it read of each array; the spare it has in hand | alerts, `try_spare_migration`, `move_spare` | decides by what it read some time ago, against mdmon and `mdadm --grow` |
| freezing a container | `msg.c`, `Grow.c` | `metadata_version`, `sync_action` of each volume | `freeze_container`, `block_monitor`, `unblock_monitor` | mdmon may have chosen a spare before |
| modes, reports, configuration, libraries | `mdadm.c`, `Create.c`, `Detail.c`, `config.c`, `policy.c`, ... | none | | |

Interactions. mdadm assembles an array through sysfs and starts mdmon if the
metadata is external. The manager finds the array in `/proc/mdstat`, opens its
sysfs files and links an `active_array` at the head of `container->arrays`. The
monitor sleeps in `pselect` on those files, runs a pass over every array when one
changes, and sends `SIGUSR1` to the manager when it wants something. When a device
fails the manager freezes the array, adds a spare, queues an update for the
monitor, waits for it, replaces the structure by a clone and starts the recovery.
mdadm sends updates over a socket to the manager, which hands them to the monitor.
A new mdmon takes over by the pid file and the socket of the old one. A reshape is
driven by mdadm through `sync_max`, `suspend_lo` and `suspend_hi`; what it saved, in a file or in the
copy area of the disks, is looked at by the next assembly. The end of an IMSM reshape is recorded by mdmon. Incremental processes meet in the map file.

What makes them correct:

* monitor and metadata handlers: after any crash the metadata asks for a resync when
  the copies may differ, and never counts a disk that missed a write as good;
  the array takes writes only after the disks say that it is dirty; every
  blocked write and every failed device is released; a stopped array is recorded
  as clean; a rebuild that was recorded ends.
* manager and the spare: a spare counts as good only after its recovery; a frozen
  array is thawed; a degraded array gets the spare there is.
* the list: a structure has one user at a time, is freed once and never in use;
  its files are open exactly as long as somebody uses them; an array that runs
  stays watched.
* the update channel: updates of one client are applied in order and once; a
  flush that returned has its updates on the disks; every flush returns.
* life of mdmon: one mdmon acts on an array; the files name the one that does; an
  array that mdadm reports as started gets one.
* reshape: after any crashes the array and the backup, or the copy area, together hold the
  data, and the restart finds it; a reshape ends.
* incremental assembly: one process at a time changes the map; one md device for
  an array, and no second one from the disks of an old one; the array starts.
* assembly: no disk that missed an acknowledged write is in sync; `--force` takes the
  newest disks, and starts the array if that is possible.

The hazards, each at its line, are in `PROJECT.json`.

## 2. Modules

| Module | What it models | Composes |
|---|---|---|
| `MdArray` | the md driver's half of one redundant member array (external), and two history variables, `stale` and `torn`, that tell the truth about the data | |
| `MonitorThread` | one mdmon with its monitor thread, the DDF functions it calls, `manage_new`, crashes and assembly | `MdArray` |
| `SpareRecovery` | `manage_member` activating a spare, `ddf_activate_spare`, `ddf_process_conf_update`, recovery | `MonitorThread` |
| `Custody` | abstract: who may use a structure | |
| `ArrayHandover` | `container->arrays`, `->replaces`, `discard_this`, `pending_discard` | refines `Custody` |
| `UpdateChannel` | clients, socket, update lists, ping, signals | |
| `MdmonLife` | mdmon from start to exit, its two files, the take-over, and mdadm that needs one | |
| `ImsmVolume` | one IMSM volume: its record in memory and on the disks, the monitor and the manager as far as they change it, the driver | |
| `ReshapeKernel` | the driver while it reshapes (external), rows and addresses | |
| `ReshapeBackup` | the child that backs up, `Grow_restart`, `Grow_continue` | `ReshapeKernel` |
| `GeneralMigration` | the reshape of an IMSM volume, its restart, `--grow --continue`, the end in mdmon | `ReshapeKernel` |
| `Reshape` | a reshape of either kind, as `reshape_array` dispatches it | `ReshapeBackup`, `GeneralMigration` |
| `IncrementalMap` | lock file, map file, and the processes udev starts | |
| `ContainerSpares` | groups of devices (containers and native arrays), their spares, the md driver, and an mdmon for each container that gives spares to its volumes | |
| `FreezeContainer` | `mdadm --grow` freezing and thawing a container | `ContainerSpares` |
| `SpareMigration` | `mdadm --monitor` moving spares between groups | `ContainerSpares` |
| `SpareContest` | all of them at once | `FreezeContainer`, `SpareMigration` |
| `AssembleDisks` | an assembly of listed disks by their event counts, with and without `--force`, and the array that writes those counts | |
| `MonitorThreadProofs`, `ArrayHandoverProofs`, `UpdateChannelProofs`, `MdmonLifeProofs`, `SpareContestProofs`, `IncrementalMapProofs`, `ReshapeProofs`, `AssembleDisksProofs` | the theorems | the module of the name |
| `MC...` | symmetry, initial states and instances of the runs | |

### MonitorThread

`pc` is the place in `wait_and_act`/`read_and_act`. A pass is

    wait -> read_state -> read_action -> read_resync -> read_completed
         -> read_devs (one step per device) -> sync -> write_state
         -> write_devs (unblock and remove are separate steps) -> wait

`Decide` is the code between the last read and `sync_metadata`: it touches only
memory of the thread, so it is one step, and its results are operators
(`Deactivating`, `WelcomingNew`, `ResyncFinished`, `Checkpoint`, `MarkedClean`,
`DevAfter`, `NextState`, ...), one for each condition in the code. `mem` is the
DDF record in memory, `disk` the one on the disks; `SyncMetadata` copies one to
the other, and `Forget`, what a dead process leaves, copies it back. `open` is
`->container # NULL`. `Assemble` is what `container_content` and
`assemble_container_content` make of the disks. The comparison `curr_state <= clean`
of the C enumeration is the set `AtMostClean`; `curr_action > reshape` is
`AboveReshape`, which holds `check`, `repair` and the `bad_action` that `frozen` reads as. So
the progress of a check is a checkpoint like any other (`Checkpoint`), although a check runs on an array whose
`resync_start` is "none". `StartCheck` of `MdArray` is `mdadm --action=check` or `repair`, which takes the array out of
read-auto; `Leisurely` says how far such a check comes while one pass reads the attributes, and `"quick"` takes that limit away.

### SpareRecovery

`mgr` is the place in `manage_member`: `ActivateSpare` chooses the spares and copies the structure,
`Freeze` writes `frozen`, `AddSpares` calls `sysfs_add_disk` for each spare (the driver may refuse some, `"badspare"`) and queues the
update for all of them, `Publish` is the wait for it and `replace_array`, `StartRecovery` and `MarkRecover` the two last lines. `dup` is what `duplicate_aa` copied
*before* the wait for the update; the monitor takes it over, as it was copied,
in `PickUp`. `ProcessUpdate` and `SyncUpdate` are two steps, because the manager
may go on between them (`update_queue` is emptied before `sync_metadata`).
`MarkRecover` writes `prev_action` of the new structure while the monitor may be
using it.

### ArrayHandover

The structures are numbers; `next[l]` is the word at location `l`, and `next[Head]`
is `container->arrays`. The first loop of `wait_and_act`, which holds the
*address* `ap` of a word, is a read and an act; the second is `TakeReplaced` and
`Act` for each structure. `replace_array` is `ReplaceFirst`, `ReplaceWait`,
`ReplaceLink` and `Publish`, with the two writes of the linking apart. What is on the list
is what `next` leads to: `ListFrom(l)` is the smallest set that holds the structure at `l` and,
with each, the one after it (`LeadsInto`), which is what a loop over the list visits. `happens`
is the set of events of a behaviour, chosen once. `walk` is
the pointer that `manage` goes on with after `manage_member` returned. `KeeperOf`
maps a structure to the party of `Custody` that may use it by where it is: in
`discard_this`, on the list, freed, allocated, or none of these.

### UpdateChannel

A queue entry is named by its client and number. `mon` and `mgr` are the places
in the two loops. `monitor_loop_cnt` is a counter that the ping compares with a
target two or three turns away; `togo` is the distance, which is all that the code
tests. A client is `flush_metadata_updates`: it sends each update and waits for
its acknowledgement, then sends a ping and waits for that.

### MdmonLife

`pc` of a process is its place in `main` and `mon`; `victim` is the pid it found in the
pid file, `victimSock` the process whose socket it is connected to. `Look` is
`mdmon_pid`, `check_one_sharer` and the connect, `RemoveStale`, `MakePidfile` and
`MakeControlSock` are the steps on the two files, `TryKillMonitor` sends SIGTERM and a
wake-up, `VictimGone` is the end of the wait for the socket to close. A manager reads
`/proc/mdstat` in one step (`ReadMdstat`) and acts on it in another (`ManagerTurn`).
`Exit` is one step of the monitor: it sees no array, or the array clean after SIGTERM,
removes the files and leaves. `tool` is mdadm: `Create` looks for an mdmon, starts one,
pings it, and goes on; `assemble_container_content` the same after it started the array.
A pid is used once.

### ImsmVolume

`mem` is the `imsm_dev` in memory, `stored` the one on the disks: the state of the map,
the destination map of a migration, its kind and position, the disks in the slots, the
rebuild flag and the failed disk. The operators have the names of the functions:
`Migrate` is `migrate`, `EndMigration` `end_migration`, `MarkFailure` `mark_failure`,
`SetArrayState` and `SetDisk` the two handlers, `WithSpare` the update that
`imsm_activate_spare` prepares and `apply_update_activate_spare` applies. A pass of the
monitor is `Decide`, `Sync`, `Act`: its reads are atomic here, because `MonitorThread`
treats them one by one. `good[d]` counts the units a disk holds as they should be, `torn[g]`
where the members of a group may differ; both are history.

### ReshapeKernel and ReshapeBackup

A row is a stripe of the devices: it holds the old data, the new, or neither
(`rows`). `BeginRow`/`EndRow` are the driver writing one row, `Checkpoint` the position
it records; it goes as far as `sync_max`. `Launch` is `start_reshape`, and then
the child: `SuspendMore` and `AllowProgress` are the two halves of `progress_reshape`
around `WaitForReshape`; `SaveData`, `WriteHeader` and `LiftSuspension` are
`grow_backup`; `ForgetBackup` is `forget_backup`. `Assemble`, `RestoreStripes`, `UpdateSupers`,
`Continue` and `RunArray` are `Grow_restart` and `Grow_continue`, and a crash may
hit each of them. `Shapes` are the numbers of data disks before and after, so that one
module has all three cases: growing, shrinking, and the same number of disks. In the last one a half of the backup is
`Larger` units (`reshape_array` enlarges `blocks`), so that the driver may be anywhere in one half when the other is released.

### GeneralMigration and Reshape

For an IMSM volume the driver records no position. `mem` is the migration record in the memory
of mdadm, `rec` the one on each of the first two disks, and `WriteRecord` writes them one after the
other (`todo`); `first` is the disk that is first in `super->disks`, whose record is read. A turn of
`imsm_manage_reshape` is `SaveBackup` (when the unit is critical: `save_stripes`, `save_backup_imsm`, and
a record that says `UNIT_SRC_IN_CP_AREA`), `SuspendLo`, `SuspendHi`, `AllowProgress`,
`WaitForReshape`, and a record that says `UNIT_SRC_NORMAL`; `MigrationDone` clears the records and
`LiftSuspension` is the label `abort`. `EndMigration` is what mdmon does when the driver is
through. After a crash `LoadRecord` (`load_imsm_migr_rec` and the `units++` of `getinfo`), `RestoreFirst` and
`RestoreLast` (`recover_backup_imsm`, one disk after the other) and `Continue`; after `Kill`,
`ContinueCommand`. `copy.held` are the addresses whose present data the copy area holds: history, as
`held` is in `ReshapeBackup`. `NothingLost` asks at every step what the restart would make of
the disks, for each record it may read.

`Reshape` chooses once, in `external`, which of the two runs, on the same driver variables; its properties
are the two specifications' own. The shapes of volumes are `Migrations`, which do not shrink
(`ascending_migr` is always set).

### IncrementalMap

A process is known by its disk. The lock file's name is `lockfile`, an inode;
`OpenLock`, `Flock` and the test of the name afterwards are three steps, `UnlinkLock` and `CloseLock` two. Inside, `ReadMap`,
`MakeArray` or `JoinArray`, `WriteNew`, `RenameNew`, `Count`, `Start` follow
`Incremental`. `Reject` is `count_active` with what it does to disks that are too old or
contradict the best. `LastResort` is the timer's `mdadm --incremental --run --scan`,
`StopArray` and `DeleteEntry` are `Manage_stop`, `ReadUnlocked` is any mdadm that finds no map
and rebuilds it. What a loop over a list leaves out is said by the positions it keeps (`Kept`): a filter with an
operator as its argument is beyond the provers.

### AssembleDisks

`sb[d]` is what a superblock says: `events`, the slots it `sees` as working, `clean`,
`whole` (no `recovery_offset`). `Record` is the driver writing the superblocks, which it does on a failure,
a spare, and each change between clean and dirty; a failed disk is not
written. `Load` is `load_devices` and the count of what is up to date,
`ForceOne`/`ForceDone` the loop of `force_array`, `Choose` the choice of the superblock
that is written back before the start, `Start` or `NotStarted` `start_array` with the
kernel's own checks. `data[d]` is the last acknowledged write a disk holds.

### ContainerSpares, FreezeContainer, SpareMigration, SpareContest

A group is a container or a native array (`GroupOf` of an array); `place[s]` is the group a spare is in,
`slots[s]` the arrays it has a slot in, `synced[s]` those it is rebuilt for. `version[v]` is what `metadata_version`
of a volume says: the container's own, blocked for mdmon, or none. `mgr[c]` is the manager of the
mdmon of a container on its way through `manage_member` for each of its volumes, `queued` the update that its
monitor applies. `grow` is `mdadm --grow` between `freeze_container` and `unfreeze_container`, volume
by volume; `Block`, `Verify` and the ping are the steps of `block_monitor`. `mon` is the place of `mdadm --monitor`:
`CheckArray` reads one array, `LookAfter`, `TryDonor`, `OpenDonor`, `CheckHolder`, `HotRemove`, `Removed`, `Add`
are `try_spare_migration`, `Manage_remove` and `Manage_add`, `back` the second try of
`move_spare`, to where the spare was. The result of that try is not looked at, as in the code.

## 3. Runs

All runs pass; what does not hold is in section 5, with the instance that shows it.
Sizes are distinct states.

| Run | Question | States |
|---|---|---|
| `monitor_safety` | Is the metadata right after every interleaving of a pass with writes, failures, `--readonly`, checks, SIGTERM, kill, power loss and missing disks? | 2.3 million |
| `monitor_live` | When the array is assembled dirty, may fail and may stop: are a waiting write and a failed device released, and is a stopped array recorded? | 0.6 million |
| `spare_crash` | Is a half-rebuilt spare never taken for good, whatever kill, power loss or SIGTERM hit the activation? | 3.4 million |
| `spare_live` | Is the array thawed, is the spare used, when devices fail on the way, or the spare is refused? | 0.6 million |
| `handover` | Two arrays on one list, replaced again and again, for level changes, RAID0, reshapes, spares and stops, in six sets of events: does the list implement `Custody`, are files closed too early, does an array stay watched, is each replacement completed? | 174 thousand |
| `update_exchange` | Two clients, the manager's own update, slow clients, SIGTERM and kill: is nothing lost, reordered, written too late or left asleep? | 164 thousand |
| `mdmon_life` | Three mdmon, take-overs, kills and stops: does one act, is it found, does the array get one? | 142 thousand |
| `imsm_volume` | A mirror and two mirrored pairs, with failures, missing disks, kills, stops and power loss: are resync and rebuild never forgotten, nor a stale disk used? | 322 thousand |
| `reshape_backup` | Six native shapes and five of IMSM volumes, two crashes at any step, SIGTERM, and mdadm killed and continued: is the data always there, and does the reshape end? | 144 thousand |
| `incremental_map` | Three disks of two arrays, a stop, a kill and the timer: one array for a uuid, no rivals, and it starts? | 210 thousand |
| `spare_contest` | A container of two volumes, one of one, a native array and two spares, with `--monitor`, `--grow`, two mdmon and failures: has a spare one owner, is a frozen container left alone, does the spare come to who needs it? | 356 thousand |
| `assemble_disks` | Three disks of a RAID5 that miss updates, a crash, forced assemblies: is nothing stale used, and is the newest? | 2.0 million |

Bounds, and why they are enough:

* **Two slots** (`MonitorThread`, `SpareRecovery`). The smallest redundant array: one disk fails, and the other holds
  the data. The code treats slots one by one, and the order of the visits is
  left free. Slots are symmetric in the safety runs; liveness is checked without
  symmetry.
* **Size 1** (one unit of sync progress) there. `completed` takes the values "nothing"
  and "all", and the threshold `Size \div 16` of a checkpoint is 0: every
  checkpoint that can happen does. The theorems hold for every size. `ImsmVolume` has
  `Size` 2: a migration that is begun, half done, and done.
* **One spare** (`MaxSpares`, `Spares`), so that a second failure finds none.
* **Asks** (`MCMonitor`): in one behaviour the administrator asks for checks, and mdmon may be killed, or for read-only, and mdmon may be told to
  terminate; all of it at once is over eight million states. A repair differs from a check only in its end, which is that of a resync, and is not
  asked for in this run. The theorems allow all of it together. With `Size` 1 every step of a check is a checkpoint. `MCSpare` has no check.
* **A refused spare** (`"badspare"`) is in `spare_live`; added to `spare_crash` it makes 4.4 million states, for which the properties hold too.
* **Events** and **Happens** choose what the environment does. Every event occurs
  in a passing run or in section 5; events that only one property needs are left out of the
  others to keep them small.
* **MaxAa 4** structures: a first one, and replacements of replacements until
  both `discard_this` and `pending_discard` are in use at once. A structure is
  never reused, so that a second use of a freed one is seen.
* **Six sets of events** in `handover`: the largest ones under which the list is handed over safely, but for `"stop"`
  alone, where `manage` meets an array that was let go meanwhile. What is left out is in section 5.
* **Five scenarios** in `spare_contest` (`MCScenario`): where the two spares are at first, which groups may lose a disk,
  and which container `--grow` freezes; the ranks fix the order in which `/proc/mdstat` lists the arrays.
* **Two clients, two updates each** (`PerFlush`): order within a client, and two
  batches in the queue.
* **Three mdmon**: one that acts, one that takes over, and one that starts or takes over
  while that goes on.
* **Events of a volume** (`MirrorAndPairs`): a mirror with two (a failure, absence, kill, or loss of
  power, and another), two pairs with one.
* **Larger 2**, **Slide 4** (twice `Larger`: `target` is 64M for each disk, and a half is enlarged to less than 32M), two
  crashes, and shapes whose number of rows is not a multiple of the backup: the suspended range slides several times, the last backup is short, a crash
  hits the restart from a crash.
* **Depth 2** (rows of the copy area) and volumes from <<1, 2, 12>> to <<3, 4, 7>>, two of them in
  place: one unit or several are critical, steps of more than one unit follow, and the last unit is short or whole.
* **Three disks and one other process** on two md numbers; the superblocks are four
  cases (`AllBoots`): a disk one update late, one that was left out, halves of a mirror that
  ran apart beside a disk of another array. One kill.
* **Three disks, five updates, two writes, one crash** in `AssembleDisks`: two disks can
  fall behind by different numbers of updates. For `NothingStale` and `ForceStarts` section 4
  has any number of each.

Deadlock is not checked: an array may stop for good, structures run out
(`MaxAa`), clients are done, processes exit, a reshape ends. What must go on is stated as a
liveness property instead.

Each property has a mutant, a plausible bug in a mapped definition, under which TLC
finds it violated; the mutant's definition stands before the one it replaces.

### Fairness

* `MonitorThread`: weak fairness of `PassStep` (the monitor's loop never waits for
  anything but its own `pselect`, and a pass waits for nothing), of `Open` (the
  manager reads `/proc/mdstat` whenever it changes) and of `MdmonStart`
  (`assemble_container_content` starts mdmon when none runs). None of the kernel, the administrator or
  a crash is fair: they need not happen.
* `SpareRecovery`: the same, with all steps of the manager weakly fair.
* `ArrayHandover`: weak fairness of each thread, and strong fairness of `Tidy`,
  because `do_manager` calls `remove_old` at the end of every turn: whatever
  `manage` finds to do, it comes there again and again.
* `UpdateChannel`: weak fairness of the monitor *without* `Notified`: it must be
  enough that signals arrive, since no array need ever change; of the manager, and
  of each client.
* `SpareContest`: weak fairness of the driver, of the steps that `--grow` and `--monitor` take, and of the monitor and the
  manager thread of each mdmon. A failure, and the start of `--grow`, need not happen.
* `MdmonLife`: weak fairness of mdadm, of each process's own steps, of an array turning
  clean when nobody writes (after SIGTERM the manager sets `safe_mode_delay` to a
  millisecond), of the monitor letting go, and of the exit.
* `ImsmVolume`: weak fairness of the driver's resync and rebuild, of mdmon being started, of
  the monitor going from place to place, and of the manager looking for a spare
  when `check_degraded` is set; strong fairness of `Publish`, the manager putting the new
  structure in place, which it tries in each of its turns.
* `ReshapeBackup`: weak fairness of the driver, of the child and of the restart. A crash is not fair, and
  there are finitely many.
* `GeneralMigration`: weak fairness of the driver, of mdmon (`EndMigration`), of the mdadm that runs,
  and of the restart, with `--grow --continue` after a kill. `Reshape` states both, each for its own kind.
* `IncrementalMap`: weak fairness of each process and of udev (`Appear`); strong fairness
  of `Flock`, since the kernel gives a lock that is released again and again at last to
  a process that waits for it.

## 4. Theorems

Every theorem is about every value of the constants, under the named assumptions of
the module (sets of slots, clients and processes are arbitrary; numbers are natural).

| Module | Theorem | Statement |
|---|---|---|
| `MonitorThreadProofs` | `TypeCorrect` | `Spec => []TypeOK` |
| | `TornInvariant` | `Unhurried /\ Spec => []TornInv` |
| | `TornIsNeverClean` | `Unhurried /\ Spec => []NoTornClean` |
| | `WritesOnlyWhenDirty` | `Unhurried /\ Spec => []DirtyBeforeWrite` |
| | `RecordInvariant` | `Spec => []RecordInv`, the inductive invariant of the next three |
| | `FailuresAreRecorded` | `Spec => []FailureRecorded` |
| | `StaleIsRecorded` | `Spec => []NoStaleOnline` |
| | `StaleIsLeftOut` | `Spec => []NoStaleInSync` |
| `ArrayHandoverProofs` | `HandoverInvariant` | `Orderly /\ Spec => []HandoverInv` |
| | `FreedOutOfReach` | `Orderly /\ Spec => []NothingFreedInUse` |
| | `OpenWhileRunning` | `Orderly /\ Spec => []FilesStayOpen` |
| | `WatchedThroughout` | `Orderly /\ Spec => StaysWatched` |
| | `CustodyIsKept` | `Orderly /\ Spec => CustodyKept`, the refinement of `Custody` |
| `UpdateChannelProofs` | `ChannelInvariant` | `Spec => []ChannelInv` |
| | `FlushIsWritten` | `Spec => []FlushedIsWritten` |
| | `AckIsKept` | `Spec => []AckedIsKept` |
| | `AppliesInOrder` | `Spec => []AppliedInOrder` |
| | `ManagesAlone` | `Spec => []ManagerAlone` |
| `MdmonLifeProofs` | `LifeInvariant` | the inductive invariant of the take-over, assuming `Careful` |
| | `OneActsCarefully` | `Spec => []OneActs`, assuming `Careful` |
| | `ReachableCarefully` | `Spec => []Reachable`, assuming `Careful` |
| `SpareContestProofs` | `TypeCorrect` | `Spec => []TypeOK` |
| | `FrozenStaysQuiet` | `Spec => []FrozenIsQuiet` |
| | `OneOwnerAlways` | `Calm /\ Spec => []OneOwner` |
| | `MovedForNeed` | `Calm /\ Spec /\ []NotPutBack => []NotForNothing` |
| `IncrementalMapProofs` | `LockInvariant` | the inductive invariant of the map lock |
| | `MapLockExcludes` | `Spec => []LockExcludes` |
| | `MapTypesHold` | `Spec => []MapTypes`, arrays, lines and uuids |
| | `MapIsKnown` | `Careful` implies `Spec => []KnownInv`, what the map knows |
| | `OneArrayAlways` | `Careful` implies `Spec => []OneArray` |
| | `RivalInvariant` | `NoneLate` implies `Spec => []RivalInv`, what was counted still holds |
| | `NoRivalAlways` | `NoneLate` implies `Spec => []NoRival` |
| `ReshapeProofs` | `MigrationInvariant` | `Provided /\ Spec => [](external => Types /\ MigrationInv)` |
| | `NothingLostInMigration` | `Provided /\ Spec => [](external => NothingLost)` |
| | `BackupInvariant` | `Cautious /\ Spec => [](~external => BackupTypes /\ BackupInv)` |
| | `NothingLostInBackup` | `Cautious /\ Spec => [](~external => NothingLost)` |
| | `NothingLostAlways` | `Provided /\ Cautious /\ Spec => []NothingLost` |
| | `BackupStaysCurrent` | `Cautious /\ Spec => []BackupIsCurrent`, which no run checks |
| `AssembleDisksProofs` | `ForceInvariant` | `ByNumber /\ Spec => [](ArrayTypes /\ ForceInv)` |
| | `ForceStartsAlways` | `ByNumber /\ Spec => []ForceStarts` |
| | `StaleInvariant` | `OneMayMiss /\ Spec => [](DataTypes /\ StaleInv /\ UnforcedInv)` |
| | `NothingStaleAlways` | `OneMayMiss /\ Spec => []NothingStale` |

**The monitor.** `Unhurried` excludes the event `"quick"` of section 5: a check, asked for while the monitor is between reading
`array_state` and `sync_completed` of an array in read-auto, that gets through a sixteenth of the components in that time. Checks and repairs at any
other time, and of any length, are in the theorems. They start from *every* metadata record, while the run starts from healthy
disks. `NoTornClean` is not inductive. A step may put on the disks what memory
says, memory what the pass read, and the pass reads one attribute after the
other. `TornInv` says why none of them is wrong in the dangerous direction:

* `DiskIsMem`: memory and disks differ only between deciding and `sync_metadata`;
* `OnlyResync`: `sync_completed` counts a resync, on an array that is not in step, or a check, on one that may be
  written (this fails with a spare; see section 5);
* `TornIsKnown`: while the data may be torn, neither the kernel, the monitor's reading of
  `resync_start` nor memory says that it is not;
* `ResyncReadIsOld`: `resync_start` may be read as not finished although it is,
  but not the other way round; a pass that read `read-auto` and then enough progress for a checkpoint saw an
  unfinished resync, not a check. Only there is one call of `set_array_state` (560) undone by another (579) with "active" to follow;
* `CheckIsSlow`: a check that began after `read-auto` was read has no checkpoint in that pass. This is what `Unhurried` gives;
* `ActiveIsSeen`: an array that takes writes was read as such in this pass, and
  memory has it dirty;
* `ActivatesDirty`: `active` is written only after memory was made dirty.

Each conjunct needs the others. The part of it that needs no `Unhurried` (`BaseInv`: the types, `DiskIsMem`, `PassIsOpen` and
`OnlyResync`) is proved apart. The proof has one lemma for the type of each
part of the next-state relation, and one step per action; the interesting
ones are `Decide`, where `ActiveIsSeen` shows that `MarkedClean` is false for an active array, and
`LosePower`, where a torn array must already be recorded as dirty.

`RecordInv` does the same for failures, next to `BaseInv`, and so holds without `Unhurried`. A disk may be out of the array, and
miss writes, before anything is recorded; it must then hold back the writes, or be known to the pass that runs:

* `NoneRecovers`: the pass does not take what it reads of `sync_action` for a recovery, as there is no spare (`MonitorThread` alone; with
  `SpareRecovery` the two stale-disk properties are left to the run `spare_crash`, and fail where section 5 says);
* `FailedStays`: memory differs from the disks only in what failed since, so that `sync_metadata` never puts a disk back;
* `ActsOnRecorded`: a device is released (`-blocked`), and removed, only for a failure that memory holds;
* `VacantKnown`: an empty slot of a running array is recorded as such, or its disk is `missing` and the monitor has yet to
  welcome the array, which is then read-only. Once the array, or the state that the pass read of it, is past that
  (`PastReadonly`) the disks have it recorded, and when the pass is about to make it so (`nextState`) memory has.

`FailureRecorded`, `NoStaleOnline` and `NoStaleInSync` are conjuncts themselves: that a disk which missed a write is not online
in the record is needed to show that an assembly does not take it in, and that it is not in the array to show that it stays recorded.

**The list of arrays.** `Orderly` is about the set `happens` of a behaviour. It leaves out what makes the code lose its way,
as section 5 shows for each: an array that stops while the manager replaces it (`"stop"`), a spare and a
reshape in one call of `manage_member`, an array that comes back while its old structure is still known, and two arrays
on the list when one of them stops or becomes RAID0, so that the monitor may unlink the head while the
manager links in front of it. Five of the six sets of the run `handover` are `Orderly`.

`Chain` is the structures that were allocated and are not freed, not in `discard_this` and not yet published. The
heart of `HandoverInv` is that the list is this set, from the youngest to the oldest (`Sorted`): a new
structure is the youngest, so that linking it in front keeps the order; unlinking takes one out of it. The list as the model
defines it, a smallest set, is then `Chain` (`ListedIsChain`): the step that would be an induction along the list is made
by a least counterexample (`Least`, from `WFMin` of `WellFoundedInduction`). The other parts say what the two threads rely on:

* `MonitorPoints`: the monitor's pointers are into `Chain`. Between reading a word and acting on it the head may have moved; it
  then acts on an old head, and that one is not to be unlinked;
* `OneReplaced`: one structure at most has `->replaces` set. It names what `pending_discard` names, an older structure of the
  same array that is still monitored;
* `UnpublishedNew`, `ManagerHolds`: the structure in the manager's hands is the youngest, and the one it will replace is on the
  list and not replaced yet;
* `NothingToPrune`: while the manager works on a replacement no structure is to be unlinked;
* `LetGo`: only a structure whose array stopped or became RAID0 is let go, and files are shared only by structures of one
  array; `OneArray` ties this to what happens.

There is one lemma for each action. `StepsAre` then says what a step does to the list: it makes one structure, gives it to
the monitor, returns it, frees it, or none of these. The refinement and `StaysWatched` follow from that: what is returned is either not
monitored any more, or its clone is on the list.

**Spares and containers.** The types come first (`Types`), with who is busy and with what. `FreezeInv` follows
`block_monitor` through the volumes of the container: those it has done are `Secure`, and of the one it is at, the
manager, which may have read `metadata_version` before the `-` was written, is through when it has answered the ping. A
volume stays `Secure`, since mdmon looks at `metadata_version` before it chooses a spare (`FreezeKept`). `OneOwner` needs `Calm`: that no mdmon takes
a spare between the look at its holders and the ping of the manager, which the code does not ensure (section 5). `OwnerInv`
says where the spare is at each place of `move_spare` (`SpareInv`), what mdmon of each container knows of its spares and
what it is still to see (`Noticed`), that while a spare leaves a container its mdmon needs none (`Calmed`), and that when
`ping_manager` has been answered the spare is out of the metadata (`LetGo`). `Holding` is about the `O_EXCL` opens of the two mdadm processes.
The proof found a case that the run is too small for: with three disks or more the end of one recovery may wake mdmon to look for
the next spare, so the condition `Quiet` of `CheckHolder` excludes a recovery that will leave its volume short.

`MovedForNeed` builds on `OwnerInv`. `mdadm --monitor` decides from what it read a while ago, so `NeedInv` says why that is
not too old: a group never gets a disk but by `mdadm --monitor` itself, one at a time, and failures only add to what it lacks.
`LackInv` keeps what `check_array` found of an array until the group was looked after. `Informed`: the metadata of a
container count all its spares, but for the one that is just being added, for which the manager has been pinged; so no container
lacks a disk in the eyes of `container_choose_spare` that has one. `PlaceInv` counts the spare that is
in hand where it would go back to (`At`), so that it may be put back. `NotPutBack` is needed: `move_spare` pings the managers after it moved a spare
(`Manage.c:1764-1765`) but not after it put one back (`1771-1772`), and then `Informed`, and with it `NotForNothing`, is false (section 5). Native arrays may get their
spare back: the kernel knows it at once. `LackInv`, `PlaceInv` and `Informed` were checked by TLC on the run's scenarios first.

**The update channel.** What mdmon received is one sequence, `Route`: what was applied, the batch that
is on its way, and what is pending. The steps of the two threads only move the borders within it, which is where the lists
change hands without a lock (`MonitorRoute`, `MoveRoute`); only `handle_message` and the manager itself put something at its end
(`AppendRoute`). `Control` says who may touch which list when. `RouteInOrder`: the route is sorted for each
sender, and a message on its way to mdmon is later than all of its client in it. `Kept`: what was
acknowledged is on the route; the disks hold what was applied but for the moment before `sync_metadata`; a ping that
comes in that moment (`NotYetCounted`) has three counts to wait for. When a ping is answered the two last parts of the route are empty, so all that was
acknowledged is applied, and written (`PingHasWaited`).

**The life of mdmon.** `Careful` excludes the four events of section 5 under which `OneActs` fails: a process killed while it starts, two
that start at once, a wait that ends too early, and an exit that crosses a take-over. Then the
processes that look after the array, or may yet, form a line (`InLine`: some `s[1..n]`): each but the first waits for the
one before it to leave (`Waiting`), the files name the last (`LastNamed`), and a process that is starting asks the last (`LastAsked`).
Only the first can act. A step takes the first away, adds one at the end, or takes the only one away.

**The map lock.** A process that is past `map_lock` holds the flock of the inode
that has the name, because it looked at the name after it got the flock, only the owner
unlinks the name, and a new file is a new inode.

**The map and the arrays.** `Careful` excludes the three events of section 5 under which `OneArray` fails: a process
killed between making an array and recording it, a map that is rebuilt without the lock, and a number that is used again while
`mdadm --stop` still has to take it out of the map. `"kill"` elsewhere, `"late"` and `"timer"` are allowed, so the
theorem covers the run. `OneArray` is not inductive: two arrays of one uuid come from a process that looks for the uuid in
a map without it. `KnownInv` says why the map always has it:

* `MapKnows`: an array is in the map, or there is no map, or the process that made it is about to write one;
* `ViewKnows`, `NewKnows`: what the owner of the lock has read, and what it is about to rename, know every array. Here the
  exclusion of the lock enters: nobody else makes an array in the meantime;
* `StoppedGone`: what `mdadm --stop` takes out of the map is not there any more;
* `ReadersRead`: a process without the lock finds a map, and writes none.

`MapTypesHold` comes first, without `Careful`. Filters (`KeepsAll`) and `RebuildMap`'s list (`ListsAll`) are not handled by
induction: an element of a finite set of numbers has a rank of its own (`Ranks`), by the library's facts about
injections of finite sets.

`NoneLate` excludes the two events of section 5 that add a disk, or start an array, between counting and `RUN_ARRAY`. The run
`incremental_map` has `"timer"` too, with superblocks that do not run into it; the theorem is about any
superblocks. In `RivalInv`, `Ready` says of a process that is about to start an array, without the lock, that the array is
`Settled` for the disks it will leave out: none of the others takes the best for failed, and if the best itself is to be left out,
all are. The second half is for a process that is late itself: its array was stopped, and the number belongs to a new
array. Two processes may both be about to start one array: `StaysSettled` says that what one leaves out does not
unsettle the other.

**The migration.** `Provided` excludes the six events of section 5 under which the reshape of an IMSM volume loses data; what is left
is what the run has, mdadm terminated and killed, and crashes at any step. The theorem is about volumes of any shape that
does not shrink, any number of rows in the copy area, and any number of crashes. `NothingLost` is not inductive: it says of
each record that may be read that the restart would be right now, and nothing of the next step. `MigrationInv` has

* `Good(q)`: the rows before the unit of record `q` are new, and those that hold what is not moved yet are old; if the record says that
  the unit is in the copy area, it is (`Copied`), and of its rows nothing is said;
* `DriverInv`: every row that the driver may still write, up to `sync_max`, is `Harmless` to each record that may be read: it is of the
  copied unit, or behind all that the record needs. So a step of the driver keeps good records good, on whichever disk they are;
* `MdadmInv`: when a record is written the driver stands at `sync_max`, where the unit begins (`AtPosition`), so that the old
  record and the new one are good at once, for the time when the two disks differ; `sync_max` is raised (`MayGoTo`) only when
  both disks have the new one, and the range between `suspend_lo` and `suspend_hi` is the unit that is copied, so that `Copied` stays true while users write.

After the first crash only the record of the disk that is listed first counts, and the restart writes it first. `TLC` had checked the
invariant, over all shapes up to four disks and four rows, before it was proved.

**The backup file.** `Cautious` excludes the three events of section 5 that alone break a reshape with native metadata: a driver
that starts before the child (`"early"`), a write to what the child moved past but did not release (`"passed"`), and one to
what `abort_reshape` no longer suspends (`"overwrite"`). A child that is told to terminate is no such
event, nor are crashes, in the middle of a restart too. The theorem is about any number of disks before and after, and any size
of the array and the backup. `NothingLost` says only that the data can be found now. `BackupInv` has

* `RowsKnown`: a row is new if its addresses were moved, and old if it holds one that, by the position *recorded*, was not moved and
  that is not in the backup. The driver is ahead of what is recorded: what it wrote over in between must be in the backup;
* `HeaderInv`: what the header says is in the backup, whenever a restart would use it (`Usable`), and it reaches around the recorded
  position, so that the restart may go on behind it. Two halves that are both valid follow each other;
* `ChildInv`: how far `child_monitor` lets the driver go, in its three ways. Where the disks stay (`SlidingInv`) the end of the younger half is
  `backupPoint`, and `sync_max` is never beyond; the older half may be given up when `progress` passed it. Where the array
  grows (`GrowingInv`) nothing moves before the first unit is in the backup. Where it shrinks (`ShrinkingInv`) the driver stops before the last unit
  until that is;
* `SuspendedInv`: what is backed up, or about to be, lies between `suspend_lo` and `suspend_hi` until it was moved, so a half that is written
  is still the data when its header is (`BackupRange` is held at `"header"`);
* `RestartInv`: what a restart has checked, copied back and recorded when it is cut off.

`Spares` links the two sides: the driver may write a row if its old data are behind it, or all in the backup. One lemma for each way
shows that what the child allows is so, and one for each action that the invariant stays. The multiplications (rows
times disks) are brought to a few lemmas on order (`Times`, `Names`), as the provers have no non-linear arithmetic to speak of. TLC had checked `BackupInv` on
ten shapes; the proof then asked for more of the states in which no reshape is recorded than the first version said.

**Forced assembly.** `force_array` tells `avail` of the wrong slot (section 5), so what it takes for enough may not be. `ForceInv`
says what is true nevertheless, for any disks and any order on the command line:

* `CountedOnce`: `avail` never has more slots than there are whole disks that are up to date. Where only their number
  counts (`ByNumber`: RAID0, 1, 5 and 6) "enough slots" implies enough disks;
* `Exhausted`: when an attempt did not start the array, all whole disks are up to date, or those that are suffice.
  The event counts were written to the disks, so this is still true at the next attempt with the same disks;
* `SecondTime`: that attempt forces nothing, and what it counts is right;
* `ChosenInv`: the superblock that is stored knows every disk that is up to date, so the kernel takes them all.

RAID4 and RAID10 are left out because `enough` asks which slots are filled; for them the property is model-checked on three disks.

**Stale disks.** `OneMayMiss` asks for what section 5 shows to be needed: a kernel that asks the freshest superblock, nothing that a
forced assembly did without coming back as it was, and no RAID1 (section 5). RAID6 is left out of the argument: on four disks bounded searches
(five updates, two writes, a crash; with `--force` three updates) found no violation, and no theorem says that there is none. RAID4, RAID10 and a RAID5 of two disks are left out
because the argument needs a second disk in every array that runs, and no array started degraded and dirty.
Any number of disks, updates, writes, additions, forced assemblies (`"cutshort"` too) and crashes is allowed,
and a crash may come with any part of the superblocks written. `NothingStale` itself follows quickly from `StaleIsKnown`: a disk that missed a
write is older than every other, and they all have it failed. The work is to keep that true. `StaleInv` has

* `LeftBehind`: a whole disk that is not in the array that runs has fewer updates than the array, and is known to have failed by all of it
  before a write is possible;
* `NewerIsSeen`: if all disks but one would make up the array, and that one is newer, they count on it. So they
  do not start without it (`needed`), and nobody falls behind who has the later updates. Records that were cut off by a crash make such disks;
* `GhostIsApart`: a disk that was being rebuilt when the others went on has an event count by which it can not be taken in again
  without being rebuilt, nor win over them;
* `SameRecord`: no event count stands for two different records;
* `TopsKnow`: the same as the two before, of the array while it runs, so that any part of the next record keeps them.

While a forced assembly is not recorded (`pending`) none of this holds; then `MemberInv` says that all disks that may be used at all are in the
array. `UnforcedInv` is what an assembly without `--force` counted, against the disks. TLC had checked `StaleInv` with two
crashes. It found that the model kept out a spare that a forced assembly had been given after it was
rebuilt, and a disk that it had rebuilt: `Settle` was wrong, and `superseded` now has only the disks that are not in the array.

Model-checked only: liveness (fairness is out of the prover's reach); the stale-disk properties of
`SpareRecovery`; `ImsmVolume`, whose operators fold over sets and sequences that no
theorem of the library describes (what a fold computes is an induction over data); and `NewestUsed` of `AssembleDisks`.

## 5. Disagreements found

These properties are kept in the modules. The table names the specification and
the constants under which TLC finds each violated; what it does not name is as in the module's
run.

mdmon, DDF (two slots, `Size = 1`):

| Property | Specification and constants | What happens |
|---|---|---|
| `KeepsExplicitReadonly` | `HealthySpec`, `Events = {"readonly"}` | `read_and_act` reads `array_state` first and `metadata_version` later. An array just assembled reads `readonly`; if `mdadm --readonly` and `--readwrite` fall between (`Manage.c:42-44`), mdmon writes `active` or `read-auto` over what the administrator asked for (`monitor.c:419`, `491`, `623`). |
| `DirtyBeforeWrite`, `NoTornClean` | `HealthySpec`, no missing disk, `Events = {"fail", "check", "quick"}`, for the second with `"powerloss"` | A pass reads `read_auto`; then `mdadm --action=check` starts a check, which takes the array out of read-auto, and gets past a sixteenth of it before `sync_completed` is read; a device is read as faulty. Lines 558-560 mark the array dirty and choose "active", 572-579 mark it clean and fully initialised again, since the check counts as a checkpoint (`curr_action > reshape`) and `read_auto` is `<= clean`. That goes to the disks, and "active" (623) lets a pending write go, against `mdmon-design.txt:46-50`; a power loss then leaves the array torn and recorded as clean. |
| `NoStaleOnline` | `SpareSpec` of `MCSpare`, `MayBeMissing = Slot`, no events, `MaxSpares = 1` | `manage_new` may ask for a spare for an absent disk (`managemon.c:769-773`) before the monitor has called `handle_missing`. The virtual disk is then still recorded as optimal, and `ddf_process_conf_update` records the empty spare as online (`super-ddf.c:4091-4094`, `4691`). |
| `ResyncNotForgotten` | `HealthySpec`, `Events = {"stop"}` | The array turns clear between the reads of `array_state` and `resync_start`, which then reads 0, the case the comment at `monitor.c:423` wants to avoid: a completed resync is recorded as not done. |
| `LetsGoWhenClean` | `HealthySpec`, `Events = {"fail", "sigterm"}` | A failure in state `read_auto` activates the array without `ARRAY_DIRTY`; on SIGTERM the array is let go dirty (`monitor.c:558`, `885`). |
| `NoTornClean` | `DegradedSpec` of `MCSpare`, `Events = {"fail", "powerloss"}`, `MaxSpares = 1` | A pass reads `read_auto`; the manager starts a recovery and a write makes the array write-pending; `sync_completed` of the recovery is read as a checkpoint, whose `set_array_state(a, curr_state <= clean)` undoes the dirty mark, while a failure seen in the same pass writes `active`. Power is lost: the array is torn and recorded as clean. |
| `RecoveryRecorded` | `DegradedFairSpec`, no events, `MaxSpares = 1` | `prev_action` is set after the recovery was started (`managemon.c:574-576`): a short recovery is over by then, or a pass under way overwrites it. The disk stays "rebuilding". |
| `DegradedIsSeen` | `DegradedSpec`, `Events = {"fail"}`, `MaxSpares = 2` | A device removed while the manager waits is still open in the clone; `ddf_activate_spare` finds "array not degraded". |

The list of arrays (`ArrayHandover`; the set named is the one member of `Happens`):

| Property | Events | What happens |
|---|---|---|
| `FreedOnce` | `{"stop", "restart"}` | `manage_new` replaces a structure the monitor has let go, while the first loop of `wait_and_act` is about to unlink the same one: it is passed back twice (`managemon.c:201-208`, `763-772`). |
| `FilesStayOpen` | `{"stop", "spare"}`, one member, `MaxAa = 4` | The original is let go while the manager waits: `free_aa` closes the files the clone uses. |
| `FilesAreClosed` | `{"raid0"}`, one member, `MaxAa = 4` | A structure marked `to_remove` is freed with `->container` set: its files stay open. |
| `OnePerArray` | `{"reshape", "spare"}`, one member, `MaxAa = 5` | After a spare, `manage_member` goes on with the original (no `a = newa`, unlike after a level change), and `check_reshape` replaces it a second time. |
| `ManagerLooksAtLive` | `{"level", "spare"}`, one member, `MaxAa = 4` | Two replacements in one call of `manage_member`: `manage` goes on with a pointer to a freed structure. |
| `NothingFreedInUse`, `CustodyKept` | two members, `"company"` with `"raid0"` or `"stopidle"` and a replacement, `MaxAa = 4` | The monitor unlinks the head while the manager links in front of it. |
| `StaysWatched` | the same | The same: an array that runs is lost from the list. |
| `NothingFreedInUse` | `"stop"` with `"level"`, `"spare"` or `"reshape"`, one member | The original stops and is let go while the manager replaces it: `->replaces` of the clone names a structure that is freed by the time the monitor follows it. |

Spares (`SpareContest`, as in the run; the last has `Happens = {}` and the scenario of its own
`Case(c2, n1, {c1, c2}, {c1})`, in which it is 75 states to the violation):

| Property | `Happens` | What happens |
|---|---|---|
| `OneOwner` | `{"contest"}` | mdmon does not open its container, so it may begin to use a spare between the look at the holders of the disk and the ping of `Manage_remove`, against the comment at `Manage.c:1074-1076`: the disk is removed from the container while a volume rebuilds onto it, and is given to another group. |
| `SpareArrives` | `{"unheard"}` | The ping after a thaw is answered by a manager that is half way round its volumes and does not look again at the one that was blocked: it sleeps, and the volume stays degraded beside a spare. |
| `NotForNothing` | none | `mdadm --grow` opens `c1` while `mdadm --monitor` moves a spare there, which is put back into `c2`. `move_spare` does not ping the manager of `c2` then, so mdmon may not have noticed the disk when `c2` loses one of its own: `container_choose_spare` finds no spare in the metadata of `c2` and gives it a second one, of the native array. |

Modelled as they are: the second `sysfs_read` of `block_monitor` (`msg.c:380-382`) does not ask for `GET_VERSION`, so that the
thaw after a lost race writes `external:/` with nothing behind it, and the volume is no longer a member of its container
(`version` is `"none"`); `move_spare` ignores whether the spare could be put back, and leaves it without a group.
Seen beside the model: `move_spare` calls `Manage_remove` and `Manage_add` with `verbose` and `force` exchanged, and
DDF has no `getinfo_super_disks`, so that it never gives or gets a spare this way.

Updates (`UpdateChannel`, one client, `PerFlush = 1`):

| Property | Constants | What happens |
|---|---|---|
| `AckedIsWritten` | `Happens = {}` | `mdmon-design.txt:144` says that an update is acknowledged when it is on the devices; it is acknowledged when it is queued. Only the ping waits. |
| `FlushedIsWritten` without `Serving` | `Happens = {"sigterm"}` | After SIGTERM an update is acknowledged and dropped, and the ping is answered. |

The life of mdmon (`MdmonLife`, `Happens` the event named and `"stop"`):

| Event | Properties | What happens |
|---|---|---|
| `"killearly"` | `OneActs`, `Reachable` | A new mdmon killed after it removed the old one's pid file leaves the old one running, unknown to mdadm, which starts another. |
| `"race"` | all three | Two mdmon start together: the second one's `remove_pidfile` deletes the file of the first. |
| `"slow"` | all three | `try_kill_monitor` waits five seconds; an old mdmon with a busy array, or a manager that does not answer a ping (nor that of an mdmon that starts without a take-over, `mdmon.c:528-535`), is still acting then. |
| `"overtaken"` | `Watched` | mdmon answers the ping of `Create` with a `/proc/mdstat` read before the array was made, and leaves: against "make sure mdmon doesn't exit after we checked" (`Create.c:826-828`). |
| `"crossed"` | `OneActs`, `Reachable` | An mdmon that leaves because it has nothing to do removes the files of the one that takes over from it. |
| `"unheld"` | `Watched` | `assemble_container_content` does not hold the container exclusively between its check and its ping (the `FIXME` at `Assemble.c:2227`). |

Beside these, `Create`, the new mdmon and the old one wait for each other in a circle when a
take-over meets an mdadm that holds the container; only the timeout of five seconds ends that.

The IMSM volume (`ImsmVolume`):

| Property | Constants | What happens |
|---|---|---|
| `NoStaleUsed` | `Happens` with `"failsync"`, and `"fail"` and `"powerloss"`, or `"absent"` and `"powerloss"` or `"stop"` | A failure while a resync is due ends the migration record of the resync (about `super-intel.c:8702`), against the comment at `8328`: the next assembly does not know which copy is the older. |
| `NoTornForgotten` | `"tearsynced"` and `"powerloss"` | The resync of a dirty array goes on where the record says (about `super-intel.c:3625`): what was torn below that is not looked at again. |
| `NoTornForgotten` | RAID10, `"tearrebuild"`, `"fail"`, `"powerloss"` | A dirty degraded RAID10 goes on with its rebuild (about `3669`), and the torn whole pair is not resynchronised. |
| `NoStaleUsed` | RAID10 with two events, `"absent"`, `"stop"` | `handle_missing` and a rebuild of another pair share one map (`8477-8527`). |
| `RebuildEnds` | `"quick"` | The rebuild is over before `prev_action` says that it began (`managemon.c:574`). |
| `RebuildEnds` without `Unkilled` | the run's | mdmon killed between `frozen` and `recover` leaves the rebuild recorded and the array frozen. |

Reshape, native metadata (`MCReshape`, `Migrations = {}`):

| Property | Constants | What happens |
|---|---|---|
| `NothingLost` | `Happens = {"early"}` | For native metadata `sync_max` is set to `max` before the child runs (`Grow.c:949`): the driver may write over what has no backup. |
| `NothingLost` | `{"overwrite"}`, shape `<<1, 2, 5>>` | A backup that is left behind is restored over newer data: it is told from a stale one by position and by a time stamp with a tolerance (`Grow.c:4801-4803`). |
| `NothingLost` | `{"passed"}`, shape `<<1, 1, 7>>` | Where the number of disks stays, `child_monitor` waits for the end of the older half of the backup, and the driver may be in the middle of the newer one by then. `progress_reshape` sets `suspend_lo` to that position (`Grow.c:3936`), though the half before it was not erased, against its own comment (`3907-3910`: the caller should move `reshape_progress` when "any backup outside this has been erased"). Users write there; after a crash `Grow_restart` puts the whole half back (`4866`), over what they wrote. With `Larger = 1`, halves of one unit, it does not happen. |
| `NothingLost` | `{"sigterm", "overwrite"}`, shapes `<<1, 1, 7>>`, `<<2, 2, 9>>` | `abort_reshape` lifts the suspension and leaves a live backup. |

Reshape of an IMSM volume (`MCReshape`, `Shapes = {}`), all of `NothingLost`:

| Constants | What happens |
|---|---|
| `Happens = {"unsuspended"}` | `imsm_manage_reshape` copies a unit (`super-intel.c:12349`) and records the copy before it suspends the range (`12384`): a user's write between the two is on the disks and not in the copy. `Grow.c` suspends first and backs up then. |
| `{"sigterm", "overwrite"}` | On SIGTERM (`12393`), as on any `goto abort`, the suspension is lifted and the record still says that the unit is in the copy area. Users write; the next assembly restores the old copy over it. |
| `{"last"}` | `getinfo` goes on after a unit that is in the copy area only if it is not the last one (`3641`): the assembly restores the last unit of a reshape in place, clears the status, and lets the driver do the unit again from a source that is overwritten, against the comment at `328-330` ("has already been migrated"). |
| `{"slow"}` | The records are cleared when the driver is through (`12405-12422`), whether mdmon has recorded the end or not: after a crash the metadata still migrates, and the position is 0. |
| `{"kill", "hasty"}` | `verify_reshape_position` takes `sync_max` for the position of the driver (`Grow.c:2426`); it is where the driver may go. `save_checkpoint_imsm` then records a unit as done that is not. |
| `{"reorder"}` | A restart is cut off between the records of the two disks and the next assembly finds the disks in another order: it reads the older record. |

Incremental assembly (`IncrementalMap`, `Happens` only the event named):

| Event | Property | What happens |
|---|---|---|
| `"killearly"` | `OneArray` | Killed between `create_mddev` and `map_update`: the next disk makes a second array. |
| `"late"` | `NoRival` | The map is unlocked before `RUN_ARRAY` (`Incremental.c:542`): a disk is added in between that contradicts the rest. |
| `"unlocked"` | `OneArray` | A reader that finds no map rebuilds it without the lock, over what a process inside has just written. |
| `"reuse"` | `OneArray` | `Manage_stop` stops the array before it takes the map lock (`Manage.c:458-484`): the md number is used again, and the new entry removed. |
| `"timer"`, `Boots <- Rivals`, `RaidDisks <- SlotsOfThree` | `NoRival` | `IncrementalScan` starts what is there, without looking for disks that contradict each other (`Incremental.c:1404`). |

Two more were modelled as they are: `map.new` is opened without `O_TRUNC` (`Over`), and
`count_active` rejects only disks that think that the best one failed. For a clustered array
`goto out` (`Incremental.c:296`) leaves the lock held.

Assembly (`AssembleDisks`):

| Property | Constants | What happens |
|---|---|---|
| `NothingStale` | `KernelAsks = FALSE` | A disk one update behind is taken for up to date; an older kernel believes it. |
| `NothingStale` | `Happens = {"returned"}` | A disk that a forced assembly did without comes back as it was. |
| `NothingStale` | `Level` 1 | Only failed disks are given: one that the freshest takes for failed counts as up to date by `event_margin`, so that the array is started without those that went on. |
| `NewestUsed` | `Happens = {"cutshort"}` | A forced assembly that was cut off has raised the event count of a stale disk, which a later one with other disks takes for current. |
| `NewestUsed` | `Order` `<<0, 2, 1>>`, `<<1, 2, 0>>` or `<<2, 1, 0>>` | `force_array` sets `avail[chosen_drive]` (`Assemble.c:978`) with the index of the device list, where `avail` is indexed by slot. With a device not listed the index may also be past `raid_disks`, and a second call is needed, which is why `ForceStarts` promises no more. |
| `NewestUsed` without `vintage = 0` | the run's | With `--force` a disk one update behind is marked as working (`Assemble.c:1792-1803`) although the others suffice; `mdadm.8` says that it is if "mdadm cannot find enough working devices". |

Noted, and not modelled: `block_monitor(container, 0)` against its comment
(`msg.c:304-313`); a failure recorded by the
old mdmon, or an update it accepts, after the new one loaded the metadata
(`mdmon.c:536`, `mdmon-design.txt:144`); `force_array` choosing a disk that it can not open again and again
(`Assemble.c:948-956`).

## 6. Abstractions

* One redundant member array in `MonitorThread` and `SpareRecovery`. The DDF rule
  for a degraded virtual disk is that some slot is not online. Reshape checkpoints,
  bad-block lists and the propagation of a failure to other arrays are left out.
* A check or a repair is asked for when nothing else runs on the array (the driver refuses it otherwise). `--action=idle` and `frozen` by
  the administrator are left out. So are two states of `array_state` that `monitor.c:481-486` names: the driver never shows `suspended`, and shows
  `broken` only of an array that has lost more disks than it can do without. `ImsmVolume` has no check: its `Decide` reads atomically, and
  the case of section 5 is about one read after the other.
* A pass ends by forgetting `remove_it`, `check_degraded` and `sync_completed` (`FinishPass`): they are
  locals, or are set again before they are used.
* The kernel is external: which states `array_state` may show after a write is `AfterWrite`,
  with the choices the driver has.
* `sysfs` words are strings of the model; a file of an array that is gone reads
  nothing, an unknown word reads as the `bad_` one.
* In `ArrayHandover` the manager's walk over the list is atomic, because only the
  monitor unlinks and only the manager frees; `/proc/mdstat` is read where `manage`
  starts; a RAID0 is never given redundancy again.
* `ContainerSpares`: every array is redundant and has `RaidDisks` disks; a disk that fails is gone. The metadata of a
  container is what its mdmon has made of it (`recorded`, `listed`, `assigned`). `--monitor` moves spares by domain or spare group;
  here every group may give to every other. `--grow` goes no further than what it prepares.
* In `UpdateChannel` freeing the handled list is one step, and the socket keeps one
  message of a client. The manager's own update stands for a disk added to the
  container and for the one of a spare.
* `MdmonLife` has one container and one array, and no metadata: what each of two processes
  has in memory is left out, and so is an mdmon that can not load the metadata (`mdmon.c:536-539`): it ends before it has written anything.
* `ImsmVolume`: `imsm_activate_spare` with the freeze, the new device and the queued update is one step, and so is
  putting the new structure in place and starting the rebuild. An update is applied before the next pass.
  A disk does not fail while the array is read-only. A write hole of a degraded RAID5 is not
  counted: only groups that are whole are torn, and a dirty degraded RAID5 is not started. An array with a
  resync due starts only whole, but for `"failsync"`. The copies of the
  metadata are one (`stored`). A stop does not fall between the start of mdmon and its
  first pass.
* `ReshapeBackup` counts in rows: bad sectors, level changes without moving data, and the choice
  of the new geometry are left out. The header of a backup is one block and is written in one step.
* `GeneralMigration`: one volume of a container; no disk fails (`check_degradation_change`) and no write of a
  record or a copy does. `write_imsm_migr_rec` also sends the checkpoint to mdmon, which only keeps it in
  the metadata for others to read. A row is copied whole. `LoadRecord` before each save reads what was written last, and
  is left out. Users who write to what is copied, but not suspended, are the events of section 5.
* `IncrementalMap`: native metadata; a superblock says the array, the slot, the events and who works. udev
  sends one event for a disk.
* `AssembleDisks`: `--add` writes a new superblock, with a number of its own (`Manage.c:877-897`), so what `update_super` `"assemble"` stores
  for a spare (`Assemble.c:1773-1792`) is not about the disk that had the slot before; that a number is used again after a second failure is left out. No `--update`, replacements, journals or
  reshape, and every disk can be opened. After a forced start the administrator takes what the disks
  hold (`Settle`); disks that were left out, of the array and of its spares, are added anew before they are used.

## 7. Not modelled, and the plan

`PROJECT.json` lists every component with its status. In order of importance:

1. **Proofs**: `NoStaleUsed` and `NoTornForgotten` of an IMSM volume; `NewestUsed` of a forced
   assembly; the stale-disk properties with a spare.
2. **Several virtual disks** in one mdmon: `reconcile_failed`.
3. **Reshape of a container**: the checkpoints of `monitor.c:580`, and its volumes one after the other
   (`imsm_progress_container_reshape`).
4. **`Geometry`**: `geo_map` and the GF(256) tables as functions against a reference definition.
5. **Alerts** of `mdadm --monitor`.

Left out for good: on-disk formats, option parsing, reports, configuration,
platform probing and vendored libraries; they keep no state, or only do I/O.
