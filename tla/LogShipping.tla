----------------------------- MODULE LogShipping -----------------------------
(***************************************************************************)
(* Log shipping: a subscriber that writes what it replicates into numbered *)
(* archive files, and the slony_logshipper daemon that applies them to an  *)
(* offline database.                                                       *)
(*                                                                         *)
(* Every event a remote worker of the Archiver processes makes one archive *)
(* file.  Its number comes from sl_archive_counter, incremented in the     *)
(* worker's transaction; the file is renamed to its final name just before *)
(* that transaction commits.  The offline database takes archive k only    *)
(* after archive k - 1.                                                    *)
(***************************************************************************)
EXTENDS SetCopy

VARIABLES
    work,       \* the remote workers, each named <<node, origin>>
    counter,    \* ac_num in sl_archive_counter of the Archiver
    tmp,        \* the workers whose open file still has its .tmp name
    dir,        \* dir[n]: archive n in the archive directory
    ship,       \* the logshipper daemon and its queue
    offline,    \* the offline database
    past,       \* history: what the Archiver had with each archive it committed
    bent,       \* history: "lost", "retried" and "unheard", see below
    faults      \* how many faults happened

shipVars == <<work, counter, tmp, dir, ship, offline, past, bent, faults>>
vars == <<copyVars, shipVars>>

Worker == (Receiver \X {Origin}) \cup (IF setup.other = 0 THEN {} ELSE {<<2, 3>>})

NoFile == [kind |-> "none"]
Garbled == [kind |-> "garbled"]
Idle == [pc |-> "idle", seq |-> 0, n |-> 0, counted |-> FALSE, fp |-> FALSE,
         res |-> <<>>, out |-> NoFile]

Archives(w) == w[1] \in setup.archives
Data(s) == [rows |-> s.rows, other |-> s.other]
-----------------------------------------------------------------------------
(* The archive file of a worker.                                           *)

(* The update of sl_archive_counter locks its row until the transaction is
   over. *)
CounterFree == \A v \in Worker : ~work[v].counted

(* archive_open() *)
Opened(w, k) ==
    IF Archives(w)
    THEN [Idle EXCEPT !.pc = "work", !.seq = k, !.n = counter + 1,
                      !.counted = TRUE, !.fp = TRUE]
    ELSE [Idle EXCEPT !.pc = "work", !.seq = k]

(* Mutant of archive_open: the number is read without the row lock. *)
OpenUnlocked(w) ==
    IF Archives(w)
    THEN tmp' = tmp \cup {w}
    ELSE UNCHANGED tmp

archive_open(w) ==
    IF Archives(w)
    THEN CounterFree /\ tmp' = tmp \cup {w}
    ELSE UNCHANGED tmp

(* archive_terminate(): the file keeps its temporary name. *)
archive_terminate(ws) == tmp' = tmp \ ws
-----------------------------------------------------------------------------
(* remoteWorkerThread_main: the begin of an event.  SYNCs that follow each
   other may be processed as one. *)

NextOther(k) == k = Cardinality(sub[2].other) + 1 /\ k <= setup.other

NextOf(w, k) ==
    LET d == sub[w[1]].done
    IN  IF w[2] # Origin THEN NextOther(k)
        ELSE /\ k > d /\ k <= Len(event)
             /\ k > d + 1 => \A i \in d + 1 .. k : event[i].type = "SYNC"

Begin(w) ==
    /\ work[w].pc = "idle"
    /\ \E k \in 1 .. Len(event) + setup.other :
           /\ NextOf(w, k) /\ work[w].seq \in {0, k}
           /\ work' = [work EXCEPT ![w] = Opened(w, k)]
    /\ archive_open(w)
    /\ UNCHANGED <<copyVars, counter, dir, ship, offline, past, bent, faults>>

At(w, type) ==
    /\ work[w].pc = "work"
    /\ IF w[2] = Origin THEN event[work[w].seq].type = type ELSE type = "OTHER"

(* The transaction has done its part; out is what went to the archive. *)
Worked(w, res, out) ==
    /\ work' = [work EXCEPT ![w] = [@ EXCEPT !.pc = "worked", !.res = res, !.out = out]]
    /\ UNCHANGED <<copyVars, counter, tmp, dir, ship, offline, past, bent, faults>>

(* sync_event(); what sync_helper() reads goes into the log table and into
   the archive. *)
DoSync(w) ==
    LET n == w[1]
        k == work[w].seq
    IN  /\ At(w, "SYNC")
        /\ SyncPossible(n, k)
        /\ Worked(w, AfterSync(n, k), [kind |-> "sync", rows |-> Fetched(n, k)])

(* A failed group of SYNCs is rolled back and tried again, with another
   archive. *)
SyncFails(w) ==
    /\ At(w, "SYNC")
    /\ IF SyncPossible(w[1], work[w].seq)
       THEN faults < setup.faults /\ faults' = faults + 1
       ELSE UNCHANGED faults
    /\ work' = [work EXCEPT ![w] = [Idle EXCEPT !.seq = work[w].seq]]
    /\ archive_terminate({w})
    /\ UNCHANGED <<copyVars, counter, dir, ship, offline, past, bent>>

(* A SYNC of node 3, with one row of its set. *)
DoOther(w) ==
    /\ At(w, "OTHER")
    /\ Worked(w, [sub[2] EXCEPT !.other = @ \cup {work[w].seq}],
              [kind |-> "other", row |-> work[w].seq])

(* Somebody else's subscription. *)
DoEnableOther(w) ==
    /\ At(w, "ENABLE_SUBSCRIPTION")
    /\ event[work[w].seq].node # w[1]
    /\ Worked(w, [sub[w[1]] EXCEPT !.done = work[w].seq], [kind |-> "sync", rows |-> {}])

Copying(w) == At(w, "ENABLE_SUBSCRIPTION") /\ event[work[w].seq].node = w[1]

(* Mutant of ProviderReady: the provider is not asked. *)
NotAwaited(w) == TRUE

(* The event came from the provider, or the provider confirmed it.  The
   confirmation may be late. *)
ProviderReady(w) == Has(setup.provider[w[1]], work[w].seq)

(* Mutant of DoCopy: the copied data are not archived. *)
CopyUnarchived(w) ==
    /\ Copying(w) /\ ProviderReady(w)
    /\ OldXactsGone(w[1], work[w].seq)
    /\ Archives(w) => work[w].fp
    /\ \E list \in Orders(ActionList(setup.provider[w[1]], work[w].seq)) :
           Worked(w, AfterCopy(w[1], work[w].seq, list), [kind |-> "sync", rows |-> {}])

(* The archive of the copy begins with a delete of what is there. *)
DoCopy(w) ==
    /\ Copying(w) /\ ProviderReady(w)
    /\ OldXactsGone(w[1], work[w].seq)
    /\ Archives(w) => work[w].fp
    /\ \E list \in Orders(ActionList(setup.provider[w[1]], work[w].seq)) :
           Worked(w, AfterCopy(w[1], work[w].seq, list),
                  [kind |-> "copy", rows |-> RowsAt(setup.provider[w[1]])])

(* An attempt is rolled back, and with it the increment of the counter; the
   next one does not call archive_open() again. *)
CopyRolledBack(w, keep) ==
    /\ work' = [work EXCEPT ![w] = [work[w] EXCEPT !.fp = @ /\ keep, !.counted = FALSE]]
    /\ IF keep THEN UNCHANGED tmp ELSE archive_terminate({w})
    /\ bent' = IF Archives(w) THEN bent \cup {"retried"} ELSE bent
    /\ UNCHANGED <<copyVars, counter, dir, ship, offline, past>>

CopyWaits(w) ==
    /\ Copying(w) /\ setup.provider[w[1]] # Origin
    /\ CopyRolledBack(w, TRUE)
    /\ UNCHANGED faults

CopyTooEarly(w) ==
    /\ Copying(w) /\ ProviderReady(w)
    /\ ~OldXactsGone(w[1], work[w].seq)
    /\ CopyRolledBack(w, FALSE)
    /\ UNCHANGED faults

(* The provider cannot be reached (the file stays open), or a query fails. *)
CopyFails(w) ==
    /\ Copying(w) /\ ProviderReady(w)
    /\ faults < setup.faults /\ faults' = faults + 1
    /\ \E keep \in BOOLEAN : CopyRolledBack(w, keep)
-----------------------------------------------------------------------------
(* slon_retry(), a crash or a restart of slon: what is not committed is
   gone.  "lost": an archive had got its name, and its number comes again. *)

Stopped(n) ==
    LET ws == {w \in Worker : w[1] = n}
    IN  /\ work' = [w \in Worker |-> IF w \in ws THEN Idle ELSE work[w]]
        /\ archive_terminate(ws)
        /\ bent' = IF \E w \in ws : work[w].pc = "closed" THEN bent \cup {"lost"} ELSE bent

RestartSlon(n) ==
    /\ faults < setup.faults /\ faults' = faults + 1
    /\ \E w \in Worker : w[1] = n /\ work[w].pc # "idle"
    /\ Stopped(n)
    /\ UNCHANGED <<copyVars, counter, dir, ship, offline, past>>
-----------------------------------------------------------------------------
(* The daemon: pc is "none", "run", "resume" (it waits for a resume command
   after an error) or "dead" (killed: its semaphores and its message queue
   are still there).  q holds the archives in its queue, which is sorted, and
   in the message queue, which it reads before it takes the next. *)

Files == DOMAIN dir

(* Mutant of archscan: off by one. *)
ScanBeyondNext(fs) == {n \in fs : n > offline.at + 1}

(* archscan(): the archives beyond the counter of the offline database. *)
archscan(fs) == {n \in fs : n > offline.at}

(* The queue is sorted: the head is the least. *)
ipc_add_path(q, n) == q \cup {n}
ipc_recv_path(q) == Min(q)

(* A call of slony_logshipper with archive n: who creates the semaphores in
   ipc_init() is the daemon, and scans for older archives only. *)
Called(n) ==
    IF ship.pc = "none"
    THEN [pc |-> "run", q |-> ipc_add_path(archscan({m \in Files : m < n}), n)]
    ELSE [ship EXCEPT !.q = ipc_add_path(@, n)]

(* The workers that have opened the .tmp file of archive n; they may all have
   written to it. *)
Writing(n) == {w \in tmp : work[w].n = n}

Written(w) ==
    IF Writing(work[w].n) = {w} THEN {work[w].out} ELSE {work[w].out, Garbled}

(* command_on_logarchive hands the archive to slony_logshipper.  Nobody looks
   at the result: "unheard" is history, the command failed. *)
CallShipper(n) ==
    \/ setup.command /\ ship' = Called(n) /\ UNCHANGED <<bent, faults>>
    \/ ~setup.command /\ UNCHANGED <<ship, bent, faults>>
    \/ /\ setup.command /\ faults < setup.faults /\ faults' = faults + 1
       /\ bent' = bent \cup {"unheard"} /\ UNCHANGED ship

(* archive_close(): the file gets its name.  The rename fails if another
   worker has given the file its name. *)
archive_close(w) ==
    /\ work[w].pc = "worked" /\ Archives(w)
    /\ IF w \in tmp
       THEN /\ \E f \in Written(w) :
                  dir' = [m \in Files \cup {work[w].n} |-> IF m = work[w].n THEN f ELSE dir[m]]
            /\ tmp' = tmp \ Writing(work[w].n)
            /\ CallShipper(work[w].n)
            /\ work' = [work EXCEPT ![w] = [@ EXCEPT !.pc = "closed", !.fp = FALSE]]
       ELSE /\ Stopped(w[1])
            /\ UNCHANGED <<dir, ship, faults>>
    /\ UNCHANGED <<copyVars, counter, offline, past>>

(* What the node has after the transaction of w. *)
Result(w) ==
    IF w[2] = Origin THEN [work[w].res EXCEPT !.other = sub[w[1]].other]
    ELSE [sub[w[1]] EXCEPT !.other = work[w].res.other]

Committed(w) ==
    /\ sub' = [sub EXCEPT ![w[1]] = Result(w)]
    /\ counter' = IF work[w].counted THEN work[w].n ELSE counter
    /\ past' = IF work[w].counted THEN Append(past, Data(Result(w))) ELSE past
    /\ work' = [work EXCEPT ![w] = Idle]
    /\ UNCHANGED <<setup, xact, log, event, making, tmp, dir, ship, offline, bent, faults>>

(* Mutant of Commit: the transaction is committed before the file is closed. *)
CommitFirst(w) == work[w].pc = "worked" /\ Committed(w)

(* The transaction commits, with the event, its confirmation and, unless an
   attempt was rolled back, the counter. *)
Commit(w) ==
    work[w].pc = (IF Archives(w) THEN "closed" ELSE "worked") /\ Committed(w)
-----------------------------------------------------------------------------
StartShipper ==
    /\ setup.archives # {} /\ ship.pc = "none"
    /\ ship' = [pc |-> "run", q |-> archscan(Files)]
    /\ UNCHANGED <<copyVars, work, counter, tmp, dir, offline, past, bent, faults>>

(* The queue is empty: after a while the directory is scanned again. *)
Rescan ==
    /\ ship.pc = "run" /\ ship.q = {}
    /\ ship' = [ship EXCEPT !.q = archscan(Files)]
    /\ UNCHANGED <<copyVars, work, counter, tmp, dir, offline, past, bent, faults>>

Applied(f) ==
    CASE f.kind = "sync"  -> [offline EXCEPT !.rows = @ \cup f.rows, !.at = @ + 1]
      [] f.kind = "copy"  -> [offline EXCEPT !.rows = f.rows, !.at = @ + 1]
      [] f.kind = "other" -> [offline EXCEPT !.other = @ \cup {f.row}, !.at = @ + 1]

(* process_check_at_counter(): such an archive is skipped. *)
AlreadyApplied(n) == n <= offline.at

(* After an error the archive is queued again, and a command is waited for. *)
Requeued == [ship EXCEPT !.pc = "resume"]

(* process_archive(): archiveTracking_offline() takes only the next one. *)
process_archive ==
    /\ ship.pc = "run" /\ ship.q # {}
    /\ LET n == ipc_recv_path(ship.q)
       IN  \/ /\ AlreadyApplied(n)
              /\ ship' = [ship EXCEPT !.q = @ \ {n}]
              /\ UNCHANGED <<offline, faults>>
           \/ /\ n = offline.at + 1 /\ dir[n] # Garbled
              /\ offline' = Applied(dir[n])
              /\ ship' = [ship EXCEPT !.q = @ \ {n}]
              /\ UNCHANGED faults
           \/ /\ n > offline.at + 1 \/ (n = offline.at + 1 /\ dir[n] = Garbled)
              /\ ship' = Requeued
              /\ UNCHANGED <<offline, faults>>
           \/ /\ ~AlreadyApplied(n)
              /\ faults < setup.faults /\ faults' = faults + 1
              /\ ship' = Requeued
              /\ UNCHANGED offline
    /\ UNCHANGED <<copyVars, work, counter, tmp, dir, past, bent>>

ResumeShipper ==
    /\ ship.pc = "resume"
    /\ ship' = [ship EXCEPT !.pc = "run"]
    /\ UNCHANGED <<copyVars, work, counter, tmp, dir, offline, past, bent, faults>>

(* ipc_finish(): an immediate shutdown forgets the queue, a smart one waits
   until it is empty. *)
ipc_finish ==
    /\ ship.pc \in {"run", "resume"}
    /\ faults < setup.faults /\ faults' = faults + 1
    /\ ship' = [pc |-> "none", q |-> {}]
    /\ UNCHANGED <<copyVars, work, counter, tmp, dir, offline, past, bent>>

(* A daemon that is killed leaves its semaphores and messages behind. *)
KillShipper ==
    /\ ship.pc \in {"run", "resume"}
    /\ faults < setup.faults /\ faults' = faults + 1
    /\ ship' = [ship EXCEPT !.pc = "dead"]
    /\ UNCHANGED <<copyVars, work, counter, tmp, dir, offline, past, bent>>

(* slony_logshipper -c removes them. *)
ipc_cleanup ==
    /\ ship.pc = "dead"
    /\ ship' = [pc |-> "none", q |-> {}]
    /\ UNCHANGED <<copyVars, work, counter, tmp, dir, offline, past, bent, faults>>
-----------------------------------------------------------------------------
(* An idle cluster: nothing is subscribed.  With early SYNCs the subscribers
   have processed them. *)
InitWith(c, syncs) ==
    /\ setup = c
    /\ xact = [i \in 1 .. syncs |-> "done"]
    /\ log = <<>>
    /\ event = [i \in 1 .. syncs |->
                  [type |-> "SYNC", node |-> Origin, xid |-> i,
                   snap |-> [xmin |-> i, xmax |-> i, xip |-> {}]]]
    /\ making = NoEvent
    /\ sub = [n \in DOMAIN c.provider |-> NewSubscriber(syncs)]
    /\ work = [w \in Worker |-> Idle]
    /\ counter = 0
    /\ tmp = {}
    /\ dir = <<>>
    /\ ship = [pc |-> "none", q |-> {}]
    /\ offline = [rows |-> {}, other |-> {}, at |-> 0]
    /\ past = <<>>
    /\ bent = {}
    /\ faults = 0

OriginStep == Insert \/ CommitInsert \/ CreateSync \/ subscribeSet \/ CommitEvent

WorkerStep(w) ==
    \/ Begin(w) \/ DoSync(w) \/ DoOther(w) \/ DoEnableOther(w) \/ DoCopy(w)
    \/ CopyTooEarly(w) \/ CopyWaits(w) \/ archive_close(w) \/ Commit(w)

WorkerFault(w) == SyncFails(w) \/ CopyFails(w)

ShipperStep ==
    StartShipper \/ Rescan \/ process_archive \/ ResumeShipper \/ ipc_cleanup

Next ==
    \/ OriginStep /\ UNCHANGED shipVars
    \/ \E w \in Worker : WorkerStep(w) \/ WorkerFault(w)
    \/ \E n \in Receiver : RestartSlon(n)
    \/ ShipperStep
    \/ ipc_finish \/ KillShipper
-----------------------------------------------------------------------------
(* Types.  A subscriber is never beyond the events of the origin, and an
   archive that has its name is at most one beyond the counter. *)
TypeOK ==
    /\ \A n \in Receiver :
           /\ sub[n].done \in 0 .. Len(event) /\ sub[n].seqno \in 0 .. Len(event)
           /\ sub[n].rows \cup sub[n].fwd \subseteq DOMAIN log
           /\ Range(sub[n].list) \subseteq sub[n].rows
    /\ \A w \in Worker : /\ work[w].pc \in {"idle", "work", "worked", "closed"}
                         /\ work[w].counted => work[w].n = counter + 1
    /\ Files \subseteq 1 .. counter + 1
    /\ ship.pc \in {"none", "run", "resume", "dead"} /\ ship.q \subseteq Files
    /\ offline.at \in 0 .. counter + 1
    /\ bent \subseteq {"lost", "retried", "unheard"}

(* No SYNC that node n has still to process brings it a row that it has. *)
NothingTwice(n) ==
    \A k \in EventsOf("SYNC") : k > sub[n].done /\ sub[n].active =>
        Fetched(n, k) \cap sub[n].rows = {}

(* The copy of a set and the SYNCs after it fit together: a subscriber has
   every row its sl_setsync says it has, unless a copy was made from a
   forwarder without any SYNC of the origin; and no SYNC repeats a row, unless
   the copy was made from the origin while a SYNC that misses one of its rows
   was under way. *)
CopyMeetsStream ==
    \A n \in Receiver : sub[n].active =>
        /\ ~sub[n].blind => RowsIn(sub[n].snap) \subseteq sub[n].rows
        /\ ~sub[n].early => NothingTwice(n)

(* slony1_base.sql says that the rows in the copied data "may therefore be
   filtered out of the first SYNC done after subscribing": no SYNC brings a
   row that the copy brought. *)
FirstSyncFiltersAll == \A n \in Receiver : NothingTwice(n)

(* An archive is on disk before its number is used up: the archives up to
   the counter are all there, whatever happened. *)
NoArchiveMissing == 1 .. counter \subseteq Files

(* What the Archiver had with its first n archives. *)
PastData(n) == IF n = 0 THEN [rows |-> {}, other |-> {}] ELSE past[n]

(* The offline database is in a state that the Archiver committed, or is about
   to commit, with that archive - if no archive number was used twice. *)
OfflineFollows ==
    bent \subseteq {"unheard"} =>
        IF offline.at <= counter THEN Data(offline) = PastData(offline.at)
        ELSE \E w \in Worker :
                 /\ work[w].pc = "closed" /\ work[w].n = offline.at
                 /\ Data(offline) = Data(Result(w))

(* What a worker and the daemon can do next without a fault. *)
CanWork(w) ==
    CASE work[w].pc = "idle" ->
            /\ \E k \in 1 .. Len(event) + setup.other : NextOf(w, k)
            /\ Archives(w) => CounterFree
      [] At(w, "SYNC") -> SyncPossible(w[1], work[w].seq)
      [] Copying(w) -> /\ ProviderReady(w) /\ OldXactsGone(w[1], work[w].seq)
                       /\ Archives(w) => work[w].fp
      [] OTHER -> TRUE

CanShip ==
    CASE ship.pc = "none" -> setup.archives # {}
      [] ship.pc = "run" -> ship.q # {} \/ archscan(Files) # {}
      [] OTHER -> TRUE

(* Transactions end; workers and the daemon go on; and the administrator of
   the offline database starts, resumes and cleans up the daemon. *)
Fairness ==
    /\ []<>(Running = {})
    /\ \A w \in {<<2, 1>>, <<2, 3>>, <<3, 1>>} :
           \/ []<>(w \notin Worker \/ ~CanWork(w))
           \/ []<><<w \in Worker /\ work'[w] # work[w]>>_vars
    /\ []<>~CanShip \/ []<><<ship' # ship>>_vars

(* All events are processed, and the offline database has all of it. *)
Settled ==
    /\ \A w \in Worker : work[w].pc = "idle" /\ ~\E k \in 1 .. Len(event) + setup.other : NextOf(w, k)
    /\ setup.archives # {} => offline.at = counter /\ Data(offline) = Data(sub[2])

(* In the end the subscribers have processed every event and the offline
   database holds what the Archiver holds, unless an archive number was used
   twice, an archive was not announced, or a copy overlapped a SYNC. *)
ShippedInTheEnd == <>[](Settled \/ bent # {} \/ \E n \in Receiver : sub[n].early)
=============================================================================
