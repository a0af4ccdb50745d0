----------------------------- MODULE TaskScreen -----------------------------
(***************************************************************************)
(* ui_tasks.c and the answer to cron.list: the gateway's jobs, the client's *)
(* copy that the WebSocket task rewrites in place, the rows drawn from it, *)
(* and a tap, which reads the copy again by the row's number and keeps     *)
(* LVGL's lock for half a second.                                          *)
(***************************************************************************)
EXTENDS Naturals, Sequences

CONSTANTS
  Jobs,            \* job ids
  MaxTasks,        \* OC_MAX_TASKS
  MaxJobChanges, MaxLists, MaxTaps        \* bounds

ASSUME TaskAssumption ==
  MaxTasks \in Nat /\ MaxJobChanges \in Nat /\ MaxLists \in Nat /\ MaxTaps \in Nat

Cleared == [id |-> "", on |-> FALSE]
NoTap == 0

VARIABLES
  jobs,            \* the gateway's list
  arriving,        \* the list being parsed: <<>> or <<list>>; its next entry
  nextEntry,
  tasks,           \* s_oc.info.tasks
  taskCount,       \* s_oc.info.task_count
  rows,            \* what the rows show
  rowsOld,         \* history: tasks has changed since the rows were drawn
  visible,         \* s_visible
  detail,          \* s_detail_visible
  panel,           \* s_detail_panel is not hidden
  onScreen,        \* the screen LVGL shows
  tap,             \* the row whose tap holds LVGL's lock, or NoTap
  mainAt,          \* the main loop: "rest", "shown", "drawing" or "hiding"
  statusAt,        \* the status task: "rest" or "drawing"
  lockMissed,      \* history: ui_tasks_hide did not have the lock in time
  wrongJob,        \* history: a tap switched a job its row did not show
  jobChanges, lists, taps

taskVars == <<jobs, arriving, nextEntry, tasks, taskCount, rows, rowsOld, visible, detail,
              panel, onScreen, tap, mainAt, statusAt, lockMissed, wrongJob, jobChanges,
              lists, taps>>

TaskScreenTypeOK ==
  /\ taskCount \in 0..MaxTasks /\ nextEntry \in 1..(MaxTasks + 1) /\ Len(arriving) <= 1
  /\ DOMAIN tasks = 1..MaxTasks /\ visible \in BOOLEAN /\ detail \in BOOLEAN
  /\ panel \in BOOLEAN /\ mainAt \in {"rest", "shown", "drawing", "hiding"}
  /\ statusAt \in {"rest", "drawing"}
  /\ onScreen \in {"main", "tasks"} /\ tap \in 0..MaxTasks /\ Len(rows) <= MaxTasks

TaskScreenInit ==
  /\ jobs = <<>> /\ arriving = <<>> /\ nextEntry = 1 /\ taskCount = 0
  /\ tasks = [i \in 1..MaxTasks |-> Cleared] /\ rows = <<>> /\ rowsOld = FALSE
  /\ visible = FALSE /\ detail = FALSE /\ panel = FALSE /\ onScreen = "main"
  /\ tap = NoTap /\ mainAt = "rest" /\ statusAt = "rest"
  /\ lockMissed = FALSE /\ wrongJob = FALSE /\ jobChanges = 0 /\ lists = 0 /\ taps = 0

LockFree == tap = NoTap
Screen == <<rows, visible, detail, panel, onScreen>>
Callers == <<mainAt, statusAt>>
Bounds == <<jobChanges, lists, taps>>

-----------------------------------------------------------------------------
\* The gateway: a job is added in front, or removed.
JobChanges ==
  /\ jobChanges < MaxJobChanges /\ jobChanges' = jobChanges + 1
  /\ \/ \E j \in Jobs : /\ \A i \in 1..Len(jobs) : jobs[i].id # j
                        /\ jobs' = <<[id |-> j, on |-> TRUE]>> \o jobs
     \/ \E i \in 1..Len(jobs) : jobs' = SubSeq(jobs, 1, i - 1) \o SubSeq(jobs, i + 1, Len(jobs))
  /\ UNCHANGED <<arriving, nextEntry, tasks, taskCount, Screen, rowsOld, tap, Callers, lockMissed,
                 wrongJob, lists, taps>>

\* The answer to cron.list: each entry is cleared and filled in place, the count comes last.
ListArrives ==
  /\ arriving = <<>> /\ lists < MaxLists /\ lists' = lists + 1
  /\ arriving' = <<jobs>> /\ nextEntry' = 1
  /\ UNCHANGED <<jobs, tasks, taskCount, Screen, rowsOld, tap, Callers, lockMissed, wrongJob,
                 jobChanges, taps>>
Kept == IF Len(arriving[1]) < MaxTasks THEN Len(arriving[1]) ELSE MaxTasks
EntryIs(e) ==
  tasks' = [tasks EXCEPT ![nextEntry] = e] /\ rowsOld' = (rowsOld \/ tasks' # tasks)
ClearEntry ==
  /\ arriving # <<>> /\ nextEntry <= Kept /\ tasks[nextEntry] # Cleared /\ EntryIs(Cleared)
  /\ UNCHANGED <<jobs, arriving, nextEntry, taskCount, Screen, tap, Callers, lockMissed, wrongJob,
                 Bounds>>
FillEntry ==
  /\ arriving # <<>> /\ nextEntry <= Kept /\ tasks[nextEntry] = Cleared
  /\ EntryIs(arriving[1][nextEntry]) /\ nextEntry' = nextEntry + 1
  /\ UNCHANGED <<jobs, arriving, taskCount, Screen, tap, Callers, lockMissed, wrongJob, Bounds>>
ListDone ==
  /\ arriving # <<>> /\ nextEntry > Kept /\ taskCount' = Kept
  /\ rowsOld' = (rowsOld \/ taskCount # Kept) /\ arriving' = <<>> /\ nextEntry' = 1
  /\ UNCHANGED <<jobs, tasks, Screen, tap, Callers, lockMissed, wrongJob, Bounds>>

\* ui_tasks_show, the button: without the lock nothing happens.
Show ==
  /\ mainAt = "rest" /\ ~visible /\ LockFree
  /\ visible' = TRUE /\ detail' = FALSE /\ onScreen' = "tasks" /\ mainAt' = "shown"
  /\ UNCHANGED <<jobs, arriving, nextEntry, tasks, taskCount, rows, rowsOld, panel, tap, statusAt,
                 lockMissed, wrongJob, Bounds>>

\* ui_tasks_refresh, at the end of ui_tasks_show or from the status task: s_visible is read
\* before the lock is awaited, and nothing is drawn without it. An entry rewritten while the
\* rows are drawn counts as rewritten after it.
RefreshBegin ==
  /\ \/ mainAt = "shown" /\ mainAt' = (IF visible THEN "drawing" ELSE "rest") /\ UNCHANGED statusAt
     \/ statusAt = "rest" /\ visible /\ statusAt' = "drawing" /\ UNCHANGED mainAt
  /\ UNCHANGED <<jobs, arriving, nextEntry, tasks, taskCount, Screen, rowsOld, tap, lockMissed,
                 wrongJob, Bounds>>
Draw == rows' = SubSeq(tasks, 1, taskCount) /\ rowsOld' = FALSE
RefreshEnd ==
  /\ \/ mainAt = "drawing" /\ mainAt' = "rest" /\ UNCHANGED statusAt
     \/ statusAt = "drawing" /\ statusAt' = "rest" /\ UNCHANGED mainAt
  /\ IF LockFree THEN Draw ELSE UNCHANGED <<rows, rowsOld>>
  /\ UNCHANGED <<jobs, arriving, nextEntry, tasks, taskCount, visible, detail, panel, onScreen,
                 tap, lockMissed, wrongJob, Bounds>>

\* ui_tasks_hide of the main loop: it is marked hidden first, then the lock is awaited.
HideBegin ==
  /\ mainAt = "rest" /\ visible
  /\ visible' = FALSE /\ detail' = FALSE /\ mainAt' = "hiding"
  /\ UNCHANGED <<jobs, arriving, nextEntry, tasks, taskCount, rows, rowsOld, panel, onScreen, tap,
                 statusAt, lockMissed, wrongJob, Bounds>>
HideEnd ==
  /\ mainAt = "hiding" /\ mainAt' = "rest"
  /\ \/ LockFree /\ onScreen' = "main" /\ UNCHANGED lockMissed
     \/ ~LockFree /\ lockMissed' = TRUE /\ UNCHANGED onScreen
  /\ UNCHANGED <<jobs, arriving, nextEntry, tasks, taskCount, rows, rowsOld, visible, detail,
                 panel, tap, statusAt, wrongJob, Bounds>>

\* Mutant: the main screen is loaded, the mark of visible stays.
BackLeavesMark ==
  /\ onScreen = "tasks" /\ LockFree
  /\ detail' = FALSE
  /\ IF detail THEN panel' = FALSE /\ UNCHANGED onScreen
     ELSE visible /\ onScreen' = "main" /\ UNCHANGED panel
  /\ UNCHANGED <<jobs, arriving, nextEntry, tasks, taskCount, rows, rowsOld, visible, tap, Callers,
                 lockMissed, wrongJob, Bounds>>

\* back_cb, by touch, with LVGL's lock: the details first.
Back ==
  /\ onScreen = "tasks" /\ LockFree
  /\ detail' = FALSE
  /\ IF detail THEN panel' = FALSE /\ UNCHANGED <<visible, onScreen>>
     ELSE visible /\ visible' = FALSE /\ onScreen' = "main" /\ UNCHANGED panel
  /\ UNCHANGED <<jobs, arriving, nextEntry, tasks, taskCount, rows, rowsOld, tap, Callers,
                 lockMissed, wrongJob, Bounds>>

\* Mutant: the row's number is one more than the entry's.
RowEntryNext(i) == tasks[IF i < MaxTasks THEN i + 1 ELSE i]

RowEntry(i) == tasks[i]

\* task_item_cb: the entry is read by the row's number and the opposite of what it says is
\* asked for; half a second later the entry is read again for the details.
Tap(i) ==
  /\ onScreen = "tasks" /\ LockFree /\ i \in 1..Len(rows) /\ i <= taskCount
  /\ taps < MaxTaps /\ taps' = taps + 1
  /\ tap' = i
  /\ wrongJob' = (wrongJob \/ (~rowsOld /\ RowEntry(i).id # rows[i].id))
  /\ \/ jobs' = [k \in 1..Len(jobs) |-> IF jobs[k].id = RowEntry(i).id
                                        THEN [jobs[k] EXCEPT !.on = ~RowEntry(i).on] ELSE jobs[k]]
     \/ UNCHANGED jobs                       \* not connected
  /\ UNCHANGED <<arriving, nextEntry, tasks, taskCount, Screen, rowsOld, Callers, lockMissed,
                 jobChanges, lists>>
TapShows ==
  /\ ~LockFree /\ tap' = NoTap
  /\ IF tap <= taskCount THEN detail' = TRUE /\ panel' = TRUE ELSE UNCHANGED <<detail, panel>>
  /\ UNCHANGED <<jobs, arriving, nextEntry, tasks, taskCount, rows, rowsOld, visible, onScreen,
                 Callers, lockMissed, wrongJob, Bounds>>

TaskScreenNext ==
  \/ JobChanges \/ ListArrives \/ ClearEntry \/ FillEntry \/ ListDone
  \/ Show \/ RefreshBegin \/ RefreshEnd \/ HideBegin \/ HideEnd \/ Back
  \/ TapShows \/ \E i \in 1..MaxTasks : Tap(i)
TaskScreenSpec == TaskScreenInit /\ [][TaskScreenNext]_taskVars

-----------------------------------------------------------------------------
(* Properties.                                                             *)

\* ui_tasks.c:230, :200: a tap switches the job its row shows as long as the client's copy
\* was not rewritten since the rows were drawn; unless ui_tasks_hide missed the lock, the
\* screen shown is the one marked visible, but for the time in which it waits for the lock;
\* and details marked as shown are on the screen's panel.
TapsHold ==
  /\ ~wrongJob
  /\ ~lockMissed /\ mainAt # "hiding" => (visible <=> onScreen = "tasks")
  /\ detail => panel
=============================================================================
