--------------------------- MODULE OptimizerPage ---------------------------
(***************************************************************************)
(* The page that asks for an optimization and follows it to its end:       *)
(* app/optimizer/page.tsx with OptimizationProgress.tsx, over the list of  *)
(* RunHistory.  The server is OptimizerTask seen from outside.             *)
(*                                                                         *)
(* The component that follows a task has its poll, its timer and its flags *)
(* in references of its own, and they outlive it: an answer that comes     *)
(* after the component left the screen still runs its continuation.        *)
(* onComplete is a new function on every render of the page, so every      *)
(* render cleans up and starts the effect that polls anew.                 *)
(***************************************************************************)
EXTENDS RunHistory

VARIABLES
    posts,      \* the requests that start a task
    progress,   \* the components that follow a task and may still act, the one on screen last
    results,    \* requests for the results of a task
    doubled     \* observer: a task was asked for while another was being asked for

following == <<posts, progress, results>>
vars == <<page, lists, following, server, overtaken, doubled, bounds>>

Page == [view: {"history", "form", "progress", "detail"}, runs: SUBSET Runs,
         historyLoading: BOOLEAN, historyError: BOOLEAN, selectedDetail: OrNone(RunDetail),
         pendingRequest: OrNone(Runs), running: BOOLEAN, taskId: OrNone(Runs),
         runError: BOOLEAN, itemToDelete: OrNone(Runs), deleteLoading: BOOLEAN]

(* What a poll has of the render that started it.                          *)
Closures == [task: Runs, request: OrNone(Runs)]

(* cancelled: the button is gone or stays disabled.                        *)
Answers == {"pending", "running", "completed", "cancelled", "failed", "lost"}
Progress == [poll: OrNone(Closures), answer: Answers, timer: OrNone(Closures), terminal: BOOLEAN,
             error: BOOLEAN, cancel: OrNone(Runs), cancelled: BOOLEAN, onScreen: BOOLEAN]

Results == [closure: Closures, answer: {"pending", "done", "failed"}]

-----------------------------------------------------------------------------
(* Rendering.                                                              *)
Shown(p) == p.view = "progress" /\ ~p.runError /\ p.taskId # None

Closure(p) == [task |-> p.taskId, request |-> p.pendingRequest]

Asking(i, closure) ==
    IF i.poll # None \/ i.terminal
    THEN i
    ELSE [i EXCEPT !.poll = closure, !.answer = "pending"]

(* Mutant: the effect polls on the first render only.                      *)
EffectOnce(i, p) == [i EXCEPT !.timer = None]

(* The effect: it clears the timer and polls at once.                      *)
Effect(i, p) == Asking([i EXCEPT !.timer = None], Closure(p))

NewProgress(p) ==
    [poll |-> Closure(p), answer |-> "pending", timer |-> None, terminal |-> FALSE,
     error |-> FALSE, cancel |-> None, cancelled |-> FALSE, onScreen |-> TRUE]

Unmount(i) == [i EXCEPT !.onScreen = FALSE, !.timer = None]

OnScreen(s) == s # <<>> /\ Last(s).onScreen

MayAct(i) == i.onScreen \/ i.poll # None \/ i.timer # None \/ i.cancel # None

(* What can no longer act is forgotten.                                    *)
Put(s, k, i) == IF MayAct(i) THEN [s EXCEPT ![k] = i] ELSE RemoveAt(s, k)

(* The components once the page p is rendered.                             *)
Rendered(s, p) ==
    CASE Shown(p) /\ OnScreen(s)  -> [s EXCEPT ![Len(s)] = Effect(@, p)]
      [] Shown(p) /\ ~OnScreen(s) -> Append(s, NewProgress(p))
      [] ~Shown(p) /\ OnScreen(s) -> Put(s, Len(s), Unmount(Last(s)))
      [] OTHER -> s

Renders == progress' = Rendered(progress, page')

Update(k, i) == Put(progress, k, i)

-----------------------------------------------------------------------------
(* Asking for a task.                                                      *)
HandleRun(r) ==
    /\ Clickable("form")
    /\ ~page.running
    /\ posts[r] = "none"
    /\ Clicks
    /\ page' = [page EXCEPT !.runError = FALSE, !.selectedDetail = None]
    /\ posts' = [posts EXCEPT ![r] = "pending"]
    /\ doubled' = (doubled \/ \E o \in Runs : posts[o] \in {"pending", "queued", "failed"})
    /\ Renders
    /\ UNCHANGED <<lists, results, server, overtaken>>

RunOptimization(r) ==
    /\ posts[r] = "pending"
    /\ \/ /\ Succeeds
          /\ posts' = [posts EXCEPT ![r] = "queued"]
          /\ server' = [server EXCEPT ![r] = "running"]
       \/ /\ Fails
          /\ posts' = [posts EXCEPT ![r] = "failed"]
          /\ server' \in {server, [server EXCEPT ![r] = "running"]}
    /\ UNCHANGED <<page, lists, progress, results, overtaken, doubled>>

Started(r) ==
    /\ posts[r] \in {"queued", "failed"}
    /\ posts' = [posts EXCEPT ![r] = "ended"]
    /\ page' = IF posts[r] = "queued"
               THEN [page EXCEPT !.taskId = r, !.pendingRequest = r, !.running = TRUE,
                                 !.view = "progress"]
               ELSE [page EXCEPT !.runError = TRUE]
    /\ Renders
    /\ UNCHANGED <<lists, results, server, overtaken, doubled, bounds>>

HandleNew ==
    /\ Clickable("history")
    /\ Clicks
    /\ page' = [page EXCEPT !.selectedDetail = None, !.pendingRequest = None,
                            !.runError = FALSE, !.view = "form"]
    /\ Renders
    /\ UNCHANGED <<lists, posts, results, server, overtaken, doubled>>

HandleBack ==
    /\ \E view \in {"form", "progress", "detail"} : Clickable(view)
    /\ Clicks
    /\ page' = [page EXCEPT !.running = FALSE, !.taskId = None, !.pendingRequest = None,
                            !.selectedDetail = None, !.runError = FALSE, !.view = "history"]
    /\ Renders
    /\ UNCHANGED <<lists, posts, results, server, overtaken, doubled>>

-----------------------------------------------------------------------------
(* Following it.                                                           *)
(* Mutant: the status is the thread's own word for it.                     *)
StatusOfThread(r) == server[r]

StatusOf(r) ==
    CASE server[r] \in {"completed", "kept", "lost"} -> "completed"
      [] server[r] = "error" -> "failed"
      [] server[r] \in {"deleted", "gone"} -> "lost"
      [] OTHER -> server[r]

GetOptimizationStatus(k) ==
    /\ progress[k].poll # None
    /\ progress[k].answer = "pending"
    /\ \/ Succeeds /\ progress' = [progress EXCEPT ![k].answer = StatusOf(progress[k].poll.task)]
       \/ Fails /\ progress' = [progress EXCEPT ![k].answer = "lost"]
    /\ UNCHANGED <<page, lists, posts, results, server, overtaken, doubled>>

StillRunning(k) ==
    /\ progress[k].answer = "running"
    /\ progress' = [progress EXCEPT ![k].poll = None, ![k].answer = "pending",
                                    ![k].timer = progress[k].poll]
    /\ UNCHANGED <<page, lists, posts, results, server, overtaken, doubled, bounds>>

TimerFires(k) ==
    /\ progress[k].timer # None
    /\ progress' = Update(k, Asking([progress[k] EXCEPT !.timer = None], progress[k].timer))
    /\ UNCHANGED <<page, lists, posts, results, server, overtaken, doubled, bounds>>

Ended(k) == [progress[k] EXCEPT !.poll = None, !.answer = "pending", !.timer = None,
                                !.terminal = TRUE,
                                !.cancelled = IF progress[k].answer = "completed" THEN @
                                              ELSE progress[k].answer = "cancelled"]

(* Mutant: the results are labelled with the request of the last render.   *)
HandleProgressCompleteLate(k) ==
    /\ progress[k].answer = "completed"
    /\ results' = results \cup
           {[closure |-> [task |-> progress[k].poll.task, request |-> page.pendingRequest],
             answer |-> "pending"]}
    /\ page' = [page EXCEPT !.runError = FALSE, !.running = FALSE]
    /\ progress' = Rendered(Update(k, Ended(k)), page')
    /\ UNCHANGED <<lists, posts, server, overtaken, doubled, bounds>>

(* onComplete asks for the results, onDone clears running.                 *)
HandleProgressComplete(k) ==
    /\ progress[k].answer = "completed"
    /\ IF progress[k].poll.request = None
       THEN /\ page' = [page EXCEPT !.running = FALSE]
            /\ UNCHANGED results
       ELSE /\ page' = [page EXCEPT !.runError = FALSE, !.running = FALSE]
            /\ results' = results \cup {[closure |-> progress[k].poll, answer |-> "pending"]}
    /\ progress' = Rendered(Update(k, Ended(k)), page')
    /\ UNCHANGED <<lists, posts, server, overtaken, doubled, bounds>>

HandleProgressDone(k) ==
    /\ progress[k].answer \in {"cancelled", "failed"}
    /\ page' = [page EXCEPT !.running = FALSE]
    /\ progress' = Rendered(Update(k, Ended(k)), page')
    /\ UNCHANGED <<lists, posts, results, server, overtaken, doubled, bounds>>

(* A poll that fails is the last one until the page renders again.         *)
PollFails(k) ==
    /\ progress[k].answer = "lost"
    /\ progress' = Update(k, [progress[k] EXCEPT !.poll = None, !.answer = "pending",
                                                 !.timer = None, !.error = TRUE])
    /\ UNCHANGED <<page, lists, posts, results, server, overtaken, doubled, bounds>>

HandleCancel ==
    /\ OnScreen(progress)
    /\ page.itemToDelete = None
    /\ ~Last(progress).cancelled
    /\ Last(progress).cancel = None
    /\ Clicks
    /\ progress' = [progress EXCEPT ![Len(progress)].cancel = page.taskId]
    /\ UNCHANGED <<page, lists, posts, results, server, overtaken, doubled>>

(* The answer to a cancellation, and what the component makes of it: a poll*)
(* in flight is not called back.  One that failed may have been served.    *)
CancelOptimization(k) ==
    /\ progress[k].cancel # None
    /\ \/ /\ Succeeds
          /\ server[progress[k].cancel] = "running"
          /\ server' = [server EXCEPT ![progress[k].cancel] = "cancelled"]
          /\ page' = [page EXCEPT !.running = FALSE]
          /\ progress' = Rendered(Update(k, [progress[k] EXCEPT !.cancel = None,
                                                 !.cancelled = TRUE, !.terminal = TRUE,
                                                 !.timer = None]), page')
       \/ /\ \/ Fails /\ UNCHANGED server
             \/ server[progress[k].cancel] # "running" /\ Succeeds /\ UNCHANGED server
             \/ /\ server[progress[k].cancel] = "running" /\ Fails
                /\ server' = [server EXCEPT ![progress[k].cancel] = "cancelled"]
          /\ progress' = Update(k, [progress[k] EXCEPT !.cancel = None, !.error = TRUE])
          /\ UNCHANGED page
    /\ UNCHANGED <<lists, posts, results, overtaken, doubled>>

-----------------------------------------------------------------------------
(* The results.  They are published after the status.                      *)
GetOptimizationResults(q) ==
    /\ q.answer = "pending"
    /\ \/ /\ server[q.closure.task] \in {"completed", "kept", "lost"}
          /\ Succeeds
          /\ results' = (results \ {q}) \cup {[q EXCEPT !.answer = "done"]}
       \/ /\ IF server[q.closure.task] \in {"completed", "deleted", "gone"} THEN Succeeds ELSE Fails
          /\ results' = (results \ {q}) \cup {[q EXCEPT !.answer = "failed"]}
    /\ UNCHANGED <<page, lists, posts, progress, server, overtaken, doubled>>

ResultsArrive(q) ==
    /\ q.answer = "done"
    /\ results' = results \ {q}
    /\ page' = [page EXCEPT !.selectedDetail = [id |-> q.closure.task,
                                                request |-> q.closure.request],
                            !.view = "detail", !.historyLoading = TRUE]
    /\ loads' = Append(loads, Sent)
    /\ Renders
    /\ UNCHANGED <<details, deletion, posts, server, overtaken, doubled, bounds>>

ResultsFail(q) ==
    /\ q.answer = "failed"
    /\ results' = results \ {q}
    /\ page' = [page EXCEPT !.runError = TRUE]
    /\ Renders
    /\ UNCHANGED <<lists, posts, server, overtaken, doubled, bounds>>

-----------------------------------------------------------------------------
(* The thread of a task: one that passed its last check completes although *)
(* it was cancelled (see OptimizerTask).                                   *)
Thread(r) ==
    /\ \/ /\ server[r] \in {"running", "cancelled"}
          /\ Succeeds
          /\ server' = [server EXCEPT ![r] = "completed"]
       \/ /\ server[r] = "running"
          /\ Fails
          /\ server' = [server EXCEPT ![r] = "error"]
       \/ /\ server[r] = "completed"
          /\ \/ Succeeds /\ server' = [server EXCEPT ![r] = "kept"]
             \/ Fails /\ server' = [server EXCEPT ![r] = "lost"]
    /\ UNCHANGED <<page, lists, following, overtaken, doubled>>

-----------------------------------------------------------------------------
Init ==
    /\ page = [f \in DOMAIN Mounted \cup {"taskId"} |-> IF f = "taskId" THEN None ELSE Mounted[f]]
    /\ posts = [r \in Runs |-> "none"]
    /\ progress = <<>>
    /\ results = {}
    /\ doubled = FALSE
    /\ HistoryInit

Follow ==
    \/ \E r \in Runs : RunOptimization(r) \/ Started(r)
    \/ \E k \in DOMAIN progress :
          \/ GetOptimizationStatus(k) \/ StillRunning(k) \/ TimerFires(k)
          \/ HandleProgressComplete(k) \/ HandleProgressDone(k) \/ PollFails(k)
          \/ CancelOptimization(k)
    \/ \E q \in results : GetOptimizationResults(q) \/ ResultsArrive(q) \/ ResultsFail(q)

Next ==
    \/ HandleNew
    \/ HandleBack
    \/ HandleCancel
    \/ \E r \in Runs : HandleRun(r) \/ Thread(r)
    \/ Follow
    \/ HistoryNext /\ Renders /\ UNCHANGED <<posts, results, doubled>>

Fairness == WF_vars(Follow) /\ \A r \in Runs : WF_vars(Thread(r))

Spec == Init /\ [][Next]_vars
FairSpec == Spec /\ Fairness

-----------------------------------------------------------------------------
(* The state of the page, its components and the server keep their types.  *)
TypeOK ==
    /\ page \in Page
    /\ posts \in [Runs -> {"none", "pending", "queued", "failed", "ended"}]
    /\ progress \in Seq(Progress)
    /\ results \subseteq Results
    /\ ListTypes
    /\ doubled \in BOOLEAN
    /\ clicks \in 0 .. MaxClicks

(* Results are shown under the request they answer, although the label is  *)
(* taken from the state of the page and the results from the server, calls *)
(* apart (handleProgressComplete, page.tsx:82): symbol, strategy and ranges*)
(* of another task would be saved to the portfolio with its parameters.    *)
DetailIsLabelledRight ==
    page.selectedDetail # None => page.selectedDetail.id = page.selectedDetail.request

(* The component on screen asks about the task the page names, until it    *)
(* shows an end or an error, unless two tasks were asked for at a time: the*)
(* second answer changes the task of a component whose poll for the first  *)
(* is in flight (OptimizationProgress.tsx:62).                             *)
ShownTaskIsFollowed ==
    OnScreen(progress) =>
        LET i == Last(progress)
        IN  \/ doubled \/ i.terminal \/ i.error
            \/ i.poll # None /\ i.poll.task = page.taskId
            \/ i.timer # None /\ i.timer.task = page.taskId

(* The same without the exception.                                         *)
SecondTaskIsFollowed ==
    OnScreen(progress) =>
        LET i == Last(progress)
        IN  \/ i.terminal \/ i.error
            \/ i.poll # None /\ i.poll.task = page.taskId
            \/ i.timer # None /\ i.timer.task = page.taskId

(* A task on the screen comes to an end there: its results, a message or   *)
(* the user's leaving, with the exception above.                           *)
ProgressOver == doubled \/ (OnScreen(progress) => Last(progress).terminal \/ Last(progress).error)
ProgressEnds == []<>ProgressOver

-----------------------------------------------------------------------------
(***************************************************************************)
(* What makes DetailIsLabelledRight and ShownTaskIsFollowed inductive.     *)
(***************************************************************************)
(* A poll is about a task that has begun, under its own request, and what  *)
(* was answered was asked.                                                 *)
Begun == {c \in Closures : c.request = c.task /\ server[c.task] # "unborn"}

Followers ==
    {i \in Progress : /\ {i.poll, i.timer} \subseteq OrNone(Begun)
                      /\ i.answer # "pending" => i.poll # None}

PollsAreLabelled ==
    /\ progress \in Seq(Followers)
    /\ \A q \in results : q.closure \in Begun
    /\ \A r \in Runs : posts[r] = "queued" => server[r] # "unborn"
    /\ page.taskId # None => server[page.taskId] # "unborn"
    /\ page.view = "progress" => page.taskId # None /\ page.pendingRequest = page.taskId

(* One component is on screen, the last, when the page shows a task.       *)
OneOnScreen(s) == \A k \in DOMAIN s : s[k].onScreen => k = Len(s)
ScreenShowsPage == OneOnScreen(progress) /\ (OnScreen(progress) <=> Shown(page))

(* While a task is asked for no other is on screen, unless two are asked   *)
(* for at a time.                                                          *)
Active(r) == posts[r] \in {"pending", "queued", "failed"}
OneIsAsked ==
    doubled \/ \A r \in Runs : Active(r) => /\ page.view # "progress"
                                            /\ \A o \in Runs : Active(o) => o = r

Follows(i, task) ==
    /\ i.poll # None => i.poll.task = task
    /\ i.timer # None => i.timer.task = task
    /\ i.poll # None \/ i.timer # None \/ i.terminal \/ i.error

ScreenFollows == doubled \/ (OnScreen(progress) => Follows(Last(progress), page.taskId))

ProgressInv ==
    /\ TypeOK
    /\ PollsAreLabelled
    /\ ScreenShowsPage
    /\ OneIsAsked
    /\ ScreenFollows
    /\ DetailIsLabelledRight
=============================================================================

