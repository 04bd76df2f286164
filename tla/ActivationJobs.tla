--------------------------- MODULE ActivationJobs -----------------------------
(***************************************************************************)
(* The interface's queue of activation jobs (core/activation-jobs.ts), the *)
(* Library's Enable all / Disable all (features/mods/mods-actions.ts) and  *)
(* the backend commands both call, with the ways a user stops them.        *)
(*                                                                         *)
(* The interface is one thread: what runs between two awaits is one        *)
(* action.  Its calls reach the backend in the order they were made        *)
(* (`mail'); a short command is carried out as it arrives, a long one is   *)
(* spawned and begins when the runtime gets to it.  A worker step on the   *)
(* game folder (see ModDeploy) is one piece of work here, done, failed or  *)
(* cut; one step at a time holds MOD_OP_LOCK (`worker').                   *)
(***************************************************************************)
EXTENDS Lists, FiniteSets

CONSTANTS
    Library,        \* the mods, in the library's order
    Profiles,
    AnyProfile,     \* a job that acts on whatever profile is active
    Whole,          \* the one line of a batch that has no mod to turn on
    Requests,       \* what may be queued: records [mods, mode, profile, batch]
    SweepModes,     \* what the Library's buttons may ask: {"enable", "disable"}
    Others,         \* who else acts: SUBSET {"skip", "dashboard"}
    SwitchTo,       \* the profiles the user may switch to
    MaxJobs,        \* bound: jobs queued in a behaviour
    MaxSweeps,      \* bound: uses of Enable all / Disable all
    MaxClicks,      \* bound: uses of Cancel all
    MaxScopes       \* MAX_CANCEL_SCOPES

ASSUME MaxScopes_Assumption == MaxScopes \in Nat \ {0}

Mods   == {Library[i] : i \in 1..Len(Library)}
JobIds == 1..MaxJobs
Clicks == 1..MaxClicks
Modes  == {"enable", "disable"}
Lines  == Mods \cup {Whole}
NoMod  == Whole

ASSUME Jobs_Assumption ==
    /\ Library \in Seq(Mods) /\ Whole \notin Mods
    /\ MaxJobs \in Nat \ {0} /\ MaxSweeps \in Nat /\ MaxClicks \in Nat
    /\ Requests \subseteq [mods : Seq(Mods), mode : Modes, profile : Profiles \cup {AnyProfile},
                           batch : BOOLEAN]
    /\ SweepModes \subseteq Modes /\ SwitchTo \subseteq Profiles

INSTANCE CancelScopes WITH Names <- JobIds

VARIABLES
    nextId,    \* the id the next job gets
    jobs,      \* the ids of the jobs in the list: those not over
    job,       \* each job: what was asked, its state, its lines, cancelRequested
    runner,    \* pump() and runJob(): the await it is at; `current' and its skip
    call,      \* the command the runner awaits, on the backend's side
    sweep,     \* Enable all: toggleAllMods() and its toggle_all_mods
    click,     \* each Cancel all: what it still waits for
    worker,    \* who holds MOD_OP_LOCK: "job", "sweep" or "none"
    killed,    \* MOD_OP_KILLED
    tokens,    \* the cancel tokens
    mail,      \* calls of the interface under way to the backend
    active,    \* the active profile
    on         \* the mods each profile has on

vars == <<nextId, jobs, job, runner, call, sweep, click, worker, killed, tokens,
          mail, active, on>>
ui      == <<nextId, jobs, job, runner>>
backend == <<worker, killed, tokens, active, on>>

Phases == {"absent", "queued", "running", "done", "failed", "cancelled"}
Over   == {"done", "failed", "cancelled"}
States == {"none", "queued", "running", "done", "cancelled"}

NoLines == [m \in Lines |-> "absent"]
NoJob   == [mods |-> <<>>, mode |-> "enable", profile |-> AnyProfile, batch |-> FALSE,
            state |-> "none", line |-> NoLines, stop |-> FALSE]
Idle    == [at |-> "idle", id |-> 1, mod |-> NoMod, skip |-> FALSE]
NoCall  == [at |-> "none", mod |-> NoMod, pid |-> AnyProfile, to |-> AnyProfile,
            left |-> {}, bad |-> {},
            did |-> {}, cut |-> {}, reply |-> "ok"]
NoSweep == [at |-> "idle", mode |-> "enable", snap |-> {}, left |-> {}, mod |-> NoMod,
            to |-> AnyProfile, stop |-> FALSE, uses |-> 0]

\* A job's mods in order; a batch with none shows as one line of its own.
ModsOf(r)  == {r.mods[i] : i \in 1..Len(r.mods)}
LinesOf(r) == IF r.batch /\ r.mods = <<>> THEN {Whole} ELSE ModsOf(r)

Init ==
    /\ nextId = 1
    /\ jobs = <<>>
    /\ job = [j \in JobIds |-> NoJob]
    /\ runner = Idle
    /\ call = NoCall
    /\ sweep = NoSweep
    /\ click = [k \in Clicks |-> [at |-> "unused", jobs |-> {}]]
    /\ worker = "none"
    /\ killed = FALSE
    /\ tokens = NoTokens
    /\ mail = <<>>
    /\ active \in Profiles
    /\ on = [p \in Profiles |-> {}]

-------------------------------------------------------------------------------
(* The backend.                                                              *)

Msg(cmd, id) == [cmd |-> cmd, id |-> id]

\* The scopes whose batch runs now (their Arc has a second holder).
Held == IF call.at \in {"loop", "plan", "work"} THEN {runner.id} ELSE {}

JobCut == IsCut(tokens, runner.id)

\* The first mod of the list s that is still to be looked at.
FirstLeft(s, left) ==
    s[CHOOSE i \in 1..Len(s) : s[i] \in left /\ \A k \in 1..(i - 1) : s[k] \notin left]

(***************************************************************************)
(* handleProgressEvent for the running batch: an event names a mod and not *)
(* its sender, so the events of anybody's operations move its lines.       *)
(***************************************************************************)
Told(m, phase) ==
    job' = IF runner.at = "batch" /\ job[runner.id].line[m] \in {"queued", "running"}
           THEN [job EXCEPT ![runner.id].line[m] = phase] ELSE job

\* Nothing to do: the mod is already in the state asked for.
Already(mode, m) == IF mode = "enable" THEN m \in on[active] ELSE m \notin on[active]

\* What a finished operation does to the lists: an enable is recorded for the profile
\* it was planned for, a disable for the one active at its end.
Recorded(mode, m, pid) ==
    IF mode = "enable" THEN [on EXCEPT ![pid] = @ \cup {m}]
    ELSE [on EXCEPT ![active] = @ \ {m}]

\* The runtime gets to the job's command: in_cancel_scope, then the command's own checks.
CallBegins ==
    /\ call.at = "spawned"
    /\ LET j == runner.id
           t == Opened(tokens, Held, j)
           m == runner.mod
       IN  /\ tokens' = t
           /\ \/ /\ ~job[j].batch                      \* enable_mod / disable_mod
                 /\ \/ /\ IsCut(t, j)
                       /\ call' = [call EXCEPT !.at = "answered", !.cut = {m}]
                    \/ /\ ~IsCut(t, j) /\ Already(job[j].mode, m)
                       /\ call' = [call EXCEPT !.at = "answered", !.did = {m}]
                    \/ /\ ~IsCut(t, j) /\ ~Already(job[j].mode, m)
                       /\ call' = [call EXCEPT !.at = "plan", !.mod = m, !.to = active]
                    \/ /\ ~IsCut(t, j)                 \* refused: a dependency, a hash, space
                       /\ call' = [call EXCEPT !.at = "answered", !.reply = "error"]
              \/ /\ job[j].batch                       \* order_list_activate
                 /\ IF job[j].profile \notin {AnyProfile, active}
                    THEN call' = [call EXCEPT !.at = "answered", !.reply = "error"]
                    ELSE call' = [call EXCEPT !.at = "loop", !.pid = active,
                                     !.left = ModsOf(job[j]) \ on[active],
                                     !.did = ModsOf(job[j]) \cap on[active]]
    /\ UNCHANGED <<ui, sweep, click, worker, killed, mail, active, on>>

(***************************************************************************)
(* activate_in: the batch stops between mods, or takes the next one.  What *)
(* an earlier mod's dependencies turned on is on already.                  *)
(***************************************************************************)
BatchTakes ==
    /\ call.at = "loop"
    /\ \/ /\ JobCut \/ call.left = {}
          /\ call' = [call EXCEPT !.at = "answered",
                                  !.reply = IF JobCut THEN "cancelled" ELSE "ok"]
          /\ UNCHANGED job
       \/ /\ ~JobCut /\ call.left # {}
          /\ LET m == FirstLeft(job[runner.id].mods, call.left) IN
             \/ /\ m \in on[call.pid]
                /\ call' = [call EXCEPT !.left = @ \ {m}, !.did = @ \cup {m}]
                /\ UNCHANGED job
             \/ /\ m \notin on[call.pid]
                /\ call' = [call EXCEPT !.at = "plan", !.mod = m, !.to = active]
                /\ Told(m, "running")
             \/ /\ m \notin on[call.pid]               \* refused
                /\ call' = [call EXCEPT !.left = @ \ {m}, !.bad = @ \cup {m}]
                /\ UNCHANGED job
    /\ UNCHANGED <<nextId, jobs, runner, sweep, click, backend, mail>>

\* MOD_OP_LOCK is taken; the stop is looked at once more, then a worker starts.
LockTaken ==
    /\ call.at = "plan" /\ worker = "none" /\ ~JobCut
    /\ worker' = "job"
    /\ killed' = FALSE
    /\ call' = [call EXCEPT !.at = "work"]
    /\ UNCHANGED <<ui, sweep, click, tokens, mail, active, on>>

\* An operation of the job is over.  A single call answers, a batch goes on.
OpEnds(c) ==
    call' = IF job[runner.id].batch THEN [c EXCEPT !.at = "loop", !.left = @ \ {call.mod}]
            ELSE [c EXCEPT !.at = "answered"]

OpDone ==
    /\ call.at = "work" /\ ~killed
    /\ on' = Recorded(job[runner.id].mode, call.mod, call.to)
    /\ worker' = "none"
    /\ OpEnds([call EXCEPT !.did = @ \cup {call.mod}])
    /\ Told(call.mod, "done")
    /\ UNCHANGED <<nextId, jobs, runner, sweep, click, killed, tokens, mail, active>>

OpFails ==
    /\ call.at = "work" /\ ~killed /\ ~JobCut
    /\ worker' = "none"
    /\ OpEnds(IF job[runner.id].batch THEN [call EXCEPT !.bad = @ \cup {call.mod}]
              ELSE [call EXCEPT !.reply = "error"])
    /\ Told(call.mod, "failed")
    /\ UNCHANGED <<nextId, jobs, runner, sweep, click, killed, tokens, mail, active, on>>

\* The wait loop saw a stop or a kill and the work was undone; or the stop was seen
\* before a worker started.  Either way the call answers Ok.
OpCut ==
    /\ \/ call.at = "plan" /\ worker = "none" /\ JobCut /\ UNCHANGED worker
       \/ call.at = "work" /\ (killed \/ JobCut) /\ worker' = "none"
    /\ OpEnds([call EXCEPT !.cut = @ \cup {call.mod}])
    /\ Told(call.mod, "cancelled")
    /\ UNCHANGED <<nextId, jobs, runner, sweep, click, killed, tokens, mail, active, on>>

\* The long command at the head of the mail is spawned; a short one is carried out.
Delivered(cmd) == mail # <<>> /\ Head(mail).cmd = cmd /\ mail' = Tail(mail)

SpawnCall ==
    /\ Delivered("call")
    /\ call' = [call EXCEPT !.at = "spawned"]
    /\ UNCHANGED <<ui, sweep, click, backend>>

SpawnSweep ==
    /\ Delivered("sweep")
    /\ sweep' = [sweep EXCEPT !.at = "spawned"]
    /\ UNCHANGED <<ui, call, click, backend>>

\* cancel_mod_ops with a scope
StopArrives ==
    /\ Delivered("stop")
    /\ tokens' = StopScope(tokens, Held, Head(mail).id)
    /\ UNCHANGED <<ui, call, sweep, click, worker, killed, active, on>>

\* cancel_mod_ops without one: it also kills the worker that runs, whoever's it is.
StopAllArrives ==
    /\ Delivered("stopAll")
    /\ tokens' = StopAll(tokens)
    /\ killed' = (killed \/ worker # "none")
    /\ UNCHANGED <<ui, call, sweep, click, worker, active, on>>

\* kill_current_mod_op
KillArrives ==
    /\ Delivered("kill")
    /\ killed' = (killed \/ worker # "none")
    /\ UNCHANGED <<ui, call, sweep, click, worker, tokens, active, on>>

\* Mutant: the clear of a job's scope lowers everybody's flag.
ClearArrivesAll ==
    /\ Delivered("clear")
    /\ tokens' = LowerFlag(DropScope(tokens, Head(mail).id))
    /\ runner' = [runner EXCEPT !.at = "cleared"]
    /\ UNCHANGED <<nextId, jobs, job, call, sweep, click, worker, killed, active, on>>

\* clear_mod_op_cancel with a scope, awaited by the runner
ClearArrives ==
    /\ Delivered("clear")
    /\ tokens' = DropScope(tokens, Head(mail).id)
    /\ runner' = [runner EXCEPT !.at = "cleared"]
    /\ UNCHANGED <<nextId, jobs, job, call, sweep, click, worker, killed, active, on>>

\* clear_mod_op_cancel without one, from a Cancel all or awaited by the sweep
LowerArrives ==
    /\ Delivered("lower")
    /\ tokens' = LowerFlag(tokens)
    /\ sweep' = [sweep EXCEPT !.at = CASE @ = "clearing" -> "revert"
                                       [] @ = "closing"  -> "pause"
                                       [] OTHER -> @]
    /\ UNCHANGED <<ui, call, click, worker, killed, active, on>>

-------------------------------------------------------------------------------
(* The queue.                                                                *)

Post(msgs) == mail' = mail \o msgs

Waiting(js, jb) == Without(js, {j \in JobIds : jb[j].state # "queued"})

(***************************************************************************)
(* The loop of runJob over a job's lines, from where it is to its next     *)
(* await: the next queued line is sent to the backend, unless the job was  *)
(* stopped, which cancels those that remain; then the scope is cleared.    *)
(***************************************************************************)
GoOn(jb, j) ==
    LET s    == jb[j].mods
        rest == {i \in 1..Len(s) : jb[j].line[s[i]] = "queued"}
        i    == CHOOSE k \in rest : \A l \in rest : k <= l
    IN  IF rest # {} /\ ~jb[j].stop
        THEN /\ job' = [jb EXCEPT ![j].line[s[i]] = "running"]
             /\ runner' = [at |-> "call", id |-> j, mod |-> s[i], skip |-> FALSE]
             /\ Post(<<Msg("call", j)>>)
        ELSE /\ job' = [jb EXCEPT ![j].line =
                   [m \in Lines |-> IF @[m] = "queued" THEN "cancelled" ELSE @[m]]]
             /\ runner' = [Idle EXCEPT !.at = "clear", !.id = j]
             /\ Post(<<Msg("clear", j)>>)

\* runBatch up to its await: `current' is the first line until the events move it.
SendBatch(jb, j) ==
    IF \E m \in Lines : jb[j].line[m] = "failed"
    THEN /\ job' = jb
         /\ runner' = [Idle EXCEPT !.at = "clear", !.id = j]
         /\ Post(<<Msg("clear", j)>>)
    ELSE /\ job' = IF jb[j].mods = <<>> THEN [jb EXCEPT ![j].line[Whole] = "running"] ELSE jb
         /\ runner' = [Idle EXCEPT !.at = "batch", !.id = j]
         /\ Post(<<Msg("call", j)>>)

Work(jb, j) == IF jb[j].batch THEN SendBatch(jb, j) ELSE GoOn(jb, j)

\* pump(): the first queued job runs, to its first await; with none the pump stops.
Pump(js, jb) ==
    IF Waiting(js, jb) = <<>>
    THEN job' = jb /\ runner' = Idle /\ UNCHANGED mail
    ELSE LET j == Head(Waiting(js, jb))
             running == [jb EXCEPT ![j].state = "running"]
         IN  IF jb[j].profile # AnyProfile
             THEN /\ job' = running
                  /\ runner' = [Idle EXCEPT !.at = "profile", !.id = j]
                  /\ UNCHANGED mail
             ELSE Work(running, j)

\* Mutant: a new job does not wait for the one that ends.
QueueJobEager(r) ==
    /\ nextId \in JobIds
    /\ nextId' = nextId + 1
    /\ jobs' = Append(jobs, nextId)
    /\ LET new == [mods |-> r.mods, mode |-> r.mode, profile |-> r.profile, batch |-> r.batch,
                   state |-> "queued", stop |-> FALSE,
                   line |-> [m \in Lines |-> IF m \in LinesOf(r) THEN "queued" ELSE "absent"]]
           jb  == [job EXCEPT ![nextId] = new]
       IN  IF runner.at \in {"idle", "clear"} THEN Pump(jobs', jb)
           ELSE job' = jb /\ UNCHANGED <<runner, mail>>
    /\ UNCHANGED <<call, sweep, click, backend>>

\* queueJob
QueueJob(r) ==
    /\ nextId \in JobIds
    /\ nextId' = nextId + 1
    /\ jobs' = Append(jobs, nextId)
    /\ LET new == [mods |-> r.mods, mode |-> r.mode, profile |-> r.profile, batch |-> r.batch,
                   state |-> "queued", stop |-> FALSE,
                   line |-> [m \in Lines |-> IF m \in LinesOf(r) THEN "queued" ELSE "absent"]]
           jb  == [job EXCEPT ![nextId] = new]
       IN  IF runner.at = "idle" THEN Pump(jobs', jb)
           ELSE job' = jb /\ UNCHANGED <<runner, mail>>
    /\ UNCHANGED <<call, sweep, click, backend>>

\* get_active_profile_id answers: a job asked for another profile is refused.
ProfileIsRead ==
    /\ runner.at = "profile"
    /\ LET j == runner.id
           refused == [m \in Lines |-> IF job[j].line[m] = "absent" THEN "absent" ELSE "failed"]
       IN  Work(IF active = job[j].profile THEN job ELSE [job EXCEPT ![j].line = refused], j)
    /\ UNCHANGED <<nextId, jobs, call, sweep, click, backend>>

\* Mutant: the reply alone makes the verdict.
RunnerHearsReply ==
    /\ runner.at = "call" /\ call.at = "answered"
    /\ LET j == runner.id
           verdict == IF call.reply = "ok" THEN "done" ELSE "failed"
       IN  GoOn([job EXCEPT ![j].line[runner.mod] = verdict], j)
    /\ call' = NoCall
    /\ UNCHANGED <<nextId, jobs, sweep, click, backend>>

\* enable_mod / disable_mod answers.  Ok says nothing of a stop: who asked for one does.
RunnerHears ==
    /\ runner.at = "call" /\ call.at = "answered"
    /\ LET j == runner.id
           verdict == IF job[j].stop \/ (call.reply = "ok" /\ runner.skip) THEN "cancelled"
                      ELSE IF call.reply = "ok" THEN "done" ELSE "failed"
       IN  GoOn([job EXCEPT ![j].line[runner.mod] = verdict], j)
    /\ call' = NoCall
    /\ UNCHANGED <<nextId, jobs, sweep, click, backend>>

\* A batch answers: its outcome is laid over the lines the events have not settled.
RunnerHearsBatch ==
    /\ runner.at = "batch" /\ call.at = "answered"
    /\ LET j       == runner.id
           stopped == job[j].stop \/ call.reply = "cancelled"
           settled == [m \in Lines |->
               IF job[j].line[m] = "absent" THEN "absent"
               ELSE IF m = Whole /\ call.reply # "error" THEN "done"
               ELSE IF m \in call.bad THEN "failed"
               ELSE IF job[j].line[m] \in Over THEN job[j].line[m]
               ELSE IF stopped THEN "cancelled"
               ELSE IF call.reply = "error" THEN "failed" ELSE "done"]
       IN  job' = [job EXCEPT ![j].line = settled, ![j].stop = stopped]
    /\ runner' = [Idle EXCEPT !.at = "clear", !.id = runner.id]
    /\ Post(<<Msg("clear", runner.id)>>)
    /\ call' = NoCall
    /\ UNCHANGED <<nextId, jobs, sweep, click, backend>>

\* finish(): the job leaves the list; its verdicts go to whoever waited for it.
Gone(state) == [NoJob EXCEPT !.state = state]

\* Mutant: a stopped job does not hand over to the next one.
RunnerEndsStopping ==
    /\ runner.at = "cleared"
    /\ LET j == runner.id
           ended == [job EXCEPT ![j] = Gone(IF job[j].stop THEN "cancelled" ELSE "done")] IN
       /\ jobs' = Without(jobs, {j})
       /\ IF job[j].stop THEN job' = ended /\ runner' = Idle /\ UNCHANGED mail
          ELSE Pump(jobs', ended)
    /\ UNCHANGED <<nextId, call, sweep, click, backend>>

\* The pump takes the next job.
RunnerEnds ==
    /\ runner.at = "cleared"
    /\ LET j == runner.id IN
       /\ jobs' = Without(jobs, {j})
       /\ Pump(jobs', [job EXCEPT ![j] = Gone(IF job[j].stop THEN "cancelled" ELSE "done")])
    /\ UNCHANGED <<nextId, call, sweep, click, backend>>

-------------------------------------------------------------------------------
(* Enable all / Disable all.                                                 *)

\* S.isGlobalProcessing
Sweeping == sweep.at # "idle"

SweepStarts(mode) ==
    /\ ~Sweeping /\ sweep.uses < MaxSweeps
    /\ LET targets == IF mode = "enable" THEN Mods \ on[active] ELSE on[active] IN
       /\ targets # {}
       /\ sweep' = [NoSweep EXCEPT !.at = "sent", !.mode = mode, !.snap = targets,
                                   !.uses = sweep.uses + 1]
    /\ Post(<<Msg("sweep", 1)>>)
    /\ UNCHANGED <<ui, call, click, backend>>

\* toggle_all_mods begins by lowering the flag, whoever raised it.
SweepBegins ==
    /\ sweep.at = "spawned"
    /\ tokens' = LowerFlag(tokens)
    /\ sweep' = [sweep EXCEPT !.at = "loop", !.left = Mods]
    /\ UNCHANGED <<ui, call, click, worker, killed, mail, active, on>>

SweepTakes ==
    /\ sweep.at = "loop"
    /\ \/ /\ tokens.flag \/ sweep.left = {}
          /\ sweep' = [sweep EXCEPT !.at = "answered"]
          /\ UNCHANGED job
       \/ /\ ~tokens.flag /\ sweep.left # {}
          /\ LET m == FirstLeft(Library, sweep.left) IN
             IF Already(sweep.mode, m)
             THEN /\ sweep' = [sweep EXCEPT !.left = @ \ {m}]
                  /\ UNCHANGED job
             ELSE /\ sweep' = [sweep EXCEPT !.at = "plan", !.mod = m, !.to = active,
                                            !.left = @ \ {m}]
                  /\ Told(m, "running")
    /\ UNCHANGED <<nextId, jobs, runner, call, click, backend, mail>>

SweepLocks ==
    /\ sweep.at = "plan" /\ worker = "none" /\ ~tokens.flag
    /\ worker' = "sweep"
    /\ killed' = FALSE
    /\ sweep' = [sweep EXCEPT !.at = "work"]
    /\ UNCHANGED <<ui, call, click, tokens, mail, active, on>>

SweepOpEnds ==
    /\ \/ /\ sweep.at = "work" /\ ~killed                               \* done
          /\ on' = Recorded(sweep.mode, sweep.mod, sweep.to)
          /\ Told(sweep.mod, "done")
          /\ worker' = "none"
       \/ /\ sweep.at = "work" /\ ~killed                               \* failed
          /\ Told(sweep.mod, "failed")
          /\ worker' = "none"
          /\ UNCHANGED on
       \/ /\ \/ sweep.at = "work" /\ killed /\ worker' = "none"         \* cut
             \/ sweep.at = "plan" /\ worker = "none" /\ tokens.flag /\ UNCHANGED worker
          /\ Told(sweep.mod, "cancelled")
          /\ UNCHANGED on
    /\ sweep' = [sweep EXCEPT !.at = "loop"]
    /\ UNCHANGED <<nextId, jobs, runner, call, click, killed, tokens, mail, active>>

\* The command answered: after a Cancel all the mods go back to what they were.
SweepHears ==
    /\ sweep.at = "answered"
    /\ sweep' = IF sweep.stop THEN [sweep EXCEPT !.at = "clearing", !.left = sweep.snap]
                ELSE [sweep EXCEPT !.at = "closing"]
    /\ Post(<<Msg("lower", 1)>>)
    /\ UNCHANGED <<ui, call, click, backend>>

\* One unscoped enable_mod / disable_mod per mod; with the flag up it does nothing.
SweepReverts ==
    /\ sweep.at = "revert"
    /\ \/ /\ sweep.left # {}
          /\ LET m == FirstLeft(Library, sweep.left) IN
             /\ sweep' = [sweep EXCEPT !.left = @ \ {m}]
             /\ \/ tokens.flag /\ UNCHANGED <<job, on>>
                \/ /\ ~tokens.flag /\ worker = "none"
                   /\ on' = IF sweep.mode = "enable" THEN [on EXCEPT ![active] = @ \ {m}]
                            ELSE [on EXCEPT ![active] = @ \cup {m}]
                   /\ Told(m, "done")
          /\ UNCHANGED mail
       \/ /\ sweep.left = {}
          /\ sweep' = [sweep EXCEPT !.at = "closing", !.stop = FALSE]
          /\ Post(<<Msg("lower", 1)>>)
          /\ UNCHANGED <<job, on>>
    /\ UNCHANGED <<nextId, jobs, runner, call, click, worker, killed, tokens, active>>

\* The last quarter of a second, after the flag was lowered.
SweepIsOver ==
    /\ sweep.at = "pause"
    /\ sweep' = [NoSweep EXCEPT !.uses = sweep.uses]
    /\ UNCHANGED <<ui, call, click, backend, mail>>

-------------------------------------------------------------------------------
(* The user stops things.                                                    *)

\* currentActivation(): there is none while a job reads the profile or ends.
Current == runner.at \in {"call", "batch"}

\* A queued job is dropped, all its lines cancelled.
Dropped(jb, js) == [j \in JobIds |-> IF j \in js THEN Gone("cancelled") ELSE jb[j]]

Running == {j \in JobIds : job[j].state = "running"}
Queued  == {j \in JobIds : job[j].state = "queued"}

\* cancelActivationJob
StopJob(j) ==
    \/ /\ j \in Queued
       /\ jobs' = Without(jobs, {j})
       /\ job' = Dropped(job, {j})
       /\ UNCHANGED <<nextId, runner, call, sweep, click, backend, mail>>
    \/ /\ j \in Running /\ ~job[j].stop
       /\ job' = [job EXCEPT ![j].stop = TRUE]
       /\ Post(<<Msg("stop", j)>>)
       /\ UNCHANGED <<nextId, jobs, runner, call, sweep, click, backend>>

(***************************************************************************)
(* requestCancelModOps: every job is stopped, the queued ones first, and   *)
(* the backend is told to stop everything.  It then waits for the jobs.    *)
(* No card of the Library has a toggle of its own under way.               *)
(***************************************************************************)
CancelAll(k) ==
    /\ click[k].at = "unused"
    /\ \A l \in 1..(k - 1) : click[l].at # "unused"
    /\ jobs # <<>> \/ Sweeping
    /\ LET fresh == {j \in Running : ~job[j].stop}
           stops == IF fresh = {} THEN <<>> ELSE <<Msg("stop", runner.id)>>
       IN  /\ job' = [j \in JobIds |->
                        [Dropped(job, Queued)[j] EXCEPT !.stop = @ \/ j \in Running]]
           /\ jobs' = Without(jobs, Queued)
           /\ Post(IF Queued = {} THEN stops \o <<Msg("stopAll", 1)>>
                   ELSE <<Msg("stopAll", 1)>> \o stops)
    /\ sweep' = [sweep EXCEPT !.stop = Sweeping]
    /\ click' = [click EXCEPT ![k] = [at |-> "waiting", jobs |-> Running]]
    /\ UNCHANGED <<nextId, runner, call, backend>>

\* Mutant: it waits for the jobs to be done, as if a stop were no end.
CancelAllEndsDone(k) ==
    /\ click[k].at = "waiting" /\ \A j \in click[k].jobs : job[j].state = "done"
    /\ click' = [click EXCEPT ![k] = [at |-> "over", jobs |-> {}]]
    /\ IF Sweeping THEN UNCHANGED mail ELSE Post(<<Msg("lower", 1)>>)
    /\ UNCHANGED <<ui, call, sweep, backend>>

\* The jobs have stopped: with no sweep to do it, the click lowers the flag.
CancelAllEnds(k) ==
    /\ click[k].at = "waiting" /\ click[k].jobs \cap Running = {}
    /\ click' = [click EXCEPT ![k] = [at |-> "over", jobs |-> {}]]
    /\ IF Sweeping THEN UNCHANGED mail ELSE Post(<<Msg("lower", 1)>>)
    /\ UNCHANGED <<ui, call, sweep, backend>>

\* The activity pill's Cancel: with no current activation it is a Cancel all.
PillCancel ==
    IF Current THEN StopJob(runner.id) ELSE \E k \in Clicks : CancelAll(k)

\* requestCancelCurrentOnly
SkipCurrent ==
    /\ "skip" \in Others
    /\ jobs # <<>> \/ Sweeping
    /\ \A i \in 1..Len(mail) : mail[i].cmd # "kill"       \* bound: one at a time
    /\ runner' = [runner EXCEPT !.skip = @ \/ Current]
    /\ Post(<<Msg("kill", 1)>>)
    /\ UNCHANGED <<nextId, jobs, job, call, sweep, click, backend>>

\* The governor's dashboard cancels the ticket of the worker that runs.
DashboardCancels ==
    /\ "dashboard" \in Others
    /\ worker # "none" /\ ~killed
    /\ killed' = TRUE
    /\ UNCHANGED <<ui, call, sweep, click, worker, tokens, mail, active, on>>

SwitchProfile(p) ==
    /\ active' = p
    /\ UNCHANGED <<ui, call, sweep, click, worker, killed, tokens, mail, on>>

-------------------------------------------------------------------------------

Deliver == \/ SpawnCall \/ SpawnSweep \/ StopArrives \/ StopAllArrives
           \/ KillArrives \/ ClearArrives \/ LowerArrives

CallStep == CallBegins \/ BatchTakes \/ LockTaken \/ OpDone \/ OpFails \/ OpCut

RunnerStep == ProfileIsRead \/ RunnerHears \/ RunnerHearsBatch \/ RunnerEnds

SweepStep == \/ SweepBegins \/ SweepTakes \/ SweepLocks \/ SweepOpEnds
             \/ SweepHears \/ SweepReverts \/ SweepIsOver

Users == \/ \E r \in Requests : QueueJob(r)
         \/ \E mode \in SweepModes : SweepStarts(mode)
         \/ \E j \in JobIds : StopJob(j)
         \/ \E k \in Clicks : CancelAll(k)
         \/ PillCancel \/ SkipCurrent \/ DashboardCancels
         \/ \E p \in SwitchTo : SwitchProfile(p)

Next == Deliver \/ CallStep \/ RunnerStep \/ SweepStep \/ Users
        \/ \E k \in Clicks : CancelAllEnds(k)

Spec == Init /\ [][Next]_vars

(***************************************************************************)
(* Fairness: the mail is delivered, the runtime resumes each command, a    *)
(* worker ends, and the interface's thread runs its continuations.         *)
(***************************************************************************)
FairSpec ==
    /\ Spec
    /\ WF_vars(Deliver) /\ WF_vars(CallStep) /\ WF_vars(RunnerStep) /\ WF_vars(SweepStep)
    /\ \A k \in Clicks : WF_vars(CancelAllEnds(k))

-------------------------------------------------------------------------------
(* Properties.                                                               *)

JobRecords == [mods : Seq(Mods), mode : Modes, profile : Profiles \cup {AnyProfile},
               batch : BOOLEAN, state : States, line : [Lines -> Phases], stop : BOOLEAN]
Runners == [at : {"idle", "profile", "call", "batch", "clear", "cleared"},
            id : JobIds, mod : Lines, skip : BOOLEAN]
Calls == [at : {"none", "spawned", "loop", "plan", "work", "answered"}, mod : Lines,
          pid : Profiles \cup {AnyProfile}, to : Profiles \cup {AnyProfile},
          left : SUBSET Mods, bad : SUBSET Lines, did : SUBSET Lines,
          cut : SUBSET Lines, reply : {"ok", "error", "cancelled"}]
Sweeps == [at : {"idle", "sent", "spawned", "loop", "plan", "work", "answered",
                 "clearing", "revert", "closing", "pause"},
           mode : Modes, snap : SUBSET Mods, left : SUBSET Mods, mod : Lines,
           to : Profiles \cup {AnyProfile}, stop : BOOLEAN, uses : 0..MaxSweeps]
Messages == [cmd : {"call", "sweep", "stop", "stopAll", "kill", "clear", "lower"}, id : JobIds]

\* The variables have their types, and the list holds exactly the jobs that are not
\* over, in the order they were queued.
TypeOK ==
    /\ nextId \in 1..(MaxJobs + 1)
    /\ jobs \in Seq(JobIds)
    /\ job \in [JobIds -> JobRecords]
    /\ runner \in Runners
    /\ call \in Calls
    /\ sweep \in Sweeps
    /\ click \in [Clicks -> [at : {"unused", "waiting", "over"}, jobs : SUBSET JobIds]]
    /\ worker \in {"none", "job", "sweep"}
    /\ killed \in BOOLEAN
    /\ tokens \in Tokens
    /\ mail \in Seq(Messages)
    /\ active \in Profiles
    /\ on \in [Profiles -> SUBSET Mods]
    /\ {jobs[i] : i \in 1..Len(jobs)} = {j \in JobIds : job[j].state \in {"queued", "running"}}
    /\ \A i \in 1..Len(jobs), k \in 1..Len(jobs) : i < k => jobs[i] < jobs[k]

\* CutsAreAsked: a job whose operation was cut was stopped, or the mod in flight
\* was skipped: no stop meant for another job, no Cancel all from before it began
\* and no flag somebody else raised ever reaches it (CancelScope, fs_utils.rs).
CutsAreAsked == call.cut # {} => job[runner.id].stop \/ runner.skip

\* A line that turns "done" tells the truth: the job's own command did it, or found it
\* done.  (While Enable all works a batch's lines also follow that one's events.)
DoneIsTrue ==
    [][\A j \in JobIds, m \in Mods :
        job[j].line[m] # "done" /\ job'[j].line[m] = "done" =>
            m \in call.did \cup call'.did \/ (Sweeping /\ job[j].batch)]_vars

\* Jobs run one at a time in the order they were queued, whatever is queued, dropped or
\* stopped while one runs (pump).
OneAtATime ==
    [][\A j \in JobIds : job[j].state # "running" /\ job'[j].state = "running" =>
        \A k \in 1..(j - 1) : job'[k].state \in {"done", "cancelled"}]_vars

\* While Enable all works nobody lowers the flag its Cancel raised: not a job that ends,
\* not a Cancel all from before it.
StopIsNotLowered ==
    [][tokens.flag /\ ~tokens'.flag => sweep.at \notin {"loop", "plan", "work"}]_vars

\* Every job ends, and so does the Cancel that waits for it.
JobsEnd == \A j \in JobIds : job[j].state = "queued" ~> job[j].state \in {"done", "cancelled"}
CancelReturns == \A k \in Clicks : click[k].at = "waiting" ~> click[k].at = "over"

\* Once everything is quiet the flag is down, "so a later unscoped call (the API, a
\* revert) is not skipped by a stale stop" (mods-actions.ts 129).
NoStaleFlag ==
    ~Sweeping /\ mail = <<>> /\ (\A k \in Clicks : click[k].at # "waiting") => ~tokens.flag

\* A job asked for one profile changes no other (activation-jobs.ts 45).
KeepsToItsProfile ==
    [][call.at = "work" /\ call'.at # "work" /\ job[runner.id].profile # AnyProfile =>
        \A p \in Profiles \ {job[runner.id].profile} : on'[p] = on[p]]_vars

===============================================================================
